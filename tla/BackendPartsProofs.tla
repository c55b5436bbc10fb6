------------------------- MODULE BackendPartsProofs --------------------------
(***************************************************************************)
(* Theorems about two parts of the backend that ManagerParts composes.     *)
(*                                                                         *)
(* Accounts and sessions, for every set of users, sessions and campaigns,  *)
(* any number of requests under way and any number in all.                 *)
(*                                                                         *)
(* The retries of an alert are bounded, for any limits and however sweeps, *)
(* retries by hand, lost rows and ageing interleave.  RetriesBounded is    *)
(* not inductive: it counts attempts and knows nothing of rows.  The       *)
(* invariant says where the attempts are: each is a row that has been sent *)
(* again automatically, no row twice (SweepSound); such a row is known by  *)
(* the root of its chain and its number in it (AttemptsApart), so there    *)
(* are at most MAX_AUTO_RETRY_ATTEMPTS for each root; and the roots are    *)
(* the alert's own failure and the retries by hand (RootsCounted).         *)
(***************************************************************************)
EXTENDS AccountSessions, AlertRetry, FiniteSetTheorems, TLAPS

-----------------------------------------------------------------------------
(* Accounts and sessions. *)


(* What a request holds: sessions by number, as read and as to be written. *)
Selection == UNION {[D -> Session] : D \in SUBSET SessionIds}
SelectionBase == UNION {[D -> Session \cup {None}] : D \in SUBSET SessionIds}

Phases == {"idle", "user", "touch", "touched", "act", "save", "commit", "check", "change",
           "write", "issue"}
AccountJob ==
    [at : Phases, op : AllOps \cup {None}, num : Nat,
     sid : SessionIds \cup {None}, ent : Session \cup {None}, admin : BOOLEAN, rows : Selection \cup {None},
     base : Session \cup {None} \cup SelectionBase, who : Users \cup {None},
     change : Changes \cup {None}, row : User \cup {None}, ubase : User \cup {None}]

Admitting == {"user", "touch", "touched"}
Revising == {"save", "commit"}
Managing == {"check", "change", "write"}

(* The locals of a request in state j hold what its next step takes them   *)
(* for; ss are the sessions and us the users there have been.              *)
JobSound(j, ss, us) ==
    /\ j \in AccountJob
    /\ j.at \in Admitting \cup {"act"} => j.sid \in ss /\ j.ent \in Session
    /\ j.at = "touched" => j.base \in Session \cup {None}
    /\ j.at \in Revising => j.rows \in Selection /\ DOMAIN j.rows \subseteq ss
    /\ j.at = "commit" => j.base \in [DOMAIN j.rows -> Session \cup {None}]
    /\ j.at \in Managing =>
         j.who \in us /\ j.row \in User /\ j.op \in {"update", "delete"} /\ j.change \in Changes
    /\ j.at = "write" => j.ubase \in User \cup {None}
    /\ j.at = "issue" => j.who \in us /\ j.row \in User

(* Users and sessions in the tables have been given their numbers.         *)
TablesTyped ==
    /\ users \in [Users -> User \cup {None}] /\ enrolled \subseteq Users
    /\ sessions \in [SessionIds -> Session \cup {None}] /\ issued \subseteq SessionIds
    /\ idle \subseteq issued /\ over \subseteq issued
    /\ \A u \in Users : users[u] # None => u \in enrolled
    /\ \A s \in SessionIds : sessions[s] # None => s \in issued

JobsSound ==
    /\ job \in [Requests -> AccountJob]
    /\ \A r \in Requests : JobSound(job[r], issued, enrolled)

HistoryTyped ==
    /\ started \in 0..MaxAccountRequests /\ campaign \in Campaigns
    /\ ended \in [SessionIds -> {"no", "alone", "overlapped"}]
    /\ crossed \in BOOLEAN /\ overwritten \in BOOLEAN

AccountsInv == TablesTyped /\ JobsSound /\ HistoryTyped

-----------------------------------------------------------------------------
(* Facts about the operators the actions are built from.                   *)

(* A change of a user's row gives a row again; a new password counts the   *)
(* version up, nothing else touches it.                                    *)
LEMMA UpdatedRow ==
    ASSUME NEW row \in User, NEW change \in Changes, NEW num \in Nat
    PROVE  /\ update(row, change, num) \in User
           /\ update(row, change, num).ver = IF change = "password" THEN row.ver + 1 ELSE row.ver
           /\ change # "password" => update(row, change, num).pw = row.pw
           /\ change # "demote" => (row.role = "admin" => update(row, change, num).role = "admin")
           /\ change # "deactivate" => (row.active => update(row, change, num).active)
<1>1. CASE change = "password"
  <2>1. update(row, change, num) = [row EXCEPT !.pw = num, !.ver = row.ver + 1]
    BY <1>1 DEF update
  <2>2. row.ver + 1 \in Nat
    BY DEF User
  <2>. QED BY <1>1, <2>1, <2>2 DEF User
<1>2. CASE change = "demote"
  BY <1>2 DEF update, User
<1>3. CASE change = "promote"
  BY <1>3 DEF update, User
<1>4. CASE change = "deactivate"
  BY <1>4 DEF update, User
<1>5. CASE change = "activate"
  BY <1>5 DEF update, User
<1>. QED BY <1>1, <1>2, <1>3, <1>4, <1>5 DEF Changes

(* The commit of a user writes a row with each column either as changed or *)
(* as found; without other commits in between, the row as changed.         *)
LEMMA WrittenUser ==
    ASSUME NEW cur \in User \cup {None}, NEW ent \in User, NEW base \in User \cup {None},
           Writable(cur, base)
    PROVE  /\ Written(cur, ent, base) \in User
           /\ cur = base => Written(cur, ent, base) = ent
BY NoneAssumption DEF Written, Writable, User

(* What a session is known by: whose it is, and the version and password   *)
(* it was opened with.                                                     *)
KeyOf(x) == [user |-> x.user, ver |-> x.ver, pw |-> x.pw]
Key == [user : Users, ver : Nat, pw : Nat]

(* The commit of a session changes what it is known by only when the       *)
(* request had changed it, and revokes it when the request did.            *)
LEMMA WrittenSession ==
    ASSUME NEW cur \in Session \cup {None}, NEW ent \in Session, NEW base \in Session \cup {None},
           Writable(cur, base)
    PROVE  /\ Written(cur, ent, base) \in Session
           /\ base = None => Written(cur, ent, base) = ent
           /\ base # None /\ KeyOf(ent) = KeyOf(base) => KeyOf(Written(cur, ent, base)) = KeyOf(cur)
           /\ base # None => Written(cur, ent, base).revoked =
                               IF ent.revoked # base.revoked THEN ent.revoked ELSE cur.revoked
<1>1. CASE base = None
  BY <1>1 DEF Written
<1>2. CASE base # None
  <2>1. cur \in Session /\ base \in Session
    BY <1>2, NoneAssumption DEF Writable
  <2>2. Written(cur, ent, base) =
          [user |-> IF ent.user # base.user THEN ent.user ELSE cur.user,
           ver |-> IF ent.ver # base.ver THEN ent.ver ELSE cur.ver,
           revoked |-> IF ent.revoked # base.revoked THEN ent.revoked ELSE cur.revoked,
           pw |-> IF ent.pw # base.pw THEN ent.pw ELSE cur.pw]
    BY <1>2, <2>1 DEF Written, Session
  <2>. QED BY <1>2, <2>1, <2>2 DEF Session, KeyOf
<1>. QED BY <1>1, <1>2

(* What the steps of a request write into its locals; everything else      *)
(* stays.                                                                  *)
LEMMA JobEdits ==
    ASSUME NEW j \in AccountJob, NEW at \in Phases
    PROVE  /\ [j EXCEPT !.at = at] \in AccountJob
           /\ \A admin \in BOOLEAN : [j EXCEPT !.at = at, !.admin = admin] \in AccountJob
           /\ \A b \in Session \cup {None} \cup SelectionBase :
                [j EXCEPT !.at = at, !.base = b] \in AccountJob
           /\ \A chosen \in Selection : [j EXCEPT !.at = at, !.rows = chosen] \in AccountJob
           /\ \A u \in Users, row \in User, change \in Changes :
                [j EXCEPT !.who = u, !.row = row, !.change = change, !.at = at] \in AccountJob
           /\ \A base \in User \cup {None}, row \in User :
                [j EXCEPT !.at = at, !.ubase = base, !.row = row] \in AccountJob
           /\ \A op \in AllOps, num \in Nat : [j EXCEPT !.op = op, !.num = num] \in AccountJob
<1>1. [j EXCEPT !.at = at] \in AccountJob
  BY DEF AccountJob
<1>2. ASSUME NEW admin \in BOOLEAN PROVE [j EXCEPT !.at = at, !.admin = admin] \in AccountJob
  BY DEF AccountJob
<1>3. ASSUME NEW b \in Session \cup {None} \cup SelectionBase
      PROVE  [j EXCEPT !.at = at, !.base = b] \in AccountJob
  BY DEF AccountJob
<1>4. ASSUME NEW chosen \in Selection PROVE [j EXCEPT !.at = at, !.rows = chosen] \in AccountJob
  BY DEF AccountJob
<1>5. ASSUME NEW u \in Users, NEW row \in User, NEW change \in Changes
      PROVE  [j EXCEPT !.who = u, !.row = row, !.change = change, !.at = at] \in AccountJob
  BY DEF AccountJob
<1>6. ASSUME NEW base \in User \cup {None}, NEW row \in User
      PROVE  [j EXCEPT !.at = at, !.ubase = base, !.row = row] \in AccountJob
  BY DEF AccountJob
<1>7. ASSUME NEW op \in AllOps, NEW num \in Nat
      PROVE  [j EXCEPT !.op = op, !.num = num] \in AccountJob
  BY DEF AccountJob
<1>. QED BY <1>1, <1>2, <1>3, <1>4, <1>5, <1>6, <1>7

(* A request that is not under way is sound.                               *)
LEMMA NoJobIsSound ==
    ASSUME NEW ss \in SUBSET SessionIds, NEW us \in SUBSET Users
    PROVE  JobSound(NoJob, ss, us)
BY DEF JobSound, NoJob, AccountJob, Phases, Admitting, Revising, Managing

(* When one request moves on, and numbers are only added, all are sound.   *)
LEMMA OneJobMoves ==
    ASSUME JobsSound, NEW r \in Requests, NEW j, JobSound(j, issued', enrolled'),
           job' = [job EXCEPT ![r] = j], issued \subseteq issued', enrolled \subseteq enrolled'
    PROVE  JobsSound'
<1>1. job' \in [Requests -> AccountJob]
  BY DEF JobsSound, JobSound
<1>2. ASSUME NEW q \in Requests PROVE JobSound(job'[q], issued', enrolled')
  <2>1. CASE q = r
    BY <2>1 DEF JobsSound
  <2>2. CASE q # r
    <3>1. job'[q] = job[q]
      BY <2>2 DEF JobsSound
    <3>. QED BY <3>1 DEF JobsSound, JobSound
  <2>. QED BY <2>1, <2>2
<1>. QED BY <1>1, <1>2 DEF JobsSound

(* The same when a request ends.                                           *)
LEMMA OneJobEnds ==
    ASSUME AccountsInv, NEW r \in Requests, End(r), UNCHANGED <<issued, enrolled>>
    PROVE  JobsSound'
<1>1. JobSound(NoJob, issued', enrolled')
  BY NoJobIsSound DEF AccountsInv, TablesTyped
<1>. QED BY <1>1, OneJobMoves DEF AccountsInv, End

(* A request that comes has a number within the bound.                     *)
LEMMA RequestComes ==
    ASSUME AccountsInv, NEW r \in Requests, NEW op \in AllOps, NEW j \in AccountJob,
           JobSound([j EXCEPT !.op = op, !.num = started + 1], issued, enrolled),
           Begin(r, op, j), UNCHANGED <<issued, enrolled>>
    PROVE  JobsSound' /\ started' \in 0..MaxAccountRequests
<1>1. started' \in 0..MaxAccountRequests
  BY BoundsAssumption DEF Begin, AccountsInv, HistoryTyped
<1>2. JobsSound'
  BY OneJobMoves DEF Begin, AccountsInv
<1>. QED BY <1>1, <1>2

-----------------------------------------------------------------------------
(* Types.                                                                  *)

(* The invariant holds at first.                                           *)
LEMMA AccountsTypedInitially == AccountsInit => AccountsInv
<1> SUFFICES ASSUME NEW c \in Campaigns, NEW table \in Installations, AccountsStart(c, table)
             PROVE  AccountsInv
  BY DEF AccountsInit
<1>1. table \in [Users -> User \cup {None}]
  <2>1. NewUser("admin", TRUE, 0) \in User /\ NewUser("viewer", TRUE, 0) \in User
    BY DEF NewUser, User
  <2>. QED BY <2>1 DEF Installations
<1>2. \A s \in enrolled : issue(s, users[s]) \in Session
  BY <1>1, NoneAssumption DEF AccountsStart, issue, Session, User
<1>3. TablesTyped
  BY <1>1, <1>2, BoundsAssumption DEF AccountsStart, TablesTyped
<1>4. JobsSound
  <2>0. NoJob \in AccountJob
    BY <1>3, NoJobIsSound DEF TablesTyped, JobSound
  <2>1. JobSound(NoJob, issued, enrolled)
    BY <1>3, NoJobIsSound DEF TablesTyped
  <2>. QED BY <2>0, <2>1 DEF JobsSound, AccountsStart
<1>5. HistoryTyped
  <2>1. started = 0 /\ campaign = c /\ ended = [s \in SessionIds |-> "no"]
    BY DEF AccountsStart
  <2>2. crossed \in BOOLEAN /\ overwritten \in BOOLEAN
    BY DEF AccountsStart
  <2>. QED BY <2>1, <2>2, BoundsAssumption DEF HistoryTyped
<1>. QED BY <1>3, <1>4, <1>5 DEF AccountsInv

Tables == <<users, enrolled, SessionTable>>

(* A request of which only the locals change.                              *)
LEMMA LocalsStep ==
    ASSUME AccountsInv, NEW r \in Requests, NEW j, JobSound(j, issued, enrolled),
           job' = [job EXCEPT ![r] = j], UNCHANGED <<Tables, started, crossed, campaign>>,
           overwritten' \in BOOLEAN
    PROVE  AccountsInv'
<1>1. UNCHANGED <<users, enrolled, sessions, issued, idle, over, ended>>
  BY DEF Tables, SessionTable
<1>2. JobsSound'
  BY <1>1, OneJobMoves DEF AccountsInv
<1>3. TablesTyped' /\ HistoryTyped'
  BY <1>1 DEF AccountsInv, TablesTyped, HistoryTyped
<1>. QED BY <1>2, <1>3 DEF AccountsInv

(* A request that ends without having changed anything.                    *)
LEMMA EndStep ==
    ASSUME AccountsInv, NEW r \in Requests, End(r), UNCHANGED <<Accounts, SessionTable, started, campaign>>
    PROVE  AccountsInv'
<1>1. JobSound(NoJob, issued, enrolled)
  BY NoJobIsSound DEF AccountsInv, TablesTyped
<1>2. overwritten' \in BOOLEAN
  BY DEF AccountsInv, HistoryTyped, Accounts
<1>. QED BY <1>1, <1>2, LocalsStep DEF End, Accounts, Tables, SessionTable

(* Admission: a session is found, its user is found, the touch is read.    *)
LEMMA AdmissionTyped ==
    ASSUME AccountsInv, campaign' = campaign, NEW r \in Requests,
           \/ \E op \in AllOps, s \in SessionIds : FindSession(r, op, s)
           \/ FindUser(r) \/ TouchRead(r) \/ AnswerRead(r)
    PROVE  AccountsInv'
<1> USE DEF Admitting, Revising, Managing
<1>0. /\ job[r] \in AccountJob /\ JobSound(job[r], issued, enrolled)
      /\ overwritten \in BOOLEAN /\ started + 1 \in Nat
  <2>1. job[r] \in AccountJob /\ JobSound(job[r], issued, enrolled)
    BY DEF AccountsInv, JobsSound
  <2>2. started + 1 \in Nat /\ overwritten \in BOOLEAN
    BY BoundsAssumption DEF AccountsInv, HistoryTyped
  <2>. QED BY <2>1, <2>2
<1>1. ASSUME NEW op \in AllOps, NEW s \in SessionIds, FindSession(r, op, s) PROVE AccountsInv'
  <2> DEFINE j == [NoJob EXCEPT !.at = "user", !.sid = s, !.ent = sessions[s]]
  <2>1. sessions[s] \in Session /\ s \in issued
    BY <1>1 DEF FindSession, is_active, AccountsInv, TablesTyped
  <2>2. j \in AccountJob
    BY <2>1 DEF AccountJob, NoJob, Phases
  <2>3. JobSound([j EXCEPT !.op = op, !.num = started + 1], issued, enrolled)
    <3>1. [j EXCEPT !.op = op, !.num = started + 1] \in AccountJob
      BY <1>0, <2>2, JobEdits DEF Phases
    <3>2. /\ [j EXCEPT !.op = op, !.num = started + 1].at = "user"
          /\ [j EXCEPT !.op = op, !.num = started + 1].sid = s
          /\ [j EXCEPT !.op = op, !.num = started + 1].ent = sessions[s]
      BY DEF NoJob
    <3>. QED BY <2>1, <3>1, <3>2 DEF JobSound
  <2>4. Begin(r, op, j) /\ UNCHANGED <<Accounts, SessionTable>>
    BY <1>1 DEF FindSession
  <2> HIDE DEF j
  <2>5. JobsSound' /\ started' \in 0..MaxAccountRequests
    BY <2>2, <2>3, <2>4, RequestComes DEF Accounts, SessionTable
  <2>6. TablesTyped' /\ HistoryTyped'
    BY <2>4, <2>5 DEF Accounts, SessionTable, AccountsInv, TablesTyped, HistoryTyped
  <2>. QED BY <2>5, <2>6 DEF AccountsInv
<1>2. CASE FindUser(r)
  <2>1. ASSUME NEW at \in {"touch", "act"}, NEW admin \in BOOLEAN
        PROVE  JobSound([job[r] EXCEPT !.at = at, !.admin = admin], issued, enrolled)
    <3> DEFINE j == [job[r] EXCEPT !.at = at, !.admin = admin]
    <3>1. j \in AccountJob
      BY <1>0, JobEdits DEF Phases
    <3>4. j.at = at /\ j.sid = job[r].sid /\ j.ent = job[r].ent
      BY <1>0 DEF AccountJob
    <3>2. job[r].at = "user"
      BY <1>2 DEF FindUser
    <3> HIDE DEF j
    <3>3. JobSound(j, issued, enrolled)
      BY <1>0, <3>1, <3>2, <3>4 DEF JobSound
    <3>. QED BY <3>3 DEF j
  <2>2. UNCHANGED <<Tables, started, crossed>> /\ overwritten' \in BOOLEAN
    BY <1>0, <1>2 DEF FindUser, Accounts, SessionTable, Tables
  <2>3. CASE End(r)
    BY <1>2, <2>3, EndStep DEF FindUser
  <2>4. ASSUME NEW at \in {"touch", "act"}, NEW admin \in BOOLEAN,
               job' = [job EXCEPT ![r].at = at, ![r].admin = admin]
        PROVE  AccountsInv'
    <3>1. job' = [job EXCEPT ![r] = [job[r] EXCEPT !.at = at, !.admin = admin]]
      BY <2>4
    <3>. QED BY <2>1, <2>2, <3>1, LocalsStep
  <2>. QED BY <1>2, <2>3, <2>4 DEF FindUser
<1>3. CASE TouchRead(r)
  <2> DEFINE j == [job[r] EXCEPT !.at = "touched", !.base = sessions[job[r].sid]]
  <2>1. sessions[job[r].sid] \in Session \cup {None}
    BY <1>0, <1>3 DEF TouchRead, JobSound, AccountsInv, TablesTyped
  <2>2. JobSound(j, issued, enrolled)
    <3>1. j \in AccountJob
      BY <1>0, <2>1, JobEdits DEF Phases
    <3>3. /\ j.at = "touched" /\ j.sid = job[r].sid /\ j.ent = job[r].ent
          /\ j.base = sessions[job[r].sid]
      BY <1>0 DEF AccountJob
    <3>2. job[r].at = "touch"
      BY <1>3 DEF TouchRead
    <3> HIDE DEF j
    <3>. QED BY <1>0, <2>1, <3>1, <3>2, <3>3 DEF JobSound
  <2>3. job' = [job EXCEPT ![r] = j] /\ UNCHANGED <<Tables, started, crossed>>
        /\ overwritten' \in BOOLEAN
    BY <1>0, <1>3 DEF TouchRead, Accounts, SessionTable, Tables
  <2> HIDE DEF j
  <2>. QED BY <2>2, <2>3, LocalsStep
<1>4. CASE AnswerRead(r)
  BY <1>4, EndStep DEF AnswerRead
<1>. QED BY <1>1, <1>2, <1>3, <1>4

(* A touch is committed or refused.                                        *)
LEMMA TouchTyped ==
    ASSUME AccountsInv, campaign' = campaign, NEW r \in Requests, TouchCommit(r)
    PROVE  AccountsInv'
<1> USE DEF Admitting, Revising, Managing
<1> DEFINE s == job[r].sid  ent == job[r].ent  base == job[r].base
<1>1. /\ job[r] \in AccountJob /\ job[r].at = "touched" /\ s \in issued /\ s \in SessionIds
      /\ ent \in Session /\ base \in Session \cup {None}
      /\ sessions[s] \in Session \cup {None}
  BY DEF TouchCommit, AccountsInv, JobsSound, JobSound, TablesTyped
<1>2. CASE Writable(sessions[s], base)
  <2> DEFINE j == [job[r] EXCEPT !.at = "act", !.base = None]
  <2>1. Written(sessions[s], ent, base) \in Session
    BY <1>1, <1>2, WrittenSession
  <2>2. /\ sessions' = [sessions EXCEPT ![s] = Written(sessions[s], ent, base)]
        /\ idle' = idle \ {s} /\ job' = [job EXCEPT ![r] = j]
        /\ UNCHANGED <<Accounts, issued, over, started, ended>>
    BY <1>2 DEF TouchCommit
  <2>3. j \in AccountJob
    BY <1>1, JobEdits DEF Phases
  <2>4. j.at = "act" /\ j.sid = s /\ j.ent = ent
    BY <1>1 DEF AccountJob
  <2> HIDE DEF j
  <2>5. JobSound(j, issued, enrolled)
    BY <1>1, <2>3, <2>4 DEF JobSound
  <2>6. JobsSound'
    BY <2>2, <2>5, OneJobMoves DEF AccountsInv, Accounts
  <2> HIDE DEF s, ent, base
  <2>7. TablesTyped' /\ HistoryTyped'
    BY <1>1, <2>1, <2>2 DEF AccountsInv, TablesTyped, HistoryTyped, Accounts
  <2>. QED BY <2>6, <2>7 DEF AccountsInv
<1>3. CASE ~Writable(sessions[s], base)
  <2>1. End(r) /\ UNCHANGED <<Accounts, SessionTable, started, campaign>>
    BY <1>3 DEF TouchCommit, SessionTable
  <2>. QED BY <2>1, EndStep
<1>. QED BY <1>2, <1>3

(* Sessions are read to be revoked.                                        *)
LEMMA RevokingTyped ==
    ASSUME AccountsInv, campaign' = campaign, NEW r \in Requests,
           UNCHANGED <<Accounts, SessionTable, started>>,
           NEW ents \in Selection, DOMAIN ents \subseteq issued, Revoking(r, ents)
    PROVE  AccountsInv'
<1> USE DEF Admitting, Revising, Managing
<1> DEFINE j == [job[r] EXCEPT !.at = "save", !.rows = ents]
<1>1. job[r] \in AccountJob
  BY DEF AccountsInv, JobsSound
<1>2. j \in AccountJob
  BY <1>1, JobEdits DEF Phases
<1>3. j.at = "save" /\ j.rows = ents
  BY <1>1 DEF AccountJob
<1>4. job' = [job EXCEPT ![r] = j]
  BY DEF Revoking
<1> HIDE DEF j
<1>5. JobSound(j, issued, enrolled)
  BY <1>2, <1>3 DEF JobSound
<1>6. UNCHANGED <<Tables, started, crossed, campaign>> /\ overwritten' \in BOOLEAN
  BY DEF AccountsInv, HistoryTyped, Accounts, SessionTable, Tables
<1>. QED BY <1>4, <1>5, <1>6, LocalsStep

(* What is revoked is a session.                                           *)
LEMMA RevokedSession ==
    ASSUME NEW ent \in Session
    PROVE  revoke(ent) \in Session /\ revoke(ent).revoked /\ KeyOf(revoke(ent)) = KeyOf(ent)
BY DEF revoke, Session, KeyOf

(* The sessions a logout or a revocation is about have their numbers.      *)
LEMMA Revocations ==
    ASSUME AccountsInv, NEW r \in Requests
    PROVE  /\ At(r, "act", {"logout"}) => job[r].sid \in issued /\ job[r].ent \in Session
           /\ find_active_by_user_id(job[r].ent.user) \subseteq issued
           /\ \A s \in find_active_by_user_id(job[r].ent.user) : sessions[s] \in Session
BY DEF AccountsInv, JobsSound, JobSound, TablesTyped, At, find_active_by_user_id, is_active

(* The three ways to revoke.                                               *)
LEMMA RevocationTyped ==
    ASSUME AccountsInv, campaign' = campaign, NEW r \in Requests,
           logout(r) \/ logout_all(r) \/ \E s \in SessionIds : revoke_session(r, s)
    PROVE  AccountsInv'
<1>1. CASE logout(r)
  <2> DEFINE ents == [s \in {job[r].sid} |-> revoke(job[r].ent)]
  <2>1. job[r].sid \in issued /\ job[r].ent \in Session /\ issued \subseteq SessionIds
    BY <1>1, Revocations DEF logout, AccountsInv, TablesTyped
  <2>2. ents \in [{job[r].sid} -> Session]
    BY <2>1, RevokedSession
  <2>3. ents \in Selection /\ DOMAIN ents \subseteq issued
    BY <2>1, <2>2 DEF Selection
  <2>4. Revoking(r, ents) /\ UNCHANGED <<Accounts, SessionTable, started>>
    BY <1>1 DEF logout
  <2> HIDE DEF ents
  <2>. QED BY <2>3, <2>4, RevokingTyped
<1>2. CASE logout_all(r)
  <2> DEFINE D == find_active_by_user_id(job[r].ent.user)
             ents == [s \in D |-> revoke(sessions[s])]
  <2>1. D \subseteq issued /\ issued \subseteq SessionIds /\ \A s \in D : sessions[s] \in Session
    BY Revocations DEF AccountsInv, TablesTyped
  <2>2. Revoking(r, ents) /\ UNCHANGED <<Accounts, SessionTable, started>>
    BY <1>2 DEF logout_all
  <2> HIDE DEF D
  <2>3. ents \in [D -> Session]
    BY <2>1, RevokedSession
  <2>4. ents \in Selection /\ DOMAIN ents \subseteq issued
    BY <2>1, <2>3 DEF Selection
  <2> HIDE DEF ents
  <2>. QED BY <2>2, <2>4, RevokingTyped
<1>3. ASSUME NEW s \in SessionIds, revoke_session(r, s) PROVE AccountsInv'
  <2> DEFINE ents == [t \in {s} |-> revoke(sessions[s])]
  <2>1. CASE End(r)
    BY <1>3, <2>1, EndStep DEF revoke_session
  <2>2. CASE ~End(r)
    <3>1. sessions[s] # None /\ Revoking(r, ents) /\ UNCHANGED <<Accounts, SessionTable, started>>
      BY <1>3, <2>2 DEF revoke_session
    <3>2. sessions[s] \in Session /\ s \in issued
      BY <3>1 DEF AccountsInv, TablesTyped
    <3>3. ents \in [{s} -> Session]
      BY <3>2, RevokedSession
    <3>4. ents \in Selection /\ DOMAIN ents \subseteq issued
      BY <3>2, <3>3 DEF Selection
    <3> HIDE DEF ents
    <3>. QED BY <3>1, <3>4, RevokingTyped
  <2>. QED BY <2>1, <2>2
<1>. QED BY <1>1, <1>2, <1>3

(* The sessions are read again, for the comparison at the commit.          *)
LEMMA SaveSessionsTyped ==
    ASSUME AccountsInv, campaign' = campaign, NEW r \in Requests, SaveSessions(r)
    PROVE  AccountsInv'
<1> USE DEF Admitting, Revising, Managing
<1> DEFINE D == DOMAIN job[r].rows
           base == [s \in D |-> sessions[s]]
           j == [job[r] EXCEPT !.at = "commit", !.base = base]
<1>1. /\ job[r] \in AccountJob /\ job[r].rows \in Selection
      /\ D \subseteq issued /\ issued \subseteq SessionIds
  BY DEF SaveSessions, AccountsInv, JobsSound, JobSound, TablesTyped
<1>2. base \in [D -> Session \cup {None}]
  BY <1>1 DEF AccountsInv, TablesTyped
<1>3. base \in SelectionBase
  BY <1>1, <1>2 DEF SelectionBase
<1>4. job' = [job EXCEPT ![r] = j]
  BY DEF SaveSessions
<1> HIDE DEF base
<1>5. j \in AccountJob
  BY <1>1, <1>3, JobEdits DEF Phases
<1>6. j.at = "commit" /\ j.rows = job[r].rows /\ j.base = base
  BY <1>1 DEF AccountJob
<1> HIDE DEF j
<1>7. JobSound(j, issued, enrolled)
  BY <1>1, <1>2, <1>5, <1>6 DEF JobSound
<1>8. UNCHANGED <<Tables, started, crossed, campaign>> /\ overwritten' \in BOOLEAN
  BY DEF SaveSessions, AccountsInv, HistoryTyped, Accounts, SessionTable, Tables
<1>. QED BY <1>4, <1>7, <1>8, LocalsStep

(* What a request that is about to commit revocations holds.               *)
LEMMA Committing ==
    ASSUME AccountsInv, NEW r \in Requests, job[r].at = "commit", NEW s \in DOMAIN job[r].rows
    PROVE  /\ s \in issued /\ s \in SessionIds /\ job[r].rows[s] \in Session
           /\ job[r].base[s] \in Session \cup {None} /\ sessions[s] \in Session \cup {None}
<1>1. /\ s \in issued /\ s \in SessionIds /\ job[r].rows \in Selection
      /\ job[r].base \in [DOMAIN job[r].rows -> Session \cup {None}]
  BY DEF AccountsInv, JobsSound, JobSound, TablesTyped, Revising
<1>2. sessions[s] \in Session \cup {None}
  BY <1>1 DEF AccountsInv, TablesTyped
<1>3. job[r].rows[s] \in Session
  BY <1>1 DEF Selection
<1>. QED BY <1>1, <1>2, <1>3

(* Revocations are committed or refused.                                   *)
LEMMA CommitSessionsTyped ==
    ASSUME AccountsInv, campaign' = campaign, NEW r \in Requests, CommitSessions(r)
    PROVE  AccountsInv'
<1> DEFINE ents == job[r].rows  base == job[r].base
           writable == \A s \in DOMAIN ents : Writable(sessions[s], base[s])
<1>1. job[r].at = "commit" /\ End(r) /\ UNCHANGED <<Accounts, issued, idle, over, started>>
  BY DEF CommitSessions
<1>2. JobsSound'
  BY <1>1, OneJobEnds DEF Accounts
<1>3. CASE writable
  <2>1. /\ sessions' = [s \in SessionIds |->
                IF s \in DOMAIN ents THEN Written(sessions[s], ents[s], base[s]) ELSE sessions[s]]
        /\ ended' = [s \in SessionIds |->
                IF s \notin DOMAIN ents \/ ended[s] # "no" THEN ended[s]
                ELSE IF InUse(r, s) THEN "overlapped" ELSE "alone"]
    BY <1>3 DEF CommitSessions
  <2>2. \A s \in DOMAIN ents : s \in issued /\ Written(sessions[s], ents[s], base[s]) \in Session
    BY <1>1, <1>3, Committing, WrittenSession
  <2> HIDE DEF ents, base
  <2>3. sessions' \in [SessionIds -> Session \cup {None}]
    BY <2>1, <2>2 DEF AccountsInv, TablesTyped
  <2>4. \A s \in SessionIds : sessions'[s] # None => s \in issued'
    BY <1>1, <2>1, <2>2 DEF AccountsInv, TablesTyped
  <2>5. TablesTyped'
    BY <1>1, <2>3, <2>4 DEF AccountsInv, TablesTyped, Accounts
  <2>6. ended' \in [SessionIds -> {"no", "alone", "overlapped"}]
    BY <2>1 DEF AccountsInv, HistoryTyped
  <2>7. HistoryTyped'
    BY <1>1, <2>6 DEF AccountsInv, HistoryTyped, Accounts
  <2>. QED BY <1>2, <2>5, <2>7 DEF AccountsInv
<1>4. CASE ~writable
  <2>1. UNCHANGED <<sessions, ended>>
    BY <1>4 DEF CommitSessions
  <2>. QED BY <1>1, <1>2, <2>1 DEF AccountsInv, TablesTyped, HistoryTyped, Accounts
<1>. QED BY <1>3, <1>4

(* Users are read, checked, changed and written.                           *)
LEMMA ManagementTyped ==
    ASSUME AccountsInv, campaign' = campaign, NEW r \in Requests,
           \/ \E u \in Users, change \in Changes : ReadTarget(r, u, change)
           \/ ensure_other_admin_exists(r) \/ SaveUser(r) \/ CommitUser(r)
    PROVE  AccountsInv'
<1> USE DEF Admitting, Revising, Managing
<1>0. /\ job[r] \in AccountJob /\ JobSound(job[r], issued, enrolled) /\ overwritten \in BOOLEAN
      /\ enrolled \subseteq Users
  BY DEF AccountsInv, JobsSound, HistoryTyped, TablesTyped
<1>1. ASSUME NEW u \in Users, NEW change \in Changes, ReadTarget(r, u, change) PROVE AccountsInv'
  <2>1. UNCHANGED <<Accounts, SessionTable, started>> /\ job[r].op \in {"update", "delete"}
    BY <1>1 DEF ReadTarget, At
  <2>2. CASE users[u] = None
    BY <1>1, <2>1, <2>2, EndStep DEF ReadTarget
  <2>3. CASE users[u] # None
    <3> DEFINE at == IF NeedsOtherAdmin(users[u], job[r].op, change) THEN "check" ELSE "change"
               j == [job[r] EXCEPT !.who = u, !.row = users[u], !.change = change, !.at = at]
    <3>1. users[u] \in User /\ u \in enrolled
      BY <2>3 DEF AccountsInv, TablesTyped
    <3>2. job' = [job EXCEPT ![r] = j]
      BY <1>1, <2>3 DEF ReadTarget
    <3>3. at \in {"check", "change"}
      OBVIOUS
    <3> HIDE DEF at
    <3>4. j \in AccountJob
      BY <1>0, <3>1, <3>3, JobEdits DEF Phases
    <3>5. j.at = at /\ j.who = u /\ j.row = users[u] /\ j.change = change /\ j.op = job[r].op
      BY <1>0 DEF AccountJob
    <3> HIDE DEF j
    <3>6. JobSound(j, issued, enrolled)
      BY <2>1, <3>1, <3>3, <3>4, <3>5 DEF JobSound
    <3>7. UNCHANGED <<Tables, started, crossed, campaign>> /\ overwritten' \in BOOLEAN
      BY <1>0, <2>1 DEF Accounts, SessionTable, Tables
    <3>. QED BY <3>2, <3>6, <3>7, LocalsStep
  <2>. QED BY <2>2, <2>3
<1>2. CASE ensure_other_admin_exists(r)
  <2>1. CASE End(r)
    BY <1>2, <2>1, EndStep DEF ensure_other_admin_exists
  <2>2. CASE ~End(r)
    <3> DEFINE j == [job[r] EXCEPT !.at = "change"]
    <3>1. job[r].at = "check" /\ job' = [job EXCEPT ![r] = j]
      BY <1>2, <2>2 DEF ensure_other_admin_exists, JobGoesTo
    <3>2. j \in AccountJob
      BY <1>0, JobEdits DEF Phases
    <3>3. /\ j.at = "change" /\ j.who = job[r].who /\ j.row = job[r].row
          /\ j.change = job[r].change /\ j.op = job[r].op
      BY <1>0 DEF AccountJob
    <3> HIDE DEF j
    <3>4. JobSound(j, issued, enrolled)
      BY <1>0, <3>1, <3>2, <3>3 DEF JobSound
    <3>5. UNCHANGED <<Tables, started, crossed, campaign>> /\ overwritten' \in BOOLEAN
      BY <1>0, <1>2 DEF ensure_other_admin_exists, Accounts, SessionTable, Tables
    <3>. QED BY <3>1, <3>4, <3>5, LocalsStep
  <2>. QED BY <2>1, <2>2
<1>3. CASE SaveUser(r)
  <2> DEFINE row == IF job[r].op = "update" THEN update(job[r].row, job[r].change, job[r].num)
                    ELSE job[r].row
             j == [job[r] EXCEPT !.at = "write", !.ubase = users[job[r].who], !.row = row]
  <2>1. /\ job[r].at = "change" /\ job[r].who \in enrolled /\ job[r].row \in User
        /\ job[r].op \in {"update", "delete"} /\ job[r].change \in Changes
    BY <1>0, <1>3 DEF SaveUser, JobSound
  <2>2. job[r].num \in Nat
    BY <1>0 DEF AccountJob
  <2>3. row \in User
    BY <2>1, <2>2, UpdatedRow
  <2>4. users[job[r].who] \in User \cup {None}
    BY <1>0, <2>1 DEF AccountsInv, TablesTyped
  <2>5. job' = [job EXCEPT ![r] = j]
    BY <1>3 DEF SaveUser
  <2> HIDE DEF row
  <2>6. j \in AccountJob
    BY <1>0, <2>3, <2>4, JobEdits DEF Phases
  <2>7. /\ j.at = "write" /\ j.who = job[r].who /\ j.row = row /\ j.ubase = users[job[r].who]
        /\ j.change = job[r].change /\ j.op = job[r].op
    BY <1>0 DEF AccountJob
  <2> HIDE DEF j
  <2>8. JobSound(j, issued, enrolled)
    BY <2>1, <2>3, <2>4, <2>6, <2>7 DEF JobSound
  <2>9. UNCHANGED <<Tables, started, crossed, campaign>>
    BY <1>3 DEF SaveUser, SessionTable, Tables
  <2>10. overwritten' \in BOOLEAN
    <3>1. overwritten' = (overwritten \/ Outdated(r, job[r].row))
      BY <1>3 DEF SaveUser
    <3>. QED BY <1>0, <3>1
  <2>. QED BY <2>5, <2>8, <2>9, <2>10, LocalsStep
<1>4. CASE CommitUser(r)
  <2> DEFINE u == job[r].who  base == job[r].ubase
             row == IF job[r].op = "delete" THEN (IF base = None THEN users[u] ELSE None)
                    ELSE IF Writable(users[u], base) THEN Written(users[u], job[r].row, base)
                    ELSE users[u]
  <2>1. /\ u \in enrolled /\ u \in Users /\ base \in User \cup {None} /\ job[r].row \in User
        /\ users[u] \in User \cup {None}
    BY <1>0, <1>4 DEF CommitUser, JobSound, AccountsInv, TablesTyped
  <2>2. users' = [users EXCEPT ![u] = row]
    BY <1>4 DEF CommitUser
  <2>3. row \in User \cup {None}
    BY <2>1, WrittenUser
  <2> HIDE DEF row, u, base
  <2>4. End(r) /\ UNCHANGED <<enrolled, SessionTable, started>>
    BY <1>4 DEF CommitUser
  <2>5. crossed' \in BOOLEAN /\ overwritten' \in BOOLEAN
    <3>1. /\ crossed' = (crossed \/ OtherWriting(r))
          /\ overwritten' = (overwritten \/ Outdated(r, job[r].ubase))
      BY <1>4 DEF CommitUser
    <3>2. crossed \in BOOLEAN
      BY DEF AccountsInv, HistoryTyped
    <3>. QED BY <1>0, <3>1, <3>2
  <2>6. JobsSound'
    BY <2>4, OneJobEnds DEF SessionTable
  <2>7. TablesTyped'
    BY <2>1, <2>2, <2>3, <2>4 DEF AccountsInv, TablesTyped, SessionTable
  <2>8. HistoryTyped'
    BY <2>4, <2>5 DEF AccountsInv, HistoryTyped, SessionTable
  <2>. QED BY <2>6, <2>7, <2>8 DEF AccountsInv
<1>. QED BY <1>1, <1>2, <1>3, <1>4

(* A user is created.                                                      *)
LEMMA CreationTyped ==
    ASSUME AccountsInv, campaign' = campaign, NEW r \in Requests, NEW u \in Users,
           NEW role \in {"admin", "viewer"}, NEW active \in BOOLEAN, create_user(r, u, role, active)
    PROVE  AccountsInv'
<1>1. /\ users' = [users EXCEPT ![u] = NewUser(role, active, job[r].num)]
      /\ enrolled' = enrolled \cup {u} /\ job' = [job EXCEPT ![r] = NoJob]
      /\ UNCHANGED <<sessions, issued, idle, over, ended, started, crossed, overwritten>>
  BY DEF create_user, SessionTable, End
<1>2. NewUser(role, active, job[r].num) \in User
  <2>1. job[r].num \in Nat
    BY DEF AccountsInv, JobsSound, AccountJob
  <2>. QED BY <2>1 DEF NewUser, User
<1>3. JobSound(NoJob, issued', enrolled')
  BY <1>1, NoJobIsSound DEF AccountsInv, TablesTyped
<1>4. JobsSound'
  BY <1>1, <1>3, OneJobMoves DEF AccountsInv
<1>5. TablesTyped'
  BY <1>1, <1>2 DEF AccountsInv, TablesTyped
<1>6. HistoryTyped'
  BY <1>1 DEF AccountsInv, HistoryTyped
<1>. QED BY <1>4, <1>5, <1>6 DEF AccountsInv

(* A login finds its user, and a session is issued.                        *)
LEMMA LoginTyped ==
    ASSUME AccountsInv, campaign' = campaign, NEW r \in Requests,
           \/ \E u \in Users : FindLogin(r, u)
           \/ \E s \in SessionIds : IssueSession(r, s)
    PROVE  AccountsInv'
<1> USE DEF Admitting, Revising, Managing
<1>1. ASSUME NEW u \in Users, FindLogin(r, u) PROVE AccountsInv'
  <2> DEFINE j == [NoJob EXCEPT !.at = "issue", !.who = u, !.row = users[u]]
  <2>1. users[u] \in User /\ u \in enrolled
    BY <1>1 DEF FindLogin, AccountsInv, TablesTyped
  <2>2. j \in AccountJob
    BY <2>1 DEF AccountJob, NoJob, Phases
  <2>3. JobSound([j EXCEPT !.op = "login", !.num = started + 1], issued, enrolled)
    <3>1. [j EXCEPT !.op = "login", !.num = started + 1] \in AccountJob
      <4>1. started + 1 \in Nat
        BY BoundsAssumption DEF AccountsInv, HistoryTyped
      <4>. QED BY <2>2, <4>1, JobEdits DEF Phases, AllOps
    <3>2. /\ [j EXCEPT !.op = "login", !.num = started + 1].at = "issue"
          /\ [j EXCEPT !.op = "login", !.num = started + 1].who = u
          /\ [j EXCEPT !.op = "login", !.num = started + 1].row = users[u]
      BY DEF NoJob
    <3>. QED BY <2>1, <3>1, <3>2 DEF JobSound
  <2>4. Begin(r, "login", j) /\ UNCHANGED <<Accounts, SessionTable>>
    BY <1>1 DEF FindLogin
  <2> HIDE DEF j
  <2>5. JobsSound' /\ started' \in 0..MaxAccountRequests
    BY <2>2, <2>3, <2>4, RequestComes DEF Accounts, SessionTable, AllOps
  <2>6. TablesTyped' /\ HistoryTyped'
    BY <2>4, <2>5 DEF Accounts, SessionTable, AccountsInv, TablesTyped, HistoryTyped
  <2>. QED BY <2>5, <2>6 DEF AccountsInv
<1>2. ASSUME NEW s \in SessionIds, IssueSession(r, s) PROVE AccountsInv'
  <2>1. /\ sessions' = [sessions EXCEPT ![s] = issue(job[r].who, job[r].row)]
        /\ issued' = issued \cup {s} /\ job' = [job EXCEPT ![r] = NoJob]
        /\ UNCHANGED <<users, enrolled, crossed, overwritten, idle, over, started, ended>>
    BY <1>2 DEF IssueSession, End, Accounts
  <2>2. issue(job[r].who, job[r].row) \in Session
    <3>1. job[r].who \in Users /\ job[r].row \in User
      BY <1>2 DEF IssueSession, AccountsInv, JobsSound, JobSound, TablesTyped
    <3>. QED BY <3>1 DEF issue, Session, User
  <2>3. JobSound(NoJob, issued', enrolled')
    BY <2>1, NoJobIsSound DEF AccountsInv, TablesTyped
  <2>4. JobsSound'
    BY <2>1, <2>3, OneJobMoves DEF AccountsInv
  <2>5. TablesTyped'
    BY <2>1, <2>2 DEF AccountsInv, TablesTyped
  <2>6. HistoryTyped'
    BY <2>1 DEF AccountsInv, HistoryTyped
  <2>. QED BY <2>4, <2>5, <2>6 DEF AccountsInv
<1>. QED BY <1>1, <1>2

(* Time passes, and sessions that have ended are cleared away.             *)
LEMMA TimeTyped ==
    ASSUME AccountsInv, campaign' = campaign,
           (\E s \in SessionIds : IdleTimePasses(s) \/ LifeTimePasses(s)) \/ delete_inactive
    PROVE  AccountsInv'
<1>1. /\ UNCHANGED <<users, enrolled, crossed, overwritten, issued, job, started, ended>>
      /\ sessions' \in [SessionIds -> Session \cup {None}]
      /\ idle' \subseteq issued /\ over' \subseteq issued
      /\ \A s \in SessionIds : sessions'[s] # None => s \in issued
  BY DEF IdleTimePasses, LifeTimePasses, delete_inactive, Accounts, AccountsInv, TablesTyped
<1>2. TablesTyped'
  BY <1>1 DEF AccountsInv, TablesTyped
<1>3. JobsSound' /\ HistoryTyped'
  BY <1>1 DEF AccountsInv, JobsSound, HistoryTyped
<1>. QED BY <1>2, <1>3 DEF AccountsInv

(* No step breaks the types.                                               *)
LEMMA AccountsTypedStep == AccountsInv /\ [AccountsNext]_accountVars => AccountsInv'
<1>1. ASSUME AccountsInv, AccountsNext PROVE AccountsInv'
  BY <1>1, AdmissionTyped, TouchTyped, RevocationTyped, SaveSessionsTyped, CommitSessionsTyped,
     ManagementTyped, CreationTyped, LoginTyped, TimeTyped DEF AccountsNext
<1>2. ASSUME AccountsInv, UNCHANGED accountVars PROVE AccountsInv'
  BY <1>2 DEF accountVars, AccountsInv, TablesTyped, JobsSound, HistoryTyped
<1>. QED BY <1>1, <1>2

(* Users, sessions and requests keep their types, and no request acts on a *)
(* user or a session that never was: whatever overlaps, expires or is      *)
(* deleted between the reading and the writing of a row.                   *)
THEOREM AccountsTyped == AccountsSpec => []AccountsInv
BY AccountsTypedInitially, AccountsTypedStep, PTL DEF AccountsSpec

-----------------------------------------------------------------------------
(* An administrator remains.                                               *)

AdminExists == \E u \in Users : users[u] # None /\ users[u].role = "admin" /\ users[u].active

(* What request j is about to write takes no administrator away that is    *)
(* needed: there is another, or it changes the row as it still is, and     *)
(* leaves the administrator what it was.                                   *)
Harmless(j) ==
    \/ OtherAdminExists(j.who)
    \/ /\ users[j.who] # None /\ ~NeedsOtherAdmin(users[j.who], j.op, j.change)
       /\ j.at = "change" => j.row = users[j.who]
       /\ j.at = "write" => /\ j.ubase = users[j.who]
                            /\ j.op = "update" => j.row = update(users[j.who], j.change, j.num)

AdminInv ==
    crossed \/ /\ AdminExists
               /\ \A r \in Requests : job[r].at \in {"change", "write"} => Harmless(job[r])

(* Other requests do not come near the users.                              *)
LEMMA OutsideManagement ==
    ASSUME AccountsInv, NEW r \in Requests,
           \/ \E op \in AllOps, s \in SessionIds : FindSession(r, op, s)
           \/ FindUser(r) \/ TouchRead(r) \/ TouchCommit(r) \/ AnswerRead(r)
           \/ logout(r) \/ logout_all(r) \/ \E s \in SessionIds : revoke_session(r, s)
           \/ SaveSessions(r) \/ CommitSessions(r)
           \/ \E s \in SessionIds : IssueSession(r, s)
    PROVE  /\ UNCHANGED <<users, enrolled, crossed, overwritten>>
           /\ \E j : job' = [job EXCEPT ![r] = j] /\ j.at \notin Managing \cup {"issue"}
<1> USE DEF Managing
<1>0. job[r] \in AccountJob
  BY DEF AccountsInv, JobsSound
<1>1. ASSUME End(r) PROVE \E j : job' = [job EXCEPT ![r] = j] /\ j.at \notin Managing \cup {"issue"}
  <2>1. NoJob.at = "idle"
    BY DEF NoJob
  <2>. QED BY <1>1, <2>1 DEF End
<1>2. ASSUME NEW op \in AllOps, NEW s \in SessionIds, FindSession(r, op, s)
      PROVE  \E j : job' = [job EXCEPT ![r] = j] /\ j.at \notin Managing \cup {"issue"}
  <2> DEFINE j == [[NoJob EXCEPT !.at = "user", !.sid = s, !.ent = sessions[s]]
                     EXCEPT !.op = op, !.num = started + 1]
  <2>1. job' = [job EXCEPT ![r] = j]
    BY <1>2 DEF FindSession, Begin
  <2>2. j.at = "user"
    BY DEF NoJob
  <2> HIDE DEF j
  <2>. QED BY <2>1, <2>2
<1>4. ASSUME FindUser(r) PROVE \E j : job' = [job EXCEPT ![r] = j] /\ j.at \notin Managing \cup {"issue"}
  <2>1. ASSUME NEW at \in {"touch", "act"}, NEW admin,
               job' = [job EXCEPT ![r].at = at, ![r].admin = admin]
        PROVE  \E j : job' = [job EXCEPT ![r] = j] /\ j.at \notin Managing \cup {"issue"}
    <3> DEFINE j == [job[r] EXCEPT !.at = at, !.admin = admin]
    <3>1. job' = [job EXCEPT ![r] = j]
      BY <2>1
    <3>2. j.at = at
      BY <1>0 DEF AccountJob
    <3> HIDE DEF j
    <3>. QED BY <3>1, <3>2
  <2>2. \/ End(r)
        \/ \E at \in {"touch", "act"} :
             job' = [job EXCEPT ![r].at = at,
                                ![r].admin = (users[job[r].ent.user].role = "admin")]
    BY <1>4 DEF FindUser
  <2>. QED BY <1>1, <2>1, <2>2
<1>5. ASSUME NEW j, job' = [job EXCEPT ![r] = j], j.at \in {"touched", "act", "save", "commit"}
      PROVE  \E k : job' = [job EXCEPT ![r] = k] /\ k.at \notin Managing \cup {"issue"}
  BY <1>5
<1>6. CASE TouchRead(r)
  <2>1. [job[r] EXCEPT !.at = "touched", !.base = sessions[job[r].sid]].at = "touched"
    BY <1>0 DEF AccountJob
  <2>2. job' = [job EXCEPT ![r] = [job[r] EXCEPT !.at = "touched", !.base = sessions[job[r].sid]]]
    BY <1>6 DEF TouchRead
  <2>. QED BY <1>5, <1>6, <2>1, <2>2 DEF TouchRead, Accounts
<1>7. CASE TouchCommit(r)
  <2>1. [job[r] EXCEPT !.at = "act", !.base = None].at = "act"
    BY <1>0 DEF AccountJob
  <2>2. \/ job' = [job EXCEPT ![r] = [job[r] EXCEPT !.at = "act", !.base = None]]
        \/ End(r)
    BY <1>7 DEF TouchCommit
  <2>. QED BY <1>1, <1>5, <1>7, <2>1, <2>2 DEF TouchCommit, Accounts
<1>8. ASSUME NEW ents, Revoking(r, ents)
      PROVE  \E j : job' = [job EXCEPT ![r] = j] /\ j.at \notin Managing \cup {"issue"}
  <2>1. [job[r] EXCEPT !.at = "save", !.rows = ents].at = "save"
    BY <1>0 DEF AccountJob
  <2>. QED BY <1>5, <1>8, <2>1 DEF Revoking
<1>9. CASE SaveSessions(r)
  <2> DEFINE base == [s \in DOMAIN job[r].rows |-> sessions[s]]
  <2>1. [job[r] EXCEPT !.at = "commit", !.base = base].at = "commit"
    BY <1>0 DEF AccountJob
  <2>2. job' = [job EXCEPT ![r] = [job[r] EXCEPT !.at = "commit", !.base = base]]
    BY <1>9 DEF SaveSessions
  <2> HIDE DEF base
  <2>. QED BY <1>5, <1>9, <2>1, <2>2 DEF SaveSessions, Accounts
<1>10. ASSUME NEW s \in SessionIds, revoke_session(r, s)
       PROVE  \E j : job' = [job EXCEPT ![r] = j] /\ j.at \notin Managing \cup {"issue"}
  BY <1>1, <1>8, <1>10 DEF revoke_session
<1>11. \E j : job' = [job EXCEPT ![r] = j] /\ j.at \notin Managing \cup {"issue"}
  BY <1>1, <1>2, <1>4, <1>6, <1>7, <1>8, <1>9, <1>10
     DEF FindUser, AnswerRead, logout, logout_all, CommitSessions, IssueSession
<1>12. UNCHANGED <<users, enrolled, crossed, overwritten>>
  BY DEF FindSession, FindUser, TouchRead, TouchCommit, AnswerRead, logout, logout_all,
         revoke_session, SaveSessions, CommitSessions, IssueSession, Accounts
<1>. QED BY <1>11, <1>12

(* A login that finds its user has the row in hand.                        *)
LEMMA LoginFound ==
    ASSUME NEW r \in Requests, NEW u \in Users, FindLogin(r, u)
    PROVE  /\ users[u] # None /\ UNCHANGED <<Accounts, SessionTable>>
           /\ \E j : job' = [job EXCEPT ![r] = j] /\ j.at = "issue" /\ j.who = u /\ j.row = users[u]
<1> DEFINE j == [[NoJob EXCEPT !.at = "issue", !.who = u, !.row = users[u]]
                   EXCEPT !.op = "login", !.num = started + 1]
<1>1. job' = [job EXCEPT ![r] = j]
  BY DEF FindLogin, Begin
<1>2. j.at = "issue" /\ j.who = u /\ j.row = users[u]
  BY DEF NoJob
<1> HIDE DEF j
<1>3. users[u] # None /\ UNCHANGED <<Accounts, SessionTable>>
  BY DEF FindLogin
<1>. QED BY <1>1, <1>2, <1>3

(* One request moves on, the users stay.                                   *)
LEMMA HarmlessMove ==
    ASSUME AccountsInv, AdminInv, NEW r \in Requests, NEW j, job' = [job EXCEPT ![r] = j],
           UNCHANGED <<users, crossed>>, ~crossed /\ j.at \in {"change", "write"} => Harmless(j)
    PROVE  AdminInv'
<1>1. CASE crossed
  BY <1>1 DEF AdminInv
<1>2. CASE ~crossed
  <2>1. AdminExists'
    BY <1>2 DEF AdminInv, AdminExists
  <2>2. ASSUME NEW k, Harmless(k) PROVE Harmless(k)'
    BY <2>2 DEF Harmless, OtherAdminExists
  <2>3. ASSUME NEW q \in Requests, job'[q].at \in {"change", "write"} PROVE Harmless(job'[q])
    <3>1. CASE q = r
      BY <1>2, <2>3, <3>1 DEF AccountsInv, JobsSound
    <3>2. CASE q # r
      <4>1. job'[q] = job[q]
        BY <3>2 DEF AccountsInv, JobsSound
      <4>. QED BY <1>2, <2>3, <4>1 DEF AdminInv
    <3>. QED BY <3>1, <3>2
  <2>4. ASSUME NEW q \in Requests, job'[q].at \in {"change", "write"} PROVE Harmless(job[q])'
    <3>1. PICK k : k = job'[q]
      OBVIOUS
    <3>2. Harmless(k)'
      BY <2>2, <2>3, <2>4, <3>1
    <3>. QED BY <3>1, <3>2 DEF Harmless
  <2>. QED BY <2>1, <2>4 DEF AdminInv
<1>. QED BY <1>1, <1>2

(* An administrator that is not written remains one.                       *)
LEMMA AdminWritten ==
    ASSUME AccountsInv, NEW u \in Users, NEW row \in User \cup {None},
           users' = [users EXCEPT ![u] = row], AdminExists,
           \/ OtherAdminExists(u)
           \/ /\ users[u] # None /\ users[u].role = "admin" /\ users[u].active =>
                   row # None /\ row.role = "admin" /\ row.active
    PROVE  AdminExists'
BY DEF AdminExists, OtherAdminExists, AccountsInv, TablesTyped

(* No step takes the last administrator away.                              *)
LEMMA AdminStep == AccountsInv /\ AdminInv /\ [AccountsNext]_accountVars => AdminInv'
<1> SUFFICES ASSUME AccountsInv, AdminInv, [AccountsNext]_accountVars PROVE AdminInv'
  OBVIOUS
<1>0. \A r \in Requests : job[r] \in AccountJob
  BY DEF AccountsInv, JobsSound
<1>1. ASSUME NEW r \in Requests, NEW u \in Users, NEW change \in Changes, ReadTarget(r, u, change)
      PROVE  AdminInv'
  <2>1. UNCHANGED <<users, crossed>>
    BY <1>1 DEF ReadTarget, Accounts
  <2>2. CASE users[u] = None
    <3>1. job' = [job EXCEPT ![r] = NoJob]
      BY <1>1, <2>2 DEF ReadTarget, End
    <3>2. NoJob.at = "idle"
      BY DEF NoJob
    <3>. QED BY <2>1, <3>1, <3>2, HarmlessMove
  <2>3. CASE users[u] # None
    <3> DEFINE at == IF NeedsOtherAdmin(users[u], job[r].op, change) THEN "check" ELSE "change"
               j == [job[r] EXCEPT !.who = u, !.row = users[u], !.change = change, !.at = at]
    <3>1. job' = [job EXCEPT ![r] = j]
      BY <1>1, <2>3 DEF ReadTarget
    <3>2. j.at = at /\ j.who = u /\ j.row = users[u] /\ j.change = change /\ j.op = job[r].op
      BY <1>0 DEF AccountJob
    <3> HIDE DEF j
    <3>3. j.at \in {"change", "write"} => Harmless(j)
      BY <2>3, <3>2 DEF Harmless
    <3>. QED BY <2>1, <3>1, <3>3, HarmlessMove
  <2>. QED BY <2>2, <2>3
<1>2. ASSUME NEW r \in Requests, ensure_other_admin_exists(r) PROVE AdminInv'
  <2> DEFINE j == IF OtherAdminExists(job[r].who) THEN [job[r] EXCEPT !.at = "change"] ELSE NoJob
  <2>1. UNCHANGED <<users, crossed>> /\ job' = [job EXCEPT ![r] = j]
    BY <1>2 DEF ensure_other_admin_exists, Accounts, JobGoesTo, End
  <2>2. j.at \in {"change", "write"} => OtherAdminExists(j.who)
    BY <1>0 DEF AccountJob, NoJob
  <2> HIDE DEF j
  <2>3. j.at \in {"change", "write"} => Harmless(j)
    BY <2>2 DEF Harmless
  <2>. QED BY <2>1, <2>3, HarmlessMove
<1>3. ASSUME NEW r \in Requests, SaveUser(r) PROVE AdminInv'
  <2> DEFINE row == IF job[r].op = "update" THEN update(job[r].row, job[r].change, job[r].num)
                    ELSE job[r].row
             j == [job[r] EXCEPT !.at = "write", !.ubase = users[job[r].who], !.row = row]
  <2>1. UNCHANGED <<users, crossed>> /\ job' = [job EXCEPT ![r] = j] /\ job[r].at = "change"
    BY <1>3 DEF SaveUser
  <2>2. /\ j.at = "write" /\ j.who = job[r].who /\ j.row = row /\ j.ubase = users[job[r].who]
        /\ j.change = job[r].change /\ j.op = job[r].op /\ j.num = job[r].num
    BY <1>0 DEF AccountJob
  <2>3. ~crossed => Harmless(job[r])
    BY <2>1 DEF AdminInv
  <2>4. j.op = "update" => row = update(job[r].row, j.change, j.num)
    BY <2>2
  <2> HIDE DEF j, row
  <2>5. ~crossed => Harmless(j)
    BY <2>1, <2>2, <2>3, <2>4 DEF Harmless
  <2>. QED BY <2>1, <2>5, HarmlessMove
<1>4. ASSUME NEW r \in Requests, CommitUser(r) PROVE AdminInv'
  <2> DEFINE u == job[r].who  base == job[r].ubase
             row == IF job[r].op = "delete" THEN (IF base = None THEN users[u] ELSE None)
                    ELSE IF Writable(users[u], base) THEN Written(users[u], job[r].row, base)
                    ELSE users[u]
  <2>1. /\ job[r].at = "write" /\ crossed' = (crossed \/ OtherWriting(r))
        /\ users' = [users EXCEPT ![u] = row] /\ job' = [job EXCEPT ![r] = NoJob]
    BY <1>4 DEF CommitUser, End
  <2>2. CASE crossed \/ OtherWriting(r)
    BY <2>1, <2>2 DEF AdminInv
  <2>3. CASE ~crossed /\ ~OtherWriting(r)
    <3>1. /\ u \in Users /\ base \in User \cup {None} /\ job[r].row \in User
          /\ users[u] \in User \cup {None} /\ job[r].op \in {"update", "delete"}
          /\ job[r].change \in Changes /\ job[r].num \in Nat
      <4>1. job[r].num \in Nat
        BY <1>0 DEF AccountJob
      <4>. QED BY <2>1, <4>1 DEF JobSound, AccountsInv, TablesTyped, JobsSound, Managing
    <3>2. row \in User \cup {None}
      BY <3>1, WrittenUser
    <3>3. ~(\E q \in Requests : job'[q].at \in {"change", "write"})
      <4>1. NoJob.at = "idle"
        BY DEF NoJob
      <4>. QED BY <2>1, <2>3, <4>1 DEF OtherWriting, AccountsInv, JobsSound
    <3>4. AdminExists /\ Harmless(job[r])
      BY <2>1, <2>3 DEF AdminInv
    <3>5. ASSUME ~OtherAdminExists(u), users[u] # None, users[u].role = "admin", users[u].active
          PROVE  row # None /\ row.role = "admin" /\ row.active
      <4>1. /\ ~NeedsOtherAdmin(users[u], job[r].op, job[r].change) /\ base = users[u]
            /\ job[r].op = "update" => job[r].row = update(users[u], job[r].change, job[r].num)
        BY <2>1, <3>4, <3>5 DEF Harmless
      <4>2. job[r].op = "update" /\ job[r].change \notin {"demote", "deactivate"}
        BY <3>1, <3>5, <4>1 DEF NeedsOtherAdmin
      <4>3. row = job[r].row
        BY <3>1, <4>1, <4>2, WrittenUser DEF Writable
      <4>. QED BY <3>1, <3>5, <4>1, <4>2, <4>3, UpdatedRow, NoneAssumption
    <3> HIDE DEF u, row, base
    <3>6. AdminExists'
      BY <2>1, <3>1, <3>2, <3>4, <3>5, AdminWritten
    <3>. QED BY <3>3, <3>6 DEF AdminInv
  <2>. QED BY <2>2, <2>3
<1>5. ASSUME NEW r \in Requests, NEW u \in Users, NEW role \in {"admin", "viewer"},
             NEW active \in BOOLEAN, create_user(r, u, role, active)
      PROVE  AdminInv'
  <2>1. /\ users' = [users EXCEPT ![u] = NewUser(role, active, job[r].num)]
        /\ crossed' = crossed /\ job' = [job EXCEPT ![r] = NoJob]
    BY <1>5 DEF create_user, End
  <2>2. users[u] = None
    BY <1>5 DEF create_user, AccountsInv, TablesTyped
  <2>3. CASE crossed
    BY <2>1, <2>3 DEF AdminInv
  <2>4. CASE ~crossed
    <3>1. \A v \in Users : users[v] # None => users'[v] = users[v]
      BY <2>1, <2>2 DEF AccountsInv, TablesTyped
    <3>2. AdminExists'
      BY <2>4, <3>1 DEF AdminInv, AdminExists
    <3>3. ASSUME NEW q \in Requests, job'[q].at \in {"change", "write"} PROVE Harmless(job[q])'
      <4>1. job'[q] = job[q] /\ Harmless(job[q])
        <5>1. NoJob.at = "idle"
          BY DEF NoJob
        <5>. QED BY <2>1, <2>4, <3>3, <5>1 DEF AdminInv, AccountsInv, JobsSound
      <4>2. job[q].who \in Users
        BY <3>3, <4>1 DEF AccountsInv, JobsSound, JobSound, Managing, TablesTyped
      <4>3. OtherAdminExists(job[q].who) => OtherAdminExists(job[q].who)'
        BY <3>1, <4>1 DEF OtherAdminExists
      <4>4. CASE ~OtherAdminExists(job[q].who)
        <5>1. users[job[q].who] # None /\ users'[job[q].who] = users[job[q].who]
          BY <3>1, <4>1, <4>2, <4>4 DEF Harmless
        <5>. QED BY <4>1, <4>4, <5>1 DEF Harmless
      <4>5. CASE OtherAdminExists(job[q].who)
        BY <4>3, <4>5 DEF Harmless
      <4>. QED BY <4>4, <4>5
    <3>. QED BY <3>2, <3>3 DEF AdminInv
  <2>. QED BY <2>3, <2>4
<1>6. ASSUME UNCHANGED <<users, crossed, job>> PROVE AdminInv'
  BY <1>6 DEF AdminInv, AdminExists, Harmless, OtherAdminExists
<1>7. ASSUME NEW r \in Requests, NEW j, job' = [job EXCEPT ![r] = j], j.at \notin Managing,
             UNCHANGED <<users, crossed>>
      PROVE  AdminInv'
  BY <1>7, HarmlessMove DEF Managing
<1>8. ASSUME NEW s \in SessionIds, IdleTimePasses(s) \/ LifeTimePasses(s) PROVE AdminInv'
  BY <1>6, <1>8 DEF IdleTimePasses, LifeTimePasses, Accounts
<1>9. CASE delete_inactive
  BY <1>6, <1>9 DEF delete_inactive, Accounts
<1>10. CASE UNCHANGED accountVars
  BY <1>6, <1>10 DEF accountVars
<1>11. ASSUME NEW r \in Requests, NEW u \in Users, FindLogin(r, u) PROVE AdminInv'
  <2>1. PICK j : job' = [job EXCEPT ![r] = j] /\ j.at = "issue"
    BY <1>11, LoginFound
  <2>2. UNCHANGED <<users, crossed>>
    BY <1>11, LoginFound DEF Accounts
  <2>. QED BY <1>7, <2>1, <2>2 DEF Managing
<1>. QED
  BY <1>1, <1>2, <1>3, <1>4, <1>5, <1>7, <1>8, <1>9, <1>10, <1>11, OutsideManagement
     DEF AccountsNext

(* An administrator remains for any number of users, requests and overlaps *)
(* but those in which a user is written between the check and the write of *)
(* another request: update and delete_user change the row they have read,  *)
(* and only after they have found another administrator.                   *)
THEOREM AdministratorRemains == AccountsSpec => []AdminRemains
<1>1. AccountsInit => AdminInv
  <2> SUFFICES ASSUME NEW c \in Campaigns, NEW table \in Installations, AccountsStart(c, table)
               PROVE  AdminInv
    BY DEF AccountsInit
  <2>1. \A r \in Requests : job[r].at = "idle"
    BY DEF AccountsStart, NoJob
  <2>2. PICK u \in Users : users[u] = NewUser("admin", TRUE, 0)
    BY DEF AccountsStart, Installations
  <2>3. NewUser("admin", TRUE, 0) \in User
    BY DEF NewUser, User
  <2>4. AdminExists
    BY <2>2, <2>3, NoneAssumption DEF AdminExists, NewUser
  <2>. QED BY <2>1, <2>4 DEF AdminInv
<1>2. AdminInv => AdminRemains
  BY DEF AdminInv, AdminExists, AdminRemains
<1>. QED BY <1>1, <1>2, AccountsTypedInitially, AccountsTypedStep, AdminStep, PTL DEF AccountsSpec

-----------------------------------------------------------------------------
(* Revoked sessions stay revoked.                                          *)

(* Request j has no session in hand that was revoked alone, what it is to  *)
(* write is revoked, and what it found revoked had been revoked by a       *)
(* request before.                                                         *)
Revokes(j) ==
    /\ j.at \in Admitting => ~j.ent.revoked /\ ended[j.sid] # "alone"
    /\ j.at \in Revising => \A s \in DOMAIN j.rows : j.rows[s].revoked
    /\ j.at = "commit" =>
         \A s \in DOMAIN j.rows : j.base[s] # None /\ j.base[s].revoked => ended[s] # "no"

SessionEnds(s) ==
    /\ sessions[s] # None /\ sessions[s].revoked => ended[s] # "no"
    /\ ended[s] # "no" => s \in issued
    /\ ended[s] = "alone" => Revoked(s)

RevokedInv == (\A s \in SessionIds : SessionEnds(s)) /\ \A r \in Requests : Revokes(job[r])

(* Requests about users, and a login that finds its user, leave the        *)
(* sessions alone.                                                         *)
LEMMA OutsideSessions ==
    ASSUME AccountsInv, NEW r \in Requests,
           \/ \E u \in Users, change \in Changes : ReadTarget(r, u, change)
           \/ ensure_other_admin_exists(r) \/ SaveUser(r) \/ CommitUser(r)
           \/ \E u \in Users, role \in {"admin", "viewer"}, active \in BOOLEAN :
                create_user(r, u, role, active)
           \/ \E u \in Users : FindLogin(r, u)
    PROVE  /\ UNCHANGED SessionTable
           /\ \E j : job' = [job EXCEPT ![r] = j] /\ j.at \in Managing \cup {"idle", "issue"}
<1> USE DEF Managing
<1>0. job[r] \in AccountJob
  BY DEF AccountsInv, JobsSound
<1>1. ASSUME End(r)
      PROVE  \E j : job' = [job EXCEPT ![r] = j] /\ j.at \in Managing \cup {"idle", "issue"}
  <2>1. NoJob.at = "idle"
    BY DEF NoJob
  <2>. QED BY <1>1, <2>1 DEF End
<1>2. ASSUME NEW u \in Users, NEW change \in Changes, ReadTarget(r, u, change)
      PROVE  \E j : job' = [job EXCEPT ![r] = j] /\ j.at \in Managing \cup {"idle", "issue"}
  <2> DEFINE at == IF NeedsOtherAdmin(users[u], job[r].op, change) THEN "check" ELSE "change"
             j == [job[r] EXCEPT !.who = u, !.row = users[u], !.change = change, !.at = at]
  <2>1. End(r) \/ job' = [job EXCEPT ![r] = j]
    BY <1>2 DEF ReadTarget
  <2>2. j.at = at
    BY <1>0 DEF AccountJob
  <2>3. at \in {"check", "change"}
    OBVIOUS
  <2> HIDE DEF j, at
  <2>. QED BY <1>1, <2>1, <2>2, <2>3
<1>3. ASSUME ensure_other_admin_exists(r)
      PROVE  \E j : job' = [job EXCEPT ![r] = j] /\ j.at \in Managing \cup {"idle", "issue"}
  <2>1. [job[r] EXCEPT !.at = "change"].at = "change"
    BY <1>0 DEF AccountJob
  <2>2. End(r) \/ job' = [job EXCEPT ![r] = [job[r] EXCEPT !.at = "change"]]
    BY <1>3 DEF ensure_other_admin_exists, JobGoesTo
  <2>. QED BY <1>1, <2>1, <2>2
<1>4. ASSUME SaveUser(r)
      PROVE  \E j : job' = [job EXCEPT ![r] = j] /\ j.at \in Managing \cup {"idle", "issue"}
  <2> DEFINE row == IF job[r].op = "update" THEN update(job[r].row, job[r].change, job[r].num)
                    ELSE job[r].row
             j == [job[r] EXCEPT !.at = "write", !.ubase = users[job[r].who], !.row = row]
  <2>1. job' = [job EXCEPT ![r] = j]
    BY <1>4 DEF SaveUser
  <2>2. j.at = "write"
    BY <1>0 DEF AccountJob
  <2> HIDE DEF j
  <2>. QED BY <2>1, <2>2
<1>5. ASSUME NEW u \in Users, FindLogin(r, u)
      PROVE  \E j : job' = [job EXCEPT ![r] = j] /\ j.at \in Managing \cup {"idle", "issue"}
  BY <1>5, LoginFound
<1>6. UNCHANGED SessionTable
  BY DEF ReadTarget, ensure_other_admin_exists, SaveUser, CommitUser, create_user, FindLogin
<1>. QED BY <1>1, <1>2, <1>3, <1>4, <1>5, <1>6 DEF CommitUser, create_user

(* One request moves on, the sessions stay.                                *)
LEMMA RevokesMove ==
    ASSUME AccountsInv, RevokedInv, NEW r \in Requests, NEW j, job' = [job EXCEPT ![r] = j],
           UNCHANGED <<sessions, issued, ended>>, Revokes(j)
    PROVE  RevokedInv'
<1>1. \A s \in SessionIds : SessionEnds(s)'
  BY DEF RevokedInv, SessionEnds, Revoked
<1>2. ASSUME NEW q \in Requests PROVE Revokes(job[q])'
  <2>1. PICK k : k = job'[q]
    OBVIOUS
  <2>2. Revokes(k)
    BY <2>1 DEF RevokedInv, AccountsInv, JobsSound
  <2>. QED BY <2>1, <2>2 DEF Revokes
<1>. QED BY <1>1, <1>2 DEF RevokedInv

(* A request that holds no session revokes nothing.                        *)
LEMMA RevokesNothing ==
    ASSUME NEW j, j.at \in Managing \cup {"idle", "issue", "act"}
    PROVE  Revokes(j)
BY DEF Revokes, Managing, Admitting, Revising

(* A step of a request between reading a session and the end, without a    *)
(* commit.                                                                 *)
LEMMA RevokedAdmission ==
    ASSUME AccountsInv, RevokedInv, NEW r \in Requests,
           \/ \E op \in AllOps, s \in SessionIds : FindSession(r, op, s)
           \/ FindUser(r) \/ TouchRead(r) \/ AnswerRead(r)
    PROVE  RevokedInv'
<1>0. job[r] \in AccountJob /\ Revokes(job[r])
  BY DEF AccountsInv, JobsSound, RevokedInv
<1>1. ASSUME End(r), UNCHANGED SessionTable PROVE RevokedInv'
  <2>1. NoJob.at = "idle"
    BY DEF NoJob
  <2>. QED BY <1>1, <2>1, RevokesMove, RevokesNothing DEF End, SessionTable
<1>2. ASSUME NEW op \in AllOps, NEW s \in SessionIds, FindSession(r, op, s) PROVE RevokedInv'
  <2> DEFINE j == [[NoJob EXCEPT !.at = "user", !.sid = s, !.ent = sessions[s]]
                     EXCEPT !.op = op, !.num = started + 1]
  <2>1. job' = [job EXCEPT ![r] = j] /\ UNCHANGED SessionTable
    BY <1>2 DEF FindSession, Begin
  <2>2. j.at = "user" /\ j.sid = s /\ j.ent = sessions[s]
    BY DEF NoJob
  <2>3. ~sessions[s].revoked /\ ended[s] # "alone"
    BY <1>2 DEF FindSession, is_active, RevokedInv, SessionEnds, Revoked
  <2> HIDE DEF j
  <2>4. Revokes(j)
    BY <2>2, <2>3 DEF Revokes, Admitting, Revising
  <2>. QED BY <2>1, <2>4, RevokesMove DEF SessionTable
<1>3. CASE FindUser(r)
  <2>1. ASSUME NEW at \in {"touch", "act"}, NEW admin,
               job' = [job EXCEPT ![r].at = at, ![r].admin = admin]
        PROVE  RevokedInv'
    <3> DEFINE j == [job[r] EXCEPT !.at = at, !.admin = admin]
    <3>1. job' = [job EXCEPT ![r] = j] /\ UNCHANGED SessionTable /\ job[r].at = "user"
      BY <1>3, <2>1 DEF FindUser
    <3>2. j.at = at /\ j.ent = job[r].ent /\ j.sid = job[r].sid
      BY <1>0 DEF AccountJob
    <3> HIDE DEF j
    <3>3. Revokes(j)
      BY <1>0, <3>1, <3>2 DEF Revokes, Admitting, Revising
    <3>. QED BY <3>1, <3>3, RevokesMove DEF SessionTable
  <2>2. \/ End(r)
        \/ \E at \in {"touch", "act"} :
             job' = [job EXCEPT ![r].at = at,
                                ![r].admin = (users[job[r].ent.user].role = "admin")]
    BY <1>3 DEF FindUser
  <2>3. UNCHANGED SessionTable
    BY <1>3 DEF FindUser
  <2>. QED BY <1>1, <2>1, <2>2, <2>3
<1>4. CASE TouchRead(r)
  <2> DEFINE j == [job[r] EXCEPT !.at = "touched", !.base = sessions[job[r].sid]]
  <2>1. job' = [job EXCEPT ![r] = j] /\ UNCHANGED SessionTable /\ job[r].at = "touch"
    BY <1>4 DEF TouchRead
  <2>2. j.at = "touched" /\ j.ent = job[r].ent /\ j.sid = job[r].sid
    BY <1>0 DEF AccountJob
  <2> HIDE DEF j
  <2>3. Revokes(j)
    BY <1>0, <2>1, <2>2 DEF Revokes, Admitting, Revising
  <2>. QED BY <2>1, <2>3, RevokesMove DEF SessionTable
<1>5. CASE AnswerRead(r)
  BY <1>1, <1>5 DEF AnswerRead
<1>. QED BY <1>2, <1>3, <1>4, <1>5

(* Sessions are read to be revoked, and read again.                        *)
LEMMA RevokedReading ==
    ASSUME AccountsInv, RevokedInv, NEW r \in Requests,
           \/ logout(r) \/ logout_all(r) \/ \E s \in SessionIds : revoke_session(r, s)
           \/ SaveSessions(r)
    PROVE  RevokedInv'
<1>0. job[r] \in AccountJob /\ Revokes(job[r])
  BY DEF AccountsInv, JobsSound, RevokedInv
<1>1. ASSUME NEW ents, Revoking(r, ents), \A s \in DOMAIN ents : ents[s].revoked,
             UNCHANGED SessionTable
      PROVE  RevokedInv'
  <2> DEFINE j == [job[r] EXCEPT !.at = "save", !.rows = ents]
  <2>1. job' = [job EXCEPT ![r] = j]
    BY <1>1 DEF Revoking
  <2>2. j.at = "save" /\ j.rows = ents
    BY <1>0 DEF AccountJob
  <2> HIDE DEF j
  <2>3. Revokes(j)
    BY <1>1, <2>2 DEF Revokes, Admitting, Revising
  <2>. QED BY <1>1, <2>1, <2>3, RevokesMove DEF SessionTable
<1>2. CASE logout(r)
  <2> DEFINE ents == [s \in {job[r].sid} |-> revoke(job[r].ent)]
  <2>1. Revoking(r, ents) /\ UNCHANGED SessionTable
    BY <1>2 DEF logout
  <2>2. \A s \in DOMAIN ents : ents[s].revoked
    BY <1>2, Revocations, RevokedSession DEF logout
  <2> HIDE DEF ents
  <2>. QED BY <1>1, <2>1, <2>2
<1>3. CASE logout_all(r)
  <2> DEFINE ents == [s \in find_active_by_user_id(job[r].ent.user) |-> revoke(sessions[s])]
  <2>1. Revoking(r, ents) /\ UNCHANGED SessionTable
    BY <1>3 DEF logout_all
  <2>2. \A s \in DOMAIN ents : ents[s].revoked
    BY Revocations, RevokedSession
  <2> HIDE DEF ents
  <2>. QED BY <1>1, <2>1, <2>2
<1>4. ASSUME NEW s \in SessionIds, revoke_session(r, s) PROVE RevokedInv'
  <2> DEFINE ents == [t \in {s} |-> revoke(sessions[s])]
  <2>0. UNCHANGED SessionTable
    BY <1>4 DEF revoke_session
  <2>1. CASE End(r)
    <3>1. NoJob.at = "idle"
      BY DEF NoJob
    <3>. QED BY <2>0, <2>1, <3>1, RevokesMove, RevokesNothing DEF End, SessionTable
  <2>2. CASE ~End(r)
    <3>1. sessions[s] # None /\ Revoking(r, ents)
      BY <1>4, <2>2 DEF revoke_session
    <3>2. \A t \in DOMAIN ents : ents[t].revoked
      BY <3>1, RevokedSession DEF AccountsInv, TablesTyped
    <3> HIDE DEF ents
    <3>. QED BY <1>1, <2>0, <3>1, <3>2
  <2>. QED BY <2>1, <2>2
<1>5. CASE SaveSessions(r)
  <2> DEFINE base == [s \in DOMAIN job[r].rows |-> sessions[s]]
             j == [job[r] EXCEPT !.at = "commit", !.base = base]
  <2>1. job' = [job EXCEPT ![r] = j] /\ UNCHANGED SessionTable /\ job[r].at = "save"
    BY <1>5 DEF SaveSessions
  <2>2. DOMAIN job[r].rows \subseteq SessionIds
    BY <2>1 DEF AccountsInv, JobsSound, JobSound, TablesTyped, Revising
  <2>3. \A s \in DOMAIN job[r].rows : base[s] # None /\ base[s].revoked => ended[s] # "no"
    BY <2>2 DEF RevokedInv, SessionEnds
  <2> HIDE DEF base
  <2>4. j.at = "commit" /\ j.rows = job[r].rows /\ j.base = base
    BY <1>0 DEF AccountJob
  <2> HIDE DEF j
  <2>5. Revokes(j)
    BY <1>0, <2>1, <2>3, <2>4 DEF Revokes, Admitting, Revising
  <2>. QED BY <2>1, <2>5, RevokesMove DEF SessionTable
<1>. QED BY <1>2, <1>3, <1>4, <1>5

(* Sessions are written, and how they were revoked stays.                  *)
LEMMA RevokesJobs ==
    ASSUME AccountsInv, RevokedInv, NEW r \in Requests, NEW j, job' = [job EXCEPT ![r] = j],
           UNCHANGED ended, Revokes(j), \A s \in SessionIds : SessionEnds(s)'
    PROVE  RevokedInv'
<1>1. ASSUME NEW q \in Requests PROVE Revokes(job[q])'
  <2>1. PICK k : k = job'[q]
    OBVIOUS
  <2>2. Revokes(k)
    BY <2>1 DEF RevokedInv, AccountsInv, JobsSound
  <2>. QED BY <2>1, <2>2 DEF Revokes
<1>. QED BY <1>1 DEF RevokedInv

(* A touch writes back what it read, unless the session was revoked after  *)
(* it was found: then the request counts as overlapping.                   *)
LEMMA RevokedTouch ==
    ASSUME AccountsInv, RevokedInv, NEW r \in Requests, TouchCommit(r)
    PROVE  RevokedInv'
<1> DEFINE s == job[r].sid  ent == job[r].ent  base == job[r].base
<1>1. /\ job[r] \in AccountJob /\ Revokes(job[r]) /\ job[r].at = "touched" /\ s \in SessionIds
      /\ ent \in Session /\ base \in Session \cup {None} /\ sessions[s] \in Session \cup {None}
  BY DEF TouchCommit, AccountsInv, JobsSound, JobSound, TablesTyped, RevokedInv, Admitting
<1>2. CASE Writable(sessions[s], base)
  <2> DEFINE j == [job[r] EXCEPT !.at = "act", !.base = None]
             new == Written(sessions[s], ent, base)
  <2>1. /\ sessions' = [sessions EXCEPT ![s] = new] /\ job' = [job EXCEPT ![r] = j]
        /\ UNCHANGED <<issued, ended>>
    BY <1>2 DEF TouchCommit
  <2>2. Revokes(j)
    <3>1. j.at = "act"
      BY <1>1 DEF AccountJob
    <3> HIDE DEF j
    <3>. QED BY <3>1, RevokesNothing
  <2>3. ~ent.revoked /\ ended[s] # "alone"
    BY <1>1 DEF Revokes, Admitting
  <2>4. new.revoked => sessions[s] # None /\ sessions[s].revoked
    <3>1. CASE base = None
      BY <1>1, <1>2, <2>3, <3>1, WrittenSession
    <3>2. CASE base # None
      BY <1>1, <1>2, <2>3, <3>2, WrittenSession DEF Writable, Session
    <3>. QED BY <3>1, <3>2
  <2> HIDE DEF j, new, ent, base
  <2>5. ASSUME NEW t \in SessionIds PROVE SessionEnds(t)'
    <3>1. CASE t = s
      BY <1>1, <2>1, <2>3, <2>4, <3>1 DEF RevokedInv, SessionEnds, Revoked, AccountsInv, TablesTyped
    <3>2. CASE t # s
      BY <1>1, <2>1, <3>2 DEF RevokedInv, SessionEnds, Revoked, AccountsInv, TablesTyped
    <3>. QED BY <3>1, <3>2
  <2>. QED BY <2>1, <2>2, <2>5, RevokesJobs
<1>3. CASE ~Writable(sessions[s], base)
  <2>1. job' = [job EXCEPT ![r] = NoJob] /\ UNCHANGED <<sessions, issued, ended>>
    BY <1>3 DEF TouchCommit, End
  <2>2. NoJob.at = "idle"
    BY DEF NoJob
  <2>. QED BY <2>1, <2>2, RevokesMove, RevokesNothing
<1>. QED BY <1>2, <1>3

(* A commit of revocations leaves each of its sessions revoked if it was   *)
(* not revoked when it was read for the last time, and nobody else has it  *)
(* in hand when it is said to be revoked alone.                            *)
LEMMA RevokedCommit ==
    ASSUME AccountsInv, RevokedInv, NEW r \in Requests, CommitSessions(r)
    PROVE  RevokedInv'
<1> DEFINE ents == job[r].rows  base == job[r].base
           writable == \A s \in DOMAIN ents : Writable(sessions[s], base[s])
<1>1. /\ job[r].at = "commit" /\ job' = [job EXCEPT ![r] = NoJob] /\ UNCHANGED issued
      /\ NoJob.at = "idle" /\ Revokes(job[r])
  BY DEF CommitSessions, End, NoJob, RevokedInv
<1>2. CASE writable
  <2>1. /\ sessions' = [s \in SessionIds |->
                IF s \in DOMAIN ents THEN Written(sessions[s], ents[s], base[s]) ELSE sessions[s]]
        /\ ended' = [s \in SessionIds |->
                IF s \notin DOMAIN ents \/ ended[s] # "no" THEN ended[s]
                ELSE IF InUse(r, s) THEN "overlapped" ELSE "alone"]
    BY <1>2 DEF CommitSessions
  <2>2. ASSUME NEW s \in DOMAIN ents, ended[s] = "no" \/ ended[s] = "alone"
        PROVE  Written(sessions[s], ents[s], base[s]).revoked
    <3>1. /\ s \in SessionIds /\ ents[s] \in Session /\ base[s] \in Session \cup {None}
          /\ sessions[s] \in Session \cup {None}
      BY <1>1, Committing
    <3>2. ents[s].revoked /\ (base[s] # None /\ base[s].revoked => ended[s] # "no")
      BY <1>1 DEF Revokes, Revising
    <3>3. ended[s] = "alone" => sessions[s] = None \/ sessions[s].revoked
      BY <3>1 DEF RevokedInv, SessionEnds, Revoked
    <3>4. Writable(sessions[s], base[s])
      BY <1>2
    <3> HIDE DEF ents, base
    <3>5. CASE base[s] = None
      BY <3>1, <3>2, <3>4, <3>5, WrittenSession
    <3>6. CASE base[s] # None
      <4>1. Written(sessions[s], ents[s], base[s]).revoked =
              IF ents[s].revoked # base[s].revoked THEN ents[s].revoked ELSE sessions[s].revoked
        BY <3>1, <3>4, <3>6, WrittenSession
      <4>2. sessions[s] # None /\ base[s] \in Session
        BY <3>1, <3>4, <3>6 DEF Writable
      <4>. QED BY <2>2, <3>1, <3>2, <3>3, <3>6, <4>1, <4>2 DEF Session
    <3>. QED BY <3>5, <3>6
  <2>3. \A s \in DOMAIN ents : s \in issued /\ s \in SessionIds
    BY <1>1, Committing
  <2>4. ASSUME NEW q \in Requests PROVE Revokes(job[q])'
    <3>0. PICK k : k = job'[q]
      OBVIOUS
    <3>1. CASE q = r
      <4>1. k.at = "idle"
        BY <1>1, <3>0, <3>1 DEF AccountsInv, JobsSound
      <4>2. Revokes(k)'
        BY <4>1 DEF Revokes, Admitting, Revising
      <4>. QED BY <3>0, <4>2 DEF Revokes
    <3>2. CASE q # r
      <4>1. k = job[q] /\ Revokes(k)
        BY <1>1, <3>0, <3>2 DEF RevokedInv, AccountsInv, JobsSound
      <4>2. k.at \in Admitting => k.sid \in SessionIds /\ ended'[k.sid] # "alone"
        <5>1. ASSUME k.at \in Admitting PROVE k.sid \in SessionIds /\ InUse(r, k.sid)
          BY <3>2, <4>1, <5>1
             DEF AccountsInv, JobsSound, JobSound, TablesTyped, Admitting, InUse
        <5>. QED BY <2>1, <4>1, <5>1 DEF Revokes
      <4>3. k.at = "commit" => \A s \in DOMAIN k.rows : s \in SessionIds
        BY <4>1, Committing
      <4>4. \A s \in SessionIds : ended[s] # "no" => ended'[s] # "no"
        BY <2>1
      <4>5. Revokes(k)'
        BY <4>1, <4>2, <4>3, <4>4 DEF Revokes
      <4>. QED BY <3>0, <4>5 DEF Revokes
    <3>. QED BY <3>1, <3>2
  <2> HIDE DEF ents, base
  <2>5. ASSUME NEW s \in SessionIds PROVE SessionEnds(s)'
    <3>1. SessionEnds(s)
      BY DEF RevokedInv
    <3>2. CASE s \in DOMAIN ents
      <4>1. ended'[s] # "no" /\ (ended'[s] = "alone" => ended[s] \in {"no", "alone"})
        BY <2>1, <3>2
      <4>2. s \in issued'
        BY <1>1, <2>3, <3>2
      <4>3. ended'[s] = "alone" => sessions'[s].revoked
        BY <2>1, <2>2, <3>2, <4>1
      <4>. QED BY <4>1, <4>2, <4>3 DEF SessionEnds, Revoked
    <3>3. CASE s \notin DOMAIN ents
      <4>1. ended'[s] = ended[s] /\ sessions'[s] = sessions[s] /\ issued' = issued
        BY <1>1, <2>1, <3>3
      <4>. QED BY <3>1, <4>1 DEF SessionEnds, Revoked
    <3>. QED BY <3>2, <3>3
  <2>. QED BY <2>4, <2>5 DEF RevokedInv
<1>3. CASE ~writable
  <2>1. UNCHANGED <<sessions, ended>>
    BY <1>3 DEF CommitSessions
  <2>. QED BY <1>1, <2>1, RevokesMove, RevokesNothing
<1>. QED BY <1>2, <1>3

(* A session is issued under a new number; the clean-up deletes sessions.  *)
LEMMA RevokedOtherwise ==
    ASSUME AccountsInv, RevokedInv,
           \/ \E r \in Requests, s \in SessionIds : IssueSession(r, s)
           \/ \E s \in SessionIds : IdleTimePasses(s) \/ LifeTimePasses(s)
           \/ delete_inactive \/ UNCHANGED accountVars
    PROVE  RevokedInv'
<1>1. ASSUME NEW r \in Requests, NEW s \in SessionIds, IssueSession(r, s) PROVE RevokedInv'
  <2> DEFINE new == issue(job[r].who, job[r].row)
  <2>1. /\ s \notin issued /\ sessions' = [sessions EXCEPT ![s] = new] /\ issued' = issued \cup {s}
        /\ job' = [job EXCEPT ![r] = NoJob] /\ ended' = ended
    BY <1>1 DEF IssueSession, IsNext, End
  <2>2. NoJob.at = "idle" /\ ~new.revoked
    BY DEF NoJob, issue
  <2>3. ended[s] = "no"
    BY <2>1 DEF RevokedInv, SessionEnds
  <2> HIDE DEF new
  <2>4. ASSUME NEW t \in SessionIds PROVE SessionEnds(t)'
    BY <2>1, <2>2, <2>3 DEF RevokedInv, SessionEnds, Revoked, AccountsInv, TablesTyped
  <2>. QED BY <2>1, <2>2, <2>4, RevokesJobs, RevokesNothing
<1>2. ASSUME UNCHANGED <<issued, ended, job>>,
             \A s \in SessionIds : sessions'[s] = sessions[s] \/ sessions'[s] = None
      PROVE  RevokedInv'
  <2>1. \A s \in SessionIds : SessionEnds(s)'
    BY <1>2 DEF RevokedInv, SessionEnds, Revoked
  <2>2. \A r \in Requests : Revokes(job[r])'
    BY <1>2 DEF RevokedInv, Revokes
  <2>. QED BY <2>1, <2>2 DEF RevokedInv
<1>3. CASE delete_inactive
  BY <1>2, <1>3 DEF delete_inactive
<1>4. ASSUME NEW s \in SessionIds, IdleTimePasses(s) \/ LifeTimePasses(s) PROVE RevokedInv'
  BY <1>2, <1>4 DEF IdleTimePasses, LifeTimePasses
<1>5. CASE UNCHANGED accountVars
  BY <1>2, <1>5 DEF accountVars
<1>. QED BY <1>1, <1>3, <1>4, <1>5

LEMMA RevokedStep == AccountsInv /\ RevokedInv /\ [AccountsNext]_accountVars => RevokedInv'
<1> SUFFICES ASSUME AccountsInv, RevokedInv, [AccountsNext]_accountVars PROVE RevokedInv'
  OBVIOUS
<1>1. ASSUME NEW r \in Requests, NEW j, job' = [job EXCEPT ![r] = j],
             j.at \in Managing \cup {"idle", "issue"}, UNCHANGED SessionTable
      PROVE  RevokedInv'
  BY <1>1, RevokesMove, RevokesNothing DEF SessionTable
<1>. QED
  BY <1>1, OutsideSessions, RevokedAdmission, RevokedReading, RevokedTouch, RevokedCommit,
     RevokedOtherwise DEF AccountsNext

(* A session that was revoked while no request had it in hand is never     *)
(* accepted again, whatever requests touch, revoke and delete it after:    *)
(* a touch and a revocation write back what they read last.                *)
THEOREM RevocationsLast == AccountsSpec => []RevokedStays
<1>1. AccountsInit => RevokedInv
  <2> SUFFICES ASSUME NEW c \in Campaigns, NEW table \in Installations, AccountsStart(c, table)
               PROVE  RevokedInv
    BY DEF AccountsInit
  <2>1. \A s \in SessionIds : SessionEnds(s)
    <3>1. \A s \in SessionIds : ended[s] = "no"
      BY DEF AccountsStart
    <3>2. \A s \in SessionIds : sessions[s] = IF s \in enrolled THEN issue(s, users[s]) ELSE None
      BY DEF AccountsStart
    <3>3. \A s \in SessionIds : ~issue(s, users[s]).revoked
      BY DEF issue
    <3>. QED BY <3>1, <3>2, <3>3 DEF SessionEnds
  <2>2. \A r \in Requests : job[r].at = "idle"
    BY DEF AccountsStart, NoJob
  <2>. QED BY <2>1, <2>2, RevokesNothing DEF RevokedInv
<1>2. RevokedInv => RevokedStays
  BY DEF RevokedInv, SessionEnds, RevokedStays
<1>. QED BY <1>1, <1>2, AccountsTypedInitially, AccountsTypedStep, RevokedStep, PTL DEF AccountsSpec

-----------------------------------------------------------------------------
(* An old password is refused.                                             *)

(* The user k names is known, and nothing signed in with a later password: *)
(* k has the user's password if it has the user's version.                 *)
Current(k) ==
    /\ k.user \in enrolled
    /\ ~overwritten /\ users[k.user] # None =>
         /\ k.ver <= users[k.user].ver
         /\ k.ver = users[k.user].ver => k.pw = users[k.user].pw

(* A login holds what its user was, an update writes back what it read.    *)
Honest(j) ==
    /\ j.at = "issue" => Current(KeyOf(issue(j.who, j.row)))
    /\ ~overwritten /\ j.at = "write" /\ j.op = "update" =>
         j.ubase # None /\ j.row = update(j.ubase, j.change, j.num)

HonestInv == \A r \in Requests : Honest(job[r])

(* Whatever request j holds of a session is known by what the session was  *)
(* opened with.                                                            *)
Holding(j, o) ==
    /\ j.at \in Admitting \cup {"act"} => KeyOf(j.ent) = o[j.sid]
    /\ j.at = "touched" /\ j.base # None => KeyOf(j.base) = o[j.sid]
    /\ j.at \in Revising => \A s \in DOMAIN j.rows : KeyOf(j.rows[s]) = o[s]
    /\ j.at = "commit" => \A s \in DOMAIN j.rows : j.base[s] # None => KeyOf(j.base[s]) = o[s]

Opened(o) ==
    /\ \A s \in SessionIds : sessions[s] # None => KeyOf(sessions[s]) = o[s]
    /\ \A s \in issued : Current(o[s])
    /\ \A r \in Requests : Holding(job[r], o)

OpenedInv == HonestInv /\ \E o \in [SessionIds -> Key] : Opened(o)

(* What a session is opened with stays no newer than its user.             *)
LEMMA CurrentKept ==
    ASSUME AccountsInv, HonestInv, [AccountsNext]_accountVars, NEW k \in Key, Current(k)
    PROVE  Current(k)'
<1>1. ASSUME UNCHANGED <<users, enrolled>>, overwritten => overwritten' PROVE Current(k)'
  BY <1>1 DEF Current
<1>2. ASSUME NEW r \in Requests, CommitUser(r) PROVE Current(k)'
  <2> DEFINE u == job[r].who  base == job[r].ubase
             row == IF job[r].op = "delete" THEN (IF base = None THEN users[u] ELSE None)
                    ELSE IF Writable(users[u], base) THEN Written(users[u], job[r].row, base)
                    ELSE users[u]
  <2>1. /\ job[r].at = "write" /\ users' = [users EXCEPT ![u] = row] /\ enrolled' = enrolled
        /\ overwritten' = (overwritten \/ Outdated(r, base))
    BY <1>2 DEF CommitUser
  <2>2. /\ u \in Users /\ base \in User \cup {None} /\ job[r].row \in User
        /\ users[u] \in User \cup {None} /\ job[r].op \in {"update", "delete"}
        /\ job[r].change \in Changes /\ job[r].num \in Nat
    <3>1. job[r].num \in Nat
      BY DEF AccountsInv, JobsSound, AccountJob
    <3>. QED BY <2>1, <3>1 DEF JobSound, AccountsInv, TablesTyped, JobsSound, Managing
  <2>3. CASE job[r].op = "delete"
    <3>1. row = users[u] \/ row = None
      BY <2>3
    <3> HIDE DEF row, u, base
    <3>2. \A v \in Users : users'[v] = users[v] \/ users'[v] = None
      BY <2>1, <2>2, <3>1 DEF AccountsInv, TablesTyped
    <3>3. users'[k.user] = users[k.user] \/ users'[k.user] = None
      BY <3>2 DEF Key
    <3>. QED BY <2>1, <3>3 DEF Current
  <2>4. CASE job[r].op = "update" /\ ~overwritten'
    <3>1. users[u] = base /\ ~overwritten
      BY <2>1, <2>4 DEF Outdated
    <3>2. base # None /\ job[r].row = update(base, job[r].change, job[r].num)
      BY <2>1, <2>4, <3>1 DEF HonestInv, Honest
    <3>3. row = job[r].row
      BY <2>2, <2>4, <3>1, <3>2, WrittenUser DEF Writable
    <3>4. base \in User
      BY <2>2, <3>2
    <3>5. /\ base.ver <= row.ver /\ (base.ver = row.ver => base.pw = row.pw)
          /\ base.ver \in Nat /\ row.ver \in Nat
      <4>1. base.ver \in Nat /\ row.ver \in Nat
        BY <2>2, <3>3, <3>4 DEF User
      <4>2. row = update(base, job[r].change, job[r].num)
        BY <3>2, <3>3
      <4> HIDE DEF row, base, u
      <4>3. /\ row.ver = IF job[r].change = "password" THEN base.ver + 1 ELSE base.ver
            /\ job[r].change # "password" => row.pw = base.pw
        BY <2>2, <3>4, <4>2, UpdatedRow
      <4>. QED BY <4>1, <4>3
    <3>6. k.ver \in Nat
      BY DEF Key
    <3> HIDE DEF row, base, u
    <3>7. CASE k.user = u
      <4>1. users'[k.user] = row /\ users[k.user] = base
        BY <2>1, <2>2, <3>1, <3>7 DEF AccountsInv, TablesTyped
      <4>. QED BY <2>1, <3>1, <3>2, <3>5, <3>6, <4>1 DEF Current
    <3>8. CASE k.user # u
      <4>1. users'[k.user] = users[k.user]
        BY <2>1, <3>8 DEF AccountsInv, TablesTyped, Key
      <4>. QED BY <2>1, <3>1, <4>1 DEF Current
    <3>. QED BY <3>7, <3>8
  <2>5. CASE overwritten'
    BY <2>1, <2>5 DEF Current
  <2>. QED BY <2>2, <2>3, <2>4, <2>5
<1>3. ASSUME NEW r \in Requests, NEW u \in Users, NEW role \in {"admin", "viewer"},
             NEW active \in BOOLEAN, create_user(r, u, role, active)
      PROVE  Current(k)'
  <2>1. /\ u \notin enrolled /\ enrolled' = enrolled \cup {u} /\ overwritten' = overwritten
        /\ users' = [users EXCEPT ![u] = NewUser(role, active, job[r].num)]
    BY <1>3 DEF create_user
  <2>2. k.user # u /\ k.user \in Users
    BY <2>1 DEF Current, Key
  <2>3. users'[k.user] = users[k.user]
    BY <2>1, <2>2 DEF AccountsInv, TablesTyped
  <2>. QED BY <2>1, <2>3 DEF Current
<1>4. ASSUME NEW r \in Requests, SaveUser(r) PROVE Current(k)'
  BY <1>1, <1>4 DEF SaveUser
<1>5. ASSUME NEW r \in Requests, NEW u \in Users, NEW change \in Changes, ReadTarget(r, u, change)
      PROVE  Current(k)'
  BY <1>1, <1>5 DEF ReadTarget, Accounts
<1>6. ASSUME NEW r \in Requests, ensure_other_admin_exists(r) PROVE Current(k)'
  BY <1>1, <1>6 DEF ensure_other_admin_exists, Accounts
<1>7. ASSUME NEW r \in Requests, NEW u \in Users, FindLogin(r, u) PROVE Current(k)'
  BY <1>1, <1>7, LoginFound DEF Accounts
<1>8. ASSUME NEW s \in SessionIds, IdleTimePasses(s) \/ LifeTimePasses(s) PROVE Current(k)'
  BY <1>1, <1>8 DEF IdleTimePasses, LifeTimePasses, Accounts
<1>9. CASE delete_inactive
  BY <1>1, <1>9 DEF delete_inactive, Accounts
<1>10. CASE UNCHANGED accountVars
  BY <1>1, <1>10 DEF accountVars
<1>. QED
  BY <1>1, <1>2, <1>3, <1>4, <1>5, <1>6, <1>7, <1>8, <1>9, <1>10, OutsideManagement
     DEF AccountsNext

(* What a login that is to issue a session holds is a key.                 *)
LEMMA LoginKey ==
    ASSUME AccountsInv, NEW r \in Requests, job[r].at = "issue"
    PROVE  KeyOf(issue(job[r].who, job[r].row)) \in Key
BY DEF AccountsInv, JobsSound, JobSound, TablesTyped, KeyOf, issue, Key, User

(* One request moves on, the others stay honest.                           *)
LEMMA HonestMove ==
    ASSUME AccountsInv, HonestInv, [AccountsNext]_accountVars, overwritten => overwritten',
           NEW r \in Requests, NEW j, job' = [job EXCEPT ![r] = j], Honest(j)'
    PROVE  HonestInv'
<1> SUFFICES ASSUME NEW q \in Requests PROVE Honest(job[q])'
  BY DEF HonestInv
<1>0. PICK k : k = job'[q]
  OBVIOUS
<1>1. CASE q = r
  <2>1. k = j
    BY <1>0, <1>1 DEF AccountsInv, JobsSound
  <2>2. Honest(k)'
    BY <2>1
  <2>. QED BY <1>0, <2>2 DEF Honest
<1>2. CASE q # r
  <2>1. k = job[q] /\ Honest(k)
    BY <1>0, <1>2 DEF AccountsInv, JobsSound, HonestInv
  <2>2. k.at = "issue" => Current(KeyOf(issue(k.who, k.row)))'
    BY <2>1, LoginKey, CurrentKept DEF Honest
  <2>3. Honest(k)'
    BY <2>1, <2>2 DEF Honest
  <2>. QED BY <1>0, <2>3 DEF Honest
<1>. QED BY <1>1, <1>2

(* Logins and updates hold what they read.                                 *)
LEMMA HonestStep == AccountsInv /\ HonestInv /\ [AccountsNext]_accountVars => HonestInv'
<1> SUFFICES ASSUME AccountsInv, HonestInv, [AccountsNext]_accountVars PROVE HonestInv'
  OBVIOUS
<1>1. ASSUME NEW r \in Requests, NEW j, job' = [job EXCEPT ![r] = j], j.at \notin {"issue", "write"},
             overwritten => overwritten'
      PROVE  HonestInv'
  <2>1. Honest(j)'
    BY <1>1 DEF Honest
  <2>. QED BY <1>1, <2>1, HonestMove
<1>2. ASSUME NEW r \in Requests, NEW u \in Users, FindLogin(r, u) PROVE HonestInv'
  <2>1. PICK j : job' = [job EXCEPT ![r] = j] /\ j.at = "issue" /\ j.who = u /\ j.row = users[u]
    BY <1>2, LoginFound
  <2>2. users[u] # None /\ UNCHANGED <<users, enrolled, overwritten>>
    BY <1>2, LoginFound DEF Accounts
  <2>3. users[u] \in User /\ u \in enrolled
    BY <2>2 DEF AccountsInv, TablesTyped
  <2>4. Current(KeyOf(issue(j.who, j.row)))'
    <3>1. /\ KeyOf(issue(j.who, j.row)).user = u /\ KeyOf(issue(j.who, j.row)).ver = users[u].ver
          /\ KeyOf(issue(j.who, j.row)).pw = users[u].pw
      BY <2>1 DEF KeyOf, issue
    <3>2. users[u].ver \in Nat
      BY <2>3 DEF User
    <3>. QED BY <2>2, <2>3, <3>1, <3>2 DEF Current
  <2>5. Honest(j)'
    BY <2>1, <2>4 DEF Honest
  <2>. QED BY <2>1, <2>2, <2>5, HonestMove
<1>3. ASSUME NEW r \in Requests, SaveUser(r) PROVE HonestInv'
  <2> DEFINE row == IF job[r].op = "update" THEN update(job[r].row, job[r].change, job[r].num)
                    ELSE job[r].row
             j == [job[r] EXCEPT !.at = "write", !.ubase = users[job[r].who], !.row = row]
  <2>1. /\ job' = [job EXCEPT ![r] = j] /\ job[r].at = "change"
        /\ overwritten' = (overwritten \/ Outdated(r, job[r].row))
    BY <1>3 DEF SaveUser
  <2>2. job[r] \in AccountJob /\ job[r].row \in User
    BY <2>1 DEF AccountsInv, JobsSound, JobSound, Managing
  <2>3. /\ j.at = "write" /\ j.row = row /\ j.ubase = users[job[r].who]
        /\ j.change = job[r].change /\ j.op = job[r].op /\ j.num = job[r].num
    BY <2>2 DEF AccountJob
  <2>4. j.op = "update" => row = update(job[r].row, j.change, j.num)
    BY <2>3
  <2> HIDE DEF j, row
  <2>5. PICK k : k = j
    OBVIOUS
  <2>6. ~overwritten' /\ k.op = "update" => k.ubase # None /\ k.row = update(k.ubase, k.change, k.num)
    BY <2>1, <2>2, <2>3, <2>4, <2>5, NoneAssumption DEF Outdated
  <2>7. Honest(k)'
    BY <2>3, <2>5, <2>6 DEF Honest
  <2>. QED BY <2>1, <2>5, <2>7, HonestMove
<1>4. ASSUME NEW r \in Requests, CommitUser(r) PROVE HonestInv'
  <2>1. job' = [job EXCEPT ![r] = NoJob] /\ (overwritten => overwritten')
    BY <1>4 DEF CommitUser, End
  <2>2. NoJob.at = "idle"
    BY DEF NoJob
  <2>. QED BY <1>1, <2>1, <2>2
<1>5. ASSUME NEW r \in Requests, NEW u \in Users, NEW role \in {"admin", "viewer"},
             NEW active \in BOOLEAN, create_user(r, u, role, active)
      PROVE  HonestInv'
  <2>1. job' = [job EXCEPT ![r] = NoJob] /\ overwritten' = overwritten
    BY <1>5 DEF create_user, End
  <2>2. NoJob.at = "idle"
    BY DEF NoJob
  <2>. QED BY <1>1, <2>1, <2>2
<1>6. ASSUME NEW r \in Requests, NEW u \in Users, NEW change \in Changes, ReadTarget(r, u, change)
      PROVE  HonestInv'
  <2> DEFINE at == IF NeedsOtherAdmin(users[u], job[r].op, change) THEN "check" ELSE "change"
             j == [job[r] EXCEPT !.who = u, !.row = users[u], !.change = change, !.at = at]
  <2>1. job' = [job EXCEPT ![r] = NoJob] \/ job' = [job EXCEPT ![r] = j]
    BY <1>6 DEF ReadTarget, End
  <2>2. j.at = at
    BY DEF AccountsInv, JobsSound, AccountJob
  <2>3. NoJob.at = "idle" /\ overwritten' = overwritten
    BY <1>6 DEF NoJob, ReadTarget, Accounts
  <2>4. at \in {"check", "change"}
    OBVIOUS
  <2> HIDE DEF j, at
  <2>. QED BY <1>1, <2>1, <2>2, <2>3, <2>4
<1>7. ASSUME NEW r \in Requests, ensure_other_admin_exists(r) PROVE HonestInv'
  <2> DEFINE j == [job[r] EXCEPT !.at = "change"]
  <2>1. job' = [job EXCEPT ![r] = NoJob] \/ job' = [job EXCEPT ![r] = j]
    BY <1>7 DEF ensure_other_admin_exists, JobGoesTo, End
  <2>2. j.at = "change"
    BY DEF AccountsInv, JobsSound, AccountJob
  <2>3. NoJob.at = "idle" /\ overwritten' = overwritten
    BY <1>7 DEF NoJob, ensure_other_admin_exists, Accounts
  <2> HIDE DEF j
  <2>. QED BY <1>1, <2>1, <2>2, <2>3
<1>8. ASSUME UNCHANGED <<users, enrolled, overwritten, job>> PROVE HonestInv'
  BY <1>8 DEF HonestInv, Honest, Current
<1>9. ASSUME NEW s \in SessionIds, IdleTimePasses(s) \/ LifeTimePasses(s) PROVE HonestInv'
  BY <1>8, <1>9 DEF IdleTimePasses, LifeTimePasses, Accounts
<1>10. CASE delete_inactive
  BY <1>8, <1>10 DEF delete_inactive, Accounts
<1>11. CASE UNCHANGED accountVars
  BY <1>8, <1>11 DEF accountVars
<1>12. ASSUME NEW r \in Requests, NEW j, job' = [job EXCEPT ![r] = j], overwritten' = overwritten,
              j.at \notin Managing \cup {"issue"}
       PROVE  HonestInv'
  BY <1>1, <1>12 DEF Managing
<1>. QED
  BY <1>2, <1>3, <1>4, <1>5, <1>6, <1>7, <1>9, <1>10, <1>11, <1>12, OutsideManagement
     DEF AccountsNext

(* One request moves on, and the sessions that are stored are still known  *)
(* by what they were opened with.                                          *)
LEMMA OpenedMove ==
    ASSUME AccountsInv, HonestInv, [AccountsNext]_accountVars,
           NEW o \in [SessionIds -> Key], Opened(o), UNCHANGED issued,
           NEW r \in Requests, NEW j, job' = [job EXCEPT ![r] = j], Holding(j, o),
           \A s \in SessionIds : sessions'[s] # None => KeyOf(sessions'[s]) = o[s]
    PROVE  Opened(o)'
<1>1. \A s \in issued' : Current(o[s])'
  <2> SUFFICES ASSUME NEW s \in issued PROVE Current(o[s])'
    OBVIOUS
  <2>1. PICK k \in Key : k = o[s]
    BY DEF AccountsInv, TablesTyped
  <2>2. Current(k)
    BY <2>1 DEF Opened
  <2>3. Current(k)'
    BY <2>2, CurrentKept
  <2>. QED BY <2>1, <2>3 DEF Current
<1>2. \A q \in Requests : Holding(job'[q], o)
  BY DEF AccountsInv, JobsSound, Opened
<1>. QED BY <1>1, <1>2 DEF Opened, Holding

(* A request that is not under way, is to issue a session, or manages      *)
(* users holds no session.                                                 *)
LEMMA HoldsNothing ==
    ASSUME NEW j, NEW o, j.at \in Managing \cup {"idle", "issue"}
    PROVE  Holding(j, o)
BY DEF Holding, Managing, Admitting, Revising

(* The steps of a request that is admitted, reads or revokes; what it      *)
(* holds comes from the table or from what it held.                        *)
LEMMA OpenedLocals ==
    ASSUME AccountsInv, HonestInv, [AccountsNext]_accountVars,
           NEW o \in [SessionIds -> Key], Opened(o), NEW r \in Requests,
           \/ \E op \in AllOps, s \in SessionIds : FindSession(r, op, s)
           \/ FindUser(r) \/ TouchRead(r) \/ AnswerRead(r)
           \/ logout(r) \/ logout_all(r) \/ \E s \in SessionIds : revoke_session(r, s)
           \/ SaveSessions(r)
    PROVE  Opened(o)'
<1>0. job[r] \in AccountJob /\ Holding(job[r], o) /\ JobSound(job[r], issued, enrolled)
  BY DEF AccountsInv, JobsSound, Opened
<1>1. ASSUME NEW j, job' = [job EXCEPT ![r] = j], Holding(j, o), UNCHANGED SessionTable
      PROVE  Opened(o)'
  BY <1>1, OpenedMove DEF SessionTable, Opened
<1>2. ASSUME End(r), UNCHANGED SessionTable PROVE Opened(o)'
  <2>1. NoJob.at = "idle"
    BY DEF NoJob
  <2>. QED BY <1>1, <1>2, <2>1, HoldsNothing DEF End
<1>3. ASSUME NEW op \in AllOps, NEW s \in SessionIds, FindSession(r, op, s) PROVE Opened(o)'
  <2> DEFINE j == [[NoJob EXCEPT !.at = "user", !.sid = s, !.ent = sessions[s]]
                     EXCEPT !.op = op, !.num = started + 1]
  <2>1. job' = [job EXCEPT ![r] = j] /\ UNCHANGED SessionTable /\ sessions[s] # None
    BY <1>3 DEF FindSession, Begin, is_active
  <2>2. j.at = "user" /\ j.sid = s /\ j.ent = sessions[s]
    BY DEF NoJob
  <2> HIDE DEF j
  <2>3. Holding(j, o)
    BY <2>1, <2>2 DEF Holding, Opened, Admitting, Revising
  <2>. QED BY <1>1, <2>1, <2>3
<1>4. CASE FindUser(r)
  <2>1. ASSUME NEW at \in {"touch", "act"}, NEW admin,
               job' = [job EXCEPT ![r].at = at, ![r].admin = admin]
        PROVE  Opened(o)'
    <3> DEFINE j == [job[r] EXCEPT !.at = at, !.admin = admin]
    <3>1. job' = [job EXCEPT ![r] = j] /\ UNCHANGED SessionTable /\ job[r].at = "user"
      BY <1>4, <2>1 DEF FindUser
    <3>2. j.at = at /\ j.ent = job[r].ent /\ j.sid = job[r].sid
      BY <1>0 DEF AccountJob
    <3> HIDE DEF j
    <3>3. Holding(j, o)
      BY <1>0, <3>1, <3>2 DEF Holding, Admitting, Revising
    <3>. QED BY <1>1, <3>1, <3>3
  <2>2. \/ End(r)
        \/ \E at \in {"touch", "act"} :
             job' = [job EXCEPT ![r].at = at,
                                ![r].admin = (users[job[r].ent.user].role = "admin")]
    BY <1>4 DEF FindUser
  <2>3. UNCHANGED SessionTable
    BY <1>4 DEF FindUser
  <2>. QED BY <1>2, <2>1, <2>2, <2>3
<1>5. CASE TouchRead(r)
  <2> DEFINE j == [job[r] EXCEPT !.at = "touched", !.base = sessions[job[r].sid]]
  <2>1. /\ job' = [job EXCEPT ![r] = j] /\ UNCHANGED SessionTable /\ job[r].at = "touch"
        /\ job[r].sid \in SessionIds
    BY <1>0, <1>5 DEF TouchRead, JobSound, AccountsInv, TablesTyped, Admitting
  <2>2. j.at = "touched" /\ j.ent = job[r].ent /\ j.sid = job[r].sid /\ j.base = sessions[job[r].sid]
    BY <1>0 DEF AccountJob
  <2> HIDE DEF j
  <2>3. Holding(j, o)
    BY <1>0, <2>1, <2>2 DEF Holding, Opened, Admitting, Revising
  <2>. QED BY <1>1, <2>1, <2>3
<1>6. CASE AnswerRead(r)
  BY <1>2, <1>6 DEF AnswerRead
<1>7. ASSUME NEW ents, Revoking(r, ents), \A s \in DOMAIN ents : KeyOf(ents[s]) = o[s],
             UNCHANGED SessionTable
      PROVE  Opened(o)'
  <2> DEFINE j == [job[r] EXCEPT !.at = "save", !.rows = ents]
  <2>1. job' = [job EXCEPT ![r] = j]
    BY <1>7 DEF Revoking
  <2>2. j.at = "save" /\ j.rows = ents
    BY <1>0 DEF AccountJob
  <2> HIDE DEF j
  <2>3. Holding(j, o)
    BY <1>7, <2>2 DEF Holding, Admitting, Revising
  <2>. QED BY <1>1, <1>7, <2>1, <2>3
<1>8. CASE logout(r)
  <2> DEFINE ents == [s \in {job[r].sid} |-> revoke(job[r].ent)]
  <2>1. Revoking(r, ents) /\ UNCHANGED SessionTable
    BY <1>8 DEF logout
  <2>2. job[r].ent \in Session /\ KeyOf(job[r].ent) = o[job[r].sid]
    BY <1>0, <1>8, Revocations DEF logout, At, Holding
  <2>3. \A s \in DOMAIN ents : KeyOf(ents[s]) = o[s]
    BY <2>2, RevokedSession
  <2> HIDE DEF ents
  <2>. QED BY <1>7, <2>1, <2>3
<1>9. CASE logout_all(r)
  <2> DEFINE D == find_active_by_user_id(job[r].ent.user)
             ents == [s \in D |-> revoke(sessions[s])]
  <2>1. Revoking(r, ents) /\ UNCHANGED SessionTable
    BY <1>9 DEF logout_all
  <2>2. \A s \in D : s \in SessionIds /\ sessions[s] # None /\ sessions[s] \in Session
    BY Revocations DEF find_active_by_user_id, is_active
  <2> HIDE DEF D
  <2>3. \A s \in DOMAIN ents : KeyOf(ents[s]) = o[s]
    BY <2>2, RevokedSession DEF Opened
  <2> HIDE DEF ents
  <2>. QED BY <1>7, <2>1, <2>3
<1>10. ASSUME NEW s \in SessionIds, revoke_session(r, s) PROVE Opened(o)'
  <2> DEFINE ents == [t \in {s} |-> revoke(sessions[s])]
  <2>0. UNCHANGED SessionTable
    BY <1>10 DEF revoke_session
  <2>1. CASE End(r)
    BY <1>2, <2>0, <2>1
  <2>2. CASE ~End(r)
    <3>1. sessions[s] # None /\ Revoking(r, ents)
      BY <1>10, <2>2 DEF revoke_session
    <3>2. \A t \in DOMAIN ents : KeyOf(ents[t]) = o[t]
      BY <3>1, RevokedSession DEF AccountsInv, TablesTyped, Opened
    <3> HIDE DEF ents
    <3>. QED BY <1>7, <2>0, <3>1, <3>2
  <2>. QED BY <2>1, <2>2
<1>11. CASE SaveSessions(r)
  <2> DEFINE base == [s \in DOMAIN job[r].rows |-> sessions[s]]
             j == [job[r] EXCEPT !.at = "commit", !.base = base]
  <2>1. job' = [job EXCEPT ![r] = j] /\ UNCHANGED SessionTable /\ job[r].at = "save"
    BY <1>11 DEF SaveSessions
  <2>2. DOMAIN job[r].rows \subseteq SessionIds
    BY <1>0, <2>1 DEF AccountsInv, JobSound, TablesTyped, Revising
  <2>3. \A s \in DOMAIN job[r].rows : base[s] # None => KeyOf(base[s]) = o[s]
    BY <2>2 DEF Opened
  <2> HIDE DEF base
  <2>4. j.at = "commit" /\ j.rows = job[r].rows /\ j.base = base
    BY <1>0 DEF AccountJob
  <2> HIDE DEF j
  <2>5. Holding(j, o)
    BY <1>0, <2>1, <2>3, <2>4 DEF Holding, Admitting, Revising
  <2>. QED BY <1>1, <2>1, <2>5
<1>. QED BY <1>3, <1>4, <1>5, <1>6, <1>8, <1>9, <1>10, <1>11

(* The steps that write sessions, but for those that issue them.           *)
LEMMA OpenedWrites ==
    ASSUME AccountsInv, HonestInv, [AccountsNext]_accountVars,
           NEW o \in [SessionIds -> Key], Opened(o),
           (\E r \in Requests : TouchCommit(r) \/ CommitSessions(r)) \/ delete_inactive
    PROVE  Opened(o)'
<1>1. ASSUME NEW r \in Requests, TouchCommit(r) PROVE Opened(o)'
  <2> DEFINE s == job[r].sid  ent == job[r].ent  base == job[r].base
             j == [job[r] EXCEPT !.at = "act", !.base = None]
             new == Written(sessions[s], ent, base)
  <2>1. /\ job[r] \in AccountJob /\ job[r].at = "touched" /\ s \in SessionIds /\ issued' = issued
        /\ ent \in Session /\ base \in Session \cup {None} /\ sessions[s] \in Session \cup {None}
        /\ KeyOf(ent) = o[s] /\ (base # None => KeyOf(base) = o[s])
        /\ sessions[s] # None => KeyOf(sessions[s]) = o[s]
    BY <1>1 DEF TouchCommit, AccountsInv, JobsSound, JobSound, TablesTyped, Admitting, Opened, Holding
  <2>2. CASE Writable(sessions[s], base)
    <3>1. sessions' = [sessions EXCEPT ![s] = new] /\ job' = [job EXCEPT ![r] = j]
      BY <1>1, <2>2 DEF TouchCommit
    <3>2. j.at = "act" /\ j.sid = s /\ j.ent = ent
      BY <2>1 DEF AccountJob
    <3>3. KeyOf(new) = o[s]
      <4>1. CASE base = None
        BY <2>1, <2>2, <4>1, WrittenSession
      <4>2. CASE base # None
        <5>1. sessions[s] # None
          BY <2>2, <4>2 DEF Writable
        <5>. QED BY <2>1, <2>2, <4>2, <5>1, WrittenSession
      <4>. QED BY <4>1, <4>2
    <3> HIDE DEF j, new, ent, base, s
    <3>4. Holding(j, o)
      BY <2>1, <3>2 DEF Holding, Admitting, Revising
    <3>5. \A t \in SessionIds : sessions'[t] # None => KeyOf(sessions'[t]) = o[t]
      BY <2>1, <3>1, <3>3 DEF Opened, AccountsInv, TablesTyped
    <3>. QED BY <2>1, <3>1, <3>4, <3>5, OpenedMove
  <2>3. CASE ~Writable(sessions[s], base)
    <3>1. job' = [job EXCEPT ![r] = NoJob] /\ UNCHANGED sessions
      BY <1>1, <2>3 DEF TouchCommit, End
    <3>2. NoJob.at = "idle"
      BY DEF NoJob
    <3>. QED BY <2>1, <3>1, <3>2, HoldsNothing, OpenedMove DEF Opened
  <2>. QED BY <2>2, <2>3
<1>2. ASSUME NEW r \in Requests, CommitSessions(r) PROVE Opened(o)'
  <2> DEFINE ents == job[r].rows  base == job[r].base
             writable == \A s \in DOMAIN ents : Writable(sessions[s], base[s])
  <2>1. /\ job[r].at = "commit" /\ job' = [job EXCEPT ![r] = NoJob] /\ issued' = issued
        /\ NoJob.at = "idle" /\ Holding(job[r], o)
    BY <1>2 DEF CommitSessions, End, NoJob, Opened
  <2>2. \A s \in SessionIds : sessions'[s] # None => KeyOf(sessions'[s]) = o[s]
    <3>1. CASE writable
      <4>1. sessions' = [s \in SessionIds |->
                IF s \in DOMAIN ents THEN Written(sessions[s], ents[s], base[s]) ELSE sessions[s]]
        BY <1>2, <3>1 DEF CommitSessions
      <4>2. ASSUME NEW s \in DOMAIN ents PROVE KeyOf(Written(sessions[s], ents[s], base[s])) = o[s]
        <5>1. /\ s \in SessionIds /\ ents[s] \in Session /\ base[s] \in Session \cup {None}
              /\ sessions[s] \in Session \cup {None}
          BY <2>1, Committing
        <5>2. /\ KeyOf(ents[s]) = o[s] /\ (base[s] # None => KeyOf(base[s]) = o[s])
              /\ sessions[s] # None => KeyOf(sessions[s]) = o[s]
          BY <2>1, <5>1 DEF Holding, Revising, Opened
        <5>3. Writable(sessions[s], base[s])
          BY <3>1
        <5> HIDE DEF ents, base
        <5>4. CASE base[s] = None
          BY <5>1, <5>2, <5>3, <5>4, WrittenSession
        <5>5. CASE base[s] # None
          <6>1. sessions[s] # None
            BY <5>3, <5>5 DEF Writable
          <6>. QED BY <5>1, <5>2, <5>3, <5>5, <6>1, WrittenSession
        <5>. QED BY <5>4, <5>5
      <4> HIDE DEF ents, base
      <4>. QED BY <4>1, <4>2 DEF Opened
    <3>2. CASE ~writable
      BY <1>2, <3>2 DEF CommitSessions, Opened
    <3>. QED BY <3>1, <3>2
  <2>. QED BY <2>1, <2>2, HoldsNothing, OpenedMove
<1>3. CASE delete_inactive
  <2>1. /\ \A s \in SessionIds : sessions'[s] = sessions[s] \/ sessions'[s] = None
        /\ UNCHANGED <<users, enrolled, overwritten, issued, job>>
    BY <1>3 DEF delete_inactive, Accounts
  <2>2. \A s \in issued' : Current(o[s])'
    BY <2>1 DEF Opened, Current
  <2>. QED BY <2>1, <2>2 DEF Opened, Holding
<1>. QED BY <1>1, <1>2, <1>3

(* A session is issued: what it is known by from now on is what the login  *)
(* had read.                                                               *)
LEMMA OpenedIssue ==
    ASSUME AccountsInv, HonestInv, [AccountsNext]_accountVars,
           NEW o \in [SessionIds -> Key], Opened(o),
           NEW r \in Requests, NEW s \in SessionIds, IssueSession(r, s)
    PROVE  \E p \in [SessionIds -> Key] : Opened(p)'
<1>1. /\ job[r].at = "issue" /\ s \notin issued /\ issued' = issued \cup {s}
      /\ sessions' = [sessions EXCEPT ![s] = issue(job[r].who, job[r].row)]
      /\ job' = [job EXCEPT ![r] = NoJob] /\ NoJob.at = "idle"
  BY DEF IssueSession, IsNext, End, NoJob
<1>2. PICK k \in Key : k = KeyOf(issue(job[r].who, job[r].row))
  BY <1>1, LoginKey
<1>3. Current(k)
  BY <1>1, <1>2 DEF HonestInv, Honest
<1>4. PICK p : p = [o EXCEPT ![s] = k]
  OBVIOUS
<1>5. /\ p \in [SessionIds -> Key] /\ p[s] = k
      /\ \A t \in SessionIds : t # s => p[t] = o[t]
  BY <1>4
<1>6. \A t \in SessionIds : sessions'[t] # None => KeyOf(sessions'[t]) = p[t]
  BY <1>1, <1>2, <1>5 DEF Opened, AccountsInv, TablesTyped
<1>7. ASSUME NEW t \in issued' PROVE Current(p[t])'
  <2>1. PICK i \in Key : i = p[t]
    BY <1>1, <1>5 DEF AccountsInv, TablesTyped
  <2>2. Current(i)
    BY <1>1, <1>3, <1>5, <2>1 DEF Opened, AccountsInv, TablesTyped
  <2>3. Current(i)'
    BY <2>2, CurrentKept
  <2>. QED BY <2>1, <2>3 DEF Current
<1>8. ASSUME NEW q \in Requests PROVE Holding(job'[q], p)
  <2>1. CASE q = r
    <3>1. job'[q] = NoJob
      BY <1>1, <2>1 DEF AccountsInv, JobsSound
    <3>. QED BY <1>1, <3>1, HoldsNothing
  <2>2. CASE q # r
    <3>1. job'[q] = job[q] /\ Holding(job[q], o) /\ JobSound(job[q], issued, enrolled)
      BY <1>1, <2>2 DEF AccountsInv, JobsSound, Opened
    <3>2. \A t \in issued : p[t] = o[t]
      BY <1>1, <1>5 DEF AccountsInv, TablesTyped
    <3>. QED BY <3>1, <3>2 DEF Holding, JobSound, Admitting, Revising
  <2>. QED BY <2>1, <2>2
<1>9. Opened(p)'
  BY <1>6, <1>7, <1>8 DEF Opened, Holding
<1>. QED BY <1>5, <1>9

(* The invariant is kept.                                                  *)
LEMMA OpenedStep == AccountsInv /\ OpenedInv /\ [AccountsNext]_accountVars => OpenedInv'
<1> SUFFICES ASSUME AccountsInv, OpenedInv, [AccountsNext]_accountVars PROVE OpenedInv'
  OBVIOUS
<1>1. HonestInv /\ HonestInv'
  BY HonestStep DEF OpenedInv
<1>2. PICK o \in [SessionIds -> Key] : Opened(o)
  BY DEF OpenedInv
<1>3. ASSUME NEW r \in Requests, NEW j, job' = [job EXCEPT ![r] = j],
             j.at \in Managing \cup {"idle", "issue"}, UNCHANGED SessionTable
      PROVE  Opened(o)'
  BY <1>1, <1>2, <1>3, HoldsNothing, OpenedMove DEF SessionTable, Opened
<1>4. ASSUME UNCHANGED <<users, enrolled, overwritten, sessions, issued, job>> PROVE Opened(o)'
  BY <1>2, <1>4 DEF Opened, Current, Holding
<1>5. ASSUME NEW s \in SessionIds, IdleTimePasses(s) \/ LifeTimePasses(s) PROVE Opened(o)'
  BY <1>4, <1>5 DEF IdleTimePasses, LifeTimePasses, Accounts
<1>6. ASSUME UNCHANGED accountVars PROVE Opened(o)'
  BY <1>4, <1>6 DEF accountVars
<1>7. ASSUME NEW r \in Requests,
             \/ \E u \in Users, change \in Changes : ReadTarget(r, u, change)
             \/ ensure_other_admin_exists(r) \/ SaveUser(r) \/ CommitUser(r)
             \/ \E u \in Users, role \in {"admin", "viewer"}, active \in BOOLEAN :
                  create_user(r, u, role, active)
             \/ \E u \in Users : FindLogin(r, u)
      PROVE  Opened(o)'
  BY <1>3, <1>7, OutsideSessions
<1>8. ASSUME NEW r \in Requests,
             \/ \E op \in AllOps, s \in SessionIds : FindSession(r, op, s)
             \/ FindUser(r) \/ TouchRead(r) \/ AnswerRead(r)
             \/ logout(r) \/ logout_all(r) \/ \E s \in SessionIds : revoke_session(r, s)
             \/ SaveSessions(r)
      PROVE  Opened(o)'
  BY <1>1, <1>2, <1>8, OpenedLocals
<1>9. ASSUME (\E r \in Requests : TouchCommit(r) \/ CommitSessions(r)) \/ delete_inactive
      PROVE  Opened(o)'
  BY <1>1, <1>2, <1>9, OpenedWrites
<1>10. ASSUME NEW r \in Requests, NEW s \in SessionIds, IssueSession(r, s)
       PROVE  \E p \in [SessionIds -> Key] : Opened(p)'
  BY <1>1, <1>2, <1>10, OpenedIssue
<1>11. Opened(o)' \/ \E p \in [SessionIds -> Key] : Opened(p)'
  BY <1>5, <1>6, <1>7, <1>8, <1>9, <1>10 DEF AccountsNext
<1>12. \E p \in [SessionIds -> Key] : Opened(p)'
  BY <1>2, <1>11
<1>. QED BY <1>1, <1>12 DEF OpenedInv

(* A session that passes has the version of its user, and so its password. *)
LEMMA PasswordChecked ==
    ASSUME AccountsInv, OpenedInv, [AccountsNext]_accountVars, NEW r \in Requests,
           job[r].at = "user", job'[r].at \in {"touch", "act"}, ~overwritten
    PROVE  /\ users[job[r].ent.user] # None
           /\ users[job[r].ent.user].pw = job[r].ent.pw
<1>1. PICK o \in [SessionIds -> Key] : Opened(o)
  BY DEF OpenedInv
<1>2. job[r].sid \in issued /\ job[r].ent \in Session /\ KeyOf(job[r].ent) = o[job[r].sid]
  BY <1>1 DEF AccountsInv, JobsSound, JobSound, Opened, Holding, Admitting
<1>3. Current(KeyOf(job[r].ent))
  BY <1>1, <1>2 DEF Opened
<1>4. FindUser(r)
  <2>1. ASSUME NEW q \in Requests, NEW j, job' = [job EXCEPT ![q] = j] PROVE q = r
    BY <2>1 DEF AccountsInv, JobsSound
  <2>2. ASSUME NEW j, job' = [job EXCEPT ![r] = j], j.at \notin {"touch", "act"} PROVE FALSE
    BY <2>2 DEF AccountsInv, JobsSound
  <2>3. ASSUME NEW q \in Requests, End(q) PROVE FALSE
    <3>1. NoJob.at = "idle"
      BY DEF NoJob
    <3>. QED BY <2>1, <2>2, <2>3, <3>1 DEF End
  <2>4. job' # job
    OBVIOUS
  <2>5. ASSUME NEW q \in Requests,
               \/ \E u \in Users, change \in Changes : ReadTarget(q, u, change)
               \/ ensure_other_admin_exists(q) \/ SaveUser(q) \/ CommitUser(q)
               \/ \E u \in Users, role \in {"admin", "viewer"}, active \in BOOLEAN :
                    create_user(q, u, role, active)
               \/ \E u \in Users : FindLogin(q, u)
        PROVE  FALSE
    <3>1. PICK j : job' = [job EXCEPT ![q] = j] /\ j.at \in Managing \cup {"idle", "issue"}
      BY <2>5, OutsideSessions
    <3>. QED BY <2>1, <2>2, <3>1 DEF Managing
  <2>6. ASSUME NEW q \in Requests,
               \/ \E op \in AllOps, s \in SessionIds : FindSession(q, op, s)
               \/ TouchRead(q) \/ TouchCommit(q) \/ AnswerRead(q)
               \/ logout(q) \/ logout_all(q) \/ \E s \in SessionIds : revoke_session(q, s)
               \/ SaveSessions(q) \/ CommitSessions(q)
               \/ \E s \in SessionIds : IssueSession(q, s)
        PROVE  FALSE
    <3>1. job[q].at # "user"
      BY <2>6 DEF FindSession, Begin, TouchRead, TouchCommit, AnswerRead, logout, logout_all,
                  revoke_session, SaveSessions, CommitSessions, IssueSession, At
    <3>2. PICK j : job' = [job EXCEPT ![q] = j]
      BY <2>6, OutsideManagement
    <3>. QED BY <2>1, <3>1, <3>2
  <2>7. ASSUME NEW q \in Requests, FindUser(q) PROVE FindUser(r)
    <3>1. PICK j : job' = [job EXCEPT ![q] = j]
      BY <2>7, OutsideManagement
    <3>. QED BY <2>1, <2>7, <3>1
  <2>8. ASSUME NEW s \in SessionIds, IdleTimePasses(s) \/ LifeTimePasses(s) PROVE FALSE
    BY <2>4, <2>8 DEF IdleTimePasses, LifeTimePasses
  <2>9. ~delete_inactive /\ ~UNCHANGED accountVars
    BY <2>4 DEF delete_inactive, accountVars
  <2>. QED BY <2>5, <2>6, <2>7, <2>8, <2>9 DEF AccountsNext
<1>5. Accepted(job[r].ent, users[job[r].ent.user])
  <2>1. ASSUME End(r) PROVE FALSE
    BY <2>1 DEF End, NoJob, AccountsInv, JobsSound
  <2>. QED BY <1>4, <2>1 DEF FindUser
<1>. QED BY <1>3, <1>5 DEF Accepted, Current, KeyOf

(* As long as no update has written back a row that had changed since it   *)
(* was read, a session whose password was replaced is refused: what a      *)
(* session holds is never newer than its user, and a password comes with a *)
(* version of its own.                                                     *)
THEOREM ReplacedPasswordsRefused == AccountsSpec => OldPasswordRefused
<1>1. AccountsInit => OpenedInv
  <2> SUFFICES ASSUME NEW c \in Campaigns, NEW table \in Installations, AccountsStart(c, table)
               PROVE  OpenedInv
    BY DEF AccountsInit
  <2>1. AccountsInv
    BY AccountsTypedInitially DEF AccountsInit
  <2>2. \A r \in Requests : job[r].at = "idle"
    BY DEF AccountsStart, NoJob
  <2>3. HonestInv
    BY <2>2 DEF HonestInv, Honest
  <2>4. PICK a \in Users : users[a] = NewUser("admin", TRUE, 0)
    BY DEF AccountsStart, Installations
  <2>5. /\ \A u \in enrolled : u \in Users /\ users[u] # None /\ users[u] \in User
        /\ a \in enrolled
    <3>1. enrolled = {u \in Users : users[u] # None} /\ users \in [Users -> User \cup {None}]
      BY <2>1 DEF AccountsInv, TablesTyped, AccountsStart
    <3>2. NewUser("admin", TRUE, 0) \in User
      BY DEF NewUser, User
    <3>. QED BY <2>4, <3>1, <3>2, NoneAssumption
  <2>6. ASSUME NEW u \in enrolled
        PROVE  /\ KeyOf(issue(u, users[u])) \in Key
               /\ Current(KeyOf(issue(u, users[u])))
    <3>1. users[u].ver \in Nat /\ users[u].pw \in Nat
      BY <2>5 DEF User
    <3>2. KeyOf(issue(u, users[u])) = [user |-> u, ver |-> users[u].ver, pw |-> users[u].pw]
      BY DEF KeyOf, issue
    <3>. QED BY <2>5, <3>1, <3>2 DEF Key, Current
  <2>7. PICK o : o = [s \in SessionIds |-> IF s \in enrolled THEN KeyOf(issue(s, users[s]))
                                           ELSE KeyOf(issue(a, users[a]))]
    OBVIOUS
  <2>8. o \in [SessionIds -> Key] /\ \A s \in SessionIds : Current(o[s])
    BY <2>5, <2>6, <2>7
  <2>9. \A s \in SessionIds : sessions[s] # None => KeyOf(sessions[s]) = o[s]
    BY <2>7 DEF AccountsStart
  <2>10. Opened(o)
    BY <2>1, <2>2, <2>8, <2>9, HoldsNothing DEF Opened, AccountsInv, TablesTyped
  <2>. QED BY <2>3, <2>8, <2>10 DEF OpenedInv
<1>2. AccountsInv /\ OpenedInv /\ [AccountsNext]_accountVars =>
        [\A r \in Requests :
           job[r].at = "user" /\ job'[r].at \in {"touch", "act"} /\ ~overwritten =>
             /\ users[job[r].ent.user] # None
             /\ users[job[r].ent.user].pw = job[r].ent.pw]_accountVars
  BY PasswordChecked
<1>. QED BY <1>1, <1>2, AccountsTypedInitially, AccountsTypedStep, OpenedStep, PTL
         DEF AccountsSpec, OldPasswordRefused

-----------------------------------------------------------------------------
(* Retries of alerts. *)


(* The variables have their types. *)
RetryTypeOK ==
    /\ rows \in Seq(AlertRow) /\ aged \in Nat
    /\ sweep \in [todo : SUBSET Nat, sending : Nat, pending : Seq(AlertRow)]
    /\ man \in [of : Nat, ok : BOOLEAN]
    /\ alerts \in 0..MaxAlerts /\ cutOffs \in Nat
    /\ autos \in [1..MaxAlerts -> Nat] /\ manuals \in [1..MaxAlerts -> Nat]
    /\ dropped \in [1..MaxAlerts -> Nat]

(* Committed rows, those that start a chain of attempts, those that have   *)
(* been sent again automatically, and those that the sweep has in hand.    *)
Rows == 1..Len(rows)
Roots(a) == {i \in Rows : rows[i].attempt = 0 /\ rows[i].alert = a}
Tried == {rows[i].of : i \in {j \in Rows : rows[j].attempt > 0}}
Recorded == {sweep.pending[k].of : k \in 1..Len(sweep.pending)}
Sending == IF sweep.sending = 0 THEN {} ELSE {sweep.sending}
Spent(a) == {i \in Tried \cup Recorded \cup Sending : rows[i].alert = a}

(* Those of an alert that the sweep has in hand. *)
Gone(a) == {i \in Recorded \cup Sending : rows[i].alert = a}

(* A row is about an earlier one, an automatic attempt one more than it.   *)
Follows(r) ==
    /\ r.of \in Rows /\ rows[r.of].attempt < MAX_AUTO_RETRY_ATTEMPTS
    /\ r.attempt = rows[r.of].attempt + 1 /\ r.alert = rows[r.of].alert
RowsSound ==
    \A i \in Rows : /\ rows[i].of < i /\ rows[i].alert <= alerts
                    /\ rows[i].attempt > 0 => Follows(rows[i])

(* What the sweep has before it or in hand has not been sent again, and no *)
(* row is in two places.                                                   *)
SweepSound ==
    /\ \A i \in sweep.todo \cup Sending :
         /\ i \in Rows /\ rows[i].attempt < MAX_AUTO_RETRY_ATTEMPTS
         /\ i \notin Tried \cup Recorded
    /\ sweep.sending \notin sweep.todo
    /\ \A k \in 1..Len(sweep.pending) :
         /\ Follows(sweep.pending[k]) /\ sweep.pending[k].of \notin Tried
         /\ \A l \in 1..Len(sweep.pending) : sweep.pending[k].of = sweep.pending[l].of => k = l

(* A row is known by the root of its chain and the number of its attempt.  *)
Chains(root) ==
    /\ root \in [Rows -> Rows]
    /\ \A i \in Rows :
         /\ rows[root[i]].attempt = 0 /\ rows[root[i]].alert = rows[i].alert
         /\ IF rows[i].attempt = 0 THEN root[i] = i ELSE root[i] = root[rows[i].of]
    /\ \A i, j \in Rows : root[i] = root[j] /\ rows[i].attempt = rows[j].attempt => i = j

(* No two attempts of a chain have the same number. *)
AttemptsApart == \E root \in [Rows -> Rows] : Chains(root)

(* The alert's own failure and each retry by hand start one chain; a retry *)
(* by hand has been counted before its row is there.                       *)
Underway(a) == IF man # NoManual /\ rows[man.of].alert = a THEN 1 ELSE 0
RootsCounted ==
    /\ man = NoManual \/ man.of \in Rows
    /\ \A a \in 1..MaxAlerts :
         Cardinality(Roots(a)) + Underway(a) <= (IF a <= alerts THEN 1 ELSE 0) + manuals[a]

(* Each automatic attempt is a row that was sent again, or was dropped. *)
AttemptsCounted ==
    \A a \in 1..MaxAlerts : autos[a] <= Cardinality(Spent(a)) + dropped[a]

RetryInv ==
    RetryTypeOK /\ RowsSound /\ SweepSound /\ AttemptsApart /\ RootsCounted /\ AttemptsCounted

-----------------------------------------------------------------------------

(* Committed rows are rows.                                                *)
LEMMA RowTyped == ASSUME RetryTypeOK PROVE \A i \in Rows : rows[i] \in AlertRow
BY DEF RetryTypeOK, Rows

(* What was sent, or is being sent, again are rows with attempts left.     *)
LEMMA SpentAreRows ==
    ASSUME RetryTypeOK, RowsSound, SweepSound
    PROVE  \A i \in Tried \cup Recorded \cup Sending :
             i \in Rows /\ rows[i].attempt < MAX_AUTO_RETRY_ATTEMPTS
<1>1. ASSUME NEW i \in Tried PROVE i \in Rows /\ rows[i].attempt < MAX_AUTO_RETRY_ATTEMPTS
  <2>1. PICK j \in Rows : rows[j].attempt > 0 /\ rows[j].of = i
    BY <1>1 DEF Tried
  <2>2. Follows(rows[j])
    BY <2>1 DEF RowsSound
  <2>. QED BY <2>1, <2>2 DEF Follows
<1>2. ASSUME NEW i \in Recorded PROVE i \in Rows /\ rows[i].attempt < MAX_AUTO_RETRY_ATTEMPTS
  <2>1. PICK k \in 1..Len(sweep.pending) : sweep.pending[k].of = i
    BY <1>2 DEF Recorded
  <2>2. Follows(sweep.pending[k])
    BY <2>1 DEF SweepSound
  <2>. QED BY <2>1, <2>2 DEF Follows
<1>3. ASSUME NEW i \in Sending PROVE i \in Rows /\ rows[i].attempt < MAX_AUTO_RETRY_ATTEMPTS
  BY <1>3 DEF SweepSound
<1>. QED BY <1>1, <1>2, <1>3

(* Sets of rows are finite.                                                *)
LEMMA RowSetsFinite ==
    ASSUME RetryTypeOK, RowsSound, SweepSound, NEW a
    PROVE  /\ IsFiniteSet(Rows) /\ Spent(a) \subseteq Rows
           /\ IsFiniteSet(Roots(a)) /\ Cardinality(Roots(a)) \in Nat
           /\ IsFiniteSet(Spent(a)) /\ Cardinality(Spent(a)) \in Nat
<1>1. IsFiniteSet(Rows)
  <2>1. Len(rows) \in Nat
    BY DEF RetryTypeOK
  <2>. QED BY <2>1, FS_Interval DEF Rows
<1>2. Spent(a) \subseteq Rows
  BY SpentAreRows DEF Spent
<1>3. Roots(a) \subseteq Rows
  BY DEF Roots
<1>. QED BY <1>1, <1>2, <1>3, FS_Subset, FS_CardinalityType

(* Each attempt of an alert has a root and a number of its own, so there   *)
(* are no more than MAX_AUTO_RETRY_ATTEMPTS for each root.                 *)
LEMMA SpentBounded ==
    ASSUME RetryTypeOK, RowsSound, SweepSound, AttemptsApart, NEW a
    PROVE  Cardinality(Spent(a)) <= Cardinality(Roots(a)) * MAX_AUTO_RETRY_ATTEMPTS
<1>1. PICK root \in [Rows -> Rows] : Chains(root)
  BY DEF AttemptsApart
<1> DEFINE Numbers == 0..(MAX_AUTO_RETRY_ATTEMPTS - 1)
           place == [i \in Spent(a) |-> <<root[i], rows[i].attempt>>]
<1>2. \A i \in Spent(a) : rows[i].attempt \in Numbers
  <2> SUFFICES ASSUME NEW i \in Spent(a) PROVE rows[i].attempt \in Numbers
    OBVIOUS
  <2>1. i \in Rows /\ rows[i].attempt < MAX_AUTO_RETRY_ATTEMPTS
    BY SpentAreRows DEF Spent
  <2>2. rows[i].attempt \in Nat
    BY <2>1, RowTyped DEF AlertRow
  <2>. QED BY <2>1, <2>2, LimitsAssumption
<1>3. Spent(a) \subseteq Rows /\ IsFiniteSet(Roots(a)) /\ Cardinality(Roots(a)) \in Nat
  BY RowSetsFinite
<1>4. \A i \in Spent(a) : root[i] \in Roots(a)
  BY <1>1, <1>3 DEF Chains, Roots, Spent
<1>5. \A i, j \in Spent(a) : place[i] = place[j] => i = j
  BY <1>1, <1>3 DEF Chains
<1>6. place \in [Spent(a) -> Roots(a) \X Numbers]
  BY <1>2, <1>4
<1>7. place \in Injection(Spent(a), Roots(a) \X Numbers)
  BY <1>5, <1>6 DEF Injection, IsInjective
<1>8. IsFiniteSet(Numbers) /\ Cardinality(Numbers) = MAX_AUTO_RETRY_ATTEMPTS
  BY LimitsAssumption, FS_Interval
<1>9. /\ IsFiniteSet(Roots(a) \X Numbers)
      /\ Cardinality(Roots(a) \X Numbers) = Cardinality(Roots(a)) * Cardinality(Numbers)
  BY <1>3, <1>8, FS_Product
<1>. QED BY <1>7, <1>8, <1>9, FS_Injection

(* Products keep the order.                                                *)
LEMMA TimesMonotonic ==
    ASSUME NEW m \in Nat, NEW x \in Nat, NEW y \in Nat, x <= y
    PROVE  x * m <= m * y
<1>1. PICK d \in Nat : y = x + d
  <2>1. y - x \in Nat /\ y = x + (y - x)
    OBVIOUS
  <2>. QED BY <2>1
<1>2. m * y = m * x + m * d /\ m * d \in Nat /\ m * x = x * m
  BY <1>1
<1>. QED BY <1>2

(* The invariant bounds the attempts.                                      *)
LEMMA InvariantBounds == RetryInv => RetriesBounded
<1> SUFFICES ASSUME RetryInv, NEW a \in 1..MaxAlerts
             PROVE  autos[a] <= MAX_AUTO_RETRY_ATTEMPTS * (1 + manuals[a]) + dropped[a]
  BY DEF RetriesBounded, RetryInv, RetryTypeOK
<1> DEFINE r == Cardinality(Roots(a))  s == Cardinality(Spent(a))  m == MAX_AUTO_RETRY_ATTEMPTS
<1>1. r \in Nat /\ s \in Nat
  BY RowSetsFinite DEF RetryInv
<1>2. s <= r * m
  BY SpentBounded DEF RetryInv
<1>3. r <= 1 + manuals[a] /\ manuals[a] \in Nat /\ alerts \in Nat
  BY <1>1 DEF RetryInv, RootsCounted, RetryTypeOK, Underway
<1>4. r * m <= m * (1 + manuals[a])
  <2> HIDE DEF r
  <2>. QED BY <1>1, <1>3, TimesMonotonic, LimitsAssumption
<1>5. autos[a] <= s + dropped[a] /\ autos[a] \in Nat /\ dropped[a] \in Nat
  BY DEF RetryInv, AttemptsCounted, RetryTypeOK
<1>6. r * m \in Nat /\ m * (1 + manuals[a]) \in Nat
  <2> HIDE DEF r
  <2>. QED BY <1>1, <1>3, LimitsAssumption
<1> HIDE DEF r, s, m
<1>. QED BY <1>1, <1>2, <1>4, <1>5, <1>6 DEF m

-----------------------------------------------------------------------------

(* The invariant holds when the manager is installed.                      *)
LEMMA RetryInitially == RetryInit => RetryInv
<1> SUFFICES ASSUME RetryInit PROVE RetryInv
  OBVIOUS
<1>1. rows = << >> /\ Rows = {} /\ \A a : Roots(a) = {} /\ Spent(a) = {}
  BY DEF RetryInit, Rows, Roots, Spent, Tried, Recorded, Sending, NoSweep
<1>2. RetryTypeOK
  BY AlertBoundsAssumption DEF RetryInit, RetryTypeOK, NoSweep, NoManual, NoCount
<1>3. RowsSound
  BY <1>1 DEF RowsSound
<1>4. SweepSound
  BY DEF RetryInit, SweepSound, NoSweep, Sending
<1>5. AttemptsApart
  <2>1. [i \in Rows |-> i] \in [Rows -> Rows] /\ Chains([i \in Rows |-> i])
    BY <1>1 DEF Chains
  <2>. QED BY <2>1 DEF AttemptsApart
<1>6. RootsCounted
  <2>1. \A a : Cardinality(Roots(a)) = 0 /\ Underway(a) = 0
    BY <1>1, FS_EmptySet DEF RetryInit, Underway
  <2>2. man = NoManual /\ \A a \in 1..MaxAlerts : a > 0 /\ manuals[a] = 0
    BY DEF RetryInit, NoCount
  <2>. QED BY <2>1, <2>2 DEF RetryInit, RootsCounted
<1>7. AttemptsCounted
  BY <1>1, FS_EmptySet DEF RetryInit, AttemptsCounted, NoCount
<1>. QED BY <1>2, <1>3, <1>4, <1>5, <1>6, <1>7 DEF RetryInv

(* One more row.                                                           *)
LEMMA RowAppended ==
    ASSUME RetryTypeOK, NEW r \in AlertRow, rows' = Append(rows, r)
    PROVE  /\ rows' \in Seq(AlertRow) /\ Len(rows) + 1 \in Nat
           /\ Rows' = Rows \cup {Len(rows) + 1} /\ Len(rows) + 1 \notin Rows
           /\ rows'[Len(rows) + 1] = r /\ \A i \in Rows : rows'[i] = rows[i]
<1>1. /\ rows' \in Seq(AlertRow) /\ Len(rows) \in Nat /\ Len(rows') = Len(rows) + 1
      /\ rows'[Len(rows) + 1] = r /\ \A i \in 1..Len(rows) : rows'[i] = rows[i]
  BY DEF RetryTypeOK
<1>. QED BY <1>1 DEF Rows

(* A row that starts a chain disturbs nothing that the sweep has in hand.  *)
LEMMA RootAdded ==
    ASSUME RetryInv, NEW n \in Nat, Rows' = Rows \cup {n}, n \notin Rows,
           \A i \in Rows : rows'[i] = rows[i],
           NEW r \in AlertRow, rows'[n] = r, r.attempt = 0, r.of < n,
           alerts' \in Nat, alerts <= alerts', r.alert <= alerts', sweep' = sweep
    PROVE  /\ RowsSound' /\ SweepSound' /\ AttemptsApart'
           /\ \A a : Spent(a)' = Spent(a)
           /\ \A a : Roots(a)' = Roots(a) \cup (IF r.alert = a THEN {n} ELSE {})
<1>3. \A i \in Rows : rows[i] \in AlertRow
  BY RowTyped DEF RetryInv
<1>4. Tried' = Tried
  <2>1. \A j : j \in Rows' /\ rows'[j].attempt > 0 <=> j \in Rows /\ rows[j].attempt > 0
    OBVIOUS
  <2>2. \A j \in Rows : rows'[j].of = rows[j].of
    OBVIOUS
  <2>. QED BY <2>1, <2>2 DEF Tried
<1>5. Recorded' = Recorded /\ Sending' = Sending
  BY DEF Recorded, Sending
<1>6. \A q : Follows(q) => Follows(q)'
  BY DEF Follows
<1>7. RowsSound'
  <2> SUFFICES ASSUME NEW i \in Rows'
               PROVE  /\ rows'[i].of < i /\ rows'[i].alert <= alerts'
                      /\ rows'[i].attempt > 0 => Follows(rows[i])'
    BY DEF RowsSound
  <2>1. CASE i = n
    BY <2>1
  <2>2. CASE i \in Rows
    <3>1. rows'[i] = rows[i] /\ rows[i].alert \in Nat /\ alerts \in Nat
      BY <2>2, <1>3 DEF AlertRow, RetryInv, RetryTypeOK
    <3>2. rows[i].of < i /\ rows[i].alert <= alerts /\ (rows[i].attempt > 0 => Follows(rows[i]))
      BY <2>2 DEF RetryInv, RowsSound
    <3>. QED BY <3>1, <3>2, <1>6
  <2>. QED BY <2>1, <2>2
<1>8. SweepSound'
  <2>1. \A i \in sweep.todo \cup Sending : i \in Rows
    BY DEF RetryInv, SweepSound
  <2>. QED BY <1>4, <1>5, <1>6, <2>1 DEF RetryInv, SweepSound
<1>9. AttemptsApart'
  <2>1. PICK root \in [Rows -> Rows] : Chains(root)
    BY DEF RetryInv, AttemptsApart
  <2>2. [i \in Rows' |-> IF i = n THEN n ELSE root[i]] \in [Rows' -> Rows']
    OBVIOUS
  <2>3. PICK next \in [Rows' -> Rows'] : next[n] = n /\ \A i \in Rows : next[i] = root[i]
    BY <2>2
  <2>4. \A i \in Rows' : /\ rows'[next[i]].attempt = 0
                         /\ rows'[next[i]].alert = rows'[i].alert
    BY <2>1, <2>3 DEF Chains
  <2>5. \A i \in Rows' : IF rows'[i].attempt = 0 THEN next[i] = i
                         ELSE next[i] = next[rows'[i].of]
    <3>1. \A i \in Rows : rows[i].attempt # 0 => rows[i].of \in Rows
      BY <1>3 DEF RetryInv, RowsSound, Follows, AlertRow
    <3>. QED BY <3>1, <2>1, <2>3 DEF Chains
  <2>6. \A i, j \in Rows' : next[i] = next[j] /\ rows'[i].attempt = rows'[j].attempt => i = j
    BY <2>1, <2>3 DEF Chains
  <2>7. Chains(next)'
    BY <2>4, <2>5, <2>6 DEF Chains
  <2>. QED BY <2>7 DEF AttemptsApart
<1>10. ASSUME NEW a PROVE Spent(a)' = Spent(a)
  <2>1. Tried \cup Recorded \cup Sending \subseteq Rows
    BY SpentAreRows DEF RetryInv
  <2>. QED BY <2>1, <1>4, <1>5 DEF Spent
<1>11. ASSUME NEW a
       PROVE  Roots(a)' = Roots(a) \cup (IF r.alert = a THEN {n} ELSE {})
  BY DEF Roots
<1>. QED BY <1>7, <1>8, <1>9, <1>10, <1>11

-----------------------------------------------------------------------------
(* One step per operation.                                                 *)

(* An event is announced.                                                  *)
LEMMA NewAlertStep ==
    ASSUME RetryInv, NEW ok \in BOOLEAN, NewAlert(ok) PROVE RetryInv'
<1> DEFINE n == Len(rows) + 1
           r == [ok |-> ok, of |-> 0, attempt |-> 0, alert |-> alerts + 1]
<1>1. /\ alerts < MaxAlerts /\ alerts' = alerts + 1 /\ rows' = Append(rows, r)
      /\ UNCHANGED <<aged, sweep, man, autos, manuals, dropped, cutOffs>>
  BY DEF NewAlert
<1>2. /\ alerts \in Nat /\ alerts' \in 0..MaxAlerts /\ alerts' \in Nat /\ alerts <= alerts'
      /\ alerts' \in 1..MaxAlerts
  BY <1>1, AlertBoundsAssumption DEF RetryInv, RetryTypeOK
<1>3. r \in AlertRow /\ r.attempt = 0 /\ r.of = 0 /\ r.alert = alerts'
  BY <1>1, <1>2 DEF AlertRow
<1> HIDE DEF r
<1>4. /\ rows' \in Seq(AlertRow) /\ n \in Nat /\ Rows' = Rows \cup {n} /\ n \notin Rows
      /\ rows'[n] = r /\ \A i \in Rows : rows'[i] = rows[i]
  BY <1>1, <1>3, RowAppended DEF RetryInv
<1>5. r.of < n
  BY <1>3 DEF RetryInv, RetryTypeOK
<1> HIDE DEF n
<1>6. /\ RowsSound' /\ SweepSound' /\ AttemptsApart'
      /\ \A a : Spent(a)' = Spent(a)
      /\ \A a : Roots(a)' = Roots(a) \cup (IF r.alert = a THEN {n} ELSE {})
  <2>1. r.alert <= alerts'
    BY <1>2, <1>3
  <2>. QED BY <1>1, <1>2, <1>3, <1>4, <1>5, <2>1, RootAdded
<1>7. RetryTypeOK'
  BY <1>1, <1>2, <1>4 DEF RetryInv, RetryTypeOK
<1>8. RootsCounted'
  <2>1. man' = NoManual \/ man'.of \in Rows'
    BY <1>1, <1>4 DEF RetryInv, RootsCounted
  <2>2. ASSUME NEW a \in 1..MaxAlerts
        PROVE  Cardinality(Roots(a))' + Underway(a)'
                 <= (IF a <= alerts' THEN 1 ELSE 0) + manuals'[a]
    <3>1. Underway(a)' = Underway(a)
      BY <1>1, <1>4 DEF Underway, RetryInv, RootsCounted
    <3>2. /\ Cardinality(Roots(a)) \in Nat /\ IsFiniteSet(Roots(a))
          /\ manuals[a] \in Nat /\ Underway(a) \in Nat
      BY RowSetsFinite DEF RetryInv, RetryTypeOK, Underway
    <3>3. Cardinality(Roots(a)) + Underway(a) <= (IF a <= alerts THEN 1 ELSE 0) + manuals[a]
      BY DEF RetryInv, RootsCounted
    <3>4. CASE a = alerts'
      <4>1. Cardinality(Roots(a))' = Cardinality(Roots(a)) + 1
        <5>1. Roots(a)' = Roots(a) \cup {n} /\ n \notin Roots(a)
          BY <1>3, <1>4, <1>6, <3>4 DEF Roots
        <5>. QED BY <5>1, <3>2, FS_AddElement
      <4>. QED BY <4>1, <3>1, <3>2, <3>3, <3>4, <1>1, <1>2
    <3>5. CASE a # alerts'
      <4>1. Roots(a)' = Roots(a)
        BY <1>3, <1>6, <3>5
      <4>2. a <= alerts' <=> a <= alerts
        BY <1>1, <1>2, <3>5
      <4>. QED BY <4>1, <4>2, <3>1, <3>3, <1>1
    <3>. QED BY <3>4, <3>5
  <2>. QED BY <2>1, <2>2 DEF RootsCounted
<1>9. AttemptsCounted'
  BY <1>1, <1>6 DEF RetryInv, AttemptsCounted
<1>. QED BY <1>6, <1>7, <1>8, <1>9 DEF RetryInv

(* The retry by hand is recorded, as the start of another chain.           *)
LEMMA ManualRecordStep ==
    ASSUME RetryInv, ManualRecord PROVE RetryInv'
<1> DEFINE n == Len(rows) + 1
           r == [ok |-> man.ok, of |-> man.of, attempt |-> 0, alert |-> rows[man.of].alert]
<1>1. /\ man # NoManual /\ man' = NoManual /\ rows' = Append(rows, r)
      /\ UNCHANGED <<aged, sweep, alerts, autos, manuals, dropped, cutOffs>>
  BY DEF ManualRecord
<1>2. /\ man.of \in Rows /\ rows[man.of] \in AlertRow /\ rows[man.of].alert <= alerts
      /\ alerts \in Nat /\ man.ok \in BOOLEAN
  BY <1>1, RowTyped DEF RetryInv, RetryTypeOK, RootsCounted, RowsSound
<1>3. /\ r \in AlertRow /\ r.attempt = 0 /\ r.of = man.of /\ r.alert = rows[man.of].alert
  BY <1>2 DEF AlertRow, Rows
<1> HIDE DEF r
<1>4. /\ rows' \in Seq(AlertRow) /\ n \in Nat /\ Rows' = Rows \cup {n} /\ n \notin Rows
      /\ rows'[n] = r /\ \A i \in Rows : rows'[i] = rows[i]
  BY <1>1, <1>3, RowAppended DEF RetryInv
<1>5. r.of < n
  BY <1>2, <1>3 DEF RetryInv, RetryTypeOK, Rows
<1> HIDE DEF n
<1>6. /\ RowsSound' /\ SweepSound' /\ AttemptsApart'
      /\ \A a : Spent(a)' = Spent(a)
      /\ \A a : Roots(a)' = Roots(a) \cup (IF r.alert = a THEN {n} ELSE {})
  <2>1. r.alert <= alerts' /\ alerts <= alerts' /\ alerts' \in Nat /\ sweep' = sweep
    BY <1>1, <1>2, <1>3
  <2>. QED BY <1>3, <1>4, <1>5, <2>1, RootAdded
<1>7. RetryTypeOK'
  BY <1>1, <1>4 DEF RetryInv, RetryTypeOK, NoManual
<1>8. RootsCounted'
  <2>1. ASSUME NEW a \in 1..MaxAlerts
        PROVE  Cardinality(Roots(a))' + Underway(a)'
                 <= (IF a <= alerts' THEN 1 ELSE 0) + manuals'[a]
    <3>1. Underway(a)' = 0 /\ Underway(a) = IF r.alert = a THEN 1 ELSE 0
      BY <1>1, <1>3 DEF Underway
    <3>2. Cardinality(Roots(a)) \in Nat /\ IsFiniteSet(Roots(a)) /\ manuals[a] \in Nat
      BY RowSetsFinite DEF RetryInv, RetryTypeOK
    <3>3. Cardinality(Roots(a)) + Underway(a) <= (IF a <= alerts THEN 1 ELSE 0) + manuals[a]
      BY DEF RetryInv, RootsCounted
    <3>4. CASE r.alert = a
      <4>1. Cardinality(Roots(a))' = Cardinality(Roots(a)) + 1
        <5>1. Roots(a)' = Roots(a) \cup {n} /\ n \notin Roots(a)
          BY <1>4, <1>6, <3>4 DEF Roots
        <5>. QED BY <5>1, <3>2, FS_AddElement
      <4>. QED BY <4>1, <3>1, <3>2, <3>3, <3>4, <1>1
    <3>5. CASE r.alert # a
      <4>1. Roots(a)' = Roots(a)
        BY <1>6, <3>5
      <4>. QED BY <4>1, <3>1, <3>3, <3>5, <1>1
    <3>. QED BY <3>4, <3>5
  <2>. QED BY <2>1, <1>1 DEF RootsCounted
<1>9. AttemptsCounted'
  BY <1>1, <1>6 DEF RetryInv, AttemptsCounted
<1>. QED BY <1>6, <1>7, <1>8, <1>9 DEF RetryInv

(* While the rows stay, so does all that is said about them.               *)
LEMMA RowsKept ==
    ASSUME RetryInv, UNCHANGED <<rows, alerts>>
    PROVE  /\ RowsSound' /\ AttemptsApart' /\ Rows' = Rows /\ Tried' = Tried
           /\ \A a : Roots(a)' = Roots(a)
           /\ \A q : Follows(q)' = Follows(q)
<1>1. Rows' = Rows /\ Tried' = Tried /\ \A a : Roots(a)' = Roots(a)
  BY DEF Rows, Tried, Roots
<1>2. \A q : Follows(q)' = Follows(q)
  BY <1>1 DEF Follows
<1>3. RowsSound'
  BY <1>1, <1>2 DEF RetryInv, RowsSound
<1>4. AttemptsApart'
  BY <1>1 DEF RetryInv, AttemptsApart, Chains
<1>. QED BY <1>1, <1>2, <1>3, <1>4

(* Rows get old.                                                           *)
LEMMA AgeStep == ASSUME RetryInv, RowsAge PROVE RetryInv'
<1>1. UNCHANGED <<rows, sweep, man, alerts, autos, manuals, dropped, cutOffs>> /\ aged' \in Nat
  BY DEF RowsAge, RetryInv, RetryTypeOK
<1>2. RowsSound' /\ AttemptsApart' /\ Rows' = Rows /\ Tried' = Tried /\ \A a : Roots(a)' = Roots(a)
      /\ \A q : Follows(q)' = Follows(q)
  BY <1>1, RowsKept
<1>3. RetryTypeOK'
  BY <1>1 DEF RetryInv, RetryTypeOK
<1>4. SweepSound'
  BY <1>1, <1>2 DEF RetryInv, SweepSound, Recorded, Sending
<1>5. RootsCounted'
  BY <1>1, <1>2 DEF RetryInv, RootsCounted, Underway
<1>6. AttemptsCounted'
  BY <1>1, <1>2 DEF RetryInv, AttemptsCounted, Spent, Recorded, Sending
<1>. QED BY <1>2, <1>3, <1>4, <1>5, <1>6 DEF RetryInv

(* A retry by hand adds a root to come.                                    *)
LEMMA ManualSendStep ==
    ASSUME RetryInv, NEW i \in 1..Len(rows), NEW ok \in BOOLEAN, ManualSend(i, ok)
    PROVE  RetryInv'
<1>1. /\ man = NoManual /\ man' = [of |-> i, ok |-> ok]
      /\ manuals' = [manuals EXCEPT ![rows[i].alert] = @ + 1]
      /\ UNCHANGED <<rows, aged, sweep, alerts, autos, dropped, cutOffs>>
  BY DEF ManualSend
<1>2. /\ RowsSound' /\ AttemptsApart' /\ Rows' = Rows /\ Tried' = Tried
      /\ \A a : Roots(a)' = Roots(a)
      /\ \A q : Follows(q)' = Follows(q)
  BY <1>1, RowsKept
<1>3. i \in Rows /\ i \in Nat /\ i # 0 /\ rows[i].alert \in 1..MaxAlerts
  <2>1. i \in Rows /\ i \in Nat /\ i # 0
    BY DEF RetryInv, RetryTypeOK, Rows
  <2>. QED BY <2>1, RowTyped DEF RetryInv, AlertRow
<1>4. RetryTypeOK'
  BY <1>1, <1>3 DEF RetryInv, RetryTypeOK
<1>5. SweepSound'
  BY <1>1, <1>2 DEF RetryInv, SweepSound, Recorded, Sending
<1>6. RootsCounted'
  <2>1. man' # NoManual /\ man'.of = i
    BY <1>1, <1>3 DEF NoManual
  <2>2. ASSUME NEW a \in 1..MaxAlerts
        PROVE  Cardinality(Roots(a))' + Underway(a)'
                 <= (IF a <= alerts' THEN 1 ELSE 0) + manuals'[a]
    <3>1. Underway(a) = 0 /\ Underway(a)' = IF rows[i].alert = a THEN 1 ELSE 0
      BY <1>1, <2>1 DEF Underway
    <3>2. manuals[a] \in Nat /\ Cardinality(Roots(a)) \in Nat
      BY RowSetsFinite DEF RetryInv, RetryTypeOK
    <3>3. manuals'[a] = IF rows[i].alert = a THEN manuals[a] + 1 ELSE manuals[a]
      BY <1>1, <1>3 DEF RetryInv, RetryTypeOK
    <3>4. Cardinality(Roots(a)) + Underway(a) <= (IF a <= alerts THEN 1 ELSE 0) + manuals[a]
      BY DEF RetryInv, RootsCounted
    <3>5. Cardinality(Roots(a))' = Cardinality(Roots(a))
      BY <1>2
    <3>. QED BY <3>1, <3>2, <3>3, <3>4, <3>5, <1>1
  <2>. QED BY <1>2, <1>3, <2>1, <2>2 DEF RootsCounted
<1>7. AttemptsCounted'
  BY <1>1, <1>2 DEF RetryInv, AttemptsCounted, Spent, Recorded, Sending
<1>. QED BY <1>2, <1>4, <1>5, <1>6, <1>7 DEF RetryInv

(* A retry by hand that never gets to its row leaves less than was counted. *)
LEMMA ManualTimeoutStep == ASSUME RetryInv, ManualTimeout PROVE RetryInv'
<1>1. /\ man' = NoManual
      /\ UNCHANGED <<rows, aged, sweep, alerts, autos, manuals, dropped, cutOffs>>
  BY DEF ManualTimeout
<1>2. /\ RowsSound' /\ AttemptsApart' /\ Rows' = Rows /\ Tried' = Tried
      /\ \A a : Roots(a)' = Roots(a)
      /\ \A q : Follows(q)' = Follows(q)
  BY <1>1, RowsKept
<1>3. RetryTypeOK'
  BY <1>1 DEF RetryInv, RetryTypeOK, NoManual
<1>4. SweepSound'
  BY <1>1, <1>2 DEF RetryInv, SweepSound, Recorded, Sending
<1>5. RootsCounted'
  <2>1. ASSUME NEW a \in 1..MaxAlerts
        PROVE  Cardinality(Roots(a))' + Underway(a)'
                 <= (IF a <= alerts' THEN 1 ELSE 0) + manuals'[a]
    <3>1. Underway(a)' = 0 /\ Underway(a) \in Nat
      BY <1>1 DEF Underway
    <3>2. manuals[a] \in Nat /\ Cardinality(Roots(a)) \in Nat
      BY RowSetsFinite DEF RetryInv, RetryTypeOK
    <3>3. Cardinality(Roots(a)) + Underway(a) <= (IF a <= alerts THEN 1 ELSE 0) + manuals[a]
      BY DEF RetryInv, RootsCounted
    <3>4. Cardinality(Roots(a))' = Cardinality(Roots(a))
      BY <1>2
    <3>. QED BY <3>1, <3>2, <3>3, <3>4, <1>1
  <2>. QED BY <1>1, <2>1 DEF RootsCounted
<1>6. AttemptsCounted'
  BY <1>1, <1>2 DEF RetryInv, AttemptsCounted, Spent, Recorded, Sending
<1>. QED BY <1>2, <1>3, <1>4, <1>5, <1>6 DEF RetryInv

-----------------------------------------------------------------------------

(* The sweep takes rows that no row is an automatic retry of: such a row   *)
(* would be younger, and so among those that are read.                     *)
LEMMA SweepBeginStep == ASSUME RetryInv, SweepBegin PROVE RetryInv'
<1>1. /\ sweep = NoSweep /\ sweep' = [NoSweep EXCEPT !.todo = select_auto_retry_candidates]
      /\ UNCHANGED <<rows, aged, man, alerts, autos, manuals, dropped, cutOffs>>
  BY DEF SweepBegin, NoSweepUnderWay
<1>2. /\ RowsSound' /\ AttemptsApart' /\ Rows' = Rows /\ Tried' = Tried
      /\ \A a : Roots(a)' = Roots(a)
      /\ \A q : Follows(q)' = Follows(q)
  BY <1>1, RowsKept
<1>3. /\ sweep'.todo = select_auto_retry_candidates /\ sweep'.sending = 0 /\ sweep'.pending = << >>
      /\ sweep.sending = 0 /\ sweep.pending = << >>
  BY <1>1 DEF NoSweep
<1>4. \A i \in select_auto_retry_candidates :
        /\ i \in RecentRows /\ rows[i].attempt < MAX_AUTO_RETRY_ATTEMPTS
        /\ i \notin {rows[j].of : j \in RecentRows}
  BY DEF select_auto_retry_candidates
<1>5. \A i \in RecentRows : i \in Rows /\ i \in Nat
  BY DEF RecentRows, Rows, RetryInv, RetryTypeOK
<1>6. ASSUME NEW i \in select_auto_retry_candidates PROVE i \notin Tried
  <2> SUFFICES ASSUME NEW j \in Rows, rows[j].of = i PROVE FALSE
    BY DEF Tried
  <2>1. i < j
    BY DEF RetryInv, RowsSound
  <2>2. j \in RecentRows
    BY <2>1, <1>4, LimitsAssumption DEF RecentRows, Rows, RetryInv, RetryTypeOK
  <2>. QED BY <2>2, <1>4
<1>7. Recorded = {} /\ Recorded' = {} /\ Sending = {} /\ Sending' = {}
  BY <1>3 DEF Recorded, Sending
<1>8. RetryTypeOK'
  BY <1>1, <1>4, <1>5 DEF RetryInv, RetryTypeOK, NoSweep
<1>9. SweepSound'
  <2>1. 0 \notin select_auto_retry_candidates
    BY <1>4, <1>5 DEF Rows
  <2>2. \A i \in sweep'.todo \cup Sending' :
          /\ i \in Rows' /\ rows'[i].attempt < MAX_AUTO_RETRY_ATTEMPTS
          /\ i \notin Tried' \cup Recorded'
    BY <1>1, <1>2, <1>3, <1>4, <1>5, <1>6, <1>7
  <2>. QED BY <1>3, <2>1, <2>2 DEF SweepSound
<1>10. RootsCounted'
  BY <1>1, <1>2 DEF RetryInv, RootsCounted, Underway
<1>11. AttemptsCounted'
  <2>1. \A a : Spent(a)' = Spent(a)
    BY <1>1, <1>2, <1>7 DEF Spent
  <2>. QED BY <2>1, <1>1 DEF RetryInv, AttemptsCounted
<1>. QED BY <1>2, <1>8, <1>9, <1>10, <1>11 DEF RetryInv

(* A row is sent again: it moves from those before the sweep to the one in *)
(* hand, and is spent.                                                     *)
LEMMA SweepSendStep ==
    ASSUME RetryInv, NEW i \in sweep.todo, SweepSend(i) PROVE RetryInv'
<1>1. /\ sweep.sending = 0 /\ sweep' = [sweep EXCEPT !.todo = @ \ {i}, !.sending = i]
      /\ autos' = [autos EXCEPT ![rows[i].alert] = @ + 1]
      /\ UNCHANGED <<rows, aged, man, alerts, manuals, dropped, cutOffs>>
  BY DEF SweepSend
<1>2. /\ RowsSound' /\ AttemptsApart' /\ Rows' = Rows /\ Tried' = Tried
      /\ \A a : Roots(a)' = Roots(a)
      /\ \A q : Follows(q)' = Follows(q)
  BY <1>1, RowsKept
<1>3. /\ i \in Rows /\ rows[i].attempt < MAX_AUTO_RETRY_ATTEMPTS /\ i \notin Tried \cup Recorded
  BY DEF RetryInv, SweepSound
<1>4. i \in Nat /\ i # 0 /\ rows[i].alert \in 1..MaxAlerts
  <2>1. i \in Nat /\ i # 0
    BY <1>3 DEF RetryInv, RetryTypeOK, Rows
  <2>. QED BY <2>1, <1>3, RowTyped DEF RetryInv, AlertRow
<1>5. /\ sweep'.todo = sweep.todo \ {i} /\ sweep'.sending = i /\ sweep'.pending = sweep.pending
  BY <1>1 DEF RetryInv, RetryTypeOK
<1>6. RetryTypeOK'
  <2>1. sweep' \in [todo : SUBSET Nat, sending : Nat, pending : Seq(AlertRow)]
    BY <1>1, <1>4 DEF RetryInv, RetryTypeOK
  <2>2. autos' \in [1..MaxAlerts -> Nat]
    BY <1>1, <1>4 DEF RetryInv, RetryTypeOK
  <2>. QED BY <1>1, <2>1, <2>2 DEF RetryInv, RetryTypeOK
<1>7. Recorded' = Recorded /\ Sending = {} /\ Sending' = {i}
  BY <1>1, <1>4, <1>5 DEF Recorded, Sending
<1>8. SweepSound'
  <2>1. \A j \in sweep'.todo \cup Sending' :
          /\ j \in Rows' /\ rows'[j].attempt < MAX_AUTO_RETRY_ATTEMPTS
          /\ j \notin Tried' \cup Recorded'
    BY <1>1, <1>2, <1>5, <1>7 DEF RetryInv, SweepSound
  <2>2. \A k \in 1..Len(sweep'.pending) :
          /\ Follows(sweep.pending[k])' /\ sweep'.pending[k].of \notin Tried'
          /\ \A l \in 1..Len(sweep'.pending) : sweep'.pending[k].of = sweep'.pending[l].of => k = l
    BY <1>2, <1>5 DEF RetryInv, SweepSound
  <2>. QED BY <1>5, <2>1, <2>2 DEF SweepSound
<1>9. RootsCounted'
  BY <1>1, <1>2 DEF RetryInv, RootsCounted, Underway
<1>10. AttemptsCounted'
  <2> SUFFICES ASSUME NEW a \in 1..MaxAlerts
               PROVE  autos'[a] <= Cardinality(Spent(a))' + dropped'[a]
    BY DEF AttemptsCounted
  <2>1. /\ Cardinality(Spent(a)) \in Nat /\ IsFiniteSet(Spent(a))
        /\ autos[a] \in Nat /\ dropped[a] \in Nat
    BY RowSetsFinite DEF RetryInv, RetryTypeOK
  <2>2. autos[a] <= Cardinality(Spent(a)) + dropped[a]
    BY DEF RetryInv, AttemptsCounted
  <2>3. CASE rows[i].alert = a
    <3>1. Spent(a)' = Spent(a) \cup {i} /\ i \notin Spent(a)
      BY <1>1, <1>2, <1>3, <1>7, <2>3 DEF Spent
    <3>2. Cardinality(Spent(a))' = Cardinality(Spent(a)) + 1
      BY <3>1, <2>1, FS_AddElement
    <3>3. autos'[a] = autos[a] + 1
      BY <1>1, <2>3 DEF RetryInv, RetryTypeOK
    <3>. QED BY <3>2, <3>3, <2>1, <2>2, <1>1
  <2>4. CASE rows[i].alert # a
    <3>1. Spent(a)' = Spent(a)
      BY <1>1, <1>2, <1>7, <2>4 DEF Spent
    <3>2. autos'[a] = autos[a]
      BY <1>1, <2>4 DEF RetryInv, RetryTypeOK
    <3>. QED BY <3>1, <3>2, <2>2, <1>1
  <2>. QED BY <2>3, <2>4
<1>. QED BY <1>2, <1>6, <1>8, <1>9, <1>10 DEF RetryInv

(* The attempt gets a row that waits for the commit.                       *)
LEMMA SweepRecordStep ==
    ASSUME RetryInv, NEW ok \in BOOLEAN, SweepRecord(ok) PROVE RetryInv'
<1> DEFINE i == sweep.sending
           r == RetryRow(i, ok)
           m == Len(sweep.pending)
<1>1. /\ i # 0 /\ sweep' = [sweep EXCEPT !.sending = 0, !.pending = Append(@, r)]
      /\ UNCHANGED <<rows, aged, man, alerts, autos, manuals, dropped, cutOffs>>
  BY DEF SweepRecord
<1>2. /\ RowsSound' /\ AttemptsApart' /\ Rows' = Rows /\ Tried' = Tried
      /\ \A a : Roots(a)' = Roots(a)
      /\ \A q : Follows(q)' = Follows(q)
  BY <1>1, RowsKept
<1>3. /\ i \in Rows /\ rows[i].attempt < MAX_AUTO_RETRY_ATTEMPTS
      /\ i \notin Tried /\ i \notin Recorded /\ i \notin sweep.todo
  BY <1>1 DEF RetryInv, SweepSound, Sending
<1>4. i \in Nat /\ rows[i] \in AlertRow
  BY <1>3, RowTyped DEF RetryInv, RetryTypeOK
<1>5. r \in AlertRow /\ Follows(r) /\ r.of = i
  BY <1>3, <1>4 DEF RetryRow, AlertRow, Follows
<1> HIDE DEF r
<1>6. /\ sweep'.todo = sweep.todo /\ sweep'.sending = 0 /\ sweep'.pending = Append(sweep.pending, r)
      /\ sweep.pending \in Seq(AlertRow)
  BY <1>1 DEF RetryInv, RetryTypeOK
<1>7. /\ m \in Nat /\ Len(sweep'.pending) = m + 1 /\ sweep'.pending[m + 1] = r
      /\ sweep'.pending \in Seq(AlertRow)
      /\ \A k \in 1..m : sweep'.pending[k] = sweep.pending[k]
  BY <1>5, <1>6
<1>8. RetryTypeOK'
  <2>1. sweep' \in [todo : SUBSET Nat, sending : Nat, pending : Seq(AlertRow)]
    BY <1>1, <1>6, <1>7 DEF RetryInv, RetryTypeOK
  <2>. QED BY <1>1, <2>1 DEF RetryInv, RetryTypeOK
<1>9. 1..Len(sweep'.pending) = (1..m) \cup {m + 1} /\ m + 1 \notin 1..m
  BY <1>7
<1>10. Recorded' = Recorded \cup {i} /\ Sending = {i} /\ Sending' = {}
  <2>1. Recorded' = Recorded \cup {i}
    <3>1. \A x : x \in Recorded <=> \E k \in 1..m : sweep.pending[k].of = x
      BY DEF Recorded
    <3>2. \A x : x \in Recorded' <=> \E k \in 1..Len(sweep'.pending) : sweep'.pending[k].of = x
      BY DEF Recorded
    <3>3. \A k \in 1..m : sweep'.pending[k].of = sweep.pending[k].of
      BY <1>7
    <3>4. sweep'.pending[m + 1].of = i
      BY <1>5, <1>7
    <3> HIDE DEF i, m
    <3>. QED BY <3>1, <3>2, <3>3, <3>4, <1>9
  <2>. QED BY <2>1, <1>1, <1>6 DEF Sending
<1>11. SweepSound'
  <2>1. \A j \in sweep'.todo \cup Sending' :
          /\ j \in Rows' /\ rows'[j].attempt < MAX_AUTO_RETRY_ATTEMPTS
          /\ j \notin Tried' \cup Recorded'
    BY <1>1, <1>2, <1>3, <1>6, <1>10 DEF RetryInv, SweepSound
  <2>2. \A k \in 1..Len(sweep'.pending) :
          Follows(sweep'.pending[k]) /\ sweep'.pending[k].of \notin Tried'
    BY <1>2, <1>3, <1>5, <1>7, <1>9 DEF RetryInv, SweepSound
  <2>3. \A k \in 1..m : sweep'.pending[k].of \in Recorded
    BY <1>7 DEF Recorded
  <2>4. \A k, l \in 1..Len(sweep'.pending) : sweep'.pending[k].of = sweep'.pending[l].of => k = l
    BY <2>3, <1>3, <1>5, <1>7, <1>9 DEF RetryInv, SweepSound
  <2>5. \A k \in 1..Len(sweep'.pending) : Follows(sweep.pending[k])'
    BY <2>2, <1>1, <1>2 DEF Follows
  <2>6. sweep'.sending \notin sweep'.todo
    <3>1. 0 \notin sweep.todo
      BY DEF RetryInv, SweepSound, Rows
    <3>. QED BY <3>1, <1>6
  <2>. QED BY <2>1, <2>2, <2>4, <2>5, <2>6 DEF SweepSound
<1>12. RootsCounted'
  BY <1>1, <1>2 DEF RetryInv, RootsCounted, Underway
<1>13. AttemptsCounted'
  <2>1. \A a : Spent(a)' = Spent(a)
    BY <1>1, <1>2, <1>10 DEF Spent
  <2>. QED BY <2>1, <1>1 DEF RetryInv, AttemptsCounted
<1>. QED BY <1>2, <1>8, <1>11, <1>12, <1>13 DEF RetryInv

(* The rows of the sweep become visible: each is a new link of the chain   *)
(* of the row that was sent, which had none.                               *)
LEMMA SweepCommitStep == ASSUME RetryInv, SweepCommit PROVE RetryInv'
<1> DEFINE n == Len(rows)
           m == Len(sweep.pending)
<1>1. /\ sweep.todo = {} /\ sweep.sending = 0 /\ rows' = rows \o sweep.pending /\ sweep' = NoSweep
      /\ UNCHANGED <<aged, man, alerts, autos, manuals, dropped, cutOffs>>
  BY DEF SweepCommit
<1>2. /\ n \in Nat /\ m \in Nat /\ sweep.pending \in Seq(AlertRow) /\ rows \in Seq(AlertRow)
  BY DEF RetryInv, RetryTypeOK
<1>3. /\ rows' \in Seq(AlertRow) /\ Len(rows') = n + m
      /\ \A i \in 1..n : rows'[i] = rows[i]
      /\ \A k \in 1..m : rows'[n + k] = sweep.pending[k]
  BY <1>1, <1>2
<1> DEFINE New == (n + 1)..(n + m)
<1>4. Rows' = Rows \cup New /\ Rows \cap New = {} /\ Rows \subseteq Rows'
  BY <1>2, <1>3 DEF Rows
<1>5. \A i \in Rows : rows'[i] = rows[i] /\ rows[i] \in AlertRow
  BY <1>3, RowTyped DEF Rows, RetryInv
<1>6. \A k \in 1..m : sweep.pending[k] \in AlertRow /\ Follows(sweep.pending[k])
                     /\ sweep.pending[k].of \notin Tried
  BY <1>2 DEF RetryInv, SweepSound
<1>7. \A j \in New : j - n \in 1..m /\ rows'[j] = sweep.pending[j - n] /\ j \in Nat
  <2> SUFFICES ASSUME NEW j \in New
               PROVE  j - n \in 1..m /\ rows'[j] = sweep.pending[j - n] /\ j \in Nat
    OBVIOUS
  <2>1. j - n \in 1..m /\ n + (j - n) = j /\ j \in Nat
    BY <1>2
  <2>. QED BY <2>1, <1>3
<1>8. \A j \in New : /\ rows'[j] \in AlertRow /\ Follows(rows'[j]) /\ rows'[j].of \notin Tried
                    /\ rows'[j].attempt > 0 /\ rows'[j].of \in Rows
  <2> SUFFICES ASSUME NEW j \in New
               PROVE  /\ rows'[j] \in AlertRow /\ Follows(rows'[j]) /\ rows'[j].of \notin Tried
                      /\ rows'[j].attempt > 0 /\ rows'[j].of \in Rows
    OBVIOUS
  <2>1. PICK k \in 1..m : rows'[j] = sweep.pending[k]
    BY <1>7
  <2>2. /\ rows'[j] \in AlertRow /\ rows'[j].of \notin Tried /\ rows'[j].of \in Rows
        /\ rows'[j].attempt = rows[rows'[j].of].attempt + 1 /\ Follows(rows'[j])
    BY <2>1, <1>6 DEF Follows
  <2>3. rows[rows'[j].of].attempt \in Nat
    BY <2>2, <1>5 DEF AlertRow
  <2>. QED BY <2>2, <2>3
<1>9. \A i, j \in New : rows'[i].of = rows'[j].of => i = j
  <2> SUFFICES ASSUME NEW i \in New, NEW j \in New, rows'[i].of = rows'[j].of PROVE i = j
    OBVIOUS
  <2>1. /\ i - n \in 1..m /\ j - n \in 1..m
        /\ sweep.pending[i - n].of = sweep.pending[j - n].of
    BY <1>7
  <2>2. i - n = j - n
    BY <2>1 DEF RetryInv, SweepSound
  <2>. QED BY <2>2, <1>2, <1>7
<1>10. \A x : x \in Recorded <=> \E j \in New : rows'[j].of = x
  <2>1. ASSUME NEW k \in 1..m PROVE n + k \in New /\ rows'[n + k] = sweep.pending[k]
    BY <1>2, <1>3
  <2>. QED BY <2>1, <1>7 DEF Recorded
<1>11. \A i \in New, j \in Rows : j < i
  BY <1>2 DEF Rows
<1>12. \A q : Follows(q) => Follows(q)'
  BY <1>4, <1>5 DEF Follows
<1>13. RetryTypeOK'
  BY <1>1, <1>3 DEF RetryInv, RetryTypeOK, NoSweep
<1> HIDE DEF New, m, n
<1>14. Tried' = Tried \cup Recorded /\ Recorded' = {} /\ Sending = {} /\ Sending' = {}
  <2>1. \A x : x \in Tried <=> \E j \in Rows : rows[j].attempt > 0 /\ rows[j].of = x
    BY DEF Tried
  <2>2. \A x : x \in Tried' <=> \E j \in Rows' : rows'[j].attempt > 0 /\ rows'[j].of = x
    BY DEF Tried
  <2>3. Tried' = Tried \cup Recorded
    BY <2>1, <2>2, <1>4, <1>5, <1>8, <1>10
  <2>. QED BY <2>3, <1>1 DEF Recorded, Sending, NoSweep
<1>15. RowsSound'
  <2> SUFFICES ASSUME NEW i \in Rows'
               PROVE  /\ rows'[i].of < i /\ rows'[i].alert <= alerts'
                      /\ rows'[i].attempt > 0 => Follows(rows[i])'
    BY DEF RowsSound
  <2>1. CASE i \in Rows
    <3>1. rows'[i] = rows[i]
      BY <2>1, <1>5
    <3>2. rows[i].of < i /\ rows[i].alert <= alerts /\ (rows[i].attempt > 0 => Follows(rows[i]))
      BY <2>1 DEF RetryInv, RowsSound
    <3>. QED BY <3>1, <3>2, <1>1, <1>12
  <2>2. CASE i \in New
    <3>1. rows'[i].of \in Rows /\ rows'[i].alert = rows[rows'[i].of].alert /\ Follows(rows'[i])
      BY <2>2, <1>8 DEF Follows
    <3>2. rows[rows'[i].of].alert <= alerts
      BY <3>1 DEF RetryInv, RowsSound
    <3>. QED BY <3>1, <3>2, <2>2, <1>1, <1>11, <1>12
  <2>. QED BY <2>1, <2>2, <1>4
<1>16. SweepSound'
  BY <1>1, <1>14 DEF SweepSound, NoSweep
<1>17. AttemptsApart'
  <2>1. PICK root \in [Rows -> Rows] : Chains(root)
    BY DEF RetryInv, AttemptsApart
  <2>2. [i \in Rows' |-> IF i \in Rows THEN root[i] ELSE root[rows'[i].of]] \in [Rows' -> Rows']
    BY <1>4, <1>8
  <2>3. PICK next \in [Rows' -> Rows'] :
          /\ \A i \in Rows : next[i] = root[i]
          /\ \A i \in New : next[i] = root[rows'[i].of]
    BY <2>2, <1>4
  <2>4. \A i \in Rows' : /\ rows'[next[i]].attempt = 0
                         /\ rows'[next[i]].alert = rows'[i].alert
    <3>1. \A i \in New : rows'[i].alert = rows[rows'[i].of].alert
      BY <1>8 DEF Follows
    <3>. QED BY <3>1, <2>1, <2>3, <1>4, <1>5, <1>8 DEF Chains
  <2>5. \A i \in Rows' : IF rows'[i].attempt = 0 THEN next[i] = i
                         ELSE next[i] = next[rows'[i].of]
    <3>1. \A i \in Rows : rows[i].attempt # 0 => rows[i].of \in Rows
      BY <1>5 DEF RetryInv, RowsSound, Follows, AlertRow
    <3>. QED BY <3>1, <2>1, <2>3, <1>4, <1>5, <1>8 DEF Chains
  <2>6. ASSUME NEW i \in Rows', NEW j \in New,
               next[i] = next[j], rows'[i].attempt = rows'[j].attempt
        PROVE  i = j
    <3> DEFINE p == rows'[j].of
               q == rows'[i].of
    <3>1. /\ p \in Rows /\ p \notin Tried /\ rows'[j].attempt = rows[p].attempt + 1
          /\ rows'[j].attempt > 0 /\ next[j] = root[p] /\ rows[p].attempt \in Nat
      BY <2>3, <1>5, <1>8 DEF Follows, AlertRow
    <3>2. /\ q \in Rows /\ rows'[i].attempt = rows[q].attempt + 1
          /\ next[i] = root[q] /\ rows[q].attempt \in Nat
      <4>1. CASE i \in New
        BY <4>1, <2>3, <1>5, <1>8 DEF Follows, AlertRow
      <4>2. CASE i \in Rows
        <5>1. rows'[i] = rows[i] /\ rows[i].attempt > 0 /\ rows[i].attempt # 0
          BY <4>2, <3>1, <2>6, <1>5
        <5>2. Follows(rows[i])
          BY <4>2, <5>1 DEF RetryInv, RowsSound
        <5>3. root[i] = root[rows[i].of] /\ next[i] = root[i]
          BY <4>2, <5>1, <2>1, <2>3 DEF Chains
        <5>. QED BY <5>1, <5>2, <5>3, <1>5 DEF Follows, AlertRow
      <4>. QED BY <4>1, <4>2, <1>4
    <3> HIDE DEF p, q
    <3>3. rows[p].attempt = rows[q].attempt /\ root[p] = root[q]
      BY <3>1, <3>2, <2>6
    <3>4. p = q
      BY <3>1, <3>2, <3>3, <2>1 DEF Chains
    <3>5. CASE i \in New
      BY <3>4, <3>5, <1>9 DEF p, q
    <3>6. CASE i \in Rows
      <4>1. rows'[i] = rows[i] /\ rows[i].attempt > 0 /\ rows[i].of = p
        BY <3>6, <3>1, <3>4, <2>6, <1>5 DEF q
      <4>2. p \in Tried
        BY <3>6, <4>1 DEF Tried
      <4>. QED BY <4>2, <3>1
    <3>. QED BY <3>5, <3>6, <1>4
  <2>7. \A i, j \in Rows' : next[i] = next[j] /\ rows'[i].attempt = rows'[j].attempt => i = j
    <3>1. ASSUME NEW i \in Rows, NEW j \in Rows,
                 next[i] = next[j], rows'[i].attempt = rows'[j].attempt
          PROVE  i = j
      BY <3>1, <2>1, <2>3, <1>5 DEF Chains
    <3>. QED BY <3>1, <2>6, <1>4
  <2>8. Chains(next)'
    BY <2>4, <2>5, <2>7 DEF Chains
  <2>. QED BY <2>8 DEF AttemptsApart
<1>18. ASSUME NEW a PROVE Roots(a)' = Roots(a)
  <2>1. \A i \in New : rows'[i].attempt # 0
    BY <1>8
  <2>. QED BY <2>1, <1>4, <1>5 DEF Roots
<1>19. ASSUME NEW a PROVE Spent(a)' = Spent(a)
  <2>1. Tried \cup Recorded \cup Sending \subseteq Rows
    BY SpentAreRows DEF RetryInv
  <2>. QED BY <2>1, <1>5, <1>14 DEF Spent
<1>20. RootsCounted'
  <2>1. man.of \in Rows => rows'[man.of] = rows[man.of]
    BY <1>5
  <2>2. \A a : Underway(a)' = Underway(a)
    BY <2>1, <1>1 DEF Underway, RetryInv, RootsCounted
  <2>. QED BY <2>2, <1>1, <1>4, <1>18 DEF RetryInv, RootsCounted
<1>21. AttemptsCounted'
  BY <1>1, <1>19 DEF RetryInv, AttemptsCounted
<1>. QED BY <1>13, <1>15, <1>16, <1>17, <1>20, <1>21 DEF RetryInv

(* The rows of the attempts in hand are lost, one for each at most.        *)
LEMMA LosingCounts ==
    ASSUME RetryTypeOK, SweepSound, NEW a
    PROVE  /\ IsFiniteSet(Gone(a)) /\ Cardinality(Gone(a)) \in Nat
           /\ Cardinality(Gone(a)) <= Losing(a) /\ Losing(a) \in Nat
<1> DEFINE K == {k \in 1..Len(sweep.pending) : sweep.pending[k].alert = a}
           A == {sweep.pending[k].of : k \in K}
           B == {i \in Sending : rows[i].alert = a}
           here == sweep.sending # 0 /\ rows[sweep.sending].alert = a
           f == [k \in K |-> sweep.pending[k].of]
<1>1. IsFiniteSet(K) /\ Cardinality(K) \in Nat
  <2>1. Len(sweep.pending) \in Nat
    BY DEF RetryTypeOK
  <2>2. IsFiniteSet(1..Len(sweep.pending)) /\ K \subseteq 1..Len(sweep.pending)
    BY <2>1, FS_Interval
  <2>. QED BY <2>2, FS_Subset, FS_CardinalityType
<1>2. IsFiniteSet(A) /\ Cardinality(A) <= Cardinality(K) /\ Cardinality(A) \in Nat
  <2>1. f \in Surjection(K, A)
    BY DEF Surjection
  <2>2. IsFiniteSet(A) /\ Cardinality(A) <= Cardinality(K)
    BY <2>1, <1>1, FS_Surjection
  <2>. QED BY <2>2, FS_CardinalityType
<1>3. /\ IsFiniteSet(B) /\ Cardinality(B) \in Nat
      /\ Cardinality(B) = IF here THEN 1 ELSE 0
  <2>1. ASSUME here PROVE B = {sweep.sending}
    BY <2>1 DEF Sending
  <2>2. ASSUME ~here PROVE B = {}
    BY <2>2 DEF Sending
  <2> HIDE DEF B, here
  <2>3. here => IsFiniteSet(B) /\ Cardinality(B) = 1
    BY <2>1, FS_Singleton
  <2>4. ~here => IsFiniteSet(B) /\ Cardinality(B) = 0
    BY <2>2, FS_EmptySet
  <2>. QED BY <2>3, <2>4
<1>4. Gone(a) \subseteq A \cup B
  <2> SUFFICES ASSUME NEW i \in Gone(a), i \notin B PROVE i \in A
    OBVIOUS
  <2>1. PICK k \in 1..Len(sweep.pending) : sweep.pending[k].of = i
    BY DEF Gone, Recorded
  <2>2. sweep.pending[k].alert = a
    BY <2>1 DEF Gone, SweepSound, Follows
  <2>. QED BY <2>1, <2>2
<1>5. Losing(a) = Cardinality(K) + Cardinality(B)
  BY <1>3 DEF Losing
<1> HIDE DEF K, A, B
<1>6. /\ IsFiniteSet(A \cup B) /\ IsFiniteSet(A \cap B)
      /\ Cardinality(A \cup B) = Cardinality(A) + Cardinality(B) - Cardinality(A \cap B)
  BY <1>2, <1>3, FS_Union, FS_Intersection
<1>7. Cardinality(A \cap B) \in Nat
  BY <1>6, FS_CardinalityType
<1>8. /\ IsFiniteSet(Gone(a)) /\ Cardinality(Gone(a)) <= Cardinality(A \cup B)
      /\ Cardinality(A \cup B) \in Nat
  BY <1>4, <1>6, FS_Subset, FS_CardinalityType
<1>9. Cardinality(Gone(a)) \in Nat
  BY <1>8, FS_CardinalityType
<1>. QED BY <1>1, <1>2, <1>3, <1>5, <1>6, <1>7, <1>8, <1>9

(* What was spent on attempts whose rows go is counted as dropped.         *)
LEMMA SweepCutOffStep == ASSUME RetryInv, SweepCutOff PROVE RetryInv'
<1>1. /\ cutOffs' = cutOffs + 1 /\ sweep' = NoSweep
      /\ dropped' = [a \in 1..MaxAlerts |-> dropped[a] + Losing(a)]
      /\ UNCHANGED <<rows, aged, man, alerts, autos, manuals>>
  BY DEF SweepCutOff
<1>2. /\ RowsSound' /\ AttemptsApart' /\ Rows' = Rows /\ Tried' = Tried
      /\ \A a : Roots(a)' = Roots(a)
      /\ \A q : Follows(q)' = Follows(q)
  BY <1>1, RowsKept
<1>3. \A a : /\ IsFiniteSet(Gone(a)) /\ Cardinality(Gone(a)) \in Nat
            /\ Cardinality(Gone(a)) <= Losing(a) /\ Losing(a) \in Nat
  BY LosingCounts DEF RetryInv
<1>4. Recorded' = {} /\ Sending' = {}
  BY <1>1 DEF Recorded, Sending, NoSweep
<1>5. RetryTypeOK'
  <2>1. dropped' \in [1..MaxAlerts -> Nat]
    <3>1. \A a \in 1..MaxAlerts : dropped[a] \in Nat /\ Losing(a) \in Nat
      BY <1>3 DEF RetryInv, RetryTypeOK
    <3>. QED BY <3>1, <1>1
  <2>. QED BY <1>1, <2>1 DEF RetryInv, RetryTypeOK, NoSweep
<1>6. SweepSound'
  BY <1>1, <1>4 DEF SweepSound, NoSweep
<1>7. RootsCounted'
  BY <1>1, <1>2 DEF RetryInv, RootsCounted, Underway
<1>8. AttemptsCounted'
  <2> SUFFICES ASSUME NEW a \in 1..MaxAlerts
               PROVE  autos'[a] <= Cardinality(Spent(a))' + dropped'[a]
    BY DEF AttemptsCounted
  <2>1. Spent(a) = Spent(a)' \cup Gone(a)
    BY <1>1, <1>2, <1>4 DEF Spent, Gone
  <2>2. /\ IsFiniteSet(Spent(a)) /\ Cardinality(Spent(a)) \in Nat
        /\ autos[a] \in Nat /\ dropped[a] \in Nat
    BY RowSetsFinite DEF RetryInv, RetryTypeOK
  <2>3. IsFiniteSet(Spent(a)') /\ Cardinality(Spent(a)') \in Nat
    BY <2>1, <2>2, FS_Subset, FS_CardinalityType
  <2>4. autos[a] <= Cardinality(Spent(a)) + dropped[a]
    BY DEF RetryInv, AttemptsCounted
  <2>5. dropped'[a] = dropped[a] + Losing(a) /\ autos'[a] = autos[a]
    BY <1>1
  <2>6. /\ IsFiniteSet(Gone(a)) /\ Cardinality(Gone(a)) \in Nat
        /\ Cardinality(Gone(a)) <= Losing(a) /\ Losing(a) \in Nat
    BY <1>3
  <2>7. /\ IsFiniteSet(Spent(a)' \cap Gone(a))
        /\ Cardinality(Spent(a)' \cup Gone(a))
             = Cardinality(Spent(a)') + Cardinality(Gone(a)) - Cardinality(Spent(a)' \cap Gone(a))
    BY <2>3, <2>6, FS_Union, FS_Intersection
  <2>8. Cardinality(Spent(a)' \cap Gone(a)) \in Nat
    BY <2>7, FS_CardinalityType
  <2>. QED BY <2>1, <2>2, <2>3, <2>4, <2>5, <2>6, <2>7, <2>8
<1>. QED BY <1>2, <1>5, <1>6, <1>7, <1>8 DEF RetryInv

-----------------------------------------------------------------------------

(* Every step keeps the invariant.                                         *)
LEMMA RetryStep == RetryInv /\ [RetryNext]_retryVars => RetryInv'
<1> SUFFICES ASSUME RetryInv, [RetryNext]_retryVars PROVE RetryInv'
  OBVIOUS
<1>1. ASSUME NEW ok \in BOOLEAN, NewAlert(ok) PROVE RetryInv'
  BY <1>1, NewAlertStep
<1>2. CASE RowsAge
  BY <1>2, AgeStep
<1>3. CASE SweepBegin
  BY <1>3, SweepBeginStep
<1>4. ASSUME NEW i \in sweep.todo, SweepSend(i) PROVE RetryInv'
  BY <1>4, SweepSendStep
<1>5. ASSUME NEW ok \in BOOLEAN, SweepRecord(ok) PROVE RetryInv'
  BY <1>5, SweepRecordStep
<1>6. CASE SweepCommit
  BY <1>6, SweepCommitStep
<1>7. CASE SweepCutOff
  BY <1>7, SweepCutOffStep
<1>8. ASSUME NEW i \in 1..Len(rows), NEW ok \in BOOLEAN, ManualSend(i, ok) PROVE RetryInv'
  BY <1>8, ManualSendStep
<1>9. CASE ManualRecord
  BY <1>9, ManualRecordStep
<1>10. CASE ManualTimeout
  BY <1>10, ManualTimeoutStep
<1>11. CASE UNCHANGED retryVars
  <2>1. /\ UNCHANGED <<rows, aged, sweep, man, alerts, autos, manuals, dropped, cutOffs>>
    BY <1>11 DEF retryVars
  <2>2. /\ RowsSound' /\ AttemptsApart' /\ Rows' = Rows /\ Tried' = Tried
        /\ \A a : Roots(a)' = Roots(a)
        /\ \A q : Follows(q)' = Follows(q)
    BY <2>1, RowsKept
  <2>3. RetryTypeOK'
    BY <2>1 DEF RetryInv, RetryTypeOK
  <2>4. SweepSound'
    BY <2>1, <2>2 DEF RetryInv, SweepSound, Recorded, Sending
  <2>5. RootsCounted'
    BY <2>1, <2>2 DEF RetryInv, RootsCounted, Underway
  <2>6. AttemptsCounted'
    BY <2>1, <2>2 DEF RetryInv, AttemptsCounted, Spent, Recorded, Sending
  <2>. QED BY <2>2, <2>3, <2>4, <2>5, <2>6 DEF RetryInv
<1>. QED
  BY <1>1, <1>2, <1>3, <1>4, <1>5, <1>6, <1>7, <1>8, <1>9, <1>10, <1>11 DEF RetryNext

(* For any limits, numbers of alerts, of retries by hand and of runs that  *)
(* are cut off: an alert is sent automatically at most                     *)
(* MAX_AUTO_RETRY_ATTEMPTS times for its own failure and for each retry by *)
(* hand, plus once for every attempt whose row was lost.                   *)
THEOREM AttemptsBounded == RetrySpec => []RetriesBounded
<1>1. RetryInit => RetryInv
  BY RetryInitially
<1>2. RetryInv /\ [RetryNext]_retryVars => RetryInv'
  BY RetryStep
<1>3. RetryInv => RetriesBounded
  BY InvariantBounds
<1>. QED BY <1>1, <1>2, <1>3, PTL DEF RetrySpec

===============================================================================
