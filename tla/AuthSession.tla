----------------------------- MODULE AuthSession -----------------------------
(***************************************************************************)
(* Who is signed in, as one tab of the dashboard sees it.  The session is  *)
(* a cookie that the server may end at any time; the tab keeps a copy of   *)
(* the answer in a store, which the browser persists and shares with other *)
(* tabs.  The persisted store includes "initialized", so the server is     *)
(* asked ("me") only when nothing is persisted: otherwise the first 401 of *)
(* an ordinary request is what tells the tab that its session has ended.   *)
(***************************************************************************)
EXTENDS Browser, Naturals

CONSTANT MaxVisits      \* bound: sign-ins, sign-outs and reloads of the user

SignedOut == [auth |-> FALSE, initialized |-> FALSE]
NothingStored == SignedOut
Initialised(auth) == [auth |-> auth, initialized |-> TRUE]

VARIABLE ss

-----------------------------------------------------------------------------
(* The store and the pages. *)

(* The effects of the root page, the login page and the dashboard. *)
Effects(s) ==
    CASE ~s.store.initialized -> [s EXCEPT !.me = IF @ = "none" THEN "sent" ELSE @]
      [] s.store.initialized /\ s.store.auth /\ s.page # "dashboard" -> [s EXCEPT !.page = "dashboard"]
      [] s.store.initialized /\ ~s.store.auth /\ s.page # "login" -> [s EXCEPT !.page = "login"]
      [] OTHER -> s

(* A change of the store is persisted. *)
SetStore(s, auth) ==
    Effects([s EXCEPT !.store = Initialised(auth), !.stored = Initialised(auth)])

(* A page is loaded anew: requests under way are dropped, the persisted    *)
(* store is read.                                                          *)
Loaded(s, page) ==
    Effects([s EXCEPT !.page = page, !.store = s.stored, !.me = "none", !.login = "none",
                      !.api = "none", !.out = "none"])

(* The response interceptor; in place of it, the stored answer stays. *)
KeepStored(s) == s
Unauthorized(s) == [s EXCEPT !.stored = NothingStored]

SSMounted ==
    \E session, persisted \in BOOLEAN, page \in {"root", "login", "dashboard"} :
      ss = Loaded([session |-> session, page |-> page, store |-> SignedOut,
                   stored |-> IF persisted THEN Initialised(TRUE) ELSE NothingStored,
                   me |-> "none", login |-> "none", api |-> "none", out |-> "none",
                   visits |-> 0, leftBehind |-> FALSE], page)

ReloadPage ==
    /\ ss.visits < MaxVisits
    /\ ss' = Loaded([ss EXCEPT !.visits = @ + 1], ss.page)

-----------------------------------------------------------------------------
(* syncSession: "me" is answered from the session as it is when the        *)
(* request is processed, and applied later.                                *)

MeProcessed ==
    /\ ss.me = "sent"
    /\ ss' = [ss EXCEPT !.me = IF ss.session THEN "ok" ELSE "refused"]

MeLost == ss.me = "sent" /\ ss' = [ss EXCEPT !.me = "lost"]

MeAnswered ==
    /\ ss.me \in {"ok", "refused", "lost"}
    /\ LET s == [ss EXCEPT !.me = "none"]
       IN  ss' = CASE ss.me = "ok" -> SetStore(s, TRUE)
                   [] ss.me = "refused" -> SetStore(Unauthorized(s), FALSE)
                   [] ss.me = "lost" -> SetStore(s, FALSE)

-----------------------------------------------------------------------------
(* Signing in.  loading disables the button. *)

SubmitLogin ==
    /\ ss.page = "login" /\ ss.login = "none" /\ ss.visits < MaxVisits
    /\ ss' = [ss EXCEPT !.login = "sent", !.visits = @ + 1]

LoginAccepted ==
    /\ ss.login = "sent"
    /\ ss' = [ss EXCEPT !.login = "ok", !.session = TRUE, !.leftBehind = FALSE]

LoginRefused ==
    /\ ss.login = "sent"
    /\ ss' = [Unauthorized(ss) EXCEPT !.login = "none"]

(* Another error, or an answer that is lost, leaves what is stored. *)
LoginLost ==
    /\ ss.login \in {"sent", "ok"}
    /\ ss' = [ss EXCEPT !.login = "none"]

LoginAnswered ==
    /\ ss.login = "ok"
    /\ ss' = SetStore([ss EXCEPT !.login = "none"], TRUE)

-----------------------------------------------------------------------------
(* Requests of the dashboard, and the end of the session. *)

(* The dashboard shows nothing before the store is initialised. *)
DashboardOpen == ss.page = "dashboard" /\ ss.store.initialized

CallApi == DashboardOpen /\ ss.api = "none" /\ ss' = [ss EXCEPT !.api = "sent"]

ApiProcessed ==
    /\ ss.api = "sent"
    /\ ss' = [ss EXCEPT !.api = IF ss.session THEN "none" ELSE "refused"]

ApiAnswered ==
    /\ ss.api = "refused"
    /\ ss' = Loaded(Unauthorized([ss EXCEPT !.api = "none"]), "login")

(* logout ignores an error of the server; ending all sessions, or this one *)
(* from the list, stops at an error.                                       *)
StartSignOut(kind) ==
    /\ DashboardOpen /\ ss.out = "none" /\ ss.visits < MaxVisits
    /\ ss' = [ss EXCEPT !.out = kind, !.visits = @ + 1]

handleLogout == StartSignOut("logout")          \* the sidebar
handleRevokeSession == StartSignOut("revoke")   \* the list of sessions

SignOutProcessed ==
    /\ ss.out \in {"logout", "revoke"} /\ ss.session
    /\ ss' = [ss EXCEPT !.out = "done", !.session = FALSE]

(* In place of StoreCleared: the store is left to the next answer. *)
StoreKept(s) == s

StoreCleared(s) == SetStore(s, FALSE)

SignOutDone ==
    /\ ss.out = "done"
    /\ ss' = StoreCleared([ss EXCEPT !.out = "none",
                                     !.leftBehind = /\ ~ss.session
                                                    /\ ss.me = "none" /\ ss.login = "none"])

(* Without a session both are refused with 401: the interceptor loads the  *)
(* login page, after logout has cleared the store.                         *)
SignOutRefused ==
    /\ ss.out \in {"logout", "revoke"} /\ ~ss.session
    /\ ss' = [ss EXCEPT !.out = IF @ = "logout" THEN "logout_401" ELSE "revoke_401"]

SignOutUnauthorized ==
    /\ ss.out \in {"logout_401", "revoke_401"}
    /\ LET s == Unauthorized([ss EXCEPT !.out = "none"])
       IN  ss' = Loaded(IF ss.out = "logout_401" THEN StoreCleared(s) ELSE s, "login")

(* Any other error, or no answer. *)
SignOutFails ==
    /\ ss.out \in {"logout", "revoke"}
    /\ LET s == [ss EXCEPT !.out = "none"]
       IN  ss' = IF ss.out = "logout" THEN StoreCleared(s) ELSE s

(* Expiry, a revocation elsewhere, a change of the password. *)
SessionEnds ==
    /\ ss.session
    /\ ss' = [ss EXCEPT !.session = FALSE]

(* Another tab signs in or out: it shares the cookie and what is stored. *)
OtherTabSigns(auth) ==
    /\ ss.visits < MaxVisits
    /\ ss' = [ss EXCEPT !.session = auth, !.stored = Initialised(auth), !.visits = @ + 1,
                        !.leftBehind = FALSE]

SSNext ==
    \/ ReloadPage \/ MeProcessed \/ MeLost \/ MeAnswered
    \/ SubmitLogin \/ LoginAccepted \/ LoginRefused \/ LoginLost \/ LoginAnswered
    \/ CallApi \/ ApiProcessed \/ ApiAnswered
    \/ handleLogout \/ handleRevokeSession
    \/ SignOutProcessed \/ SignOutDone
    \/ SignOutRefused \/ SignOutUnauthorized \/ SignOutFails \/ SessionEnds
    \/ \E auth \in BOOLEAN : OtherTabSigns(auth)

(* Requests are answered; the queries of the dashboard are repeated. *)
SSFairness ==
    /\ WF_ss(ss # Unmounted /\ (MeProcessed \/ MeAnswered))
    /\ WF_ss(ss # Unmounted /\ CallApi)
    /\ WF_ss(ss # Unmounted /\ (ApiProcessed \/ ApiAnswered))

-----------------------------------------------------------------------------
(* Properties. *)

SSTypeOK ==
    ss # Unmounted =>
      /\ ss.session \in BOOLEAN /\ ss.page \in {"root", "login", "dashboard"}
      /\ ss.store.auth => ss.store.initialized
      /\ ss.me \in {"none", "sent", "ok", "refused", "lost"}
      /\ ss.out \in {"none", "logout", "revoke", "logout_401", "revoke_401", "done"}

(* A tab whose session has ended for good ends at the login page, and does *)
(* not bounce between it and the dashboard: although nothing checks the    *)
(* session when a page is opened with a persisted store.                   *)
LostSessionReachesLogin ==
    <>[](ss # Unmounted /\ ~ss.session) => <>[](ss # Unmounted /\ ss.page = "login")

(* After a sign-out that the server confirmed, no reload, no failed        *)
(* sign-in and no late answer brings the dashboard back before somebody    *)
(* signs in: unless a "me" or a sign-in was still open at the sign-out,    *)
(* whose answer is applied whenever it comes.                              *)
SignedOutStaysOut ==
    (ss # Unmounted /\ ss.leftBehind /\ ss.store.initialized) => ss.page # "dashboard"

-----------------------------------------------------------------------------
(* The challenge (Cloudflare Turnstile) of the login page.  The server     *)
(* says whether a sign-in needs one; it may start to after failures.  The  *)
(* page asks when it is opened and again after a refused sign-in, and the  *)
(* two answers may come in either order.  The widget gives a token that    *)
(* expires and that the server accepts once.                               *)
VARIABLE lc

Protections == {"off", "idle", "required"}     \* idle: enabled, not required now

-----------------------------------------------------------------------------
(* The two effects of useLoginTurnstile: the widget is drawn once the      *)
(* script is there, and forgotten, with its token, when no challenge is    *)
(* asked for.  In place of them: what was drawn once counts as drawn.      *)
DrawnForGood(s) ==
    IF s.protection = "required" /\ s.ready /\ ~s.everDrawn
    THEN [s EXCEPT !.widget = TRUE, !.everDrawn = TRUE]
    ELSE IF s.protection = "required" THEN s
    ELSE [s EXCEPT !.widget = FALSE, !.token = "none"]

TurnstileEffects(s) ==
    IF s.protection = "required"
    THEN IF s.ready THEN [s EXCEPT !.widget = TRUE, !.everDrawn = TRUE] ELSE s
    ELSE [s EXCEPT !.widget = FALSE, !.token = "none"]

(* resetChallenge: the widget is asked for another token; in place of it   *)
(* nothing happens after a refusal.                                        *)
KeepChallenge(s) == s
resetChallenge(s) == IF s.widget THEN [s EXCEPT !.token = "none"] ELSE s

LCMounted ==
    \E policy \in Protections :
      lc = [policy |-> policy, protection |-> "off", first |-> "sent", again |-> "none",
            ready |-> FALSE, widget |-> FALSE, everDrawn |-> FALSE, token |-> "none",
            login |-> "none", error |-> FALSE]

(* Failed sign-ins, and quiet, change what a risk based policy asks.       *)
PolicyChanges ==
    /\ lc.policy # "off"
    /\ lc' = [lc EXCEPT !.policy = IF @ = "idle" THEN "required" ELSE "idle"]

(* The first request: processed by the server, answered or lost; a lost    *)
(* one leaves the defaults.                                                *)
FirstProcessed == lc.first = "sent" /\ lc' = [lc EXCEPT !.first = lc.policy]

FirstAnswered ==
    /\ lc.first \in Protections
    /\ lc' = TurnstileEffects([lc EXCEPT !.first = "none", !.protection = lc.first])

FirstLost ==
    /\ lc.first = "sent"
    /\ lc' = TurnstileEffects([lc EXCEPT !.first = "none", !.protection = "off"])

(* The script is on the page while the protection is enabled; once loaded  *)
(* it stays.                                                               *)
ScriptLoaded ==
    /\ lc.protection # "off" /\ ~lc.ready
    /\ lc' = TurnstileEffects([lc EXCEPT !.ready = TRUE])

TokenGiven == lc.widget /\ lc.token = "none" /\ lc' = [lc EXCEPT !.token = "fresh"]

TokenExpires == lc.widget /\ lc.token # "none" /\ lc' = [lc EXCEPT !.token = "none"]

-----------------------------------------------------------------------------
(* handleSubmit.  loading, the button's guard, is login # "none".          *)

SubmitWithoutToken ==
    /\ lc.login = "none" /\ lc.protection = "required" /\ lc.token = "none"
    /\ lc' = [lc EXCEPT !.error = TRUE]

SubmitCredentials ==
    /\ lc.login = "none" /\ ~(lc.protection = "required" /\ lc.token = "none")
    /\ lc' = [lc EXCEPT !.error = FALSE,
                        !.login = IF lc.token = "none" THEN "bare" ELSE lc.token,
                        !.token = IF @ = "none" THEN @ ELSE "spent"]

SignInSent == lc.login \in {"bare", "fresh", "spent"}

(* The server takes a bare sign-in while it asks for no challenge.         *)
LoginSucceeds ==
    /\ SignInSent /\ (lc.login = "bare" => lc.policy # "required")
    /\ lc' = [lc EXCEPT !.login = "in"]

(* Refused, for the credentials or for the challenge, or lost: the page    *)
(* asks again what is required before the button comes back.               *)
LoginFails ==
    /\ SignInSent
    /\ lc' = [resetChallenge(lc) EXCEPT !.login = "asking", !.again = "sent"]

AgainProcessed == lc.again = "sent" /\ lc' = [lc EXCEPT !.again = lc.policy]

AgainAnswered ==
    /\ lc.again \in Protections
    /\ lc' = TurnstileEffects([lc EXCEPT !.again = "none", !.protection = lc.again,
                                         !.login = "none", !.error = TRUE])

AgainLost ==
    /\ lc.again = "sent"
    /\ lc' = [lc EXCEPT !.again = "none", !.login = "none", !.error = TRUE]

LCNext ==
    \/ PolicyChanges \/ FirstProcessed \/ FirstAnswered \/ FirstLost
    \/ ScriptLoaded \/ TokenGiven \/ TokenExpires
    \/ SubmitWithoutToken \/ SubmitCredentials \/ LoginSucceeds \/ LoginFails
    \/ AgainProcessed \/ AgainAnswered \/ AgainLost

(* A user who keeps trying, requests that are answered or lost but not     *)
(* lost for ever, a script that loads and a widget that gives tokens.      *)
LCFairness ==
    /\ WF_lc(lc # Unmounted /\ (FirstProcessed \/ FirstAnswered))
    /\ WF_lc(lc # Unmounted /\ LoginFails) /\ WF_lc(lc # Unmounted /\ AgainAnswered)
    /\ SF_lc(lc # Unmounted /\ AgainProcessed) /\ SF_lc(lc # Unmounted /\ ScriptLoaded)
    /\ SF_lc(lc # Unmounted /\ TokenGiven) /\ SF_lc(lc # Unmounted /\ SubmitCredentials)

-----------------------------------------------------------------------------
(* Properties. *)

LCTypeOK ==
    lc # Unmounted =>
      /\ {lc.policy, lc.protection} \subseteq Protections
      /\ {lc.first, lc.again} \subseteq Protections \cup {"none", "sent"}
      /\ {lc.ready, lc.widget, lc.error} \subseteq BOOLEAN
      /\ lc.token \in {"none", "fresh", "spent"}
      /\ lc.again # "none" <=> lc.login = "asking"

(* No sign-in carries a token that an earlier one carried: the server      *)
(* would refuse it, and the user would be refused for ever, for right      *)
(* credentials too.  A refusal, a late first answer and the expiry of the  *)
(* token may come in any order.                                            *)
TokenSentOnce == lc # Unmounted => lc.login # "spent"

(* A server that asks for the challenge from some time on gets it from a   *)
(* user who keeps trying, although the late first answer may have taken    *)
(* the widget off the page and the second question may have been lost.     *)
ChallengeReachesServer ==
    <>[](lc # Unmounted /\ lc.policy = "required") => <>(lc # Unmounted /\ lc.login \in {"fresh", "in"})

=============================================================================
