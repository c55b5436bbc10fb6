------------------------- MODULE StorefrontWatchdog -------------------------
(***************************************************************************)
(* The watchdog of the storefront: a timer starts a script every fifteen   *)
(* minutes, which runs the probe, decides from its state file whether a    *)
(* failure or a recovery is to be announced, and writes the state file.    *)
(* Once a day, and while a wrong configuration is known, the probe also    *)
(* follows the login redirects to the providers.  Its checks are made      *)
(* concurrently and share nothing: they are one step.  Runs exclude each   *)
(* other by a lock.                                                        *)
(***************************************************************************)
EXTENDS Browser, Naturals

CONSTANTS ShopFlaws,           \* <<path, flaw>>: what goes wrong in the shop
          FailureThreshold,    \* failed runs before an alert
          StorefrontCooldown,  \* time between alerts of one outage, in runs
          MaxSlips             \* bound: runs killed, answers of the alert lost

(* At least one run fails before an alert; the cooldown may be nothing.    *)
ASSUME StorefrontAssumption == FailureThreshold \in Nat \ {0} /\ StorefrontCooldown \in Nat

VARIABLE sw

-----------------------------------------------------------------------------
(* The probe.  A check passes only if all its requests are answered as     *)
(* expected; a request that times out counts as any other wrong answer.    *)

OAUTH_CHECKS == {"kakaoLogin", "naverLogin", "googleLogin"}

(* What is wrong with the answer to a path, if anything; and what the      *)
(* provider makes of a login of the shop: one of them changes.             *)
FlawAt(s, path) == {f \in s.shop : f[1] = path}

ProviderOf(s, name) == IF name = "kakaoLogin" THEN s.provider ELSE "fine"

(* assertHtml: status 200, HTML, one of the markers. *)
assertHtml(s, path) == \A f \in FlawAt(s, path) : f[2] \notin {"status", "not html", "marker", "timeout"}

(* checkCatalog: there are products, each has an active variant, and every *)
(* price is positive; then the list and the page of the first product.     *)
checkCatalog(s) ==
    /\ \A f \in FlawAt(s, "/api/products") : f[2] \notin {"status", "no product", "no variant", "price", "timeout"}
    /\ assertHtml(s, "/products")
    /\ assertHtml(s, "/p")

checkPaymentMethods(s) ==
    \A f \in FlawAt(s, "/api/payment-methods") : f[2] \notin {"status", "no active method", "timeout"}

(* checkOAuth: the redirect, its callback and its state cookie; if asked   *)
(* to, what the provider makes of the redirect.  A provider that does not  *)
(* answer, or answers something else, decides nothing.  In place of it,    *)
(* the error of an unreachable provider is passed on.                      *)
UnreachableIsFailure(s, name, verifyProvider) ==
    CASE FlawAt(s, name) # {} -> "failed"
      [] FlawAt(s, name) = {} /\ verifyProvider /\ ProviderOf(s, name) # "fine" -> "provider failure"
      [] OTHER -> "ok"

checkOAuth(s, name, verifyProvider) ==
    CASE \E f \in FlawAt(s, name) : f[2] \in {"status", "redirect", "callback", "no cookie", "timeout"} -> "failed"
      [] FlawAt(s, name) = {} /\ verifyProvider /\ ProviderOf(s, name) = "misconfigured" -> "provider failure"
      [] OTHER -> "ok"

runCheck(s, name, verifyProvider) ==
    IF name \in OAUTH_CHECKS THEN checkOAuth(s, name, verifyProvider)
    ELSE IF \/ name = "catalog" /\ checkCatalog(s)
            \/ name = "loginPage" /\ assertHtml(s, "/login")
            \/ name = "checkoutPage" /\ assertHtml(s, "/checkout")
            \/ name = "paymentMethods" /\ checkPaymentMethods(s)
         THEN "ok" ELSE "failed"

CheckNames == {"catalog", "loginPage", "checkoutPage", "paymentMethods"} \cup OAUTH_CHECKS

-----------------------------------------------------------------------------
(* The state file.  checked: the date of the last check of the providers   *)
(* is today's; age: runs since last_alert_at, at most the cooldown.  The   *)
(* count of failures is kept up to the threshold.                          *)

NoState == [status |-> "unknown", active |-> FALSE, age |-> StorefrontCooldown,
            failures |-> 0, checked |-> FALSE, providerFailure |-> FALSE]

NotRunning == [step |-> "idle"]

(* The providers are checked after six in the morning, once a day, while   *)
(* they are known to refuse the shop, or on request.  In place of it, a    *)
(* known refusal waits for the next day.                                   *)
VerifyOnceADay(s, forced) == forced \/ (s.hour = "day" /\ ~s.file.checked)

verify_provider(s, forced) ==
    \/ forced
    \/ s.file.providerFailure
    \/ s.hour = "day" /\ ~s.file.checked

ConsecutiveFailures(s) ==
    CASE s.run.ok -> 0
      [] ~s.run.ok /\ s.file.status = "unhealthy" ->
           IF s.file.failures < FailureThreshold THEN s.file.failures + 1 ELSE FailureThreshold
      [] OTHER -> 1

(* What a run writes when nothing is announced. *)
CurrentState(s) ==
    [status |-> IF s.run.ok THEN "healthy" ELSE "unhealthy", active |-> s.file.active, age |-> s.file.age,
     failures |-> ConsecutiveFailures(s),
     checked |-> IF s.run.verify THEN s.run.today ELSE s.file.checked,
     providerFailure |-> IF s.run.verify /\ s.run.providerFailure THEN TRUE
                         ELSE s.file.providerFailure /\ ~(s.run.verify /\ s.run.ok)]

AlertAction(s) ==
    CASE s.run.ok /\ s.file.status = "unhealthy" /\ s.file.active -> "recovery"
      [] ~s.run.ok /\ ConsecutiveFailures(s) >= FailureThreshold
           /\ (~s.file.active \/ s.file.age = StorefrontCooldown) -> "failure"
      [] OTHER -> "none"

(* The state after an announcement that was not confirmed.  A recovery is  *)
(* forgotten, so that the next run tries it again.  In place of it, the    *)
(* state is the one that was found.                                        *)
RecoveryNotRetried(s) == CurrentState(s)

(* In place of it: the announcement counts as made. *)
AnnouncedAnyway(s) == [CurrentState(s) EXCEPT !.active = ~s.run.ok]

StateAfterFailedAlert(s) ==
    IF AlertAction(s) = "recovery"
    THEN [CurrentState(s) EXCEPT !.status = "unhealthy", !.active = TRUE, !.failures = s.file.failures]
    ELSE CurrentState(s)

StateAfterAlert(s) ==
    CASE AlertAction(s) = "failure" -> [CurrentState(s) EXCEPT !.active = TRUE, !.age = 0]
      [] AlertAction(s) = "recovery" -> [CurrentState(s) EXCEPT !.active = FALSE]
      [] OTHER -> CurrentState(s)

-----------------------------------------------------------------------------
(* The system.  last is what the administrators received last; run.met     *)
(* says that a check of the run met something wrong, bad counts the last   *)
(* completed runs of which that holds, hasty records an outage announced   *)
(* without enough of them.                                                 *)

SWMounted ==
    sw = [shop |-> {}, provider |-> "fine", hour |-> "day", ran |-> FALSE, file |-> NoState, run |-> NotRunning,
          last |-> "none", bad |-> 0, hasty |-> FALSE, slips |-> 0]

(* Something is wrong that the probe is to see. *)
Wrong(s) == s.shop # {} \/ (s.run.verify /\ s.provider = "misconfigured")

(* The timer fires, or an administrator runs the script; today is the date *)
(* read now, and stays the date of the run.                                *)
StartRun ==
    /\ sw.run.step = "idle"
    /\ \E forced \in BOOLEAN :
         LET older == [sw EXCEPT !.file.age = IF @ < StorefrontCooldown THEN @ + 1 ELSE @]
         IN  sw' = [older EXCEPT !.ran = @ \/ sw.hour = "day",
                                 !.run = [step |-> "probing", verify |-> verify_provider(older, forced), today |-> TRUE,
                                          ok |-> TRUE, providerFailure |-> FALSE, met |-> FALSE]]

(* runProbe: every check is made, whatever the others find; the run is ok  *)
(* if all are, and a refusal of one provider is one of the run.            *)
runProbe ==
    /\ sw.run.step = "probing"
    /\ LET results == {runCheck(sw, name, sw.run.verify) : name \in CheckNames}
       IN  sw' = [sw EXCEPT !.run.step = "probed", !.run.ok = results = {"ok"},
                            !.run.providerFailure = "provider failure" \in results, !.run.met = Wrong(sw)]

(* Node is killed: no line of the probe, and an exit status that is not 0. *)
ProbeDies ==
    /\ sw.run.step = "probing" /\ sw.slips < MaxSlips
    /\ sw' = [sw EXCEPT !.run.step = "probed", !.run.ok = FALSE, !.run.met = TRUE, !.slips = @ + 1]

Judged(s, next) ==
    [s EXCEPT !.run = [step |-> "judged", next |-> next, met |-> s.run.met],
              !.hasty = @ \/ (AlertAction(s) = "failure" /\ ~s.file.active /\ ~(s.run.met /\ s.bad + 1 >= FailureThreshold))]

NothingToAnnounce ==
    /\ sw.run.step = "probed" /\ AlertAction(sw) = "none"
    /\ sw' = Judged(sw, StateAfterAlert(sw))

(* The alert script sends the message and sees the answer; it sends        *)
(* nothing; or it sends it and the answer is lost.                         *)
AlertConfirmed ==
    /\ sw.run.step = "probed" /\ AlertAction(sw) # "none"
    /\ sw' = [Judged(sw, StateAfterAlert(sw)) EXCEPT !.last = AlertAction(sw)]

AlertFails ==
    /\ sw.run.step = "probed" /\ AlertAction(sw) # "none"
    /\ sw' = Judged(sw, StateAfterFailedAlert(sw))

AlertUnconfirmed ==
    /\ sw.run.step = "probed" /\ AlertAction(sw) # "none" /\ sw.slips < MaxSlips
    /\ sw' = [Judged(sw, StateAfterFailedAlert(sw)) EXCEPT !.last = AlertAction(sw), !.slips = @ + 1]

write_state ==
    /\ sw.run.step = "judged"
    /\ sw' = [sw EXCEPT !.file = sw.run.next, !.run = NotRunning,
                        !.bad = IF ~sw.run.met THEN 0 ELSE IF @ < FailureThreshold THEN @ + 1 ELSE @]

(* systemd ends a run after two minutes, and the host may go down. *)
RunKilled ==
    /\ sw.run.step # "idle" /\ sw.slips < MaxSlips
    /\ sw' = [sw EXCEPT !.run = NotRunning, !.slips = @ + 1]

(* The shop or a provider changes.  A run that has made its probe no       *)
(* longer looks at them.                                                   *)
ShopChanges ==
    /\ sw.run.step \in {"idle", "probing"}
    /\ \/ \E shop \in {{}} \cup {{f} : f \in ShopFlaws} : sw' = [sw EXCEPT !.shop = shop]
       \/ \E provider \in {"fine", "misconfigured", "unreachable"} : sw' = [sw EXCEPT !.provider = provider]

(* Six in the morning; the timer fires many times before midnight. *)
MorningComes == sw.hour = "night" /\ sw' = [sw EXCEPT !.hour = "day", !.ran = FALSE]

(* Midnight: the dates read before are yesterday's. *)
MidnightPasses ==
    /\ sw.hour = "day" /\ sw.ran
    /\ sw' = [sw EXCEPT !.hour = "night", !.file.checked = FALSE,
                        !.run = CASE sw.run.step = "idle" -> @
                                  [] sw.run.step \in {"probing", "probed"} -> [@ EXCEPT !.today = FALSE]
                                  [] OTHER -> [@ EXCEPT !.next.checked = FALSE]]

ScriptStep ==
    \/ StartRun \/ runProbe
    \/ NothingToAnnounce \/ AlertConfirmed \/ AlertFails \/ write_state

ClockTurns == MorningComes \/ MidnightPasses

SWNext ==
    \/ ScriptStep \/ ClockTurns \/ ShopChanges
    \/ ProbeDies \/ AlertUnconfirmed \/ RunKilled

(* The timer fires, requests time out after ten seconds, commands end, the *)
(* clock goes on, and an alert that is tried again and again gets through. *)
SWFairness ==
    /\ WF_sw(sw # Unmounted /\ ScriptStep)
    /\ SF_sw(sw # Unmounted /\ AlertConfirmed)
    /\ WF_sw(sw # Unmounted /\ ClockTurns)

-----------------------------------------------------------------------------
(* Properties. *)

SWTypeOK ==
    sw # Unmounted =>
      /\ sw.run.step \in {"idle", "probing", "probed", "judged"}
      /\ sw.file.status \in {"unknown", "healthy", "unhealthy"} /\ sw.file.age \in 0 .. StorefrontCooldown
      /\ sw.file.failures \in 0 .. FailureThreshold /\ sw.bad \in 0 .. FailureThreshold

(* A new outage is announced only after enough runs in a row that each met *)
(* a fault of the shop or a provider that refuses it: a provider that does *)
(* not answer, or one bad run now and then, is no outage, whatever runs    *)
(* are killed and alerts are lost in between.                              *)
OutageIsConfirmed == sw # Unmounted => ~sw.hasty

(* While no run is killed and no answer is lost, the state file says an    *)
(* outage is announced exactly when the last message was one; the          *)
(* administrators are never told of a recovery before an outage.           *)
AnnouncedAsReceived ==
    sw # Unmounted =>
      /\ (sw.slips = 0 /\ sw.run = NotRunning) => (sw.file.active <=> sw.last = "failure")
      /\ sw.last = "none" => ~sw.file.active

(* A shop that stays well is announced as well in the end, also when the   *)
(* first message about it did not get through.                             *)
RecoveryAnnounced ==
    (sw # Unmounted /\ <>[](sw # Unmounted /\ sw.shop = {} /\ sw.provider = "fine")) => <>[](sw # Unmounted /\ ~sw.file.active)

(* A provider that keeps refusing the shop is announced in the end,        *)
(* although most runs do not ask it.                                       *)
RefusalAnnounced ==
    (sw # Unmounted /\ <>[](sw # Unmounted /\ sw.shop = {} /\ sw.provider = "misconfigured")) => <>[](sw # Unmounted /\ sw.file.active)

=============================================================================
