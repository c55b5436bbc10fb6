--------------------------- MODULE SmokeRotation ---------------------------
(***************************************************************************)
(* The monthly rotation of the smoke accounts' passwords and the browser   *)
(* check that verifies it: a script on the host changes the passwords in   *)
(* the active backend, runs a Node program that signs in and drives Chrome *)
(* over its debugging protocol, and reports the result to the backend.     *)
(* The Node program can also be run by itself for a GitHub run, whose      *)
(* result it records.  Node ends when nothing keeps its event loop alive,  *)
(* whether or not its main function came to its end.                       *)
(***************************************************************************)
EXTENDS Browser, Naturals, Sequences

CONSTANTS MaxRotations,   \* bound: attempts
          MaxCuts         \* bound: attempts cut off although nothing hangs

VARIABLE rt

-----------------------------------------------------------------------------
(* The Node program, phase by phase.  The two phases of a screen stand for *)
(* all screens, profiles and interactions that are looked at.              *)

ScreenPhases == {"screenOpen", "screenCheck"}

NodePhases == <<"login", "adminLogin", "launch", "connect", "enable", "open", "servicesPage", "api",
                "screenOpen", "screenCheck", "adminFixtures", "record", "adminStatus", "summary">>

(* What must have passed before a run counts as verified. *)
Checks == {"login", "open", "servicesPage", "api"} \cup ScreenPhases
AdminChecks == {"adminLogin", "adminFixtures"}

NavigationPhases == {"open", "screenOpen"}
CommandPhases == {"enable", "servicesPage", "api", "screenCheck", "adminFixtures", "metadata"}

(* A run for GitHub has a run id and may have the admin account; a         *)
(* rotation has the account and no run id.                                 *)
ForGithub(s) == s.kind \in {"github", "githubAdmin"}

Skipped(s, phase) ==
    \/ s.kind = "github" /\ phase \in {"adminLogin", "adminFixtures", "adminStatus"}
    \/ ~ForGithub(s) /\ phase \in {"record", "adminStatus"}

(* The phase after this one, "close" at the end.  In place of it, the      *)
(* result is recorded before the screens are looked at.                    *)
PhaseAfter(s, phase) ==
    LET i == CHOOSE k \in 1 .. Len(NodePhases) : NodePhases[k] = phase
        later == {k \in (i + 1) .. Len(NodePhases) : ~Skipped(s, NodePhases[k])}
    IN  IF later = {} THEN "close" ELSE NodePhases[CHOOSE k \in later : \A m \in later : k <= m]

RecordedEarly(s, phase) ==
    CASE s.kind = "github" /\ phase = "api" -> "record"
      [] s.kind = "github" /\ phase = "record" -> "screenOpen"
      [] s.kind = "github" /\ phase = "screenCheck" -> "summary"
      [] OTHER -> PhaseAfter(s, phase)

NextPhase(s, phase) == PhaseAfter(s, phase)

NotStarted == [phase |-> "none", cmd |-> "none", tries |-> 0, failed |-> FALSE, passed |-> {}]

Passed(s) ==
    [s EXCEPT !.node = [s.node EXCEPT !.passed = s.node.passed \cup {s.node.phase},
                                      !.phase = NextPhase(s, s.node.phase), !.cmd = "none", !.tries = 0]]

(* An error is thrown.  Once Chrome runs it is closed on the way out; an   *)
(* error of a screen first has its page looked up and recorded.  In place  *)
(* of it, the error of a screen ends there.                                *)
Rescued(s) ==
    IF s.node.phase \in ScreenPhases
    THEN [s EXCEPT !.node.phase = NextPhase(s, @), !.node.cmd = "none", !.node.tries = 0]
    ELSE [s EXCEPT !.node.failed = TRUE, !.node.cmd = "none", !.node.tries = 0,
                   !.node.phase = IF @ \in {"login", "adminLogin", "launch"} THEN "exit" ELSE "close"]

(* In place of it: only the errors of the screens close Chrome.            *)
NotClosed(s) ==
    [s EXCEPT !.node.failed = TRUE, !.node.cmd = "none", !.node.tries = 0,
              !.node.phase = IF @ \in ScreenPhases THEN "metadata" ELSE "exit"]

PhaseAfterError(phase) ==
    CASE phase \in {"login", "adminLogin", "launch"} -> "exit"
      [] phase \in ScreenPhases -> "metadata"
      [] OTHER -> "close"

Throw(s) ==
    [s EXCEPT !.node = [s.node EXCEPT !.failed = TRUE, !.cmd = "none", !.tries = 0,
                                      !.phase = PhaseAfterError(s.node.phase)]]

(* Node ends.  evidence says why a run with exit status 0 may be trusted.  *)
Exited(s, code, how) ==
    LET verified == (Checks \cup (IF Skipped(s, "adminLogin") THEN {} ELSE AdminChecks)) \subseteq s.node.passed
    IN  [s EXCEPT !.node = NotStarted, !.code = code,
                  !.evidence = IF how = "end" /\ verified THEN "checked" ELSE how,
                  !.step = IF ForGithub(s) THEN "idle" ELSE IF code = 0 THEN "successReport" ELSE "exitTrap"]

-----------------------------------------------------------------------------
(* The steps of the Node program. *)

(* resolveSessionCookies: the login is accepted and sets a cookie. *)
SignIn ==
    /\ rt.node.phase = "login"
    /\ \/ rt' = Passed(rt)
       \/ rt' = Throw(rt)

(* The admin account signs in, and its write must be refused. *)
assertSmokeAdminReadOnly ==
    /\ rt.node.phase = "adminLogin"
    /\ \/ rt' = Passed(rt)
       \/ rt' = Throw(rt)

launchSmokeChrome ==
    /\ rt.node.phase = "launch"
    /\ \/ rt' = [Passed(rt) EXCEPT !.chrome = "running"]
       \/ rt' = [Throw(rt) EXCEPT !.chrome = "ended"]

connectToSmokePage ==
    /\ rt.node.phase = "connect"
    /\ \/ rt.chrome = "running" /\ rt' = Passed(rt)
       \/ rt' = Throw(rt)

(* CdpClient.send.  A navigation first sets the timer of the load event.   *)
Send ==
    /\ rt.node.phase \in CommandPhases \cup NavigationPhases /\ rt.node.cmd = "none"
    /\ rt' = [rt EXCEPT !.node.cmd = IF rt.node.phase \in NavigationPhases THEN "navigating" ELSE "sent"]

(* An answer: the navigation has begun; a command did what it should, or   *)
(* the page or the answer is not what it should be.                        *)
Answered ==
    /\ rt.chrome = "running" /\ rt.node.phase \notin {"metadata", "servicesPage"}
    /\ \/ rt.node.cmd = "navigating" /\ rt' = [rt EXCEPT !.node.cmd = "loading"]
       \/ rt.node.cmd \in {"navigating", "sent"} /\ rt' = Throw(rt)
       \/ rt.node.cmd = "sent" /\ rt' = Passed(rt)

(* A read of the API whose evaluation failed is repeated once. *)
ReadRepeated ==
    /\ rt.chrome = "running" /\ rt.node.phase = "api" /\ rt.node.cmd = "sent" /\ rt.node.tries = 0
    /\ rt' = [rt EXCEPT !.node.cmd = "none", !.node.tries = 1]

(* The page is evaluated until it shows the services, the login page is    *)
(* shown instead, or the time is up: here, after the second evaluation.    *)
waitForServicesPage ==
    /\ rt.chrome = "running" /\ rt.node.phase = "servicesPage" /\ rt.node.cmd = "sent"
    /\ \/ rt' = Passed(rt)
       \/ rt' = Throw(rt)
       \/ rt.node.tries = 0 /\ rt' = [rt EXCEPT !.node.cmd = "none", !.node.tries = 1]

loadEventFired ==
    /\ rt.chrome = "running" /\ rt.node.cmd = "loading"
    /\ rt' = Passed(rt)

(* The timer of the load event: nobody awaits the event before the command *)
(* is answered, and then the rejection ends Node at once.                  *)
LoadTimesOut ==
    \/ rt.node.cmd = "loading" /\ rt' = Throw(rt)
    \/ rt.node.cmd = "navigating" /\ rt' = Exited(rt, 1, "crash")

(* runDashboardVisualSmoke after an error: the page is read, at most twice *)
(* if the file cannot be written.                                          *)
FailureMetadataRead ==
    /\ rt.chrome = "running" /\ rt.node.phase = "metadata" /\ rt.node.cmd = "sent"
    /\ \/ rt.node.tries = 0 /\ rt' = [rt EXCEPT !.node.cmd = "none", !.node.tries = 1]
       \/ rt' = [rt EXCEPT !.node.cmd = "none", !.node.phase = "recordFailure"]

(* The failure of a GitHub run is recorded, if the server takes it; an     *)
(* error of this is dropped.                                               *)
recordRemoteSmokeFailure ==
    /\ rt.node.phase = "recordFailure"
    /\ \E taken \in BOOLEAN :
         rt' = [rt EXCEPT !.node.phase = "close",
                          !.verdicts = IF taken /\ ForGithub(rt) THEN @ \cup {"failure"} ELSE @]

(* Nothing keeps Node alive while it waits for a Chrome that is gone.      *)
EventLoopEmpty ==
    /\ rt.node.phase # "none" /\ rt.node.cmd = "sent" /\ rt.chrome = "ended"
    /\ rt' = Exited(rt, 0, "browserDied")

(* The success of a GitHub run; the answer may be lost. *)
recordRemoteSmokeSuccess ==
    /\ rt.node.phase = "record"
    /\ \E stored, answered \in BOOLEAN :
         LET next == [rt EXCEPT !.verdicts = IF stored THEN @ \cup {"success"} ELSE @]
         IN  rt' = IF stored /\ answered THEN Passed(next) ELSE Throw(next)

(* The admin checks must not be stale; and the summary of the GitHub run.  *)
AdminStatusAndSummary ==
    /\ rt.node.phase \in {"adminStatus", "summary"}
    /\ \/ rt' = Passed(rt)
       \/ rt' = Throw(rt)

(* chrome.close; removing the profile may fail. *)
CloseChrome ==
    /\ rt.node.phase = "close"
    /\ \E removed \in BOOLEAN :
         rt' = [rt EXCEPT !.chrome = "ended", !.node = [rt.node EXCEPT !.failed = rt.node.failed \/ ~removed, !.phase = "exit"]]

(* main is done, or its error is written for the alert. *)
EndOfMain ==
    /\ rt.node.phase = "exit"
    /\ rt' = IF rt.node.failed THEN Exited(rt, 1, "end") ELSE Exited(rt, 0, "end")

-----------------------------------------------------------------------------
(* The script. *)

RotationSteps == <<"backend", "revision", "runningReport", "viewer", "admin", "node">>

RTMounted ==
    rt = [step |-> "idle", kind |-> "none", node |-> NotStarted, chrome |-> "ended", code |-> 0, failedAt |-> "none",
          status |-> "never", verdicts |-> {}, evidence |-> "none", told |-> FALSE, mute |-> FALSE,
          attempts |-> 0, cuts |-> 0]

NodeStarted(s) ==
    [s EXCEPT !.step = "smoke", !.node = [NotStarted EXCEPT !.phase = "login"]]

(* A new run, with a Chrome of its own. *)
NewRun(s, kind) ==
    [s EXCEPT !.kind = kind, !.attempts = @ + 1, !.cuts = 0, !.chrome = "ended", !.verdicts = {},
              !.evidence = "none", !.told = FALSE, !.mute = FALSE]

(* The timer or an administrator; a second script finds the lock and ends. *)
StartRotation ==
    /\ rt.step = "idle" /\ rt.attempts < MaxRotations
    /\ \E kind \in {"timer", "manual"} : rt' = [NewRun(rt, kind) EXCEPT !.step = "backend"]

StartGithubRun ==
    /\ rt.step = "idle" /\ rt.attempts < MaxRotations
    /\ \E kind \in {"github", "githubAdmin"} : rt' = NodeStarted(NewRun(rt, kind))

(* resolve_backend_service, resolve_deployed_revision, update_account and  *)
(* the report of the start; the last step starts Node.                     *)
RotationStep ==
    \E i \in 1 .. Len(RotationSteps) :
      /\ rt.step = RotationSteps[i]
      /\ \/ rt' = IF rt.step = "node" THEN NodeStarted(rt)
                  ELSE [rt EXCEPT !.step = RotationSteps[i + 1],
                                  !.status = IF rt.step = "runningReport" THEN "running" ELSE @]
         \/ rt' = [rt EXCEPT !.step = "exitTrap", !.failedAt = rt.step, !.code = 1]

ReportSuccess ==
    /\ rt.step = "successReport"
    /\ \/ rt' = [rt EXCEPT !.step = "idle", !.status = "success"]
       \/ rt' = [rt EXCEPT !.step = "exitTrap", !.failedAt = rt.step, !.code = 1]

(* handle_exit: the failure is reported to the backend, or else to the     *)
(* host's alert channel.  In place of it, a failure that the backend does  *)
(* not take is not passed on.                                              *)
NotPassedOn(s, reported, alerted) ==
    [s EXCEPT !.step = "idle", !.failedAt = "none", !.status = IF reported THEN "failure" ELSE @, !.told = reported]

Handled(s, reported, alerted) ==
    [s EXCEPT !.step = "idle", !.failedAt = "none",
              !.status = IF reported THEN "failure" ELSE @,
              !.told = reported \/ alerted, !.mute = ~reported /\ ~alerted]

handle_exit ==
    /\ rt.step = "exitTrap"
    /\ \E reported, alerted \in BOOLEAN :
         /\ rt.failedAt = "backend" => ~reported   \* which backend is not known
         /\ rt' = Handled(rt, reported, alerted)

(* systemd ends an attempt of the timer after twenty minutes, and all its  *)
(* processes with it; the exit trap then sees the status of the command    *)
(* before, which is 0.                                                     *)
Stuck(s) == s.node # NotStarted /\ s.node.cmd = "sent" /\ s.chrome = "hung"

TimedOut ==
    /\ rt.kind = "timer" /\ rt.step # "idle" /\ (Stuck(rt) \/ rt.cuts < MaxCuts)
    /\ rt' = [rt EXCEPT !.step = "idle", !.node = NotStarted, !.chrome = "ended", !.cuts = 1, !.failedAt = "none"]

ChromeEnds == rt.node # NotStarted /\ rt.chrome \in {"running", "hung"} /\ rt' = [rt EXCEPT !.chrome = "ended"]

ChromeHangs == rt.node # NotStarted /\ rt.chrome = "running" /\ rt' = [rt EXCEPT !.chrome = "hung"]

NodeStep ==
    \/ SignIn \/ assertSmokeAdminReadOnly \/ launchSmokeChrome \/ connectToSmokePage
    \/ Send \/ Answered \/ ReadRepeated \/ waitForServicesPage \/ loadEventFired \/ LoadTimesOut
    \/ FailureMetadataRead \/ recordRemoteSmokeFailure \/ EventLoopEmpty \/ recordRemoteSmokeSuccess \/ AdminStatusAndSummary
    \/ CloseChrome \/ EndOfMain

RTNext ==
    \/ NodeStep
    \/ StartRotation \/ StartGithubRun \/ RotationStep \/ ReportSuccess \/ handle_exit
    \/ TimedOut \/ ChromeEnds \/ ChromeHangs

(* Requests and commands end, timers fire, systemd ends what hangs. *)
RTFairness ==
    /\ WF_rt(rt # Unmounted /\ NodeStep)
    /\ WF_rt(rt # Unmounted /\ (RotationStep \/ ReportSuccess \/ handle_exit))
    /\ WF_rt(rt # Unmounted /\ Stuck(rt) /\ TimedOut)

-----------------------------------------------------------------------------
(* Properties. *)

RTTypeOK ==
    rt # Unmounted =>
      /\ rt.status \in {"never", "running", "success", "failure"} /\ rt.verdicts \subseteq {"success", "failure"}
      /\ rt.evidence \in {"none", "checked", "end", "crash", "browserDied"}
      /\ rt.chrome \in {"running", "hung", "ended"}

(* A rotation is reported as a success only when the sign-in, the refused  *)
(* write, the API, the screens and the admin fixtures were all checked:    *)
(* the one exception is a Chrome that dies while a command is unanswered,  *)
(* which ends Node with status 0.                                          *)
SuccessMeansVerified ==
    (rt # Unmounted /\ rt.step = "successReport") => rt.evidence \in {"checked", "browserDied"}

(* A GitHub run is never recorded as both a success and a failure, also    *)
(* when the answer of the server to one of them is lost; one recorded as a *)
(* failure never ends with status 0.                                       *)
OneVerdict ==
    rt # Unmounted =>
      /\ rt.verdicts # {"success", "failure"}
      /\ (ForGithub(rt) /\ rt.step = "idle" /\ "failure" \in rt.verdicts) => rt.code = 1

(* No run leaves Chrome behind, whatever fails, unless Node crashed on an  *)
(* unanswered navigation.                                                  *)
ChromeNotLeft ==
    (rt # Unmounted /\ rt.node = NotStarted /\ rt.evidence # "crash") => rt.chrome = "ended"

(* A rotation that is reported as started comes to an end that is          *)
(* reported, to the backend or the host's alert channel, unless systemd    *)
(* cut it off, both channels failed, or Chrome hangs in a run by hand.     *)
RotationSettles ==
    (rt # Unmounted /\ rt.status = "running" /\ rt.step # "idle" /\ ~ForGithub(rt))
      ~> (/\ rt # Unmounted
          /\ rt.status # "running" \/ rt.told \/ rt.mute \/ rt.cuts > 0 \/ (rt.kind = "manual" /\ Stuck(rt)))

=============================================================================
