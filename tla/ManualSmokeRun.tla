-------------------------- MODULE ManualSmokeRun --------------------------
(***************************************************************************)
(* Following a manually started smoke run from the settings page           *)
(* (useManualSmokeRunTracking.ts) and the GitHub rate limit that blocks    *)
(* it (smokeGithubRateLimit.ts).                                           *)
(*                                                                         *)
(* "Run" opens GitHub in another tab and starts a chain of polls: a timer, *)
(* a refresh request, and another timer until a run that was not known     *)
(* when tracking started appears, GitHub reports an error, or the time is  *)
(* up.  A generation number tells the chain of the last click from the     *)
(* requests of earlier ones that are still on their way.                   *)
(***************************************************************************)
EXTENDS Browser, Naturals, FiniteSets

CONSTANTS
    MaxOpens,   \* bound: clicks on the run button per visit
    MaxPolls,   \* polls until MANUAL_RUN_TRACKING_TIMEOUT_MS (12 in the code)
    MaxTime,    \* bound: the last instant a limit can be reset at
    GithubRuns  \* runs GitHub may list, the known ones included

(* Runs are numbered from 1, the one that is listed at first; a limit can  *)
(* be reset at any of the instants.                                        *)
ASSUME RunsAssumption ==
    /\ GithubRuns \subseteq Nat \ {0} /\ IsFiniteSet(GithubRuns) /\ 1 \in GithubRuns
    /\ MaxTime \in Nat

NoRun == 0
Unknown == 0    \* a timestamp that is missing or does not parse
NoTimer == 0

VARIABLE mr

-----------------------------------------------------------------------------
(* The rate limit: low is "remaining is known and within the reserve". *)

isSecondaryBlocked(s) == s.secondary # Unknown /\ s.secondary > s.now

isRefreshBlocked(s) ==
    \/ isSecondaryBlocked(s)
    \/ s.low /\ (s.reset = Unknown \/ s.reset > s.now)

(* In place of getRefreshRetryAt: the earliest limit. *)
EarliestRetryAt(s) ==
    LET ahead == {t \in {IF s.low THEN s.reset ELSE Unknown, s.secondary} : t > s.now}
    IN  IF ahead = {} THEN Unknown ELSE CHOOSE t \in ahead : \A u \in ahead : t <= u

(* The instant the component renders again: the latest of the limits that  *)
(* are still ahead, Unknown when there is none.                            *)
getRefreshRetryAt(s) ==
    LET ahead == {t \in {IF s.low THEN s.reset ELSE Unknown, s.secondary} : t > s.now}
    IN  IF ahead = {} THEN Unknown ELSE CHOOSE t \in ahead : \A u \in ahead : u <= t

(* Rendering with fresh data: the effect of useGithubApiRefreshBlocked. *)
Rendered(s) ==
    [s EXCEPT !.blocked = isRefreshBlocked(s),
              !.wake = IF isRefreshBlocked(s) THEN getRefreshRetryAt(s) ELSE Unknown]

MRMounted ==
    \E low \in BOOLEAN, reset, secondary \in 0..MaxTime, stored \in {NoRun, 1} :
      mr = Rendered([gen |-> 0, tracking |-> FALSE, timer |-> NoTimer, polling |-> {}, refreshing |-> FALSE,
                     polls |-> 0, known |-> {}, runs |-> {1}, last |-> stored,
                     stored |-> stored, opens |-> 0, now |-> 0, low |-> low,
                     reset |-> reset, secondary |-> secondary,
                     blocked |-> FALSE, wake |-> Unknown])

Tick == mr.now < MaxTime /\ mr' = [mr EXCEPT !.now = @ + 1]

(* setResetTick: the timer only renders again, the effect does not rerun. *)
LimitTimerFires ==
    /\ mr.wake # Unknown /\ mr.now >= mr.wake
    /\ mr' = [mr EXCEPT !.wake = Unknown, !.blocked = isRefreshBlocked(mr)]

-----------------------------------------------------------------------------
(* Tracking. *)

(* handleOpen: the chain of an earlier click loses its timer and its       *)
(* generation.  The button checks the limit at the click, not the rendered *)
(* value.                                                                  *)
HandleOpen ==
    /\ mr.opens < MaxOpens
    /\ ~isRefreshBlocked(mr)
    /\ mr' = [mr EXCEPT !.opens = @ + 1, !.gen = @ + 1, !.timer = mr.gen + 1,
                        !.tracking = TRUE, !.polls = 0, !.known = mr.runs]

(* In place of PollTimerFires: every poll starts the time-out anew. *)
PollUncounted ==
    /\ mr.timer # NoTimer
    /\ mr' = [mr EXCEPT !.timer = NoTimer, !.polling = @ \union {mr.timer}]

PollTimerFires ==
    /\ mr.timer # NoTimer
    /\ mr' = [mr EXCEPT !.timer = NoTimer, !.polling = @ \union {mr.timer},
                        !.polls = @ + 1]

Finish(s) == [s EXCEPT !.gen = @ + 1, !.timer = NoTimer, !.tracking = FALSE]

(* In place of findNewSmokeRun: the latest run, known or not. *)
LatestSmokeRun(runs, known) == CHOOSE r \in runs : \A t \in runs : t <= r

findNewSmokeRun(runs, known) ==
    IF runs \subseteq known THEN NoRun
    ELSE CHOOSE r \in runs \ known : \A t \in runs \ known : t <= r

(* In place of PollAnswered: the answer to an earlier click goes on. *)
AnyGeneration(g, runs) ==
    /\ g \in mr.polling
    /\ mr.runs \subseteq runs
    /\ LET answered == [mr EXCEPT !.polling = @ \ {g}, !.runs = runs]
           found == findNewSmokeRun(runs, mr.known)
       IN  mr' = IF found # NoRun
                   THEN Finish([answered EXCEPT !.last = found, !.stored = found])
                 ELSE IF mr.polls >= MaxPolls THEN Finish(answered)
                 ELSE [answered EXCEPT !.timer = g]

(* The refresh of generation g answers with the runs GitHub lists.         *)
PollAnswered(g, runs) ==
    /\ g \in mr.polling
    /\ mr.runs \subseteq runs
    /\ LET answered == [mr EXCEPT !.polling = @ \ {g}, !.runs = runs]
           found == findNewSmokeRun(runs, mr.known)
       IN  mr' = IF g # mr.gen THEN answered
                 ELSE IF found # NoRun
                   THEN Finish([answered EXCEPT !.last = found, !.stored = found])
                 ELSE IF mr.polls >= MaxPolls THEN Finish(answered)
                 ELSE [answered EXCEPT !.timer = g]

(* The request throws, or GitHub's error comes back as history error. *)
PollFailed(g) ==
    /\ g \in mr.polling
    /\ LET answered == [mr EXCEPT !.polling = @ \ {g}]
       IN  mr' = IF g = mr.gen THEN Finish(answered) ELSE answered

(* handleRefreshHistory: a refresh by hand, beside the polls, which checks *)
(* the limit at the click too; its answer is what the page shows.          *)
handleRefreshHistory ==
    /\ ~mr.refreshing /\ ~isRefreshBlocked(mr)
    /\ mr' = [mr EXCEPT !.refreshing = TRUE]

HistoryRefreshed ==
    /\ mr.refreshing
    /\ \E runs \in SUBSET GithubRuns :
         mr.runs \subseteq runs /\ mr' = [mr EXCEPT !.refreshing = FALSE, !.runs = runs]

HandleClear == mr.last # NoRun /\ mr' = [mr EXCEPT !.last = NoRun, !.stored = NoRun]

(* Leaving the page and coming back: unmount cancels, mount reads storage. *)
RemountRunTracking ==
    /\ mr.opens < MaxOpens /\ mr.tracking
    /\ mr' = Rendered([mr EXCEPT !.gen = @ + 1, !.timer = NoTimer, !.tracking = FALSE,
                                 !.polling = {}, !.refreshing = FALSE, !.last = mr.stored])

MRNext ==
    \/ Tick \/ LimitTimerFires \/ HandleOpen \/ PollTimerFires
    \/ \E g \in mr.polling :
         \/ \E runs \in SUBSET GithubRuns : PollAnswered(g, runs)
         \/ PollFailed(g)
    \/ handleRefreshHistory \/ HistoryRefreshed \/ HandleClear
    \/ RemountRunTracking

(* Timers fire and requests settle. *)
MRFairness ==
    /\ WF_mr(mr # Unmounted /\ Tick)
    /\ WF_mr(mr # Unmounted /\ LimitTimerFires)
    /\ WF_mr(mr # Unmounted /\ PollTimerFires)
    /\ \A g \in 1..(2 * MaxOpens + 2) :
         WF_mr(mr # Unmounted /\ (PollFailed(g) \/ \E runs \in SUBSET GithubRuns : PollAnswered(g, runs)))

-----------------------------------------------------------------------------
(* Properties. *)

MRTypeOK ==
    mr # Unmounted =>
      /\ mr.polling \subseteq 1..mr.gen /\ mr.timer \in 0..mr.gen
      /\ mr.runs \subseteq GithubRuns /\ mr.last \in GithubRuns \union {NoRun}
      /\ mr.tracking \in BOOLEAN /\ mr.blocked \in BOOLEAN

(* However clicks, timers and late answers interleave, tracking has        *)
(* exactly one live chain: its timer or one request of its generation.     *)
(* Without tracking there is none, so no answer can restart the polls.     *)
OneLiveChain ==
    mr # Unmounted =>
      LET timers == IF mr.timer # NoTimer THEN 1 ELSE 0
          requests == Cardinality(mr.polling \intersect {mr.gen})
      IN  timers + requests = (IF mr.tracking THEN 1 ELSE 0)

(* The run that is shown as the result of the click is one that the page   *)
(* did not know when the button was pressed: an answer to an earlier click *)
(* never supplies it.                                                      *)
ResultIsNew ==
    [][(mr # Unmounted /\ mr' # Unmounted /\ mr'.last \notin {mr.last, NoRun, mr.stored}) =>
         mr.tracking /\ mr'.last \notin mr.known]_mr

(* Following a run ends by itself: with a run, an error or the timeout. *)
TrackingEnds == (mr # Unmounted /\ mr.tracking) ~> (mr = Unmounted \/ ~mr.tracking)

(* The run button comes back when every limit with a known end has ended,  *)
(* without a new request: one timer suffices because it waits for the      *)
(* later of the two limits.                                                *)
ButtonComesBack ==
    (mr # Unmounted /\ mr.blocked /\ (mr.low => mr.reset # Unknown))
      ~> (mr = Unmounted \/ ~mr.blocked)

=============================================================================
