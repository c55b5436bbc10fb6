---------------------------- MODULE WaitingPages ----------------------------
(***************************************************************************)
(* Pages that wait for something: the diagnosis after a save, a smoke run  *)
(* started by hand, the health of the manager, the session and the login   *)
(* challenge; and two jobs of the host: the storefront watchdog and the    *)
(* rotation of the smoke accounts.  Requests settle and timers fire.  The  *)
(* router shows one page at a time, and what two pages share is on the     *)
(* server or stored by the first before the second is opened; the jobs     *)
(* share nothing with the pages or each other: a behaviour is one visit of *)
(* one page, or one job, and everything else is unmounted.                 *)
(***************************************************************************)
EXTENDS ServiceDiagnosis, ManualSmokeRun, HealthBoard, AuthSession,
        StorefrontWatchdog, SmokeRotation

pages == <<dg, mr, hb, ss, lc, sw, rt>>

(* Exactly one page is opened, or one job installed. *)
Init ==
    \E page \in {"dg", "mr", "hb", "ss", "lc", "sw", "rt"} :
      /\ IF page = "dg" THEN DGMounted ELSE dg = Unmounted
      /\ IF page = "mr" THEN MRMounted ELSE mr = Unmounted
      /\ IF page = "hb" THEN HBMounted ELSE hb = Unmounted
      /\ IF page = "ss" THEN SSMounted ELSE ss = Unmounted
      /\ IF page = "lc" THEN LCMounted ELSE lc = Unmounted
      /\ IF page = "sw" THEN SWMounted ELSE sw = Unmounted
      /\ IF page = "rt" THEN RTMounted ELSE rt = Unmounted

Next ==
    \/ dg # Unmounted /\ DGNext /\ UNCHANGED <<mr, hb, ss, lc, sw, rt>>
    \/ mr # Unmounted /\ MRNext /\ UNCHANGED <<dg, hb, ss, lc, sw, rt>>
    \/ hb # Unmounted /\ HBNext /\ UNCHANGED <<dg, mr, ss, lc, sw, rt>>
    \/ ss # Unmounted /\ SSNext /\ UNCHANGED <<dg, mr, hb, lc, sw, rt>>
    \/ lc # Unmounted /\ LCNext /\ UNCHANGED <<dg, mr, hb, ss, sw, rt>>
    \/ sw # Unmounted /\ SWNext /\ UNCHANGED <<dg, mr, hb, ss, lc, rt>>
    \/ rt # Unmounted /\ RTNext /\ UNCHANGED <<dg, mr, hb, ss, lc, sw>>

Spec ==
    /\ Init /\ [][Next]_pages
    /\ DGFairness /\ MRFairness /\ HBFairness /\ SSFairness /\ LCFairness /\ SWFairness /\ RTFairness

-----------------------------------------------------------------------------
(* The fields of the page or job have their types. *)
WaitingPagesTypeOK ==
    /\ DGTypeOK /\ MRTypeOK /\ HBTypeOK /\ SSTypeOK /\ LCTypeOK /\ SWTypeOK /\ RTTypeOK

(* What is announced is true, whichever answer was late, lost or of an     *)
(* earlier attempt: one live chain of polls, alerts apart and each         *)
(* recovery after its failure, a banner like the rows, a session that was  *)
(* ended stays ended, an outage confirmed by several runs, a rotation      *)
(* called a success only when every check passed.  Types included.         *)
AnnouncementsTrue ==
    /\ WaitingPagesTypeOK
    /\ HistorySound /\ OneLiveChain
    /\ RecoveryFollowsFailure /\ AlertsApart /\ BannerAgreesWithRows /\ GreenMeansOneRevision
    /\ SignedOutStaysOut /\ TokenSentOnce
    /\ OutageIsConfirmed /\ AnnouncedAsReceived
    /\ SuccessMeansVerified /\ OneVerdict /\ ChromeNotLeft

(* Whatever is waited for comes, or is given up and reported: a save is    *)
(* reported (and its notice shown once), tracking ends with a new run or   *)
(* by time, a lasting failure, a recovery and a refusal are announced, a   *)
(* lost session and a required challenge are noticed, a rotation settles.  *)
WaitsEnd ==
    /\ SaveReported /\ NoticeShownOnce
    /\ TrackingEnds /\ ResultIsNew /\ ButtonComesBack
    /\ LastingFailureAlerted /\ LostSessionReachesLogin /\ ChallengeReachesServer
    /\ RecoveryAnnounced /\ RefusalAnnounced /\ RotationSettles

=============================================================================
