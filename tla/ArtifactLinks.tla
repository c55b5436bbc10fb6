--------------------------- MODULE ArtifactLinks ---------------------------
(***************************************************************************)
(* The failed smoke runs and the screenshots kept of them, which expire:   *)
(* the filter of the list, kept in the query string and in the storage of  *)
(* the browser, the counts of its options, the few runs that are shown and *)
(* the links among them.  Time is the page's own clock.                    *)
(***************************************************************************)
EXTENDS Browser, Naturals, Sequences
LOCAL Seqs == INSTANCE SequencesExt

CONSTANTS Retention, SoonWindow,     \* life of an artifact, and when it is expiring soon
          ShownRuns,                 \* runs that are shown
          MaxFailedRuns, LastTime    \* bounds

VARIABLE al

ArtifactFilters == {"all", "available", "expiring_soon", "expired"}
Undated == 0
Far == Retention + LastTime + 1      \* later than any artifact expires

-----------------------------------------------------------------------------

(* A run has an artifact or not; its date may be missing.                  *)
getSmokeArtifactExpiryState(run, now) ==
    CASE run.expires = Undated -> "none"
      [] run.expires # Undated /\ run.expires <= now -> "expired"
      [] run.expires > now /\ run.expires <= now + SoonWindow -> "expiring_soon"
      [] OTHER -> "active"

ExpiryState(run, now) == IF run.artifact THEN getSmokeArtifactExpiryState(run, now) ELSE "none"

Matches(run, filter, now) ==
    CASE filter = "all" -> TRUE
      [] filter = "available" -> run.artifact /\ ExpiryState(run, now) # "expired"
      [] OTHER -> ExpiryState(run, now) = filter

(* In place of getArtifactSortValue: by the date alone.                    *)
ByDate(run, now) == IF run.artifact THEN run.expires ELSE Far

getArtifactSortValue(run, now) ==
    CASE ~run.artifact -> Far + 2
      [] ExpiryState(run, now) = "expired" -> Far + 1
      [] run.artifact /\ run.expires = Undated -> Far
      [] OTHER -> run.expires

(* filterAndPrioritizeSmokeArtifactRuns: the sort is stable. *)
FilteredRuns(runs, filter, now) ==
    LET Before(i, j) == LET x == getArtifactSortValue(runs[i], now)
                            y == getArtifactSortValue(runs[j], now)
                        IN  x < y \/ (x = y /\ i < j)
        order == Seqs!SetToSortSeq({i \in DOMAIN runs : Matches(runs[i], filter, now)}, Before)
    IN  [k \in DOMAIN order |-> runs[order[k]]]

(* getSmokeArtifactFilterCounts; in place of it, only dated artifacts are  *)
(* available.                                                              *)
DatedCounts(runs, now) ==
    LET Count(P(_)) == Len(SelectSeq(runs, P))
    IN  [all |-> Len(runs),
         available |-> Count(LAMBDA r : ExpiryState(r, now) \in {"active", "expiring_soon"}),
         expiring_soon |-> Count(LAMBDA r : ExpiryState(r, now) = "expiring_soon"),
         expired |-> Count(LAMBDA r : ExpiryState(r, now) = "expired")]

getSmokeArtifactFilterCounts(runs, now) ==
    LET Count(P(_)) == Len(SelectSeq(runs, P))
    IN  [all |-> Len(runs),
         available |-> Count(LAMBDA r : r.artifact /\ ExpiryState(r, now) # "expired"),
         expiring_soon |-> Count(LAMBDA r : ExpiryState(r, now) = "expiring_soon"),
         expired |-> Count(LAMBDA r : ExpiryState(r, now) = "expired")]

(* SmokeFailureArtifactRunList: what stands beside a run. *)
ArtifactShown(run, now) ==
    IF ~run.artifact THEN "nothing" ELSE IF ExpiryState(run, now) = "expired" THEN "expired" ELSE "link"

(* SmokeFailureArtifactLinks: the runs that are shown. *)
DisplayedRuns(s) ==
    LET runs == FilteredRuns(s.runs, s.filter, s.clock)
    IN  SubSeq(runs, 1, IF Len(runs) < ShownRuns THEN Len(runs) ELSE ShownRuns)

-----------------------------------------------------------------------------

(* The effect on mount: the query string, else the storage, else "all";    *)
(* what was chosen is written to both.  In place of it, the storage comes  *)
(* first, or a value of the query string is trusted.                       *)
StorageFirst(url, stored) ==
    IF stored \in ArtifactFilters THEN stored ELSE IF url \in ArtifactFilters THEN url ELSE "all"

(* In place of InitialFilter: any value of the query is taken. *)
TrustedQuery(url, stored) ==
    IF url # "none" THEN url ELSE IF stored \in ArtifactFilters THEN stored ELSE "all"

InitialFilter(url, stored) ==
    IF url \in ArtifactFilters THEN url ELSE IF stored \in ArtifactFilters THEN stored ELSE "all"

(* replaceArtifactFilterQuery: "all" takes the parameter away.             *)
UrlOf(filter) == IF filter = "all" THEN "none" ELSE filter

(* copy is the state of the copy button, which the clipboard may keep      *)
(* waiting; share the filter of the link that is offered for copying by    *)
(* hand when it fails.                                                     *)
ALMounted ==
    \E url \in {"none", "old", "expired"}, stored \in {"none", "available"} :
      LET filter == InitialFilter(url, stored)
      IN  al = [runs |-> <<>>, clock |-> 1, filter |-> filter, url |-> UrlOf(filter), stored |-> filter,
                copy |-> "idle", writing |-> FALSE, share |-> "nothing"]

(* onChange of the select; in place of it, the link offered is kept.       *)
ShareKept(filter) ==
    al' = [al EXCEPT !.filter = filter, !.url = UrlOf(filter), !.stored = filter, !.copy = "idle"]

ChangeFilter(filter) ==
    al' = [al EXCEPT !.filter = filter, !.url = UrlOf(filter), !.stored = filter, !.copy = "idle", !.share = "nothing"]

copyFilterLink == al' = [al EXCEPT !.share = al.url, !.writing = TRUE]

(* The clipboard answers; a filter chosen meanwhile does not stop it.      *)
ClipboardAnswers ==
    /\ al.writing
    /\ \E copy \in {"copied", "error"} : al' = [al EXCEPT !.copy = copy, !.writing = FALSE]

CopiedTimeout == al.copy = "copied" /\ al' = [al EXCEPT !.copy = "idle"]

(* Another tab shows the same list, and stores its filter. *)
OtherTabStores(filter) == al' = [al EXCEPT !.stored = filter]

(* The page is loaded again. *)
ReloadPage ==
    LET filter == InitialFilter(al.url, al.stored)
    IN  al' = [al EXCEPT !.filter = filter, !.url = UrlOf(filter), !.stored = filter,
                         !.copy = "idle", !.writing = FALSE, !.share = "nothing"]

(* A run fails; the history that is polled lists the newest first. *)
RunFails ==
    /\ Len(al.runs) < MaxFailedRuns
    /\ \E artifact \in BOOLEAN, expires \in {Undated, al.clock + Retention} :
         al' = [al EXCEPT !.runs = <<[artifact |-> artifact, expires |-> IF artifact THEN expires ELSE Undated]>> \o @]

ClockTicks == al.clock < LastTime /\ al' = [al EXCEPT !.clock = @ + 1]

ALNext ==
    \/ \E filter \in ArtifactFilters : ChangeFilter(filter) \/ OtherTabStores(filter)
    \/ copyFilterLink \/ ClipboardAnswers \/ CopiedTimeout \/ ReloadPage \/ RunFails \/ ClockTicks

-----------------------------------------------------------------------------
(* Properties. *)

ALTypeOK ==
    al # Unmounted =>
      /\ {al.filter, al.stored} \subseteq ArtifactFilters /\ al.url \in (ArtifactFilters \ {"all"}) \cup {"none"}
      /\ Len(al.runs) <= MaxFailedRuns

(* The number in every option of the filter is the number of runs that the *)
(* list has when it is chosen, at every time, also for runs without an     *)
(* artifact or without a date.                                             *)
OptionCountsTrue ==
    al # Unmounted =>
      \A filter \in ArtifactFilters :
        getSmokeArtifactFilterCounts(al.runs, al.clock)[filter] = Len(FilteredRuns(al.runs, filter, al.clock))

(* What can still be downloaded is not pushed off the list by what cannot: *)
(* while a screenshot is linked nowhere in the list, everything shown is a *)
(* link.                                                                   *)
LinksComeFirst ==
    (al # Unmounted /\ al.filter = "all") =>
      LET shown == DisplayedRuns(al)
          Links(runs) == Len(SelectSeq(runs, LAMBDA r : ArtifactShown(r, al.clock) = "link"))
      IN  Links(shown) < Links(al.runs) => Links(shown) = Len(shown)

(* The link offered for copying by hand is the link of the filter that is  *)
(* shown, or nothing, however late the clipboard fails.                    *)
ShareIsOfFilter == al # Unmounted => al.share \in {"nothing", UrlOf(al.filter)}

(* A reload shows the filter that was shown, whatever another tab stored;  *)
(* but "all" is not in the query string, and gives way to what is stored.  *)
ReloadKeepsFilter ==
    [][(al # Unmounted /\ al' # Unmounted /\ ReloadPage) =>
          al'.filter = IF al.filter = "all" THEN al.stored ELSE al.filter]_al

=============================================================================
