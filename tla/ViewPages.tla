----------------------------- MODULE ViewPages ------------------------------
(***************************************************************************)
(* What is shown, what the location and the browser's storage hold, and    *)
(* what a form submits: the filters of the audit log, the histories, the   *)
(* middlewares, the smoke runs and their artifacts, scheduled maintenance, *)
(* and the forms of services and templates.  The router shows one page at  *)
(* a time, and what two pages share is on the server or stored by the      *)
(* first before the second is opened: a behaviour is one visit of one      *)
(* page, and every other page is unmounted.                                *)
(***************************************************************************)
EXTENDS AuditFilters, HistoryPanels, MiddlewareTemplates,
        FailureMetadata, SmokeHistory, ArtifactLinks, MaintenancePanel,
        ServiceForm

pages == <<au, hp, mf, sf, fm, sh, ks, al, mp, lf, fo, tf>>

(* Exactly one page is opened. *)
Init ==
    \E page \in {"au", "hp", "mf", "sf", "fm", "sh", "ks", "al", "mp", "lf", "fo", "tf"} :
      /\ IF page = "au" THEN AUMounted ELSE au = Unmounted
      /\ IF page = "hp" THEN HPMounted ELSE hp = Unmounted
      /\ IF page = "mf" THEN MFMounted ELSE mf = Unmounted
      /\ IF page = "sf" THEN SFMounted ELSE sf = Unmounted
      /\ IF page = "fm" THEN FMMounted ELSE fm = Unmounted
      /\ IF page = "sh" THEN SHMounted ELSE sh = Unmounted
      /\ IF page = "ks" THEN KSMounted ELSE ks = Unmounted
      /\ IF page = "al" THEN ALMounted ELSE al = Unmounted
      /\ IF page = "mp" THEN MPMounted ELSE mp = Unmounted
      /\ IF page = "lf" THEN LFMounted ELSE lf = Unmounted
      /\ IF page = "fo" THEN FOMounted ELSE fo = Unmounted
      /\ IF page = "tf" THEN TFMounted ELSE tf = Unmounted

Next ==
    \/ au # Unmounted /\ AUNext /\ UNCHANGED <<hp, mf, sf, fm, sh, ks, al, mp, lf, fo, tf>>
    \/ hp # Unmounted /\ HPNext /\ UNCHANGED <<au, mf, sf, fm, sh, ks, al, mp, lf, fo, tf>>
    \/ mf # Unmounted /\ MFNext /\ UNCHANGED <<au, hp, sf, fm, sh, ks, al, mp, lf, fo, tf>>
    \/ sf # Unmounted /\ SFNext /\ UNCHANGED <<au, hp, mf, fm, sh, ks, al, mp, lf, fo, tf>>
    \/ fm # Unmounted /\ FMNext /\ UNCHANGED <<au, hp, mf, sf, sh, ks, al, mp, lf, fo, tf>>
    \/ sh # Unmounted /\ SHNext /\ UNCHANGED <<au, hp, mf, sf, fm, ks, al, mp, lf, fo, tf>>
    \/ ks # Unmounted /\ KSNext /\ UNCHANGED <<au, hp, mf, sf, fm, sh, al, mp, lf, fo, tf>>
    \/ al # Unmounted /\ ALNext /\ UNCHANGED <<au, hp, mf, sf, fm, sh, ks, mp, lf, fo, tf>>
    \/ mp # Unmounted /\ MPNext /\ UNCHANGED <<au, hp, mf, sf, fm, sh, ks, al, lf, fo, tf>>
    \/ lf # Unmounted /\ LFNext /\ UNCHANGED <<au, hp, mf, sf, fm, sh, ks, al, mp, fo, tf>>
    \/ fo # Unmounted /\ FONext /\ UNCHANGED <<au, hp, mf, sf, fm, sh, ks, al, mp, lf, tf>>
    \/ tf # Unmounted /\ TFNext /\ UNCHANGED <<au, hp, mf, sf, fm, sh, ks, al, mp, lf, fo>>

Spec == Init /\ [][Next]_pages

-----------------------------------------------------------------------------
(* The fields of the page that is open have their types. *)
ViewPagesTypeOK ==
    /\ AUTypeOK /\ HPTypeOK /\ MFTypeOK /\ SFTypeOK /\ FMTypeOK /\ SHTypeOK
    /\ KSTypeOK /\ ALTypeOK /\ MPTypeOK /\ LFTypeOK /\ FOTypeOK /\ TFTypeOK

(* The location holds what is on screen, whatever was clicked, typed,      *)
(* reset or closed before: a reload, or the link in another tab, shows the *)
(* same filters, page and open history, and no filter that has no control. *)
LinksRestore ==
    /\ PanelUrlRestores /\ MiddlewareLinkRestores /\ MetadataUrlRestores
    /\ HistoryUrlRestores /\ LocalLinkRestores /\ MaintenanceLinkRestores
    /\ NoHiddenSubfilter

(* What is displayed agrees with the data it is made of, although it is    *)
(* computed in several places and refreshed at different times: counts and *)
(* alerts with their lists, statistics with the entries, orders, chips,    *)
(* notices, links and editors with what is selected.  Types included.      *)
ShownAgreesWithData ==
    /\ ViewPagesTypeOK
    /\ FiltersAgree /\ BottlenecksAgree /\ StatisticsSound /\ ExportNoticeCurrent
    /\ FilterCountsTrue /\ HealthyServiceNeedsNoAttention
    /\ AlertAgreesWithList /\ LocalCountsTrue
    /\ OptionCountsTrue /\ LinksComeFirst /\ ShareIsOfFilter
    /\ OpenHistoryVisible /\ EditorOfShownEnd
    /\ MetadataOrderTotal /\ ChipsAreApplied

(* What leaves the page is what the user chose, and the server takes it:   *)
(* hidden fields neither block nor leak into a payload, an untouched form  *)
(* changes nothing, a clean-up and an export take what is ticked, stored   *)
(* filters stay a list the code accepts.                                   *)
SentAsChosen ==
    /\ AuditQueryAccepted
    /\ CleanupTakesSelection /\ ExportDescribesItself
    /\ SavedFiltersConsistent /\ ListSavedAsTyped
    /\ HiddenFieldsDoNotBlock /\ UntouchedEditChangesNothing /\ PayloadConsistent
    /\ TemplatePayloadAccepted /\ UntouchedTemplateKept

(* A step does what its button says: removing a condition removes it, a    *)
(* new filter starts at the first page, saving loses no other filter and   *)
(* keeps what is shown, a reload keeps the filter, an extension lengthens, *)
(* an imported container can be reached.                                   *)
ChangesAsAsked ==
    /\ RemovalRemoves /\ NewResultFromTop /\ NewFilterFirstPage
    /\ NoSilentLoss /\ SavedAsShown
    /\ ReloadKeepsFilter /\ ExtensionLengthens /\ ImportedUpstreamReachable

=============================================================================
