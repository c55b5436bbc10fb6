-------------------------- MODULE FailureMetadata --------------------------
(***************************************************************************)
(* The list of stored failures of smoke runs: its filters live in the      *)
(* component and in the query string (useSmokeFailureMetadataFilters.ts),  *)
(* its selection drives the export and the clean-up, which is confirmed in *)
(* a dialog (SmokeFailureMetadataManagement.tsx).                          *)
(*                                                                         *)
(* Time is counted in days.  Type, search text and sort are set, cleared,  *)
(* stored in the URL and read back the same way; the type stands for them. *)
(***************************************************************************)
EXTENDS Browser, Naturals, Sequences, FiniteSets

CONSTANTS
    Runs,       \* run ids (naturals)
    EntryType,  \* failure_type of each run
    EntryDay,   \* captured_at of each run in days, 0 when it does not parse
    Today

NoDay == 0
BadDay == 99    \* a date in a hand-written URL that is no calendar date
FailureTypes == {"login", "external_api"}
Periods == {"all", "7", "custom"}
Days == 1..Today
NoMetadataFilter == [type |-> "all", period |-> "all", from |-> NoDay, to |-> NoDay]

ASSUME MetadataAssumption == Runs \subseteq Nat /\ Today \in 1..(BadDay - 1)

VARIABLE fm   \* component state, query string and the entries last fetched

-----------------------------------------------------------------------------
(* parseSmokeFailureMetadataFilters: dates only count for a custom period. *)
parseMetadataFilters(url) ==
    LET day(d) == IF url.period = "custom" /\ d # BadDay THEN d ELSE NoDay
    IN  [url EXCEPT !.from = day(url.from), !.to = day(url.to)]

ActiveFrom(f) == IF f.period = "custom" THEN f.from ELSE NoDay
ActiveTo(f) == IF f.period = "custom" THEN f.to ELSE NoDay

(* What a set of filters selects on: hidden dates do not matter. *)
MetadataView(f) == [f EXCEPT !.from = ActiveFrom(f), !.to = ActiveTo(f)]

filterMetadata(entries, f) ==
    LET from == ActiveFrom(f)
        to == ActiveTo(f)
        InPeriod(day) ==
          CASE f.period = "all" -> TRUE
            [] f.period = "7" -> day # NoDay /\ day + 7 >= Today
            [] f.period = "custom" ->
                 /\ day # NoDay
                 /\ from # NoDay => day >= from
                 /\ to # NoDay => day <= to
    IN  IF from # NoDay /\ to # NoDay /\ from > to
        THEN {}
        ELSE {r \in entries : /\ f.type \in {"all", EntryType[r]}
                              /\ InPeriod(EntryDay[r])}

(* In place of MetadataBefore: a date that does not parse compares as NaN. *)
BeforeByNumber(r, s, ascending) ==
    CASE EntryDay[r] = NoDay \/ EntryDay[s] = NoDay -> FALSE
      [] EntryDay[r] = EntryDay[s] -> r > s
      [] OTHER -> (EntryDay[r] < EntryDay[s]) = ascending

(* The comparator of sortSmokeFailureMetadata for newest (ascending FALSE) *)
(* and oldest: r comes before s.                                           *)
MetadataBefore(r, s, ascending) ==
    CASE EntryDay[r] = NoDay /\ EntryDay[s] = NoDay -> r > s
      [] EntryDay[s] = NoDay -> TRUE
      [] EntryDay[r] = NoDay -> FALSE
      [] EntryDay[r] = EntryDay[s] -> r > s
      [] OTHER -> (EntryDay[r] < EntryDay[s]) = ascending

Visible == filterMetadata(fm.entries, fm.filters)
SelectedEntries == fm.selected \intersect fm.entries

-----------------------------------------------------------------------------
(* Mounting reads the query string of a reload, a link or a typed URL. *)
MetadataLinks ==
    [type : {"all", "login"}, period : Periods, from : {NoDay, 1, BadDay}, to : {NoDay}]

FMMounted ==
    \E url \in MetadataLinks, entries \in SUBSET Runs :
      fm = [filters |-> parseMetadataFilters(url), url |-> url, entries |-> entries,
            selected |-> {}, open |-> FALSE, sent |-> {}]

(* In place of PageReachable: the page behind the dialog takes clicks. *)
AlwaysReachable == TRUE

(* The dialog covers the page: nothing behind it can be clicked. *)
PageReachable == ~fm.open

ChangeTypeFilter(type) ==
    /\ PageReachable
    /\ fm' = [fm EXCEPT !.filters.type = type, !.url.type = type]

(* In place of ChangePeriodFilter: dates the component kept stay hidden    *)
(* from the location when the custom period comes back.                    *)
PeriodOnlyInUrl(period) ==
    /\ PageReachable
    /\ fm' = [fm EXCEPT !.filters.period = period,
                        !.url = [@ EXCEPT !.period = period, !.from = NoDay, !.to = NoDay]]

(* Leaving the custom period keeps the dates in the component only. *)
ChangePeriodFilter(period) ==
    /\ PageReachable
    /\ LET keep(d) == IF period = "custom" THEN d ELSE NoDay
       IN  fm' = [fm EXCEPT !.filters.period = period, !.url.period = period,
                            !.url.from = keep(fm.filters.from),
                            !.url.to = keep(fm.filters.to)]

(* The date fields exist only for a custom period. *)
ChangeStartDate(day) ==
    /\ PageReachable /\ fm.filters.period = "custom"
    /\ fm' = [fm EXCEPT !.filters.from = day, !.url.from = day]

ChangeEndDate(day) ==
    /\ PageReachable /\ fm.filters.period = "custom"
    /\ fm' = [fm EXCEPT !.filters.to = day, !.url.to = day]

(* The range of today and the one that ended the day before. *)
DatePresets == {<<Today, Today>>, <<1, Today>>, <<Today - 1, Today - 1>>}

ChangeDateRange(range) ==
    /\ PageReachable
    /\ LET f == [fm.filters EXCEPT !.period = "custom", !.from = range[1], !.to = range[2]]
       IN  fm' = [fm EXCEPT !.filters = f,
                            !.url = [f EXCEPT !.type = fm.url.type]]

(* applyFilters, called by the "clear all" chip and by a saved filter. *)
ApplyMetadataFilters(f) ==
    /\ PageReachable
    /\ fm' = [fm EXCEPT !.filters = MetadataView(f), !.url = MetadataView(f)]

ActiveFilterCount(f) == Cardinality({k \in {"type", "period"} : f[k] # "all"})

(* The chips of the filters in force, and "clear all" beside them. *)
ActiveFilterChips ==
    \/ fm.filters.type # "all" /\ ChangeTypeFilter("all")
    \/ fm.filters.period # "all" /\ ChangePeriodFilter("all")
    \/ ActiveFilterCount(fm.filters) > 0 /\ ApplyMetadataFilters(NoMetadataFilter)

ToggleRun(r) ==
    /\ PageReachable /\ r \in Visible
    /\ fm' = [fm EXCEPT !.selected = IF r \in @ THEN @ \ {r} ELSE @ \union {r}]

(* The buttons of the bulk selection and the checkbox of the list header. *)
UpdateSelection ==
    /\ PageReachable
    /\ \/ /\ ~ Visible \subseteq fm.selected          \* select visible
          /\ fm' = [fm EXCEPT !.selected = @ \union Visible]
       \/ /\ Visible \intersect fm.selected # {}       \* clear visible
          /\ fm' = [fm EXCEPT !.selected = @ \ Visible]
       \/ /\ SelectedEntries # fm.entries              \* select all
          /\ fm' = [fm EXCEPT !.selected = @ \union fm.entries]
       \/ /\ SelectedEntries # {}                      \* clear all
          /\ fm' = [fm EXCEPT !.selected = {}]

OpenCleanupPreview ==
    /\ SelectedEntries # {} /\ fm.sent = {} /\ PageReachable
    /\ fm' = [fm EXCEPT !.open = TRUE]

CancelCleanup ==
    /\ fm.open /\ fm.sent = {}
    /\ fm' = [fm EXCEPT !.open = FALSE]

HandleCleanup ==
    /\ fm.open /\ fm.sent = {} /\ SelectedEntries # {}
    /\ fm' = [fm EXCEPT !.sent = SelectedEntries]

(* The response: the entries are gone once the invalidated query refetched. *)
CleanupDone ==
    /\ fm.sent # {}
    /\ fm' = [fm EXCEPT !.sent = {}, !.selected = {}, !.open = FALSE]

CleanupFailed ==
    /\ fm.sent # {}
    /\ fm' = [fm EXCEPT !.sent = {}, !.open = FALSE]

(* The query is refetched: other administrators deleted entries, or new    *)
(* failures were captured for later runs.                                  *)
EntriesRefetched(entries) ==
    /\ \A r \in entries \ fm.entries : \A s \in fm.entries \union fm.selected : r > s
    /\ fm' = [fm EXCEPT !.entries = entries]

ReloadMetadata ==
    fm' = [fm EXCEPT !.filters = parseMetadataFilters(fm.url), !.selected = {},
                     !.open = FALSE, !.sent = {}]

(* In place of ExportOf: the ticked entries are left out of both files. *)
ExportUnticked(scope) ==
    [entries |-> Visible \ SelectedEntries, filters |-> MetadataView(fm.filters)]

(* What the two exports write: the filters, for a filtered export, and the *)
(* entries.                                                                *)
ExportOf(scope) ==
    IF scope = "filtered"
    THEN [entries |-> Visible, filters |-> MetadataView(fm.filters)]
    ELSE [entries |-> SelectedEntries, filters |-> NoMetadataFilter]

FMNext ==
    \/ \E type \in FailureTypes \union {"all"} : ChangeTypeFilter(type)
    \/ \E period \in Periods : ChangePeriodFilter(period)
    \/ \E day \in {NoDay, 1, Today} : ChangeStartDate(day) \/ ChangeEndDate(day)
    \/ \E range \in DatePresets : ChangeDateRange(range)
    \/ ActiveFilterChips
    \/ \E r \in Runs : ToggleRun(r)
    \/ UpdateSelection
    \/ OpenCleanupPreview \/ CancelCleanup \/ HandleCleanup
    \/ CleanupDone \/ CleanupFailed
    \/ \E entries \in SUBSET Runs : EntriesRefetched(entries)
    \/ ReloadMetadata

-----------------------------------------------------------------------------
(* Properties. *)

FMTypeOK ==
    fm # Unmounted =>
      /\ fm.filters \in [type : FailureTypes \union {"all"}, period : Periods,
                         from : Days \union {NoDay}, to : Days \union {NoDay}]
      /\ fm.entries \subseteq Runs /\ fm.selected \subseteq Runs
      /\ fm.sent \subseteq Runs /\ fm.open \in BOOLEAN

(* The URL is a faithful bookmark: after any sequence of filter changes,   *)
(* presets and cleared chips a reload or a copied link shows the same      *)
(* entries, although the component keeps dates that the URL dropped.       *)
MetadataUrlRestores ==
    fm # Unmounted =>
      MetadataView(parseMetadataFilters(fm.url)) = MetadataView(fm.filters)

(* The comparator is a strict total order even with timestamps that do not *)
(* parse or are equal, so every engine sorts the list the same way and a   *)
(* refetch does not reshuffle it under the pointer.                        *)
MetadataOrderTotal ==
    fm # Unmounted =>
      \A up \in BOOLEAN : \A r, s, t \in fm.entries :
        /\ r # s => (MetadataBefore(r, s, up) <=> ~MetadataBefore(s, r, up))
        /\ (MetadataBefore(r, s, up) /\ MetadataBefore(s, t, up)) =>
             MetadataBefore(r, t, up)

(* A filtered export describes how it came about: its filters, opened as a *)
(* link, list exactly the entries of the file, hidden dates of the form    *)
(* and ticked rows notwithstanding; an export of the selection holds the   *)
(* entries that a clean-up of it would delete.                             *)
ExportDescribesItself ==
    fm # Unmounted =>
      LET filtered == ExportOf("filtered")
      IN  /\ filterMetadata(fm.entries, parseMetadataFilters(filtered.filters)) = filtered.entries
          /\ fm.sent # {} => ExportOf("selected").entries \subseteq fm.sent

(* While a clean-up is on its way every ticked entry is one of those sent: *)
(* the reset of the selection that follows a success unticks nothing that  *)
(* the administrator chose for later.                                      *)
CleanupTakesSelection ==
    (fm # Unmounted /\ fm.sent # {}) => SelectedEntries \subseteq fm.sent

-----------------------------------------------------------------------------
(* The named filters an administrator keeps in the browser for this list   *)
(* (SmokeFailureMetadataSavedFilters.tsx and its library                   *)
(* smokeFailureMetadataSavedFilters.ts).  Names are compared without case, *)
(* at most SavedLimit filters are kept, the list lives in localStorage and *)
(* a JSON backup can replace it or be merged into it.                      *)
(*                                                                         *)
(* A filter is [period, date]: the type, the search text and the sort are  *)
(* stored and restored by the same code path as period and are left out,   *)
(* and so is the order in which the select element displays the list.      *)
(* The name field is read when a button is pressed, so the typed name is   *)
(* an argument of the action.                                              *)
CONSTANTS
    Names,        \* the names that can be typed, already trimmed
    NameKey,      \* the lower-case form of each name
    SavedLimit,   \* SMOKE_FAILURE_METADATA_SAVED_FILTER_LIMIT (20 in the code)
    FilterFiles,  \* the raw lists of filters that backup files hold
    MaxQuotaErrors \* bound: localStorage writes that may throw

NoName == "no name"
NoRestore == [list |-> << >>, mode |-> "none"]

VARIABLE sf  \* the component's state and the two localStorage keys, or Unmounted

Filters == [period : {"all", "custom"}, date : {0, 1}]
SavedEntry == [name : Names, filters : Filters]

ASSUME SavedFiltersAssumption ==
    /\ SavedLimit \in Nat \ {0}
    /\ NameKey \in [Names -> Names] /\ NoName \notin Names
    /\ FilterFiles \subseteq Seq(SavedEntry)
    /\ MaxQuotaErrors \in Nat

(* What the list shows for a filter: dates count only for a custom period. *)
FilterView(f) == IF f.period = "custom" THEN <<f.period, f.date>> ELSE <<f.period>>

-----------------------------------------------------------------------------
(* The library functions. *)

(* In place of normalizeFilters: the dates are dropped for every period. *)
DatesDropped(f) == [period |-> f.period, date |-> 0]

normalizeFilters(f) ==
    [period |-> f.period, date |-> IF f.period = "custom" THEN f.date ELSE 0]

KeysOf(list) == {NameKey[list[i].name] : i \in DOMAIN list}

(* The entries of a list at the indices of a set, in their order. *)
Ascending(indices) ==
    CHOOSE order \in [1..Cardinality(indices) -> indices] :
      \A a, b \in DOMAIN order : a < b => order[a] < order[b]
EntriesAt(list, indices) == [k \in 1..Cardinality(indices) |-> list[Ascending(indices)[k]]]

WithoutKey(list, key) == EntriesAt(list, {i \in DOMAIN list : NameKey[list[i].name] # key})

Truncate(list) == SubSeq(list, 1, IF Len(list) < SavedLimit THEN Len(list) ELSE SavedLimit)

(* In place of normalizeSavedFilters: a repeated name is kept. *)
RepeatsKept(list) ==
    Truncate([k \in DOMAIN list |-> [list[k] EXCEPT !.filters = normalizeFilters(@)]])

(* The first entry of every key, in order, at most SavedLimit of them. *)
normalizeSavedFilters(list) ==
    LET kept == EntriesAt(list, {i \in DOMAIN list :
                  \A j \in 1..(i - 1) : NameKey[list[j].name] # NameKey[list[i].name]})
    IN  Truncate([k \in DOMAIN kept |-> [kept[k] EXCEPT !.filters = normalizeFilters(@)]])

MergeCandidates(current, restored) ==
    LET back == normalizeSavedFilters(restored)
        list == normalizeSavedFilters(current)
    IN  back \o EntriesAt(list, {i \in DOMAIN list : NameKey[list[i].name] \notin KeysOf(back)})

mergeSavedFilters(current, restored) ==
    LET all == MergeCandidates(current, restored)
    IN  [filters |-> Truncate(all),
         omitted |-> SubSeq(all, Len(Truncate(all)) + 1, Len(all))]

upsertSavedFilter(list, name, f) ==
    Truncate(<<[name |-> name, filters |-> normalizeFilters(f)]>>
             \o WithoutKey(list, NameKey[name]))

removeSavedFilter(list, name) == WithoutKey(list, NameKey[name])

renameSavedFilter(list, old, new) ==
    IF NameKey[old] # NameKey[new] /\ NameKey[new] \in KeysOf(list)
    THEN list
    ELSE [i \in DOMAIN list |->
            IF NameKey[list[i].name] = NameKey[old]
            THEN [list[i] EXCEPT !.name = new] ELSE list[i]]

-----------------------------------------------------------------------------
(* Mounting reads both keys; the stored list is one an earlier visit wrote. *)
SFMounted ==
    \E stored \in {<< >>} \union {normalizeSavedFilters(b) : b \in FilterFiles} :
      sf = [list |-> stored, selected |-> NoName,
            current |-> [period |-> "all", date |-> 0],
            pending |-> NoRestore, reading |-> {},
            stored |-> stored, errors |-> 0]

(* persist(next, nextSort): the setItem calls come before the setters, so  *)
(* when the first throws nothing changed and when the second (the sort of  *)
(* a restored backup) throws the new list is stored and the old one shown. *)
Persist(next, done, setsSort) ==
    \/ sf' = [done EXCEPT !.list = next, !.stored = next]
    \/ /\ sf.errors < MaxQuotaErrors
       /\ \E kept \in {sf.stored} \union (IF setsSort THEN {next} ELSE {}) :
            sf' = [sf EXCEPT !.errors = @ + 1, !.stored = kept]

-----------------------------------------------------------------------------
(* Handlers. *)

(* The filters around the component change (useSmokeFailureMetadataFilters). *)
ChangeFilters(f) == f # sf.current /\ sf' = [sf EXCEPT !.current = f]

(* Choosing an option of the select element. *)
SelectSaved(name) ==
    /\ \E i \in DOMAIN sf.list : sf.list[i].name = name
    /\ sf' = [sf EXCEPT !.selected = name]

(* In place of isNewFilterAtLimit: a full list takes one more name. *)
NeverAtLimit(name) == FALSE

isNewFilterAtLimit(name) ==
    /\ Len(sf.list) >= SavedLimit
    /\ NameKey[name] \notin KeysOf(sf.list)

SaveFilter(name) ==
    /\ ~isNewFilterAtLimit(name)
    /\ Persist(upsertSavedFilter(sf.list, name, sf.current),
               [sf EXCEPT !.selected = name], FALSE)

(* applyFilters of the list drops the dates of a period that is not custom. *)
ApplySaved ==
    \E i \in DOMAIN sf.list :
      /\ sf.list[i].name = sf.selected
      /\ sf' = [sf EXCEPT !.current = normalizeFilters(sf.list[i].filters)]

RemoveSaved ==
    /\ sf.selected # NoName
    /\ Persist(removeSavedFilter(sf.list, sf.selected), [sf EXCEPT !.selected = NoName], FALSE)

ClearAllSaved ==
    /\ sf.list # << >>
    /\ Persist(<< >>, [sf EXCEPT !.selected = NoName], FALSE)

RenameSaved(name) ==
    /\ sf.selected # NoName
    /\ \A i \in DOMAIN sf.list :
         sf.list[i].name = sf.selected \/ NameKey[sf.list[i].name] # NameKey[name]
    /\ Persist(renameSavedFilter(sf.list, sf.selected, name),
               [sf EXCEPT !.selected = name], FALSE)

(* prepareRestoreBackup up to its await: the preview is dropped before a   *)
(* file above the size limit is refused.                                   *)
ChooseFile(file) ==
    \E tooLarge \in BOOLEAN :
      sf' = [sf EXCEPT !.pending = NoRestore,
                       !.reading = IF tooLarge THEN @ ELSE @ \union {file}]

(* text() settles in any order when several files were chosen; a rejected  *)
(* read and a file that is no backup leave the preview as it is, and the   *)
(* preview opens in merge mode for a single filter.                        *)
FileRead(file) ==
    /\ file \in sf.reading
    /\ LET list == normalizeSavedFilters(file)
           opened == [list |-> list, mode |-> IF Len(list) = 1 THEN "merge" ELSE "replace"]
       IN  \E pending \in {sf.pending, opened} :
             sf' = [sf EXCEPT !.reading = @ \ {file}, !.pending = pending]

ChangeRestoreMode(mode) ==
    /\ sf.pending.mode \notin {"none", mode}
    /\ sf' = [sf EXCEPT !.pending.mode = mode]

CancelRestore ==
    /\ sf.pending.mode # "none"
    /\ sf' = [sf EXCEPT !.pending = NoRestore]

(* The names the preview announces as left out by the limit. *)
PreviewOmitted ==
    IF sf.pending.mode = "merge"
    THEN KeysOf(mergeSavedFilters(sf.list, sf.pending.list).omitted) ELSE {}

RestoreResult ==
    IF sf.pending.mode = "merge"
    THEN mergeSavedFilters(sf.list, sf.pending.list).filters ELSE sf.pending.list

RestoreBackup ==
    /\ sf.pending.mode # "none"
    /\ Persist(RestoreResult, [sf EXCEPT !.selected = NoName, !.pending = NoRestore], TRUE)

SFNext ==
    \/ \E f \in Filters : ChangeFilters(f)
    \/ \E name \in Names : SelectSaved(name) \/ SaveFilter(name) \/ RenameSaved(name)
    \/ ApplySaved \/ RemoveSaved \/ ClearAllSaved
    \/ \E file \in FilterFiles : ChooseFile(file) \/ FileRead(file)
    \/ \E mode \in {"merge", "replace"} : ChangeRestoreMode(mode)
    \/ CancelRestore \/ RestoreBackup

-----------------------------------------------------------------------------
(* Properties. *)

SFTypeOK ==
    sf # Unmounted =>
      /\ sf.list \in Seq(SavedEntry) /\ sf.stored \in Seq(SavedEntry)
      /\ sf.current \in Filters /\ sf.reading \subseteq FilterFiles
      /\ sf.selected \in Names \union {NoName}
      /\ sf.pending.mode \in {"none", "merge", "replace"}

(* Whatever sequence of saves, renames, restores and failed writes led     *)
(* here, no two stored filters have names that differ only in case, the    *)
(* limit is kept, and the name in the select element is one of the list,   *)
(* so that apply, rename and delete act on the filter that is displayed.   *)
SavedFiltersConsistent ==
    sf # Unmounted =>
      /\ \A list \in {sf.list, sf.stored} :
           /\ Len(list) <= SavedLimit
           /\ Cardinality(KeysOf(list)) = Len(list)
      /\ sf.selected # NoName => \E i \in DOMAIN sf.list : sf.list[i].name = sf.selected

(* A filter leaves the list only because it was deleted, renamed, or       *)
(* announced: saving at the limit never pushes the oldest one out, and a   *)
(* merge drops exactly the names its preview listed.                       *)
NoSilentLoss ==
    [][(sf # Unmounted /\ sf' # Unmounted) =>
         LET lost == KeysOf(sf.list) \ KeysOf(sf'.list)
         IN  lost # {} =>
               \/ lost \subseteq PreviewOmitted
               \/ sf.pending.mode = "replace" /\ sf'.pending.mode = "none"
               \/ sf.selected \in Names /\ lost = {NameKey[sf.selected]}
               \/ sf'.list = << >>]_sf

(* What is saved is what was on the screen: the filter under the selected  *)
(* name shows, when applied, what the list showed when it was saved.       *)
SavedAsShown ==
    [][(sf # Unmounted /\ sf' # Unmounted /\ sf'.list # sf.list) =>
         \A i \in DOMAIN sf'.list :
           \/ \E j \in DOMAIN sf.list : sf.list[j].filters = sf'.list[i].filters
           \/ FilterView(sf'.list[i].filters) = FilterView(sf.current)
           \/ \E j \in DOMAIN sf.pending.list :
                 sf.pending.list[j] = sf'.list[i]]_sf

=============================================================================
