---------------------------- MODULE BackupImport ----------------------------
(***************************************************************************)
(* Backup and restore on the settings page, with the backend's importer,   *)
(* previewer and validator behind it.                                      *)
(*                                                                         *)
(* A click reads the chosen file first and calls the backend then; the     *)
(* buttons are locked by the state of the call alone, so two clicks can be *)
(* reading at once.  A backup is reduced to the domains of its services    *)
(* and redirect hosts and, per service, whether its middleware templates   *)
(* exist.  The importer changes route files at once and rows at commit: an *)
(* error takes back the rows only.                                         *)
(***************************************************************************)
EXTENDS Browser, Naturals, FiniteSets, Sequences

CONSTANTS
    BackupFiles,     \* the files at hand: a function from names to contents
    MaxClicks        \* bound: chosen files, started tasks, exports and edits of others

Modes == {"merge", "overwrite"}
Kinds == {"services", "redirects"}
NoFile == "none"
NotJson == [json |-> FALSE]
NoReview == [file |-> NoFile]
Payloads == [Kinds -> Seq([domain : {"d1", "d2"}, known : BOOLEAN])]

ASSUME BackupAssumption ==
    /\ MaxClicks \in Nat
    /\ \A file \in DOMAIN BackupFiles : BackupFiles[file] \in Payloads \union {NotJson}

VARIABLE bk

BKMounted ==
    \E manage \in BOOLEAN :
      bk = [canManage |-> manage, file |-> NoFile, mode |-> "merge",
            validation |-> NoReview, preview |-> NoReview,
            tasks |-> {},
            rows |-> [services |-> {"d1"}, redirects |-> {"d2"}],
            disk |-> [services |-> {"d1"}, redirects |-> {"d2"}],
            exported |-> NotJson, applied |-> NoReview, clicks |-> 0]

-----------------------------------------------------------------------------
(* The backend's operations on a payload. *)

Domains(items) == {items[i].domain : i \in DOMAIN items}
Distinct(items) == Cardinality(Domains(items)) = Len(items)

(* validate_backup_payload: a warning for every repeated domain and for    *)
(* every redirect host on the domain of a service.                         *)
Warned(payload) ==
    \/ ~Distinct(payload.services) \/ ~Distinct(payload.redirects)
    \/ Domains(payload.services) \cap Domains(payload.redirects) # {}

(* resolve_middleware_templates raises for the first unknown template. *)
Unresolved(payload) == {i \in DOMAIN payload.services : ~payload.services[i].known}

previewImport(mode, payload, rows) ==
    [kind \in Kinds |->
       LET known == IF mode = "overwrite" THEN {} ELSE rows[kind]
           listed(in) == {i \in DOMAIN payload[kind] : (payload[kind][i].domain \in known) = in}
       IN  [creates |-> Cardinality(listed(FALSE)), updates |-> Cardinality(listed(TRUE)),
            deletes |-> IF mode = "overwrite" THEN Cardinality(rows[kind]) ELSE 0]]

(* _delete_existing runs first when the mode is overwrite. *)
KeptAlways(mode, held) == held
Kept(mode, held) == IF mode = "overwrite" THEN {} ELSE held

(* import_all looks every item up before it writes it, so an item that     *)
(* repeats the domain of an earlier one updates it.                        *)
importAll(mode, payload, rows) ==
    [kind \in Kinds |->
       LET before(i) == Domains(SubSeq(payload[kind], 1, i - 1)) \union Kept(mode, rows[kind])
           found == {i \in DOMAIN payload[kind] : payload[kind][i].domain \in before(i)}
       IN  [creates |-> Len(payload[kind]) - Cardinality(found), updates |-> Cardinality(found),
            deletes |-> IF mode = "overwrite" THEN Cardinality(rows[kind]) ELSE 0]]

(* In place of Imported: the old rows stay beside the imported ones. *)
ImportedOnTop(mode, payload, held) ==
    [kind \in Kinds |-> Domains(payload[kind]) \union held[kind]]

Imported(mode, payload, held) ==
    [kind \in Kinds |-> Domains(payload[kind]) \union Kept(mode, held[kind])]

(* The files after an import that stopped at its first unknown template:   *)
(* the old ones are gone (overwrite), the services before it are written.  *)
DeletesAlways(mode) == TRUE
DeletesFirst(mode) == mode = "overwrite"
StoppedImport(mode, payload, disk) ==
    LET stop == CHOOSE i \in Unresolved(payload) : \A j \in Unresolved(payload) : i <= j
        written == Domains(SubSeq(payload.services, 1, stop - 1))
    IN  IF DeletesFirst(mode) THEN [services |-> written, redirects |-> {}]
        ELSE [disk EXCEPT !.services = @ \union written]

-----------------------------------------------------------------------------
(* The form. *)

ContentsOf(file) == IF file = "exported" THEN bk.exported ELSE BackupFiles[file]

(* In place of resetReview: a new file or mode keeps the review. *)
NoReset(s) == s

resetReview(s) == [s EXCEPT !.validation = NoReview, !.preview = NoReview]

Clicked(s) == [s EXCEPT !.clicks = @ + 1]

handleBackupFileChange(file) ==
    /\ bk.clicks < MaxClicks
    /\ file = "exported" => bk.exported # NotJson
    /\ bk' = Clicked(resetReview([bk EXCEPT !.file = file]))

handleImportModeChange(mode) ==
    /\ mode # bk.mode
    /\ bk' = resetReview([bk EXCEPT !.mode = mode])

(* isPending is the state of the call that was started last. *)
isPending(op) == \E t \in bk.tasks : t.op = op /\ t.last

Enabled(op) ==
    /\ bk.file # NoFile /\ ~isPending(op)
    /\ op = "import" => bk.canManage

(* Import and validate discard both reviews, preview only its own.  File   *)
(* and mode are those of the click, whose number n tells the tasks apart.  *)
StartTask(op) ==
    /\ bk.clicks < MaxClicks /\ Enabled(op)
    /\ LET s == IF op = "preview" THEN [bk EXCEPT !.preview = NoReview] ELSE resetReview(bk)
       IN  bk' = Clicked([s EXCEPT !.tasks = @ \union
                   {[op |-> op, file |-> bk.file, mode |-> bk.mode,
                     phase |-> "read", last |-> FALSE, n |-> bk.clicks + 1]}])

Move(s, t, next) == [s EXCEPT !.tasks = (@ \ {t}) \union next]

(* readBackupPayload: what is not JSON ends the task.  The call is now the *)
(* last one of its kind.                                                   *)
FileIsRead(t) ==
    /\ t.phase = "read"
    /\ bk' = IF ContentsOf(t.file) = NotJson THEN Move(bk, t, {})
             ELSE LET others == {[u EXCEPT !.last = @ /\ u.op # t.op] : u \in bk.tasks \ {t}}
                  IN  [bk EXCEPT !.tasks = others \union {[t EXCEPT !.phase = "sent", !.last = TRUE]}]

-----------------------------------------------------------------------------
(* The backend handles the call, and its answer arrives. *)

Answer(t, ok) == [t EXCEPT !.phase = IF ok THEN "ok" ELSE "failed"]

ImportHandled(t) ==
    /\ t.phase = "sent" /\ t.op = "import"
    /\ LET p == ContentsOf(t.file)
           ok == bk.canManage /\ Unresolved(p) = {}
       IN  bk' = IF ok
                 THEN [Move(bk, t, {Answer(t, TRUE)}) EXCEPT
                         !.rows = Imported(t.mode, p, @), !.disk = Imported(t.mode, p, @),
                         !.applied = [file |-> t.file, mode |-> t.mode]]
                 ELSE [Move(bk, t, {Answer(t, FALSE)}) EXCEPT
                         !.disk = StoppedImport(t.mode, p, @), !.applied = NoReview]

ReviewHandled(t) ==
    /\ t.phase = "sent" /\ t.op # "import"
    /\ bk' = Move(bk, t, {Answer(t, bk.canManage /\ Unresolved(ContentsOf(t.file)) = {})})

CallFails(t) ==
    /\ t.phase = "sent"
    /\ bk' = Move(bk, t, {Answer(t, FALSE)})

(* What a review shows, and whether the choice moved on meanwhile. *)
ReviewOf(t) ==
    [file |-> t.file, mode |-> t.mode, late |-> t.file # bk.file \/ t.mode # bk.mode]

(* A finished import forgets the file, whichever is chosen by then. *)
TaskAnswered(t) ==
    /\ t.phase \in {"ok", "failed"}
    /\ LET s == Move(bk, t, {})
       IN  bk' = CASE t.phase = "failed" -> s
                   [] t.phase = "ok" /\ t.op = "import" -> [s EXCEPT !.file = NoFile]
                   [] t.phase = "ok" /\ t.op = "validate" -> [s EXCEPT !.validation = ReviewOf(t)]
                   [] t.phase = "ok" /\ t.op = "preview" -> [s EXCEPT !.preview = ReviewOf(t)]

-----------------------------------------------------------------------------
(* The export, and other administrators. *)

ListedIf(domain, domains) ==
    IF domain \in domains THEN <<[domain |-> domain, known |-> TRUE]>> ELSE << >>
Importable(domains) == ListedIf("d1", domains) \o ListedIf("d2", domains)

(* handleExport: export_all lists what is stored (bound: one export). *)
handleExport ==
    /\ bk.clicks < MaxClicks /\ bk.canManage /\ bk.exported = NotJson
    /\ bk' = Clicked([bk EXCEPT !.exported = [kind \in Kinds |-> Importable(bk.rows[kind])]])

OtherAdminEdits ==
    /\ bk.clicks < MaxClicks
    /\ \E domain \in {"d1", "d2"} :
         LET flip(set) == IF domain \in set THEN set \ {domain} ELSE set \union {domain}
         IN  bk' = Clicked([bk EXCEPT !.rows.services = flip(@), !.applied = NoReview,
                                      !.disk.services = IF domain \in bk.rows.services
                                                        THEN @ \ {domain} ELSE @ \union {domain}])

BKNext ==
    \/ \E file \in DOMAIN BackupFiles \union {"exported", NoFile} : handleBackupFileChange(file)
    \/ \E mode \in Modes : handleImportModeChange(mode)
    \/ \E op \in {"import", "validate", "preview"} : StartTask(op)
    \/ \E t \in bk.tasks :
         FileIsRead(t) \/ ImportHandled(t) \/ ReviewHandled(t) \/ CallFails(t) \/ TaskAnswered(t)
    \/ handleExport \/ OtherAdminEdits

-----------------------------------------------------------------------------
(* Properties. *)

BKTypeOK ==
    bk # Unmounted =>
      /\ bk.mode \in Modes /\ bk.file \in DOMAIN BackupFiles \union {"exported", NoFile}
      /\ \A kind \in Kinds : bk.rows[kind] \subseteq {"d1", "d2"} /\ bk.disk[kind] \subseteq {"d1", "d2"}
      /\ \A t \in bk.tasks : t.op = "import" => bk.canManage

(* A preview of the chosen file without warnings foretells the import: on  *)
(* the rows there are now, both count the same creations, updates and      *)
(* deletions, although one looks rows up as it goes and the other compares *)
(* with the start.                                                         *)
PreviewForetells ==
    bk # Unmounted /\ bk.file # NoFile =>
      LET p == ContentsOf(bk.file)
      IN  p = NotJson \/ Warned(p)
            \/ previewImport(bk.mode, p, bk.rows) = importAll(bk.mode, p, bk.rows)

(* A review on the screen is of the file and mode that are chosen, however *)
(* clicks and answers interleave, unless the choice moved while the answer *)
(* was on its way.                                                         *)
ReviewIsOfChoice ==
    bk # Unmounted =>
      \A review \in {bk.validation, bk.preview} \ {NoReview} :
        review.late \/ (bk.mode = review.mode /\ bk.file \in {review.file, NoFile})

(* An import that the backend rejects in merge mode takes no live route    *)
(* away, and no rejected import changes a row.                             *)
FailedMergeKeepsRoutes ==
    [][(bk # Unmounted /\ bk' # Unmounted)
        => \A t \in bk.tasks :
             (ImportHandled(t) /\ Answer(t, FALSE) \in bk'.tasks)
               => /\ bk'.rows = bk.rows
                  /\ t.mode = "merge" => \A kind \in Kinds : bk.disk[kind] \subseteq bk'.disk[kind]]_bk

(* A second import of what was imported last (the second click of a double *)
(* click reads the file as well) changes no row and no route, and a backup *)
(* that is imported over everything restores what was exported.            *)
RepeatedImportHarmless ==
    [][(bk # Unmounted /\ bk' # Unmounted)
        => \A t \in bk.tasks :
             (ImportHandled(t) /\ Answer(t, TRUE) \in bk'.tasks)
               => /\ bk.applied = [file |-> t.file, mode |-> t.mode]
                       => bk'.rows = bk.rows /\ bk'.disk = bk.disk
                  /\ t.file = "exported" /\ t.mode = "overwrite"
                       => \A kind \in Kinds : bk'.rows[kind] = Domains(bk.exported[kind])]_bk

=============================================================================
