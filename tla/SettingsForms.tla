---------------------------- MODULE SettingsForms ----------------------------
(***************************************************************************)
(* The cards of the settings page.  Each one shows the settings that its   *)
(* query fetched, copies them into a form on Edit, and sends the form on   *)
(* Save; the sections differ in a few points only, which SectionTraits     *)
(* lists, so one section at a time is explored.  The thresholds of HTTP    *)
(* errors are a part of the alert card that is explored by itself.         *)
(*                                                                         *)
(* Settings are reduced to two fields that are displayed, "a" and "b", and *)
(* a secret that is never sent to the browser: an empty secret field means *)
(* "keep the stored one".  Another administrator may save the same section *)
(* at any time.  Versions count the saves that the server applied.         *)
(***************************************************************************)
EXTENDS Browser, Naturals, FiniteSets

CONSTANTS
    Sections,        \* the sections explored
    MaxTurns         \* bound: forms opened here plus saves of other administrators

Fields == {"a", "b"}
Values == {0, 1}            \* 0 is the default a form falls back to
Blank == "blank"
NoSettings == [version |-> 0]   \* the query has no data
NoSave == [phase |-> "none"]
NoAnswer == [phase |-> "none"]

Defaults == [a |-> 0, b |-> 0, secret |-> Blank]

VARIABLE st

(* What distinguishes a section: whether the stored secret is kept when    *)
(* the field is empty ("kept"), required ("sent") or absent; whether the   *)
(* form is hidden after a failed fetch and Cancel locked during a save;    *)
(* which action the summary offers besides Edit and whether a save clears  *)
(* its result; whether the form has a preview.                             *)
Trait(secret, strict, action, preview) ==
    [secret |-> secret, strict |-> strict, action |-> action, preview |-> preview]

TimeDisplayTraits == Trait("none", FALSE, "none", FALSE)
CertificateTraits == Trait("none", FALSE, "none", FALSE)
TraefikDashboardTraits == Trait("kept", FALSE, "none", FALSE)
UpstreamTraits == Trait("none", FALSE, "none", FALSE)
LoginDefenseTraits == Trait("kept", FALSE, "none", FALSE)
SecurityAlertTraits == Trait("kept", FALSE, "test", FALSE)
ErrorThresholdTraits == Trait("none", FALSE, "none", TRUE)
AuditRetentionTraits == Trait("none", TRUE, "cleanup", FALSE)
BottleneckTraits == Trait("none", FALSE, "confirmedCleanup", FALSE)
SmokeTraits == Trait("none", FALSE, "dryRun", FALSE)
CloudflareTraits == Trait("sent", FALSE, "test", FALSE)

SectionTraits ==
    [time |-> TimeDisplayTraits, certificate |-> CertificateTraits,
     dashboard |-> TraefikDashboardTraits, upstream |-> UpstreamTraits,
     login |-> LoginDefenseTraits, alert |-> SecurityAlertTraits,
     thresholds |-> ErrorThresholdTraits,
     retention |-> AuditRetentionTraits, bottleneck |-> BottleneckTraits,
     smoke |-> SmokeTraits, cloudflare |-> CloudflareTraits]

\* Only sections that exist are explored.
ASSUME SectionsAssumption == Sections \subseteq DOMAIN SectionTraits

Traits == SectionTraits[st.section]

STMounted ==
    \E section \in Sections :
      st = [section |-> section, server |-> [a |-> 1, b |-> 1, secret |-> "old", version |-> 1],
            data |-> NoSettings, error |-> FALSE, fetch |-> [phase |-> "sent"],
            editing |-> FALSE, form |-> Defaults,
            base |-> NoSettings, typed |-> {}, save |-> NoSave,
            action |-> NoAnswer, result |-> 0, raced |-> FALSE,
            preview |-> NoAnswer, turns |-> 0]

-----------------------------------------------------------------------------
(* The query of the section. *)

isLoading == st.data = NoSettings /\ st.fetch.phase # "none"

Shown(server) == [a |-> server.a, b |-> server.b, version |-> server.version]

(* The window gets the focus again and the data is older than staleTime. *)
Refetch ==
    /\ st.fetch.phase = "none"
    /\ st' = [st EXCEPT !.fetch = [phase |-> "sent"]]

ServerReads ==
    /\ st.fetch.phase = "sent"
    /\ st' = [st EXCEPT !.fetch = [phase |-> "read", answer |-> Shown(st.server)]]

(* A form that leaves the screen takes the state of its preview with it;   *)
(* what it holds is overwritten by the next Edit.                          *)
Closed(s) ==
    [s EXCEPT !.editing = FALSE, !.preview = NoAnswer,
              !.form = Defaults, !.base = NoSettings, !.typed = {}]

(* In place of SaveSettled: the result of the last test stays. *)
ResultKept(s) == IF s.save.phase # "refetch" THEN s ELSE [Closed(s) EXCEPT !.save = NoSave]

(* mutateAsync resolves when the refetch that it started has settled. *)
SaveSettled(s) ==
    IF s.save.phase # "refetch" THEN s
    ELSE [Closed(s) EXCEPT !.save = NoSave,
                           !.result = IF Traits.action = "test" THEN 0 ELSE @]

FetchAnswered ==
    /\ st.fetch.phase = "read"
    /\ st' = SaveSettled([st EXCEPT !.fetch = NoSave, !.data = st.fetch.answer, !.error = FALSE])

FetchFails ==
    /\ st.fetch.phase # "none"
    /\ st' = SaveSettled([st EXCEPT !.fetch = NoSave, !.error = TRUE])

-----------------------------------------------------------------------------
(* Edit, type, save, cancel. *)

FormVisible == st.editing /\ ~isLoading /\ ~(Traits.strict /\ (st.error \/ st.data = NoSettings))

(* In place of handleEdit: the form starts from the defaults. *)
EditFromDefaults ==
    /\ ~st.editing /\ ~isLoading
    /\ st.turns < MaxTurns
    /\ st' = [st EXCEPT !.editing = TRUE, !.turns = @ + 1,
                        !.base = st.data, !.typed = {}, !.form = Defaults]

(* Without data the form opens with the defaults. *)
handleEdit ==
    /\ ~st.editing /\ ~isLoading
    /\ st.turns < MaxTurns
    /\ st' = [st EXCEPT !.editing = TRUE, !.turns = @ + 1,
                        !.base = st.data, !.typed = {},
                        !.form = IF st.data = NoSettings THEN Defaults
                                 ELSE [a |-> st.data.a, b |-> st.data.b, secret |-> Blank]]

(* In place of TypeField: the preview outlives the input it is of. *)
PreviewKept(field, value) ==
    /\ FormVisible /\ st.form[field] # value /\ field \notin st.typed
    /\ st' = [st EXCEPT !.form[field] = value, !.typed = @ \union {field}]

(* Typing into the field that the preview is computed from discards the    *)
(* preview and detaches the request that is on its way (preview.reset()).  *)
TypeField(field, value) ==
    /\ FormVisible /\ st.form[field] # value /\ field \notin st.typed
    /\ st' = [st EXCEPT !.form[field] = value, !.typed = @ \union {field},
                        !.preview = IF field = "a" THEN NoAnswer ELSE @]

TypeSecret(value) ==
    /\ FormVisible /\ Traits.secret # "none" /\ st.form.secret # value
    /\ "secret" \notin st.typed
    /\ st' = [st EXCEPT !.form.secret = value, !.typed = @ \union {"secret"}]

(* applyUpstreamPreset: the preset sets the flags and leaves the list. *)
ApplyPreset(value) ==
    /\ FormVisible /\ st.section = "upstream"
    /\ st' = [st EXCEPT !.form.a = value, !.typed = @ \union {"a"}]

handleSave ==
    /\ FormVisible /\ st.save = NoSave
    /\ st' = [st EXCEPT !.save = [phase |-> "sent", payload |-> st.form,
                                  base |-> st.base, typed |-> st.typed]]

(* The local validation of the smoke settings and the question how many    *)
(* entries a lower limit deletes: the form stays as it is.                 *)
SaveStopped ==
    /\ FormVisible /\ st.save = NoSave /\ st.section = "smoke"
    /\ UNCHANGED st

StoredSecret(secret) == IF secret = Blank THEN st.server.secret ELSE secret

(* In place of SaveApplied: a fetch that is on its way is not cancelled.   *)
OldFetchKept ==
    /\ st.save.phase = "sent"
    /\ ~(Traits.secret = "sent" /\ st.save.payload.secret = Blank)
    /\ LET p == st.save.payload
           next == [a |-> p.a, b |-> p.b, secret |-> StoredSecret(p.secret),
                    version |-> st.server.version + 1]
       IN  st' = [st EXCEPT !.server = next,
                            !.fetch = IF @.phase = "none" THEN [phase |-> "sent"] ELSE @,
                            !.save = [phase |-> "refetch", version |-> next.version]]

(* The server applies the payload; onSuccess invalidates the query, which  *)
(* cancels a fetch that is on its way and starts a new one.                *)
SaveApplied ==
    /\ st.save.phase = "sent"
    /\ ~(Traits.secret = "sent" /\ st.save.payload.secret = Blank)
    /\ LET p == st.save.payload
           next == [a |-> p.a, b |-> p.b, secret |-> StoredSecret(p.secret),
                    version |-> st.server.version + 1]
       IN  st' = [st EXCEPT !.server = next, !.fetch = [phase |-> "sent"],
                            !.save = [phase |-> "refetch", version |-> next.version]]

SaveRejected ==
    /\ st.save.phase = "sent"
    /\ st' = [st EXCEPT !.save = NoSave]

handleCancel ==
    /\ FormVisible
    /\ ~(Traits.strict /\ st.save # NoSave)
    /\ st' = Closed(st)

OtherAdminSaves ==
    /\ st.turns < MaxTurns
    /\ \E field \in Fields :
         st' = [st EXCEPT !.server[field] = 1 - @, !.server.version = @ + 1,
                          !.turns = @ + 1,
                          !.raced = @ \/ st.result # 0]

-----------------------------------------------------------------------------
(* The actions of the summary: a test of the stored settings, a clean-up,  *)
(* a clean-up that first asks the server what it would delete.             *)

SummaryVisible == ~st.editing /\ ~isLoading

handleTest ==
    /\ SummaryVisible /\ Traits.action = "test" /\ st.action = NoAnswer
    /\ st' = [st EXCEPT !.action = [phase |-> "test", version |-> st.server.version]]

TestAnswered ==
    /\ st.action.phase = "test"
    /\ st' = [st EXCEPT !.action = NoAnswer, !.result = st.action.version,
                        !.raced = st.action.version # st.server.version]

handleCleanup ==
    /\ SummaryVisible /\ st.action = NoAnswer
    /\ \/ /\ Traits.action = "cleanup" /\ ~st.error
          /\ st' = [st EXCEPT !.action = [phase |-> "delete"]]
       \/ /\ Traits.action = "confirmedCleanup"
          /\ st' = [st EXCEPT !.action = [phase |-> "count"]]

(* The answer of the preview: nothing to delete, an error, a refusal at    *)
(* the question, or consent; the question blocks the page.                 *)
CleanupCounted ==
    /\ st.action.phase = "count"
    /\ \E consent \in BOOLEAN :
         st' = [st EXCEPT !.action = IF consent THEN [phase |-> "delete"] ELSE NoAnswer]

CleanupFinished ==
    /\ st.action.phase = "delete"
    /\ st' = [st EXCEPT !.action = NoAnswer]

(* The three dry runs of the smoke alerts are confirmed first and answered *)
(* by a toast: no result stays on the card.                                *)
handleDryRun ==
    /\ SummaryVisible /\ Traits.action = "dryRun" /\ st.action = NoAnswer
    /\ \E consent \in BOOLEAN :
         st' = [st EXCEPT !.action = IF consent THEN [phase |-> "dryRun"] ELSE NoAnswer]

DryRunAnswered ==
    /\ st.action.phase = "dryRun"
    /\ st' = [st EXCEPT !.action = NoAnswer]

-----------------------------------------------------------------------------
(* The preview of the HTTP error thresholds inside the alert form. *)

RequestPreview ==
    /\ FormVisible /\ Traits.preview /\ st.preview.phase # "sent"
    /\ st' = [st EXCEPT !.preview = [phase |-> "sent", input |-> st.form.a]]

PreviewAnswered ==
    /\ st.preview.phase = "sent"
    /\ \/ st' = [st EXCEPT !.preview = [phase |-> "shown", input |-> st.preview.input]]
       \/ st' = [st EXCEPT !.preview = NoAnswer]

(* onApply takes the recommended threshold over into the form. *)
ApplyRecommendation(value) ==
    /\ FormVisible /\ st.preview.phase = "shown"
    /\ st' = [st EXCEPT !.form.b = value, !.typed = @ \union {"b"}]

STNext ==
    \/ Refetch \/ ServerReads \/ FetchAnswered \/ FetchFails
    \/ handleEdit \/ handleSave \/ SaveStopped \/ SaveApplied \/ SaveRejected \/ handleCancel
    \/ \E field \in Fields, value \in Values : TypeField(field, value)
    \/ \E value \in {Blank, "new"} : TypeSecret(value)
    \/ \E value \in Values : ApplyPreset(value) \/ ApplyRecommendation(value)
    \/ OtherAdminSaves
    \/ handleTest \/ TestAnswered
    \/ handleCleanup \/ CleanupCounted \/ CleanupFinished
    \/ handleDryRun \/ DryRunAnswered
    \/ RequestPreview \/ PreviewAnswered

-----------------------------------------------------------------------------
(* Properties. *)

STTypeOK ==
    st # Unmounted =>
      /\ st.server.a \in Values /\ st.server.b \in Values
      /\ st.server.secret \in {"old", "new"} /\ st.form.secret \in {Blank, "new"}
      /\ st.save.phase \in {"none", "sent", "refetch"}
      /\ st.typed \subseteq Fields \union {"secret"}

(* Read your writes: when the form closes because its save succeeded, the  *)
(* summary shows that save or a later one, also when an older fetch was    *)
(* still on its way as the save was sent; unless the refetch itself failed.*)
ReadYourWrites ==
    [][(st # Unmounted /\ st' # Unmounted /\ st.save.phase = "refetch"
          /\ st'.save = NoSave /\ ~st'.error)
        => st'.data.version >= st.save.version]_st

(* A save changes no setting that was not typed into the form, the secret  *)
(* included, unless the form was opened without data (it then holds the    *)
(* defaults) or somebody else saved while it was open.                     *)
OnlyTypedSettingsChange ==
    [][(st # Unmounted /\ st' # Unmounted
          /\ st.save.phase = "sent" /\ st'.save.phase = "refetch"
          /\ st.save.base.version = st.server.version)
        => \A field \in Fields \union {"secret"} :
             st'.server[field] # st.server[field] => field \in st.save.typed]_st

(* The recommendation on the screen was computed for the window that the   *)
(* form holds now, however typing, requests and late answers interleave.   *)
PreviewIsOfForm ==
    (st # Unmounted /\ st.preview.phase = "shown") => st.preview.input = st.form.a

(* The result of a test is shown only for the settings it tested: saving   *)
(* clears it.  A test that is on its way during the save, or somebody      *)
(* else's save, can break this (raced).                                    *)
TestIsOfStoredSettings ==
    (st # Unmounted /\ ~st.raced /\ st.result # 0 /\ st.save = NoSave)
      => st.result = st.server.version

=============================================================================
