---------------------------- MODULE ManagerPartsProofs --------------------------
(***************************************************************************)
(* That the nine pages of ManagerParts show answers where they belong, and *)
(* that what they write is confined to what was asked for: for any number  *)
(* of services, templates, entries, logs, certificates, files and          *)
(* releases, and in whatever order requests and answers come in.           *)
(*                                                                         *)
(* Neither AnswersBelong nor WritesConfined follows from itself.  Each     *)
(* page gets an invariant that says what its requests carry:               *)
(*   - what a save under way will write differs from what it was read from *)
(*     only where something was typed (STInv, CTInv);                      *)
(*   - a task of the backup page names a file that is there, one that was  *)
(*     sent a file that was JSON, and no two tasks have the same number;   *)
(*     what was imported last fits the rows and the files (BKInv);         *)
(*   - of an operation on several services, each one asked for is waited   *)
(*     for, done, failed, gone or touched by somebody else (SVInv);        *)
(*   - updates that are sent are of the present save, one for each service *)
(*     that is waited for (MAInv);                                         *)
(*   - a row of the audit log has one request for each action (ACInv);     *)
(*   - an inspected call holds the version that ran, the alert is sent     *)
(*     exactly when its state says so, and a button waits for a call of    *)
(*     its own kind (UPInv);                                               *)
(*   - the failure reports of a certificate come newest first, those with  *)
(*     one signature apart (CEInv);                                        *)
(*   - the newest row of a monitor agrees with what it stored last (MBInv).*)
(* While a page is closed it is Unmounted, and the open one is named by    *)
(* part.                                                                   *)
(***************************************************************************)
EXTENDS ManagerParts, FiniteSetTheorems, SequenceTheorems, WellFoundedInduction, NaturalsInduction, TLAPS

\* A nonempty set of numbers has a least one.
LEMMA LeastIndex == ASSUME NEW T, T \subseteq Nat, T # {} PROVE \E m \in T : \A y \in T : m <= y
<1>1. IsWellFoundedOn(OpToRel(<, Nat), Nat) BY NatLessThanWellFounded
<1>2. PICK m \in T : \A y \in T : ~(<<y, m>> \in OpToRel(<, Nat)) BY <1>1, WFMin
<1>3. ASSUME NEW y \in T PROVE m <= y
  <2>1. y \in Nat /\ m \in Nat OBVIOUS
  <2>2. ~(y < m)
    <3> SUFFICES ASSUME y < m PROVE FALSE OBVIOUS
    <3>1. <<y, m>> \in OpToRel(<, Nat) BY <2>1 DEF OpToRel
    <3> QED BY <1>2, <3>1
  <2> QED BY <2>1, <2>2
<1> QED BY <1>3

-----------------------------------------------------------------------------
(* The settings cards (SettingsForms). *)

StoredSettings == [a : Values, b : Values, version : Nat]
ReadSettings == StoredSettings \union {NoSettings}
SettingsForm == [a : Values, b : Values, secret : {Blank, "new"}]
TypedFields == SUBSET (Fields \union {"secret"})

Fetches == [phase : {"none", "sent"}] \union [phase : {"read"}, answer : StoredSettings]
Saves ==
    {NoSave} \union [phase : {"sent"}, payload : SettingsForm, base : ReadSettings, typed : TypedFields]
      \union [phase : {"refetch"}, version : Nat]
SummaryActions == [phase : {"none", "delete", "count", "dryRun"}] \union [phase : {"test"}, version : Nat]
Previews == {NoAnswer} \union [phase : {"sent", "shown"}, input : Values]
ServerSettings == [a : Values, b : Values, secret : {"old", "new"}, version : Nat \ {0}]

STState ==
    [section : DOMAIN SectionTraits, server : ServerSettings, data : ReadSettings, error : BOOLEAN,
     fetch : Fetches, editing : BOOLEAN, form : SettingsForm, base : ReadSettings, typed : TypedFields,
     save : Saves, action : SummaryActions, result : Nat, raced : BOOLEAN, preview : Previews, turns : Nat]

\* What was fetched is the server's state of its version.
AsOnServer(s, d) ==
    /\ d.version <= s.server.version
    /\ d.version = s.server.version => d.a = s.server.a /\ d.b = s.server.b

\* What was not typed is what the form was opened with.
FormUntouched(form, base, typed) ==
    /\ base # NoSettings => \A field \in Fields : form[field] # base[field] => field \in typed
    /\ form.secret # Blank => "secret" \in typed

FetchesCurrent(s) ==
    /\ AsOnServer(s, s.data) /\ AsOnServer(s, s.base)
    /\ s.fetch.phase = "read" => AsOnServer(s, s.fetch.answer)
    /\ s.save.phase = "sent" => AsOnServer(s, s.save.base)

FormsUntouched(s) ==
    /\ FormUntouched(s.form, s.base, s.typed)
    /\ s.save.phase = "sent" => FormUntouched(s.save.payload, s.save.base, s.save.typed)

\* The refetch of a save reads what the save wrote, or later.
SaveIsRead(s) ==
    s.save.phase = "refetch" =>
      /\ s.save.version <= s.server.version /\ s.fetch.phase # "none"
      /\ s.fetch.phase = "read" => s.fetch.answer.version >= s.save.version

PreviewSound(s) ==
    /\ ~s.editing => s.preview = NoAnswer
    /\ s.preview # NoAnswer => SectionTraits[s.section].preview /\ s.preview.input = s.form.a

ResultSound(s) ==
    /\ s.action.phase = "test" \/ s.result # 0 => SectionTraits[s.section].action = "test"
    /\ ~s.raced /\ s.result # 0 /\ s.save.phase # "refetch" => s.result = s.server.version

STSound(s) == FetchesCurrent(s) /\ FormsUntouched(s) /\ SaveIsRead(s) /\ PreviewSound(s) /\ ResultSound(s)
STInv == st \in STState /\ STSound(st)


LEMMA PreviewSections == SectionTraits["upstream"].preview = FALSE
  BY DEF SectionTraits, UpstreamTraits, Trait

LEMMA STInitially == STMounted => STInv
<1> SUFFICES ASSUME STMounted PROVE STInv OBVIOUS
<1>1. PICK section \in Sections :
      st = [section |-> section, server |-> [a |-> 1, b |-> 1, secret |-> "old", version |-> 1],
            data |-> NoSettings, error |-> FALSE, fetch |-> [phase |-> "sent"],
            editing |-> FALSE, form |-> Defaults,
            base |-> NoSettings, typed |-> {}, save |-> NoSave,
            action |-> NoAnswer, result |-> 0, raced |-> FALSE,
            preview |-> NoAnswer, turns |-> 0]
  BY DEF STMounted
<1>2. section \in DOMAIN SectionTraits BY SectionsAssumption
<1>3. st \in STState
  BY <1>1, <1>2 DEF STState, Fetches, Saves, SummaryActions, Previews, ServerSettings, StoredSettings, ReadSettings, SettingsForm, TypedFields, Values, Fields, Defaults, NoSettings,
     NoSave, NoAnswer, Blank
<1>4. STSound(st)
  BY <1>1 DEF STSound, FetchesCurrent, FormsUntouched, SaveIsRead, PreviewSound, ResultSound, AsOnServer,
     FormUntouched, Defaults, NoSettings, NoSave, NoAnswer, Blank
<1> QED BY <1>3, <1>4 DEF STInv

\* What the parts of the invariant look at.
LEMMA STUnchanged ==
  ASSUME NEW s, NEW t, STSound(s),
         t.section = s.section, t.server = s.server, t.data = s.data, t.fetch = s.fetch,
         t.editing = s.editing, t.form = s.form, t.base = s.base, t.typed = s.typed, t.save = s.save,
         t.action = s.action, t.result = s.result, t.raced = s.raced, t.preview = s.preview
  PROVE  STSound(t)
  BY DEF STSound, FetchesCurrent, FormsUntouched, SaveIsRead, PreviewSound, ResultSound, AsOnServer

\* The query and its answers.
LEMMA STQueryStep == STInv /\ (Refetch \/ ServerReads) => STInv'
<1> SUFFICES ASSUME STInv, Refetch \/ ServerReads PROVE STInv' OBVIOUS
<1>a. st \in STState /\ STSound(st) BY DEF STInv
<1>1. PICK f \in [phase : {"sent"}] \union [phase : {"read"}, answer : StoredSettings] :
        /\ st' = [st EXCEPT !.fetch = f]
        /\ f.phase = "read" => f.answer = Shown(st.server)
  <2>1. CASE Refetch
    <3> DEFINE f == [phase |-> "sent"]
    <3>1. f \in [phase : {"sent"}] /\ f.phase # "read" OBVIOUS
    <3>2. st' = [st EXCEPT !.fetch = f] BY <2>1 DEF Refetch
    <3> HIDE DEF f
    <3> QED BY <3>1, <3>2
  <2>2. CASE ServerReads
    <3> DEFINE f == [phase |-> "read", answer |-> Shown(st.server)]
    <3>1. Shown(st.server) \in StoredSettings BY <1>a DEF STState, ServerSettings, Shown, StoredSettings
    <3>2. f \in [phase : {"read"}, answer : StoredSettings] /\ f.answer = Shown(st.server) BY <3>1
    <3>3. st' = [st EXCEPT !.fetch = f] BY <2>2 DEF ServerReads
    <3> HIDE DEF f
    <3> QED BY <3>2, <3>3
  <2> QED BY <2>1, <2>2
<1>2. st' \in STState
  <2>1. f \in Fetches BY <1>1 DEF Fetches
  <2>2. st \in STState BY <1>a
  <2> QED BY <1>1, <2>1, <2>2 DEF STState
<1>3. st'.server = st.server /\ st'.data = st.data /\ st'.base = st.base /\ st'.save = st.save /\ st'.fetch = f
      /\ st'.form = st.form /\ st'.typed = st.typed /\ st'.editing = st.editing /\ st'.preview = st.preview
      /\ st'.section = st.section /\ st'.action = st.action /\ st'.result = st.result /\ st'.raced = st.raced
  BY <1>a, <1>1 DEF STState
<1>4. AsOnServer(st, Shown(st.server)) /\ Shown(st.server).version = st.server.version
  BY <1>a DEF AsOnServer, Shown, STState, ServerSettings
<1>5. FetchesCurrent(st') BY <1>a, <1>1, <1>3, <1>4 DEF STSound, FetchesCurrent, AsOnServer
<1>6. SaveIsRead(st') BY <1>a, <1>1, <1>3, <1>4 DEF STSound, SaveIsRead
<1>7. FormsUntouched(st') /\ PreviewSound(st') /\ ResultSound(st')
  BY <1>a, <1>3 DEF STSound, FormsUntouched, PreviewSound, ResultSound
<1> QED BY <1>2, <1>5, <1>6, <1>7 DEF STInv, STSound


\* A fetch settles, and with it a save that waited for it.
LEMMA STSettleStep ==
  ASSUME STInv, st.fetch.phase # "none", NEW d \in ReadSettings, NEW e \in BOOLEAN, AsOnServer(st, d),
         NEW s, s = [st EXCEPT !.fetch = NoSave, !.data = d, !.error = e], st' = SaveSettled(s),
         st.save.phase = "refetch" => e \/ d.version >= st.save.version
  PROVE  /\ STInv'
         /\ st.save.phase = "refetch" => st'.error \/ st'.data.version >= st.save.version
         /\ st.save.phase # "refetch" => st'.save = st.save
<1>a. st \in STState /\ STSound(st) BY DEF STInv
<1>1. s \in STState
  <2>1. NoSave \in Fetches BY DEF NoSave, Fetches
  <2>2. st \in STState BY <1>a
  <2> QED BY <2>1, <2>2 DEF STState
<1>2. s.server = st.server /\ s.data = d /\ s.base = st.base /\ s.save = st.save /\ s.fetch = NoSave /\ s.error = e
      /\ s.form = st.form /\ s.typed = st.typed /\ s.editing = st.editing /\ s.preview = st.preview
      /\ s.section = st.section /\ s.action = st.action /\ s.result = st.result /\ s.raced = st.raced
  BY <1>a DEF STState
<1>3. FetchesCurrent(s) BY <1>a, <1>2 DEF STSound, FetchesCurrent, AsOnServer, NoSave
<1>4. FormsUntouched(s) /\ PreviewSound(s) /\ ResultSound(s)
  BY <1>a, <1>2 DEF STSound, FormsUntouched, PreviewSound, ResultSound
<1>5. CASE st.save.phase # "refetch"
  <2>1. st' = s BY <1>2, <1>5 DEF SaveSettled
  <2>2. SaveIsRead(s) BY <1>2, <1>5 DEF SaveIsRead
  <2> QED BY <1>1, <1>2, <1>3, <1>4, <1>5, <2>1, <2>2 DEF STInv, STSound
<1>6. CASE st.save.phase = "refetch"
  <2> DEFINE c == Closed(s)
             n == IF Traits.action = "test" THEN 0 ELSE s.result
  <2>1. c \in STState /\ c.result = s.result
    <3>1. NoAnswer \in Previews /\ Defaults \in SettingsForm
          /\ NoSettings \in ReadSettings /\ {} \in TypedFields
      BY DEF Previews, Defaults, SettingsForm, ReadSettings, TypedFields, Values, Blank
    <3> DEFINE r == [s EXCEPT !.editing = FALSE, !.preview = NoAnswer, !.form = Defaults]
    <3>2. r \in STState /\ r.result = s.result BY <1>1, <3>1 DEF STState
    <3>3. c = [r EXCEPT !.base = NoSettings, !.typed = {}] BY DEF Closed
    <3> HIDE DEF r, c
    <3> QED BY <3>1, <3>2, <3>3 DEF STState
  <2>2. n \in Nat /\ (n = 0 \/ (n = s.result /\ Traits.action # "test"))
    <3>1. s.result \in Nat BY <1>1 DEF STState
    <3> QED BY <3>1
  <2>3. st' = [c EXCEPT !.save = NoSave, !.result = n]
    BY <1>2, <1>6, <2>1 DEF SaveSettled
  <2>4. /\ c.server = s.server /\ c.data = s.data /\ c.base = NoSettings /\ c.fetch = s.fetch /\ c.form = Defaults
        /\ c.typed = {} /\ c.editing = FALSE /\ c.preview = NoAnswer /\ c.section = s.section /\ c.action = s.action
        /\ c.raced = s.raced /\ c.error = s.error
    BY <1>1 DEF STState, Closed
  <2> HIDE DEF c, n
  <2>5. st' \in STState
    <3>1. NoSave \in Saves BY DEF Saves
    <3> QED BY <2>1, <2>2, <2>3, <3>1 DEF STState
  <2>6. /\ st'.server = s.server /\ st'.data = s.data /\ st'.base = NoSettings /\ st'.fetch = s.fetch /\ st'.form = Defaults
        /\ st'.typed = {} /\ st'.editing = FALSE /\ st'.preview = NoAnswer /\ st'.section = s.section /\ st'.action = s.action
        /\ st'.raced = s.raced /\ st'.error = s.error /\ st'.save = NoSave /\ st'.result = n
    BY <2>1, <2>3, <2>4 DEF STState
  <2>7. FetchesCurrent(st')
    <3>1. AsOnServer(st', NoSettings)
      BY <1>a, <1>1, <2>6 DEF AsOnServer, NoSettings, STState, ServerSettings
    <3> QED BY <1>2, <1>3, <2>6, <3>1 DEF FetchesCurrent, AsOnServer, NoSave
  <2>8. FormsUntouched(st') BY <2>6 DEF FormsUntouched, FormUntouched, Defaults, NoSave
  <2>9. SaveIsRead(st') /\ PreviewSound(st') BY <2>6 DEF SaveIsRead, PreviewSound, NoSave
  <2>10. ResultSound(st')
    <3>1. SectionTraits[s.section].action = Traits.action BY <1>2 DEF Traits
    <3>2. s.result # 0 => Traits.action = "test" BY <1>4, <3>1 DEF ResultSound
    <3>3. n = 0 BY <2>2, <3>2
    <3> QED BY <1>4, <2>6, <3>3 DEF ResultSound
  <2>11. st'.error \/ st'.data.version >= st.save.version BY <1>2, <1>6, <2>6
  <2> QED BY <1>6, <2>5, <2>7, <2>8, <2>9, <2>10, <2>11 DEF STInv, STSound
<1> QED BY <1>5, <1>6


\* Edit, typing, Cancel and the preview touch the form only.
LEMMA STFormStep ==
  ASSUME STInv, NEW e \in BOOLEAN, NEW g \in SettingsForm, NEW b \in ReadSettings, NEW t \in TypedFields,
         NEW p \in Previews, NEW k \in Nat,
         st' = [st EXCEPT !.editing = e, !.form = g, !.base = b, !.typed = t, !.preview = p, !.turns = k],
         AsOnServer(st, b), FormUntouched(g, b, t), ~e => p = NoAnswer,
         p # NoAnswer => Traits.preview /\ p.input = g.a
  PROVE  STInv'
<1>a. st \in STState /\ STSound(st) BY DEF STInv
<1> DEFINE r == [st EXCEPT !.editing = e, !.form = g, !.base = b]
<1>1. r \in STState BY <1>a DEF STState
<1>2. st' = [r EXCEPT !.typed = t, !.preview = p, !.turns = k] OBVIOUS
<1>3. st' \in STState
  <2> HIDE DEF r
  <2> QED BY <1>1, <1>2 DEF STState
<1>4. st'.server = st.server /\ st'.data = st.data /\ st'.base = b /\ st'.save = st.save /\ st'.fetch = st.fetch
      /\ st'.form = g /\ st'.typed = t /\ st'.editing = e /\ st'.preview = p
      /\ st'.section = st.section /\ st'.action = st.action /\ st'.result = st.result /\ st'.raced = st.raced
  BY <1>a DEF STState
<1>5. FetchesCurrent(st') BY <1>a, <1>4 DEF STSound, FetchesCurrent, AsOnServer
<1>6. SaveIsRead(st') /\ ResultSound(st') BY <1>a, <1>4 DEF STSound, SaveIsRead, ResultSound
<1>7. FormsUntouched(st') /\ PreviewSound(st')
  BY <1>a, <1>4 DEF STSound, FormsUntouched, PreviewSound, Traits
<1> QED BY <1>3, <1>5, <1>6, <1>7 DEF STInv, STSound

\* The fields of the state, as the actions read them.
LEMMA STFields ==
  ASSUME STInv
  PROVE  /\ st.editing \in BOOLEAN /\ st.form \in SettingsForm /\ st.base \in ReadSettings /\ st.typed \in TypedFields
         /\ st.preview \in Previews /\ st.turns \in Nat
         /\ AsOnServer(st, st.data) /\ AsOnServer(st, st.base) /\ FormUntouched(st.form, st.base, st.typed)
         /\ (~st.editing => st.preview = NoAnswer)
         /\ (st.preview # NoAnswer => Traits.preview /\ st.preview.input = st.form.a)
  BY DEF STInv, STState, STSound, FetchesCurrent, FormsUntouched, PreviewSound, Traits

LEMMA SettingEditStep == STInv /\ handleEdit => STInv'
<1> SUFFICES ASSUME STInv, handleEdit PROVE STInv' OBVIOUS
<1>a. st \in STState BY DEF STInv
<1> DEFINE g == IF st.data = NoSettings THEN Defaults ELSE [a |-> st.data.a, b |-> st.data.b, secret |-> Blank]
           k == st.turns + 1
<1>1. st.data \in ReadSettings BY <1>a DEF STState
<1>2. g \in SettingsForm
  <2>1. CASE st.data = NoSettings BY <2>1 DEF Defaults, SettingsForm, Values, Blank
  <2>2. CASE st.data # NoSettings BY <1>1, <2>2 DEF ReadSettings, StoredSettings, SettingsForm
  <2> QED BY <2>1, <2>2
<1>3. FormUntouched(g, st.data, {})
  <2>1. CASE st.data = NoSettings BY <2>1 DEF FormUntouched, Defaults, Blank
  <2>2. CASE st.data # NoSettings BY <2>2 DEF FormUntouched, Fields
  <2> QED BY <2>1, <2>2
<1>4. k \in Nat BY STFields
<1>5. ~st.editing /\ st' = [st EXCEPT !.editing = TRUE, !.turns = k, !.base = st.data, !.typed = {}, !.form = g]
  BY DEF handleEdit
<1> HIDE DEF g, k
<1>6. st.preview = NoAnswer BY <1>5, STFields
<1>7. st' = [st EXCEPT !.editing = TRUE, !.form = g, !.base = st.data, !.typed = {}, !.preview = st.preview, !.turns = k]
  BY <1>a, <1>5 DEF STState
<1>8. {} \in TypedFields BY DEF TypedFields
<1>9. TRUE \in BOOLEAN /\ st.preview \in Previews /\ AsOnServer(st, st.data) BY STFields
<1> QED BY <1>1, <1>2, <1>3, <1>4, <1>6, <1>7, <1>8, <1>9, STFormStep

\* Typing into a field of the form.
LEMMA TypedStep ==
  ASSUME STInv, NEW field \in Fields \union {"secret"}, NEW g \in SettingsForm,
         \A f \in Fields \union {"secret"} : f # field => g[f] = st.form[f],
         NEW p \in Previews, st.editing,
         st' = [st EXCEPT !.form = g, !.typed = @ \union {field}, !.preview = p],
         p = NoAnswer \/ (p = st.preview /\ (st.preview = NoAnswer \/ field # "a"))
  PROVE  STInv'
<1>a. st \in STState BY DEF STInv
<1>b. /\ st.form \in SettingsForm /\ st.base \in ReadSettings /\ st.typed \in TypedFields /\ st.turns \in Nat
      /\ AsOnServer(st, st.base) /\ FormUntouched(st.form, st.base, st.typed)
      /\ (st.preview # NoAnswer => Traits.preview /\ st.preview.input = st.form.a)
  BY STFields
<1> DEFINE t == st.typed \union {field}
<1>1. t \in TypedFields BY <1>b DEF TypedFields
<1>2. st' = [st EXCEPT !.editing = TRUE, !.form = g, !.base = st.base, !.typed = t, !.preview = p, !.turns = st.turns]
  BY <1>a DEF STState
<1>3. FormUntouched(g, st.base, t)
  <2>1. \A f \in Fields : g[f] # st.form[f] => f \in t OBVIOUS
  <2>2. g.secret # st.form.secret => "secret" \in t
    <3>1. g["secret"] # st.form["secret"] => "secret" \in t OBVIOUS
    <3> QED BY <3>1
  <2> QED BY <1>b, <2>1, <2>2 DEF FormUntouched
<1>4. p # NoAnswer => Traits.preview /\ p.input = g.a
  <2>1. field # "a" => g["a"] = st.form["a"] BY DEF Fields
  <2> QED BY <1>b, <2>1
<1> HIDE DEF t
<1> QED BY <1>b, <1>1, <1>2, <1>3, <1>4, STFormStep


LEMMA FieldValues == ASSUME STInv, NEW field \in Fields, NEW value \in Values
                     PROVE  /\ [st.form EXCEPT ![field] = value] \in SettingsForm
                            /\ \A f \in Fields \union {"secret"} : f # field => [st.form EXCEPT ![field] = value][f] = st.form[f]
<1>1. st.form \in SettingsForm BY STFields
<1> QED BY <1>1 DEF SettingsForm, Fields

Typing ==
    \/ \E field \in Fields, value \in Values : TypeField(field, value)
    \/ \E value \in {Blank, "new"} : TypeSecret(value)
    \/ \E value \in Values : ApplyPreset(value) \/ ApplyRecommendation(value)

LEMMA TypeStep == STInv /\ Typing => STInv'
<1>a. ASSUME STInv PROVE st \in STState BY <1>a DEF STInv
<1>1. ASSUME STInv, NEW field \in Fields, NEW value \in Values, TypeField(field, value) PROVE STInv'
  <2> DEFINE g == [st.form EXCEPT ![field] = value]
             p == IF field = "a" THEN NoAnswer ELSE st.preview
  <2>1. g \in SettingsForm /\ \A f \in Fields \union {"secret"} : f # field => g[f] = st.form[f] BY <1>1, FieldValues
  <2>2. p \in Previews BY <1>1, STFields DEF Previews
  <2>3. p = NoAnswer \/ (p = st.preview /\ field # "a") OBVIOUS
  <2>4. st' = [st EXCEPT !.form = g, !.typed = @ \union {field}, !.preview = p] BY <1>1, <1>a DEF TypeField, STState
  <2>5. st.editing BY <1>1 DEF TypeField, FormVisible
  <2> HIDE DEF g, p
  <2> QED BY <1>1, <2>1, <2>2, <2>3, <2>4, <2>5, TypedStep
<1>2. ASSUME STInv, NEW value \in {Blank, "new"}, TypeSecret(value) PROVE STInv'
  <2> DEFINE g == [st.form EXCEPT !.secret = value]
  <2>1. st.form \in SettingsForm /\ st.preview \in Previews BY <1>2, STFields
  <2>2. g \in SettingsForm /\ \A f \in Fields \union {"secret"} : f # "secret" => g[f] = st.form[f]
    BY <2>1 DEF SettingsForm, Fields
  <2>3. st' = [st EXCEPT !.form = g, !.typed = @ \union {"secret"}, !.preview = st.preview]
    BY <1>2, <1>a DEF TypeSecret, STState
  <2>4. st.editing BY <1>2 DEF TypeSecret, FormVisible
  <2> HIDE DEF g
  <2>5. "secret" # "a" /\ "secret" \in Fields \union {"secret"} OBVIOUS
  <2> QED BY <1>2, <2>1, <2>2, <2>3, <2>4, <2>5, TypedStep
<1>3. ASSUME STInv, NEW value \in Values, ApplyPreset(value) PROVE STInv'
  <2> DEFINE g == [st.form EXCEPT !["a"] = value]
  <2>0. "a" \in Fields BY DEF Fields
  <2>1. g \in SettingsForm /\ \A f \in Fields \union {"secret"} : f # "a" => g[f] = st.form[f]
    BY <1>3, <2>0, FieldValues
  <2>2. st' = [st EXCEPT !.form = g, !.typed = @ \union {"a"}, !.preview = st.preview]
    BY <1>3, <1>a DEF ApplyPreset, STState
  <2>3. st.editing /\ st.section = "upstream" BY <1>3 DEF ApplyPreset, FormVisible
  <2>4. st.preview = NoAnswer /\ st.preview \in Previews BY <1>3, <2>3, STFields, PreviewSections DEF Traits
  <2> HIDE DEF g
  <2> QED BY <1>3, <2>0, <2>1, <2>2, <2>3, <2>4, TypedStep
<1>4. ASSUME STInv, NEW value \in Values, ApplyRecommendation(value) PROVE STInv'
  <2> DEFINE g == [st.form EXCEPT !["b"] = value]
  <2>0. "b" \in Fields /\ "b" # "a" BY DEF Fields
  <2>1. g \in SettingsForm /\ \A f \in Fields \union {"secret"} : f # "b" => g[f] = st.form[f]
    BY <1>4, <2>0, FieldValues
  <2>2. st' = [st EXCEPT !.form = g, !.typed = @ \union {"b"}, !.preview = st.preview]
    BY <1>4, <1>a DEF ApplyRecommendation, STState
  <2>3. st.editing BY <1>4 DEF ApplyRecommendation, FormVisible
  <2>4. st.preview \in Previews BY <1>4, STFields
  <2> HIDE DEF g
  <2> QED BY <1>4, <2>0, <2>1, <2>2, <2>3, <2>4, TypedStep
<1> QED BY <1>1, <1>2, <1>3, <1>4 DEF Typing

LEMMA CancelPreviewStep == STInv /\ (handleCancel \/ RequestPreview \/ PreviewAnswered) => STInv'
<1> SUFFICES ASSUME STInv, handleCancel \/ RequestPreview \/ PreviewAnswered PROVE STInv' OBVIOUS
<1>a. st \in STState BY DEF STInv
<1>b. /\ st.form \in SettingsForm /\ st.base \in ReadSettings /\ st.typed \in TypedFields /\ st.turns \in Nat
      /\ st.editing \in BOOLEAN /\ st.preview \in Previews
      /\ AsOnServer(st, st.base) /\ FormUntouched(st.form, st.base, st.typed)
      /\ (~st.editing => st.preview = NoAnswer)
      /\ (st.preview # NoAnswer => Traits.preview /\ st.preview.input = st.form.a)
  BY STFields
<1>1. CASE handleCancel
  <2>1. Defaults \in SettingsForm /\ NoSettings \in ReadSettings /\ {} \in TypedFields /\ NoAnswer \in Previews
    BY DEF Defaults, SettingsForm, ReadSettings, TypedFields, Values, Blank, Previews
  <2>2. st' = [st EXCEPT !.editing = FALSE, !.form = Defaults, !.base = NoSettings, !.typed = {}, !.preview = NoAnswer,
                         !.turns = st.turns]
    BY <1>1, <1>a DEF handleCancel, Closed, STState
  <2>3. AsOnServer(st, NoSettings) BY <1>a DEF AsOnServer, NoSettings, STState, ServerSettings
  <2>4. FormUntouched(Defaults, NoSettings, {}) BY DEF FormUntouched, Defaults
  <2> QED BY <1>b, <2>1, <2>2, <2>3, <2>4, STFormStep
<1>2. ASSUME NEW p \in Previews, st' = [st EXCEPT !.preview = p], ~st.editing => p = NoAnswer,
             p # NoAnswer => Traits.preview /\ p.input = st.form.a
      PROVE  STInv'
  <2>1. st' = [st EXCEPT !.editing = st.editing, !.form = st.form, !.base = st.base, !.typed = st.typed, !.preview = p,
                         !.turns = st.turns]
    BY <1>2, <1>a DEF STState
  <2>2. FormUntouched(st.form, st.base, st.typed) /\ AsOnServer(st, st.base) BY <1>b
  <2> DEFINE g == st.form
             b == st.base
             t == st.typed
             e == st.editing
             k == st.turns
  <2>3. /\ e \in BOOLEAN /\ g \in SettingsForm /\ b \in ReadSettings /\ t \in TypedFields /\ k \in Nat
        /\ AsOnServer(st, b) /\ FormUntouched(g, b, t) /\ (~e => p = NoAnswer)
        /\ (p # NoAnswer => Traits.preview /\ p.input = g.a)
    BY <1>b, <1>2
  <2>4. st' = [st EXCEPT !.editing = e, !.form = g, !.base = b, !.typed = t, !.preview = p, !.turns = k] BY <2>1
  <2> HIDE DEF g, b, t, e, k
  <2> QED BY <1>2, <2>3, <2>4, STFormStep
<1>3. CASE RequestPreview
  <2> DEFINE p == [phase |-> "sent", input |-> st.form.a]
  <2>1. p \in Previews /\ p.input = st.form.a BY <1>b DEF Previews, SettingsForm
  <2>2. st.editing /\ Traits.preview /\ st' = [st EXCEPT !.preview = p] BY <1>3 DEF RequestPreview, FormVisible
  <2> HIDE DEF p
  <2> QED BY <1>2, <2>1, <2>2
<1>4. CASE PreviewAnswered
  <2> DEFINE p == [phase |-> "shown", input |-> st.preview.input]
  <2>1. st.preview # NoAnswer BY <1>4 DEF PreviewAnswered, NoAnswer
  <2>2. p \in Previews /\ p.input = st.preview.input BY <1>b, <2>1 DEF Previews
  <2>3. NoAnswer \in Previews BY DEF Previews
  <2>4. st' = [st EXCEPT !.preview = p] \/ st' = [st EXCEPT !.preview = NoAnswer] BY <1>4 DEF PreviewAnswered
  <2> HIDE DEF p
  <2> QED BY <1>2, <1>b, <2>1, <2>2, <2>3, <2>4
<1> QED BY <1>1, <1>3, <1>4

\* The summary's actions touch nothing else.
LEMMA STActionStep ==
  ASSUME STInv, NEW c \in SummaryActions, NEW n \in Nat, NEW q \in BOOLEAN,
         st' = [st EXCEPT !.action = c, !.result = n, !.raced = q],
         c.phase = "test" \/ n # 0 => Traits.action = "test",
         ~q /\ n # 0 /\ st.save.phase # "refetch" => n = st.server.version
  PROVE  STInv'
<1>a. st \in STState /\ STSound(st) BY DEF STInv
<1>1. st' \in STState
  <2>1. st \in STState BY <1>a
  <2> QED BY <2>1 DEF STState
<1>2. st'.server = st.server /\ st'.data = st.data /\ st'.base = st.base /\ st'.save = st.save /\ st'.fetch = st.fetch
      /\ st'.form = st.form /\ st'.typed = st.typed /\ st'.editing = st.editing /\ st'.preview = st.preview
      /\ st'.section = st.section /\ st'.action = c /\ st'.result = n /\ st'.raced = q
  BY <1>a DEF STState
<1>3. FetchesCurrent(st') BY <1>a, <1>2 DEF STSound, FetchesCurrent, AsOnServer
<1>4. FormsUntouched(st') /\ SaveIsRead(st') /\ PreviewSound(st')
  BY <1>a, <1>2 DEF STSound, FormsUntouched, SaveIsRead, PreviewSound
<1>5. ResultSound(st') BY <1>a, <1>2 DEF STSound, ResultSound, Traits
<1> QED BY <1>1, <1>3, <1>4, <1>5 DEF STInv, STSound

SummaryStep ==
    handleTest \/ TestAnswered \/ handleCleanup \/ CleanupCounted \/ CleanupFinished \/ handleDryRun \/ DryRunAnswered

LEMMA STSummaryStep == STInv /\ SummaryStep => STInv'
<1> SUFFICES ASSUME STInv, SummaryStep PROVE STInv' OBVIOUS
<1>a. st \in STState BY DEF STInv
<1>b. st.action \in SummaryActions /\ st.result \in Nat /\ st.raced \in BOOLEAN BY <1>a DEF STState
<1>c. ResultSound(st) BY DEF STInv, STSound
<1>1. CASE TestAnswered
  <2> DEFINE q == st.action.version # st.server.version
  <2>1. st.action.phase = "test" /\ st' = [st EXCEPT !.action = NoAnswer, !.result = st.action.version, !.raced = q]
    BY <1>1 DEF TestAnswered
  <2>2. st.action.version \in Nat BY <1>b, <2>1 DEF SummaryActions
  <2>3. Traits.action = "test" BY <1>c, <2>1 DEF ResultSound, Traits
  <2>4. NoAnswer \in SummaryActions /\ q \in BOOLEAN BY DEF NoAnswer, SummaryActions
  <2>5. ~q => st.action.version = st.server.version OBVIOUS
  <2> HIDE DEF q
  <2> QED BY <2>1, <2>2, <2>3, <2>4, <2>5, STActionStep
<1>2. ASSUME NEW c \in SummaryActions, st' = [st EXCEPT !.action = c], c.phase = "test" => Traits.action = "test"
      PROVE  STInv'
  <2>1. st' = [st EXCEPT !.action = c, !.result = st.result, !.raced = st.raced] BY <1>2, <1>a DEF STState
  <2>2. st.result # 0 => Traits.action = "test" BY <1>c DEF ResultSound, Traits
  <2>3. ~st.raced /\ st.result # 0 /\ st.save.phase # "refetch" => st.result = st.server.version BY <1>c DEF ResultSound
  <2> QED BY <1>b, <1>2, <2>1, <2>2, <2>3, STActionStep
<1>3. CASE handleTest
  <2> DEFINE c == [phase |-> "test", version |-> st.server.version]
  <2>1. c \in SummaryActions BY <1>a DEF STState, ServerSettings, SummaryActions
  <2>2. Traits.action = "test" /\ st' = [st EXCEPT !.action = c] BY <1>3 DEF handleTest
  <2> HIDE DEF c
  <2> QED BY <1>2, <2>1, <2>2
<1>4. ASSUME NEW k \in {"none", "delete", "count", "dryRun"}, st' = [st EXCEPT !.action = [phase |-> k]] PROVE STInv'
  <2> DEFINE c == [phase |-> k]
  <2>1. c \in SummaryActions /\ c.phase # "test" BY DEF SummaryActions
  <2>2. st' = [st EXCEPT !.action = c] BY <1>4
  <2> HIDE DEF c
  <2> QED BY <1>2, <2>1, <2>2
<1>5. NoAnswer = [phase |-> "none"] BY DEF NoAnswer
<1>6. CASE handleCleanup \/ CleanupCounted \/ CleanupFinished BY <1>4, <1>5, <1>6 DEF handleCleanup, CleanupCounted, CleanupFinished
<1>7. CASE handleDryRun \/ DryRunAnswered BY <1>4, <1>5, <1>7 DEF handleDryRun, DryRunAnswered
<1> QED BY <1>1, <1>3, <1>6, <1>7 DEF SummaryStep


\* Save, its answers, and the saves of others.
LEMMA STSentStep ==
  ASSUME STInv, NEW v \in Saves, st' = [st EXCEPT !.save = v],
         v.phase = "sent" => FormUntouched(v.payload, v.base, v.typed) /\ AsOnServer(st, v.base),
         v.phase # "refetch", st.save.phase # "refetch"
  PROVE  STInv'
<1>a. st \in STState /\ STSound(st) BY DEF STInv
<1>1. st' \in STState
  <2>1. st \in STState BY <1>a
  <2> QED BY <2>1 DEF STState
<1>2. st'.server = st.server /\ st'.data = st.data /\ st'.base = st.base /\ st'.save = v /\ st'.fetch = st.fetch
      /\ st'.form = st.form /\ st'.typed = st.typed /\ st'.editing = st.editing /\ st'.preview = st.preview
      /\ st'.section = st.section /\ st'.action = st.action /\ st'.result = st.result /\ st'.raced = st.raced
  BY <1>a DEF STState
<1>3. FetchesCurrent(st') BY <1>a, <1>2 DEF STSound, FetchesCurrent, AsOnServer
<1>4. FormsUntouched(st') /\ SaveIsRead(st') /\ PreviewSound(st') /\ ResultSound(st')
  BY <1>a, <1>2 DEF STSound, FormsUntouched, SaveIsRead, PreviewSound, ResultSound
<1> QED BY <1>1, <1>3, <1>4 DEF STInv, STSound

LEMMA SaveStep == STInv /\ (handleSave \/ SaveStopped \/ SaveRejected) => STInv'
<1> SUFFICES ASSUME STInv, handleSave \/ SaveStopped \/ SaveRejected PROVE STInv' OBVIOUS
<1>a. st \in STState BY DEF STInv
<1>1. CASE handleSave
  <2> DEFINE v == [phase |-> "sent", payload |-> st.form, base |-> st.base, typed |-> st.typed]
  <2>1. v \in Saves BY STFields DEF Saves
  <2>2. v.phase = "sent" /\ FormUntouched(v.payload, v.base, v.typed) /\ AsOnServer(st, v.base) BY STFields
  <2>3. st.save.phase # "refetch" /\ st' = [st EXCEPT !.save = v] BY <1>1 DEF handleSave, NoSave
  <2> HIDE DEF v
  <2> QED BY <2>1, <2>2, <2>3, STSentStep
<1>2. CASE SaveStopped BY <1>2 DEF SaveStopped, STInv
<1>3. CASE SaveRejected
  <2>1. NoSave \in Saves /\ NoSave.phase = "none" BY DEF Saves, NoSave
  <2>2. st.save.phase # "refetch" /\ st' = [st EXCEPT !.save = NoSave] BY <1>3 DEF SaveRejected
  <2> QED BY <2>1, <2>2, STSentStep
<1> QED BY <1>1, <1>2, <1>3

LEMMA SaveAppliedStep == STInv /\ SaveApplied => STInv'
<1> SUFFICES ASSUME STInv, SaveApplied PROVE STInv' OBVIOUS
<1>a. st \in STState /\ STSound(st) BY DEF STInv
<1> DEFINE next == [a |-> st.save.payload.a, b |-> st.save.payload.b, secret |-> StoredSecret(st.save.payload.secret),
                    version |-> st.server.version + 1]
           f == [phase |-> "sent"]
           v == [phase |-> "refetch", version |-> next.version]
<1>1. st.save.phase = "sent" /\ st' = [st EXCEPT !.server = next, !.fetch = f, !.save = v] BY DEF SaveApplied
<1>2. st.save.payload \in SettingsForm
  <2>1. st.save \in Saves BY <1>a DEF STState
  <2> QED BY <1>1, <2>1 DEF Saves, NoSave
<1>3. st.server \in ServerSettings BY <1>a DEF STState
<1>4. next \in ServerSettings BY <1>2, <1>3 DEF ServerSettings, SettingsForm, StoredSecret
<1>5. f \in Fetches BY DEF Fetches
<1>6. v \in Saves BY <1>4 DEF Saves, ServerSettings
<1>7. next.version = st.server.version + 1 OBVIOUS
<1>8. f.phase = "sent" /\ v.phase = "refetch" /\ v.version = next.version OBVIOUS
<1> HIDE DEF next, f, v
<1>9. st' \in STState
  <2>1. st \in STState BY <1>a
  <2> QED BY <1>1, <1>4, <1>5, <1>6, <2>1 DEF STState
<1>10. st'.server = next /\ st'.data = st.data /\ st'.base = st.base /\ st'.save = v /\ st'.fetch = f
      /\ st'.form = st.form /\ st'.typed = st.typed /\ st'.editing = st.editing /\ st'.preview = st.preview
      /\ st'.section = st.section /\ st'.action = st.action /\ st'.result = st.result /\ st'.raced = st.raced
  BY <1>1, <1>a DEF STState
<1>11. FetchesCurrent(st')
  <2>1. st.server.version \in Nat BY <1>3 DEF ServerSettings
  <2>2. st.data.version \in Nat /\ st.base.version \in Nat
    <3>1. st.data \in ReadSettings /\ st.base \in ReadSettings BY <1>a DEF STState
    <3> QED BY <3>1 DEF ReadSettings, StoredSettings, NoSettings
  <2> QED BY <1>7, <1>8, <1>10, <1>a, <2>1, <2>2 DEF STSound, FetchesCurrent, AsOnServer
<1>12. FormsUntouched(st') /\ PreviewSound(st') /\ ResultSound(st')
  BY <1>a, <1>8, <1>10 DEF STSound, FormsUntouched, PreviewSound, ResultSound
<1>13. SaveIsRead(st') BY <1>4, <1>8, <1>10 DEF SaveIsRead, ServerSettings
<1> QED BY <1>9, <1>11, <1>12, <1>13 DEF STInv, STSound

LEMMA OtherAdminStep == STInv /\ OtherAdminSaves => STInv'
<1> SUFFICES ASSUME STInv, OtherAdminSaves PROVE STInv' OBVIOUS
<1>a. st \in STState /\ STSound(st) BY DEF STInv
<1>1. PICK field \in Fields :
        st' = [st EXCEPT !.server[field] = 1 - @, !.server.version = @ + 1, !.turns = @ + 1, !.raced = @ \/ st.result # 0]
  BY DEF OtherAdminSaves
<1> DEFINE next == [st.server EXCEPT ![field] = 1 - @, !.version = @ + 1]
           k == st.turns + 1
           q == st.raced \/ st.result # 0
<1>2. st' = [st EXCEPT !.server = next, !.turns = k, !.raced = q]
  <2> DEFINE r == [st EXCEPT !.server[field] = 1 - @, !.server.version = @ + 1]
  <2>1. st' = [r EXCEPT !.turns = k, !.raced = q] BY <1>1
  <2>2. r = [st EXCEPT !.server = next] BY <1>a DEF STState
  <2> HIDE DEF r, next, k, q
  <2> QED BY <2>1, <2>2
<1>3. st.server \in ServerSettings BY <1>a DEF STState
<1>4. next \in ServerSettings /\ next.version = st.server.version + 1
  <2>1. 1 - st.server[field] \in Values
    <3>1. st.server.a \in Values /\ st.server.b \in Values BY <1>3 DEF ServerSettings
    <3>2. st.server[field] \in Values BY <3>1 DEF Fields
    <3> QED BY <3>2 DEF Values
  <2> DEFINE v == 1 - st.server[field]
  <2>2. next = [st.server EXCEPT ![field] = v, !.version = st.server.version + 1] OBVIOUS
  <2> HIDE DEF v
  <2>3. v \in Values BY <2>1 DEF v
  <2>4. CASE field = "a"
    <3> HIDE DEF next
    <3> DEFINE n == st.server.version + 1
    <3>1. next = [st.server EXCEPT !.a = v, !.version = n] BY <2>2, <2>4
    <3>2. n \in Nat \ {0} BY <1>3 DEF ServerSettings
    <3> HIDE DEF n
    <3>3. next \in ServerSettings /\ next.version = n BY <1>3, <2>3, <3>1, <3>2 DEF ServerSettings
    <3> QED BY <3>3 DEF n
  <2>5. CASE field = "b"
    <3> HIDE DEF next
    <3> DEFINE n == st.server.version + 1
    <3>1. next = [st.server EXCEPT !.b = v, !.version = n] BY <2>2, <2>5
    <3>2. n \in Nat \ {0} BY <1>3 DEF ServerSettings
    <3> HIDE DEF n
    <3>3. next \in ServerSettings /\ next.version = n BY <1>3, <2>3, <3>1, <3>2 DEF ServerSettings
    <3> QED BY <3>3 DEF n
  <2> QED BY <2>4, <2>5 DEF Fields
<1>5. k \in Nat /\ q \in BOOLEAN BY <1>a DEF STState
<1>6. ~q => st.result = 0 OBVIOUS
<1> HIDE DEF next, k, q
<1>9. st' \in STState
  <2>1. st \in STState BY <1>a
  <2> QED BY <1>2, <1>4, <1>5, <2>1 DEF STState
<1>10. st'.server = next /\ st'.data = st.data /\ st'.base = st.base /\ st'.save = st.save /\ st'.fetch = st.fetch
      /\ st'.form = st.form /\ st'.typed = st.typed /\ st'.editing = st.editing /\ st'.preview = st.preview
      /\ st'.section = st.section /\ st'.action = st.action /\ st'.result = st.result /\ st'.raced = q
  BY <1>2, <1>a DEF STState
<1>11. FetchesCurrent(st')
  <2>1. st.server.version \in Nat BY <1>3 DEF ServerSettings
  <2>2. \A d \in ReadSettings : d.version \in Nat BY DEF ReadSettings, StoredSettings, NoSettings
  <2>3. st.data \in ReadSettings /\ st.base \in ReadSettings BY <1>a DEF STState
  <2>4. st.fetch.phase = "read" => st.fetch.answer \in ReadSettings
    <3>1. st.fetch \in Fetches BY <1>a DEF STState
    <3> QED BY <3>1 DEF Fetches, ReadSettings
  <2>5. st.save.phase = "sent" => st.save.base \in ReadSettings
    <3>1. st.save \in Saves BY <1>a DEF STState
    <3> QED BY <3>1 DEF Saves, NoSave
  <2>6. ASSUME NEW d \in ReadSettings, AsOnServer(st, d) PROVE AsOnServer(st', d)
    BY <1>4, <1>10, <2>1, <2>2, <2>6 DEF AsOnServer
  <2> QED BY <1>10, <1>a, <2>3, <2>4, <2>5, <2>6 DEF STSound, FetchesCurrent
<1>12. FormsUntouched(st') /\ PreviewSound(st') /\ ResultSound(st')
  BY <1>a, <1>6, <1>10 DEF STSound, FormsUntouched, PreviewSound, ResultSound
<1>13. SaveIsRead(st')
  <2>1. st.save.phase = "refetch" => st.save.version \in Nat
    <3>1. st.save \in Saves BY <1>a DEF STState
    <3> QED BY <3>1 DEF Saves, NoSave
  <2> QED BY <1>3, <1>4, <1>10, <1>a, <2>1 DEF STSound, SaveIsRead, ServerSettings
<1> QED BY <1>9, <1>11, <1>12, <1>13 DEF STInv, STSound

\* A fetch settles: what ReadYourWrites says.
LEMMA STSettled ==
  ASSUME STInv, FetchAnswered \/ FetchFails
  PROVE  /\ STInv'
         /\ st.save.phase = "refetch" => st'.error \/ st'.data.version >= st.save.version
         /\ st.save.phase # "refetch" => st'.save = st.save
<1>a. st \in STState /\ STSound(st) BY DEF STInv
<1>1. CASE FetchAnswered
  <2> DEFINE s == [st EXCEPT !.fetch = NoSave, !.data = st.fetch.answer, !.error = FALSE]
  <2>1. st.fetch.phase = "read" /\ st' = SaveSettled(s) BY <1>1 DEF FetchAnswered
  <2>2. st.fetch.answer \in ReadSettings
    <3>1. st.fetch \in Fetches BY <1>a DEF STState
    <3> QED BY <2>1, <3>1 DEF Fetches, ReadSettings
  <2>3. AsOnServer(st, st.fetch.answer) /\ (st.save.phase = "refetch" => st.fetch.answer.version >= st.save.version)
    BY <1>a, <2>1 DEF STSound, FetchesCurrent, SaveIsRead
  <2>4. s = [st EXCEPT !.fetch = NoSave, !.data = st.fetch.answer, !.error = FALSE] /\ FALSE \in BOOLEAN OBVIOUS
  <2>5. st.fetch.phase # "none" BY <2>1
  <2> HIDE DEF s
  <2> QED BY <2>1, <2>2, <2>3, <2>4, <2>5, STSettleStep
<1>2. CASE FetchFails
  <2> DEFINE s == [st EXCEPT !.fetch = NoSave, !.data = st.data, !.error = TRUE]
  <2>1. st.fetch.phase # "none" /\ st' = SaveSettled(s)
    <3>1. s = [st EXCEPT !.fetch = NoSave, !.error = TRUE] BY <1>a DEF STState
    <3> HIDE DEF s
    <3> QED BY <1>2, <3>1 DEF FetchFails
  <2>2. st.data \in ReadSettings /\ AsOnServer(st, st.data) BY STFields, <1>a DEF STState
  <2>4. s = [st EXCEPT !.fetch = NoSave, !.data = st.data, !.error = TRUE] /\ TRUE \in BOOLEAN OBVIOUS
  <2> HIDE DEF s
  <2> QED BY <2>1, <2>2, <2>4, STSettleStep
<1> QED BY <1>1, <1>2

LEMMA STStep == STInv /\ STNext => STInv'
<1> SUFFICES ASSUME STInv, STNext PROVE STInv' OBVIOUS
<1>1. CASE Refetch \/ ServerReads BY <1>1, STQueryStep
<1>2. CASE FetchAnswered \/ FetchFails BY <1>2, STSettled
<1>3. CASE handleEdit BY <1>3, SettingEditStep
<1>4. CASE handleSave \/ SaveStopped \/ SaveRejected BY <1>4, SaveStep
<1>5. CASE SaveApplied BY <1>5, SaveAppliedStep
<1>6. CASE handleCancel \/ RequestPreview \/ PreviewAnswered BY <1>6, CancelPreviewStep
<1>7. CASE Typing BY <1>7, TypeStep
<1>8. CASE OtherAdminSaves BY <1>8, OtherAdminStep
<1>9. CASE SummaryStep BY <1>9, STSummaryStep
<1> QED BY <1>1, <1>2, <1>3, <1>4, <1>5, <1>6, <1>7, <1>8, <1>9 DEF STNext, SummaryStep, Typing

LEMMA STHolds == STInv => STTypeOK /\ PreviewIsOfForm /\ TestIsOfStoredSettings
<1> SUFFICES ASSUME STInv PROVE STTypeOK /\ PreviewIsOfForm /\ TestIsOfStoredSettings OBVIOUS
<1>a. st \in STState /\ STSound(st) BY DEF STInv
<1>1. st.server \in ServerSettings /\ st.form \in SettingsForm /\ st.save \in Saves /\ st.typed \in TypedFields
  BY <1>a DEF STState
<1>2. STTypeOK BY <1>1 DEF STTypeOK, ServerSettings, SettingsForm, Saves, NoSave, TypedFields
<1>3. PreviewIsOfForm BY <1>a DEF PreviewIsOfForm, STSound, PreviewSound, NoAnswer
<1>4. TestIsOfStoredSettings BY <1>a DEF TestIsOfStoredSettings, STSound, ResultSound, NoSave
<1> QED BY <1>2, <1>3, <1>4


LEMMA SaveStays ==
  STInv /\ STNext => FetchAnswered \/ FetchFails \/ SaveApplied \/ handleSave \/ SaveRejected \/ st'.save = st.save
<1> SUFFICES ASSUME STInv, STNext, ~(FetchAnswered \/ FetchFails \/ SaveApplied \/ handleSave \/ SaveRejected)
             PROVE  st'.save = st.save
  OBVIOUS
<1>a. st \in STState BY DEF STInv
<1>1. CASE Refetch \/ ServerReads \/ handleEdit \/ SaveStopped \/ handleCancel
  BY <1>1, <1>a DEF Refetch, ServerReads, handleEdit, SaveStopped, handleCancel, Closed, STState
<1>2. CASE Typing BY <1>2, <1>a DEF Typing, TypeField, TypeSecret, ApplyPreset, ApplyRecommendation, STState
<1>3. CASE OtherAdminSaves BY <1>3, <1>a DEF OtherAdminSaves, STState
<1>4. CASE SummaryStep
  BY <1>4, <1>a DEF SummaryStep, handleTest, TestAnswered, handleCleanup, CleanupCounted, CleanupFinished, handleDryRun,
     DryRunAnswered, STState
<1>5. CASE RequestPreview \/ PreviewAnswered BY <1>5, <1>a DEF RequestPreview, PreviewAnswered, STState
<1> QED BY <1>1, <1>2, <1>3, <1>4, <1>5 DEF STNext, SummaryStep, Typing

LEMMA STReads ==
  STInv /\ STNext /\ st.save.phase = "refetch" /\ st'.save = NoSave /\ ~st'.error
    => st'.data.version >= st.save.version
<1> SUFFICES ASSUME STInv, STNext, st.save.phase = "refetch", st'.save = NoSave, ~st'.error
             PROVE  st'.data.version >= st.save.version
  OBVIOUS
<1>1. ~SaveApplied /\ ~handleSave /\ ~SaveRejected BY DEF SaveApplied, handleSave, SaveRejected, NoSave
<1>2. st'.save # st.save BY DEF NoSave
<1>3. FetchAnswered \/ FetchFails BY <1>1, <1>2, SaveStays
<1> QED BY <1>3, STSettled

LEMMA STWrites ==
  STInv /\ STNext /\ st.save.phase = "sent" /\ st'.save.phase = "refetch" /\ st.save.base.version = st.server.version
    => \A field \in Fields \union {"secret"} : st'.server[field] # st.server[field] => field \in st.save.typed
<1> SUFFICES ASSUME STInv, STNext, st.save.phase = "sent", st'.save.phase = "refetch",
                    st.save.base.version = st.server.version
             PROVE  \A field \in Fields \union {"secret"} : st'.server[field] # st.server[field] => field \in st.save.typed
  OBVIOUS
<1>a. st \in STState /\ STSound(st) BY DEF STInv
<1>1. SaveApplied
  <2>1. ~handleSave BY DEF handleSave, NoSave
  <2>2. ~SaveRejected BY <1>a DEF SaveRejected, STState, NoSave
  <2>3. ~(FetchAnswered \/ FetchFails) BY STSettled
  <2> QED BY <2>1, <2>2, <2>3, SaveStays
<1> DEFINE p == st.save.payload
           b == st.save.base
<1>2. b # NoSettings
  <2>1. st.server \in ServerSettings BY <1>a DEF STState
  <2> QED BY <2>1 DEF ServerSettings, NoSettings
<1>3. AsOnServer(st, b) /\ FormUntouched(p, b, st.save.typed) BY <1>a DEF STSound, FetchesCurrent, FormsUntouched
<1>4. b.a = st.server.a /\ b.b = st.server.b BY <1>3 DEF AsOnServer
<1>5. st'.server = [a |-> p.a, b |-> p.b, secret |-> StoredSecret(p.secret), version |-> st.server.version + 1]
  BY <1>1, <1>a DEF SaveApplied, STState
<1>6. /\ st'.server["a"] = p["a"] /\ st'.server["b"] = p["b"] /\ st'.server["secret"] = StoredSecret(p.secret)
      /\ b["a"] = st.server["a"] /\ b["b"] = st.server["b"]
  BY <1>4, <1>5
<1>7. \A field \in Fields : p[field] # b[field] => field \in st.save.typed BY <1>2, <1>3 DEF FormUntouched
<1>8. p.secret # Blank => "secret" \in st.save.typed BY <1>3 DEF FormUntouched
<1> HIDE DEF p, b
<1>9. StoredSecret(p.secret) # st.server["secret"] => "secret" \in st.save.typed BY <1>8 DEF StoredSecret
<1> QED BY <1>6, <1>7, <1>9 DEF Fields

-----------------------------------------------------------------------------
(* Backup and restore (BackupImport). *)

RouteDomains == {"d1", "d2"}
BackupItems == [domain : RouteDomains, known : BOOLEAN]
Stores == [Kinds -> SUBSET RouteDomains]
BackupNames == DOMAIN BackupFiles \union {"exported", NoFile}
Reviews == {NoReview} \union [file : BackupNames, mode : Modes, late : BOOLEAN]
Choices == {NoReview} \union [file : BackupNames, mode : Modes]
BackupTasks ==
    [op : {"import", "validate", "preview"}, file : BackupNames, mode : Modes,
     phase : {"read", "sent", "ok", "failed"}, last : BOOLEAN, n : Nat]

BKState ==
    [canManage : BOOLEAN, file : BackupNames, mode : Modes, validation : Reviews, preview : Reviews,
     tasks : SUBSET BackupTasks, rows : Stores, disk : Stores, exported : Payloads \union {NotJson},
     applied : Choices, clicks : Nat]

Held(file, exported) == IF file = "exported" THEN exported ELSE BackupFiles[file]

ReviewSound(review, file, mode) ==
    review # NoReview => review.late \/ (mode = review.mode /\ file \in {review.file, NoFile})

\* A file is named once it is there, and was JSON once its call was sent;
\* the tasks have different numbers.
TasksSound(tasks, exported, manage, clicks) ==
    /\ \A t \in tasks :
         /\ t.file # NoFile
         /\ t.file = "exported" => exported # NotJson
         /\ t.phase # "read" => Held(t.file, exported) # NotJson
         /\ t.op = "import" => manage
         /\ t.n <= clicks
    /\ \A t, u \in tasks : t.n = u.n => t = u

\* While nothing else has happened, importing again what was imported last
\* changes nothing.
Fits(mode, domains, held) == domains \union Kept(mode, held) = held
AppliedSound(a, heldRows, disk, exported) ==
    a # NoReview =>
      /\ a.file = "exported" => exported # NotJson
      /\ \A kind \in Kinds :
           /\ Fits(a.mode, Domains(Held(a.file, exported)[kind]), heldRows[kind])
           /\ Fits(a.mode, Domains(Held(a.file, exported)[kind]), disk[kind])

BKInv ==
    /\ bk \in BKState
    /\ ReviewSound(bk.validation, bk.file, bk.mode) /\ ReviewSound(bk.preview, bk.file, bk.mode)
    /\ TasksSound(bk.tasks, bk.exported, bk.canManage, bk.clicks)
    /\ bk.file = "exported" => bk.exported # NotJson
    /\ AppliedSound(bk.applied, bk.rows, bk.disk, bk.exported)

-----------------------------------------------------------------------------
LEMMA NoReviewType == NoReview \in Reviews /\ NoReview \in Choices BY DEF Reviews, Choices

LEMMA BKInitially == BKMounted => BKInv
<1> SUFFICES ASSUME BKMounted PROVE BKInv OBVIOUS
<1> DEFINE r == [services |-> {"d1"}, redirects |-> {"d2"}]
           m == {}
<1>1. PICK manage \in BOOLEAN :
        bk = [canManage |-> manage, file |-> NoFile, mode |-> "merge",
              validation |-> NoReview, preview |-> NoReview, tasks |-> m, rows |-> r, disk |-> r,
              exported |-> NotJson, applied |-> NoReview, clicks |-> 0]
  BY DEF BKMounted
<1>2. r \in Stores BY DEF Stores, Kinds, RouteDomains
<1>3. m \in SUBSET BackupTasks /\ TasksSound(m, NotJson, manage, 0) BY DEF TasksSound
<1>4. "merge" \in Modes /\ NoFile \in BackupNames /\ NoFile # "exported" BY DEF Modes, BackupNames, NoFile
<1> HIDE DEF r, m
<1>5. bk \in BKState
  <2> HIDE DEF NoReview, NotJson, NoFile
  <2> QED BY <1>1, <1>2, <1>3, <1>4, NoReviewType DEF BKState
<1>6. /\ bk.validation = NoReview /\ bk.preview = NoReview /\ bk.applied = NoReview /\ bk.tasks = m
      /\ bk.exported = NotJson /\ bk.canManage = manage /\ bk.clicks = 0 /\ bk.file = NoFile
  BY <1>1
<1>7. ReviewSound(bk.validation, bk.file, bk.mode) /\ ReviewSound(bk.preview, bk.file, bk.mode)
      /\ AppliedSound(bk.applied, bk.rows, bk.disk, bk.exported)
  BY <1>6 DEF ReviewSound, AppliedSound
<1> QED BY <1>3, <1>4, <1>5, <1>6, <1>7 DEF BKInv

\* Steps of the form and of its tasks.
LEMMA FormStep ==
  ASSUME BKInv, NEW f \in BackupNames, NEW m \in Modes, NEW v \in Reviews, NEW w \in Reviews,
         NEW T \in SUBSET BackupTasks, NEW n \in Nat,
         bk' = [bk EXCEPT !.file = f, !.mode = m, !.validation = v, !.preview = w, !.tasks = T, !.clicks = n],
         ReviewSound(v, f, m), ReviewSound(w, f, m), TasksSound(T, bk.exported, bk.canManage, n),
         f = "exported" => bk.exported # NotJson
  PROVE  BKInv'
<1>1. bk \in BKState BY DEF BKInv
<1>2. bk' \in BKState BY <1>1 DEF BKState
<1>3. /\ bk'.file = f /\ bk'.mode = m /\ bk'.validation = v /\ bk'.preview = w /\ bk'.tasks = T /\ bk'.clicks = n
      /\ bk'.exported = bk.exported /\ bk'.canManage = bk.canManage /\ bk'.applied = bk.applied
      /\ bk'.rows = bk.rows /\ bk'.disk = bk.disk
  BY <1>1 DEF BKState
<1>4. AppliedSound(bk.applied, bk.rows, bk.disk, bk.exported) BY DEF BKInv
<1> QED BY <1>2, <1>3, <1>4 DEF BKInv

\* Steps of the server.
LEMMA StoreStep ==
  ASSUME BKInv, NEW T \in SUBSET BackupTasks, NEW R \in Stores, NEW K \in Stores,
         NEW e \in Payloads \union {NotJson}, NEW a \in Choices, NEW n \in Nat,
         bk' = [bk EXCEPT !.tasks = T, !.rows = R, !.disk = K, !.exported = e, !.applied = a, !.clicks = n],
         TasksSound(T, e, bk.canManage, n), AppliedSound(a, R, K, e),
         bk.file = "exported" => e # NotJson
  PROVE  BKInv'
<1>1. bk \in BKState BY DEF BKInv
<1>2. bk' \in BKState BY <1>1 DEF BKState
<1>3. /\ bk'.file = bk.file /\ bk'.mode = bk.mode /\ bk'.validation = bk.validation /\ bk'.preview = bk.preview
      /\ bk'.tasks = T /\ bk'.clicks = n
      /\ bk'.exported = e /\ bk'.canManage = bk.canManage /\ bk'.applied = a
      /\ bk'.rows = R /\ bk'.disk = K
  BY <1>1 DEF BKState
<1>4. ReviewSound(bk.validation, bk.file, bk.mode) /\ ReviewSound(bk.preview, bk.file, bk.mode) BY DEF BKInv
<1> QED BY <1>2, <1>3, <1>4 DEF BKInv

LEMMA ChoiceSteps ==
  BKInv /\ (\/ \E file \in DOMAIN BackupFiles \union {"exported", NoFile} : handleBackupFileChange(file)
            \/ \E mode \in Modes : handleImportModeChange(mode)) => BKInv'
<1> SUFFICES ASSUME BKInv,
                    \/ \E file \in DOMAIN BackupFiles \union {"exported", NoFile} : handleBackupFileChange(file)
                    \/ \E mode \in Modes : handleImportModeChange(mode)
             PROVE  BKInv'
  OBVIOUS
<1> DEFINE f == bk.file
           m == bk.mode
           T == bk.tasks
           n == bk.clicks
           k == bk.clicks + 1
           v == NoReview
<1>a. bk \in BKState /\ TasksSound(T, bk.exported, bk.canManage, n) /\ (f = "exported" => bk.exported # NotJson)
  BY DEF BKInv
<1>b. f \in BackupNames /\ m \in Modes /\ T \in SUBSET BackupTasks /\ n \in Nat /\ k \in Nat BY <1>a DEF BKState
<1>c. TasksSound(T, bk.exported, bk.canManage, k)
  <2>1. \A t \in T : t.n <= n => t.n <= k BY <1>b DEF BackupTasks
  <2> HIDE DEF T, n, k
  <2> QED BY <1>a, <2>1 DEF TasksSound
<1>d. v \in Reviews /\ \A g, h : ReviewSound(v, g, h) BY NoReviewType DEF ReviewSound
<1>1. ASSUME NEW file \in DOMAIN BackupFiles \union {"exported", NoFile}, handleBackupFileChange(file) PROVE BKInv'
  <2>1. file \in BackupNames /\ (file = "exported" => bk.exported # NotJson)
    BY <1>1 DEF handleBackupFileChange, BackupNames
  <2>2. bk' = [bk EXCEPT !.file = file, !.mode = m, !.validation = v, !.preview = v, !.tasks = T, !.clicks = k]
    BY <1>a, <1>1 DEF handleBackupFileChange, Clicked, resetReview, BKState
  <2> HIDE DEF f, m, T, n, k, v
  <2> QED BY ONLY BKInv, <1>b, <1>c, <1>d, <2>1, <2>2, FormStep
<1>2. ASSUME NEW mode \in Modes, handleImportModeChange(mode) PROVE BKInv'
  <2>2. bk' = [bk EXCEPT !.file = f, !.mode = mode, !.validation = v, !.preview = v, !.tasks = T, !.clicks = n]
    BY <1>a, <1>2 DEF handleImportModeChange, Clicked, resetReview, BKState
  <2>3. TasksSound(T, bk.exported, bk.canManage, n) /\ (f = "exported" => bk.exported # NotJson) BY <1>a
  <2> HIDE DEF f, m, T, n, k, v
  <2> QED BY ONLY BKInv, mode \in Modes, <1>b, <1>d, <2>2, <2>3, FormStep
<1> QED BY <1>1, <1>2

LEMMA TaskStartStep == ASSUME BKInv, NEW op \in {"import", "validate", "preview"}, StartTask(op) PROVE BKInv'
<1> DEFINE f == bk.file
           m == bk.mode
           n == bk.clicks + 1
           v == IF op = "preview" THEN bk.validation ELSE NoReview
           w == NoReview
           t == [op |-> op, file |-> f, mode |-> m, phase |-> "read", last |-> FALSE, n |-> n]
           T == bk.tasks \union {t}
<1>a. /\ bk \in BKState /\ TasksSound(bk.tasks, bk.exported, bk.canManage, bk.clicks)
      /\ (f = "exported" => bk.exported # NotJson) /\ ReviewSound(bk.validation, f, m)
  BY DEF BKInv
<1>b. /\ f \in BackupNames /\ m \in Modes /\ bk.tasks \in SUBSET BackupTasks /\ n \in Nat /\ bk.clicks \in Nat
      /\ bk.validation \in Reviews
  BY <1>a DEF BKState
<1>1. bk' = [bk EXCEPT !.file = f, !.mode = m, !.validation = v, !.preview = w, !.tasks = T, !.clicks = n]
  <2>1. bk' = LET s == IF op = "preview" THEN [bk EXCEPT !.preview = NoReview] ELSE resetReview(bk)
              IN  Clicked([s EXCEPT !.tasks = @ \union {t}])
    BY DEF StartTask
  <2> HIDE DEF t
  <2>2. CASE op = "preview" BY <1>a, <2>1, <2>2 DEF Clicked, BKState
  <2>3. CASE op # "preview" BY <1>a, <2>1, <2>3 DEF Clicked, resetReview, BKState
  <2> QED BY <2>2, <2>3
<1>2. v \in Reviews /\ w \in Reviews /\ ReviewSound(v, f, m) /\ ReviewSound(w, f, m)
  BY <1>a, <1>b, NoReviewType DEF ReviewSound
<1>3. f # NoFile /\ (op = "import" => bk.canManage) BY DEF StartTask, Enabled
<1>4. t \in BackupTasks /\ t.op = op /\ t.file = f /\ t.phase = "read" /\ t.n = n BY <1>b DEF BackupTasks
<1>5. T \in SUBSET BackupTasks BY <1>b, <1>4
<1>6. TasksSound(T, bk.exported, bk.canManage, n)
  <2>1. \A u \in bk.tasks : u.n \in Nat /\ u.n <= bk.clicks BY <1>a, <1>b DEF TasksSound, BackupTasks
  <2>2. \A u \in bk.tasks : u.n <= n /\ u.n # n BY <1>b, <2>1
  <2>3. t.n <= n BY <1>b, <1>4
  <2> HIDE DEF t, f, m, n
  <2> QED BY <1>a, <1>3, <1>4, <2>2, <2>3 DEF TasksSound
<1> HIDE DEF f, m, n, v, w, T
<1> QED BY ONLY BKInv, <1>a, <1>b, <1>1, <1>2, <1>5, <1>6, FormStep

\* A task that goes on, or ends.
LEMMA TaskMoves ==
  ASSUME BKInv, NEW t \in bk.tasks, NEW next \in SUBSET BackupTasks,
         \A u \in next : /\ u.n = t.n /\ u.file = t.file /\ u.op = t.op
                         /\ u.phase # "read" => Held(t.file, bk.exported) # NotJson,
         \A u, w \in next : u = w
  PROVE  LET T == (bk.tasks \ {t}) \union next
         IN  T \in SUBSET BackupTasks /\ TasksSound(T, bk.exported, bk.canManage, bk.clicks)
<1> DEFINE T == (bk.tasks \ {t}) \union next
<1>1. bk.tasks \in SUBSET BackupTasks BY DEF BKInv, BKState
<1>2. TasksSound(bk.tasks, bk.exported, bk.canManage, bk.clicks) BY DEF BKInv
<1>3. ASSUME NEW u \in T
      PROVE  /\ u.file # NoFile
             /\ u.file = "exported" => bk.exported # NotJson
             /\ u.phase # "read" => Held(u.file, bk.exported) # NotJson
             /\ u.op = "import" => bk.canManage
             /\ u.n <= bk.clicks
  BY <1>2 DEF TasksSound
<1>4. ASSUME NEW u \in T, NEW w \in T, u.n = w.n PROVE u = w
  <2>1. CASE u \in next /\ w \in next BY <2>1
  <2>2. CASE u \in bk.tasks \ {t} /\ w \in bk.tasks \ {t} BY <1>2, <1>4, <2>2 DEF TasksSound
  <2>3. CASE u \in next /\ w \in bk.tasks \ {t} BY <1>2, <1>4, <2>3 DEF TasksSound
  <2>4. CASE w \in next /\ u \in bk.tasks \ {t} BY <1>2, <1>4, <2>4 DEF TasksSound
  <2> QED BY <2>1, <2>2, <2>3, <2>4
<1>5. T \in SUBSET BackupTasks BY <1>1
<1> QED BY <1>3, <1>4, <1>5 DEF TasksSound

\* What a task leaves behind when only the tasks have moved.
LEMMA TasksStep ==
  ASSUME BKInv, NEW T \in SUBSET BackupTasks, TasksSound(T, bk.exported, bk.canManage, bk.clicks),
         bk' = [bk EXCEPT !.tasks = T]
  PROVE  BKInv'
<1> DEFINE f == bk.file
           m == bk.mode
           n == bk.clicks
           v == bk.validation
           w == bk.preview
<1>a. /\ bk \in BKState /\ (f = "exported" => bk.exported # NotJson)
      /\ ReviewSound(v, f, m) /\ ReviewSound(w, f, m) /\ TasksSound(T, bk.exported, bk.canManage, n)
  BY DEF BKInv
<1>b. f \in BackupNames /\ m \in Modes /\ n \in Nat /\ v \in Reviews /\ w \in Reviews BY <1>a DEF BKState
<1>1. bk' = [bk EXCEPT !.file = f, !.mode = m, !.validation = v, !.preview = w, !.tasks = T, !.clicks = n]
  BY <1>a DEF BKState
<1> HIDE DEF f, m, n, v, w
<1> QED BY ONLY BKInv, T \in SUBSET BackupTasks, <1>a, <1>b, <1>1, FormStep

LEMMA AnswerIs ==
  ASSUME BKInv, NEW t \in bk.tasks, NEW ok \in BOOLEAN
  PROVE  LET u == Answer(t, ok)
         IN  /\ u \in BackupTasks /\ u.n = t.n /\ u.file = t.file /\ u.op = t.op /\ u.mode = t.mode
             /\ u.phase = IF ok THEN "ok" ELSE "failed"
<1>1. t \in BackupTasks BY DEF BKInv, BKState
<1> QED BY <1>1 DEF Answer, BackupTasks

LEMMA AnsweredTasks ==
  ASSUME BKInv, NEW t \in bk.tasks, t.phase = "sent", NEW ok \in BOOLEAN
  PROVE  LET T == (bk.tasks \ {t}) \union {Answer(t, ok)}
         IN  T \in SUBSET BackupTasks /\ TasksSound(T, bk.exported, bk.canManage, bk.clicks)
<1>1. Held(t.file, bk.exported) # NotJson BY DEF BKInv, TasksSound
<1> DEFINE u == Answer(t, ok)
           next == {u}
<1>2. u \in BackupTasks /\ u.n = t.n /\ u.file = t.file /\ u.op = t.op BY AnswerIs
<1> HIDE DEF u
<1>3. /\ next \in SUBSET BackupTasks
      /\ \A x \in next : /\ x.n = t.n /\ x.file = t.file /\ x.op = t.op
                         /\ x.phase # "read" => Held(t.file, bk.exported) # NotJson
      /\ \A x, w \in next : x = w
  BY <1>1, <1>2
<1> HIDE DEF next
<1>4. LET T == (bk.tasks \ {t}) \union next
      IN  T \in SUBSET BackupTasks /\ TasksSound(T, bk.exported, bk.canManage, bk.clicks)
  BY ONLY BKInv, t \in bk.tasks, <1>3, TaskMoves
<1> QED BY <1>4 DEF next, u

LEMMA EndedTasks ==
  ASSUME BKInv, NEW t \in bk.tasks
  PROVE  LET T == bk.tasks \ {t}
         IN  T \in SUBSET BackupTasks /\ TasksSound(T, bk.exported, bk.canManage, bk.clicks)
<1> DEFINE next == {}
<1>1. next \in SUBSET BackupTasks /\ (\A x \in next : FALSE) OBVIOUS
<1>2. bk.tasks \ {t} = (bk.tasks \ {t}) \union next OBVIOUS
<1> HIDE DEF next
<1>3. LET T == (bk.tasks \ {t}) \union next
      IN  T \in SUBSET BackupTasks /\ TasksSound(T, bk.exported, bk.canManage, bk.clicks)
  BY ONLY BKInv, t \in bk.tasks, <1>1, TaskMoves
<1> QED BY <1>2, <1>3

LEMMA ReadStep == ASSUME BKInv, NEW t \in bk.tasks, FileIsRead(t) PROVE BKInv'
<1>a. bk \in BKState BY DEF BKInv
<1>b. bk.tasks \in SUBSET BackupTasks BY <1>a DEF BKState
<1>c. ContentsOf(t.file) = Held(t.file, bk.exported) BY DEF ContentsOf, Held
<1>1. CASE ContentsOf(t.file) = NotJson
  <2> DEFINE T == bk.tasks \ {t}
  <2>1. bk' = [bk EXCEPT !.tasks = T] BY <1>1, <1>a DEF FileIsRead, Move, BKState
  <2>2. T \in SUBSET BackupTasks /\ TasksSound(T, bk.exported, bk.canManage, bk.clicks) BY EndedTasks
  <2> HIDE DEF T
  <2> QED BY <2>1, <2>2, TasksStep
<1>2. CASE ContentsOf(t.file) # NotJson
  <2> DEFINE Older1(u) == [u EXCEPT !.last = u.last /\ u.op # t.op]
             others == {Older1(u) : u \in bk.tasks \ {t}}
             sent == [t EXCEPT !.phase = "sent", !.last = TRUE]
             T == others \union {sent}
  <2>1. bk' = [bk EXCEPT !.tasks = T] BY <1>2 DEF FileIsRead
  <2>2. sent \in BackupTasks /\ sent.n = t.n /\ sent.file = t.file /\ sent.op = t.op BY <1>b DEF BackupTasks
  <2>3. ASSUME NEW u \in bk.tasks
        PROVE  /\ Older1(u) \in BackupTasks /\ Older1(u).n = u.n /\ Older1(u).file = u.file /\ Older1(u).op = u.op
               /\ Older1(u).phase = u.phase
    <3> DEFINE l == u.last /\ u.op # t.op
    <3>1. u \in BackupTasks /\ l \in BOOLEAN BY <1>b
    <3> HIDE DEF l
    <3>2. /\ [u EXCEPT !.last = l] \in BackupTasks /\ [u EXCEPT !.last = l].n = u.n
          /\ [u EXCEPT !.last = l].file = u.file /\ [u EXCEPT !.last = l].op = u.op
          /\ [u EXCEPT !.last = l].phase = u.phase
      BY <3>1 DEF BackupTasks
    <3> QED BY <3>2 DEF l
  <2> HIDE DEF sent, Older1
  <2>4. T \in SUBSET BackupTasks BY <2>2, <2>3
  <2>5. TasksSound(bk.tasks, bk.exported, bk.canManage, bk.clicks) BY DEF BKInv
  <2>6. ASSUME NEW x \in T
        PROVE  /\ x.file # NoFile
               /\ x.file = "exported" => bk.exported # NotJson
               /\ x.phase # "read" => Held(x.file, bk.exported) # NotJson
               /\ x.op = "import" => bk.canManage
               /\ x.n <= bk.clicks
    <3>1. CASE x = sent BY <1>2, <1>c, <2>2, <2>5, <3>1 DEF TasksSound
    <3>2. CASE x # sent
      <4>1. PICK u \in bk.tasks \ {t} : x = Older1(u) BY <3>2
      <4> QED BY <2>3, <2>5, <4>1 DEF TasksSound
    <3> QED BY <3>1, <3>2
  <2>7. ASSUME NEW x \in T, NEW y \in T, x.n = y.n PROVE x = y
    <3>1. CASE x = sent /\ y = sent BY <3>1
    <3>2. CASE x = sent /\ y # sent
      <4>1. PICK u \in bk.tasks \ {t} : y = Older1(u) BY <3>2
      <4>2. u.n = t.n BY <2>2, <2>3, <2>7, <3>2, <4>1
      <4> QED BY <2>5, <4>1, <4>2 DEF TasksSound
    <3>3. CASE x # sent /\ y = sent
      <4>1. PICK u \in bk.tasks \ {t} : x = Older1(u) BY <3>3
      <4>2. u.n = t.n BY <2>2, <2>3, <2>7, <3>3, <4>1
      <4> QED BY <2>5, <4>1, <4>2 DEF TasksSound
    <3>4. CASE x # sent /\ y # sent
      <4>1. PICK u \in bk.tasks \ {t} : x = Older1(u) BY <3>4
      <4>2. PICK w \in bk.tasks \ {t} : y = Older1(w) BY <3>4
      <4>3. u.n = w.n BY <2>3, <2>7, <4>1, <4>2
      <4>4. u = w BY <2>5, <4>3 DEF TasksSound
      <4> QED BY <4>1, <4>2, <4>4
    <3> QED BY <3>1, <3>2, <3>3, <3>4
  <2>8. TasksSound(T, bk.exported, bk.canManage, bk.clicks) BY <2>6, <2>7 DEF TasksSound
  <2> HIDE DEF T
  <2> QED BY <2>1, <2>4, <2>8, TasksStep
<1> QED BY <1>1, <1>2

LEMMA AnsweredStep ==
  ASSUME BKInv, NEW t \in bk.tasks, ReviewHandled(t) \/ CallFails(t)
  PROVE  BKInv'
<1>1. PICK ok \in BOOLEAN : t.phase = "sent" /\ bk' = Move(bk, t, {Answer(t, ok)})
  <2> DEFINE k == bk.canManage /\ Unresolved(ContentsOf(t.file)) = {}
  <2>1. CASE ReviewHandled(t)
    <3>1. k \in BOOLEAN BY DEF BKInv, BKState
    <3>2. t.phase = "sent" /\ bk' = Move(bk, t, {Answer(t, k)}) BY <2>1 DEF ReviewHandled
    <3> HIDE DEF k
    <3> QED BY <3>1, <3>2
  <2>2. CASE CallFails(t) BY <2>2 DEF CallFails
  <2> QED BY <2>1, <2>2
<1> DEFINE T == (bk.tasks \ {t}) \union {Answer(t, ok)}
<1>2. bk' = [bk EXCEPT !.tasks = T] BY <1>1 DEF Move
<1>3. T \in SUBSET BackupTasks /\ TasksSound(T, bk.exported, bk.canManage, bk.clicks) BY <1>1, AnsweredTasks
<1> HIDE DEF T
<1> QED BY <1>2, <1>3, TasksStep

LEMMA AnswerShown == ASSUME BKInv, NEW t \in bk.tasks, TaskAnswered(t) PROVE BKInv'
<1> DEFINE f == bk.file
           m == bk.mode
           n == bk.clicks
           v == bk.validation
           w == bk.preview
           r == ReviewOf(t)
           T == bk.tasks \ {t}
           g == NoFile
<1>a. /\ bk \in BKState /\ (f = "exported" => bk.exported # NotJson)
      /\ ReviewSound(v, f, m) /\ ReviewSound(w, f, m)
  BY DEF BKInv
<1>b. /\ f \in BackupNames /\ m \in Modes /\ n \in Nat /\ v \in Reviews /\ w \in Reviews
      /\ t \in BackupTasks
  BY <1>a DEF BKState
<1>c. T \in SUBSET BackupTasks /\ TasksSound(T, bk.exported, bk.canManage, n) BY EndedTasks
<1>1. /\ t.phase \in {"ok", "failed"}
      /\ bk' = CASE t.phase = "failed" -> Move(bk, t, {})
                 [] t.phase = "ok" /\ t.op = "import" -> [Move(bk, t, {}) EXCEPT !.file = NoFile]
                 [] t.phase = "ok" /\ t.op = "validate" -> [Move(bk, t, {}) EXCEPT !.validation = ReviewOf(t)]
                 [] t.phase = "ok" /\ t.op = "preview" -> [Move(bk, t, {}) EXCEPT !.preview = ReviewOf(t)]
  BY DEF TaskAnswered
<1>2. t.op \in {"import", "validate", "preview"} BY <1>b DEF BackupTasks
<1>3. Move(bk, t, {}) = [bk EXCEPT !.tasks = T]
  <2>1. (bk.tasks \ {t}) \union {} = T OBVIOUS
  <2> QED BY <1>a, <2>1 DEF Move, BKState
<1>4. r \in Reviews /\ ReviewSound(r, f, m)
  <2> DEFINE l == t.file # bk.file \/ t.mode # bk.mode
  <2>1. l \in BOOLEAN OBVIOUS
  <2>2. r = [file |-> t.file, mode |-> t.mode, late |-> l] BY DEF ReviewOf
  <2>3. ~l => t.file = f /\ t.mode = m OBVIOUS
  <2> HIDE DEF l, r
  <2>4. r \in Reviews BY <1>b, <2>1, <2>2 DEF BackupTasks, Reviews
  <2>5. r.file = t.file /\ r.mode = t.mode /\ r.late = l BY <2>2
  <2> QED BY <2>3, <2>4, <2>5 DEF ReviewSound
<1>5. g \in BackupNames /\ ReviewSound(v, g, m) /\ ReviewSound(w, g, m) /\ (g = "exported" => bk.exported # NotJson)
  <2>1. g \in BackupNames /\ g # "exported" BY DEF NoFile, BackupNames
  <2>2. \A x : ReviewSound(x, f, m) => ReviewSound(x, g, m) BY DEF ReviewSound
  <2> QED BY <1>a, <2>1, <2>2
<1> HIDE DEF r
<1>6. CASE t.phase = "failed"
  <2>1. bk' = [bk EXCEPT !.file = f, !.mode = m, !.validation = v, !.preview = w, !.tasks = T, !.clicks = n]
    <3>1. bk' = [bk EXCEPT !.tasks = T] BY <1>1, <1>3, <1>6
    <3> QED BY <1>a, <3>1 DEF BKState
  <2> HIDE DEF f, m, n, v, w, T
  <2> QED BY ONLY BKInv, <1>a, <1>b, <1>c, <2>1, FormStep
<1>7. CASE t.phase = "ok" /\ t.op = "import"
  <2>1. bk' = [bk EXCEPT !.file = g, !.mode = m, !.validation = v, !.preview = w, !.tasks = T, !.clicks = n]
    <3>1. bk' = [[bk EXCEPT !.tasks = T] EXCEPT !.file = g] BY <1>1, <1>3, <1>7
    <3> QED BY <1>a, <3>1 DEF BKState
  <2> HIDE DEF f, m, n, v, w, T, g
  <2> QED BY ONLY BKInv, <1>a, <1>b, <1>c, <1>5, <2>1, FormStep
<1>8. CASE t.phase = "ok" /\ t.op = "validate"
  <2>1. bk' = [bk EXCEPT !.file = f, !.mode = m, !.validation = r, !.preview = w, !.tasks = T, !.clicks = n]
    <3>1. bk' = [[bk EXCEPT !.tasks = T] EXCEPT !.validation = r] BY <1>1, <1>3, <1>8 DEF r
    <3> QED BY <1>a, <3>1 DEF BKState
  <2> HIDE DEF f, m, n, v, w, T, g
  <2> QED BY ONLY BKInv, <1>a, <1>b, <1>c, <1>4, <2>1, FormStep
<1>9. CASE t.phase = "ok" /\ t.op = "preview"
  <2>1. bk' = [bk EXCEPT !.file = f, !.mode = m, !.validation = v, !.preview = r, !.tasks = T, !.clicks = n]
    <3>1. bk' = [[bk EXCEPT !.tasks = T] EXCEPT !.preview = r] BY <1>1, <1>3, <1>9 DEF r
    <3> QED BY <1>a, <3>1 DEF BKState
  <2> HIDE DEF f, m, n, v, w, T, g
  <2> QED BY ONLY BKInv, <1>a, <1>b, <1>c, <1>4, <2>1, FormStep
<1> QED BY <1>1, <1>2, <1>6, <1>7, <1>8, <1>9

-----------------------------------------------------------------------------
\* The backend's operations on a payload.
LEMMA HeldIs ==
  ASSUME BKInv, NEW file \in BackupNames, file # NoFile, Held(file, bk.exported) # NotJson
  PROVE  Held(file, bk.exported) \in Payloads
<1>1. bk.exported \in Payloads \union {NotJson} BY DEF BKInv, BKState
<1>2. CASE file = "exported" BY <1>1, <1>2 DEF Held
<1>3. CASE file # "exported"
  <2>1. file \in DOMAIN BackupFiles BY <1>3 DEF BackupNames
  <2>2. Held(file, bk.exported) = BackupFiles[file] BY <1>3 DEF Held
  <2> QED BY <2>1, <2>2, BackupAssumption
<1> QED BY <1>2, <1>3

LEMMA PayloadIs ==
  ASSUME NEW p \in Payloads, NEW kind \in Kinds
  PROVE  /\ p[kind] \in Seq(BackupItems) /\ Domains(p[kind]) \in SUBSET RouteDomains
         /\ p.services = p["services"] /\ p.redirects = p["redirects"]
<1>1. p \in [Kinds -> Seq(BackupItems)] BY DEF Payloads, BackupItems, RouteDomains
<1>2. p[kind] \in Seq(BackupItems) BY <1>1
<1>3. \A i \in DOMAIN p[kind] : p[kind][i] \in BackupItems BY <1>2
<1>4. Domains(p[kind]) \in SUBSET RouteDomains BY <1>3 DEF Domains, BackupItems
<1> QED BY <1>1, <1>2, <1>4

LEMMA ImportedIs ==
  ASSUME NEW p \in Payloads, NEW mode \in Modes, NEW held \in Stores
  PROVE  /\ Imported(mode, p, held) \in Stores
         /\ \A kind \in Kinds :
              /\ Imported(mode, p, held)[kind] = Domains(p[kind]) \union Kept(mode, held[kind])
              /\ Fits(mode, Domains(p[kind]), Imported(mode, p, held)[kind])
              /\ Fits(mode, Domains(p[kind]), held[kind]) => Imported(mode, p, held)[kind] = held[kind]
<1>1. \A kind \in Kinds : Domains(p[kind]) \union Kept(mode, held[kind]) \in SUBSET RouteDomains
  BY PayloadIs DEF Stores, Kept
<1>2. Imported(mode, p, held) \in Stores BY <1>1 DEF Imported, Stores
<1>3. \A kind \in Kinds : Imported(mode, p, held)[kind] = Domains(p[kind]) \union Kept(mode, held[kind])
  BY DEF Imported
<1> QED BY <1>2, <1>3 DEF Fits, Kept

LEMMA StoppedIs ==
  ASSUME NEW p \in Payloads, NEW mode \in Modes, NEW disk \in Stores, Unresolved(p) # {}
  PROVE  StoppedImport(mode, p, disk) \in Stores
<1> DEFINE stop == CHOOSE i \in Unresolved(p) : \A j \in Unresolved(p) : i <= j
           written == Domains(SubSeq(p.services, 1, stop - 1))
<1>1. p.services = p["services"] /\ p.services \in Seq(BackupItems) BY PayloadIs DEF Kinds
<1>2. Unresolved(p) \subseteq 1..Len(p.services) /\ Len(p.services) \in Nat BY <1>1 DEF Unresolved
<1>3. \E i \in Unresolved(p) : \A j \in Unresolved(p) : i <= j
  <2>1. Unresolved(p) \subseteq Nat BY <1>2
  <2> QED BY <2>1, LeastIndex
<1>4. stop \in Unresolved(p) BY <1>3
<1> HIDE DEF stop
<1>5. stop \in 1..Len(p.services) BY <1>2, <1>4
<1> DEFINE before == SubSeq(p.services, 1, stop - 1)
<1>6. before \in Seq(BackupItems)
  <2>1. 1 \in Int /\ stop - 1 \in Int /\ \A i \in 1..stop - 1 : p.services[i] \in BackupItems BY <1>1, <1>2, <1>5
  <2> QED BY <2>1, SubSeqProperties
<1> HIDE DEF before
<1>7. Domains(before) \in SUBSET RouteDomains
  <2>1. \A i \in DOMAIN before : before[i] \in BackupItems BY <1>6
  <2> QED BY <2>1 DEF Domains, BackupItems
<1>8. StoppedImport(mode, p, disk) = IF mode = "overwrite" THEN [services |-> Domains(before), redirects |-> {}]
                                     ELSE [disk EXCEPT !.services = disk.services \union Domains(before)]
  BY DEF StoppedImport, DeletesFirst, stop, before
<1>9. disk.services = disk["services"] /\ disk.services \in SUBSET RouteDomains BY DEF Stores, Kinds
<1> DEFINE w == Domains(before)
           o == disk.services \union w
<1>10. o \in SUBSET RouteDomains /\ w \in SUBSET RouteDomains BY <1>7, <1>9
<1> HIDE DEF o, w
<1>11. [disk EXCEPT !.services = o] \in Stores BY <1>10 DEF Stores, Kinds
<1>12. [services |-> w, redirects |-> {}] \in Stores BY <1>10 DEF Stores, Kinds
<1> QED BY <1>8, <1>11, <1>12 DEF w, o

LEMMA ImportStep == ASSUME BKInv, NEW t \in bk.tasks, ImportHandled(t) PROVE BKInv'
<1> DEFINE p == ContentsOf(t.file)
           ok == bk.canManage /\ Unresolved(p) = {}
           e == bk.exported
           n == bk.clicks
<1>a. /\ bk \in BKState /\ (bk.file = "exported" => e # NotJson)
      /\ TasksSound(bk.tasks, e, bk.canManage, n)
  BY DEF BKInv
<1>b. /\ t \in BackupTasks /\ bk.rows \in Stores /\ bk.disk \in Stores /\ e \in Payloads \union {NotJson}
      /\ n \in Nat
  BY <1>a DEF BKState
<1>1. t.phase = "sent" /\ t.op = "import" BY DEF ImportHandled
<1>2. p = Held(t.file, e) /\ p # NotJson /\ t.file # NoFile /\ (t.file = "exported" => e # NotJson) /\ bk.canManage
  BY <1>a, <1>1 DEF ContentsOf, Held, TasksSound
<1>3. t.file \in BackupNames /\ t.mode \in Modes BY <1>b DEF BackupTasks
<1>4. p \in Payloads BY <1>2, <1>3, HeldIs
<1> HIDE DEF p
<1>5. bk' = IF ok
            THEN [Move(bk, t, {Answer(t, TRUE)}) EXCEPT
                    !.rows = Imported(t.mode, p, @), !.disk = Imported(t.mode, p, @),
                    !.applied = [file |-> t.file, mode |-> t.mode]]
            ELSE [Move(bk, t, {Answer(t, FALSE)}) EXCEPT
                    !.disk = StoppedImport(t.mode, p, @), !.applied = NoReview]
  BY DEF ImportHandled, p
<1>6. CASE ok
  <2> DEFINE T == (bk.tasks \ {t}) \union {Answer(t, TRUE)}
             R == Imported(t.mode, p, bk.rows)
             K == Imported(t.mode, p, bk.disk)
             a == [file |-> t.file, mode |-> t.mode]
  <2>1. bk' = [bk EXCEPT !.tasks = T, !.rows = R, !.disk = K, !.applied = a]
    BY <1>a, <1>5, <1>6 DEF Move, BKState
  <2>2. T \in SUBSET BackupTasks /\ TasksSound(T, e, bk.canManage, n) BY <1>1, AnsweredTasks
  <2>3. R \in Stores /\ K \in Stores BY <1>b, <1>3, <1>4, ImportedIs
  <2>4. a \in Choices /\ a.file = t.file /\ a.mode = t.mode BY <1>3 DEF Choices
  <2>5. AppliedSound(a, R, K, e)
    <3>1. \A kind \in Kinds : Fits(t.mode, Domains(p[kind]), R[kind]) /\ Fits(t.mode, Domains(p[kind]), K[kind])
      BY <1>b, <1>3, <1>4, ImportedIs
    <3> HIDE DEF R, K, a
    <3> QED BY <1>2, <2>4, <3>1 DEF AppliedSound
  <2> HIDE DEF T, R, K, a
  <2>6. bk' = [bk EXCEPT !.tasks = T, !.rows = R, !.disk = K, !.exported = e, !.applied = a, !.clicks = n]
    BY <1>a, <2>1 DEF BKState
  <2> HIDE DEF e, n
  <2> QED BY ONLY BKInv, <1>a, <1>b, <2>2, <2>3, <2>4, <2>5, <2>6, StoreStep
<1>7. CASE ~ok
  <2> DEFINE T == (bk.tasks \ {t}) \union {Answer(t, FALSE)}
             R == bk.rows
             K == StoppedImport(t.mode, p, bk.disk)
             a == NoReview
  <2>0. Unresolved(p) # {} BY <1>2, <1>7
  <2>1. bk' = [bk EXCEPT !.tasks = T, !.disk = K, !.applied = a]
    BY <1>a, <1>5, <1>7 DEF Move, BKState
  <2>2. T \in SUBSET BackupTasks /\ TasksSound(T, e, bk.canManage, n) BY <1>1, AnsweredTasks
  <2>3. R \in Stores /\ K \in Stores BY <1>b, <1>3, <1>4, <2>0, StoppedIs
  <2>4. a \in Choices /\ AppliedSound(a, R, K, e) BY NoReviewType DEF AppliedSound
  <2> HIDE DEF T, K, a
  <2>6. bk' = [bk EXCEPT !.tasks = T, !.rows = R, !.disk = K, !.exported = e, !.applied = a, !.clicks = n]
    BY <1>a, <2>1 DEF BKState
  <2> HIDE DEF e, n, R
  <2> QED BY ONLY BKInv, <1>a, <1>b, <2>2, <2>3, <2>4, <2>6, StoreStep
<1> QED BY <1>6, <1>7

LEMMA ExportStep == BKInv /\ handleExport => BKInv'
<1> SUFFICES ASSUME BKInv, handleExport PROVE BKInv' OBVIOUS
<1> DEFINE T == bk.tasks
           R == bk.rows
           K == bk.disk
           a == bk.applied
           n == bk.clicks + 1
           e == [kind \in Kinds |-> Importable(bk.rows[kind])]
<1>a. /\ bk \in BKState /\ (bk.file = "exported" => bk.exported # NotJson)
      /\ TasksSound(bk.tasks, bk.exported, bk.canManage, bk.clicks) /\ AppliedSound(a, R, K, bk.exported)
  BY DEF BKInv
<1>b. T \in SUBSET BackupTasks /\ R \in Stores /\ K \in Stores /\ a \in Choices /\ n \in Nat /\ bk.clicks \in Nat
  BY <1>a DEF BKState
<1>0. bk.exported = NotJson BY DEF handleExport
<1>1. e \in Payloads
  <2>1. ASSUME NEW d \in RouteDomains, NEW domains PROVE ListedIf(d, domains) \in Seq(BackupItems)
    <3> DEFINE item == [domain |-> d, known |-> TRUE]
    <3>1. item \in BackupItems BY DEF BackupItems
    <3>2. ListedIf(d, domains) = IF d \in domains THEN <<item>> ELSE << >> BY DEF ListedIf
    <3> HIDE DEF item
    <3>3. <<item>> \in Seq(BackupItems) /\ << >> \in Seq(BackupItems) BY <3>1
    <3> QED BY <3>2, <3>3
  <2>2. \A domains : Importable(domains) \in Seq(BackupItems)
    <3> TAKE domains
    <3>1. ListedIf("d1", domains) \in Seq(BackupItems) /\ ListedIf("d2", domains) \in Seq(BackupItems)
      BY <2>1 DEF RouteDomains
    <3>2. ListedIf("d1", domains) \o ListedIf("d2", domains) \in Seq(BackupItems) BY <3>1, ConcatProperties
    <3> QED BY <3>2 DEF Importable
  <2> QED BY <2>2 DEF Payloads, BackupItems, RouteDomains
<1>2. TasksSound(T, e, bk.canManage, n)
  <2>1. \A t \in T : t.n \in Nat /\ t.n <= bk.clicks /\ t.file # "exported" BY <1>a, <1>0, <1>b DEF TasksSound, BackupTasks
  <2>2. \A t \in T : t.n <= n BY <1>b, <2>1
  <2>3. \A t \in T : Held(t.file, e) = Held(t.file, bk.exported) BY <2>1 DEF Held
  <2> HIDE DEF T, e, n
  <2> QED BY <1>a, <2>1, <2>2, <2>3 DEF TasksSound, T
<1>3. AppliedSound(a, R, K, e)
  <2>1. a # NoReview => Held(a.file, e) = Held(a.file, bk.exported) BY <1>a, <1>0 DEF AppliedSound, Held
  <2> HIDE DEF a, R, K, e
  <2>2. a # NoReview => a.file # "exported" BY <1>a, <1>0 DEF AppliedSound
  <2> QED BY <1>a, <2>1, <2>2 DEF AppliedSound
<1> HIDE DEF e
<1>4. bk' = [bk EXCEPT !.exported = e, !.clicks = n] BY <1>a DEF handleExport, Clicked, e, BKState
<1> HIDE DEF n
<1>5. bk' = [bk EXCEPT !.tasks = T, !.rows = R, !.disk = K, !.exported = e, !.applied = a, !.clicks = n]
  BY <1>a, <1>4 DEF BKState
<1>6. bk.file = "exported" => e # NotJson BY <1>a, <1>0
<1>7. e \in Payloads \union {NotJson} BY <1>1
<1> HIDE DEF T, R, K, a
<1> QED BY ONLY BKInv, <1>b, <1>2, <1>3, <1>5, <1>6, <1>7, StoreStep

LEMMA RowsEditStep == BKInv /\ OtherAdminEdits => BKInv'
<1> SUFFICES ASSUME BKInv, OtherAdminEdits PROVE BKInv' OBVIOUS
<1>a. /\ bk \in BKState /\ (bk.file = "exported" => bk.exported # NotJson)
      /\ TasksSound(bk.tasks, bk.exported, bk.canManage, bk.clicks)
  BY DEF BKInv
<1>1. PICK domain \in RouteDomains :
         LET flip(set) == IF domain \in set THEN set \ {domain} ELSE set \union {domain}
         IN  bk' = Clicked([bk EXCEPT !.rows.services = flip(@), !.applied = NoReview,
                                      !.disk.services = IF domain \in bk.rows.services
                                                        THEN @ \ {domain} ELSE @ \union {domain}])
  BY DEF OtherAdminEdits, RouteDomains
<1> DEFINE T == bk.tasks
           r == IF domain \in bk.rows.services THEN bk.rows.services \ {domain} ELSE bk.rows.services \union {domain}
           k == IF domain \in bk.rows.services THEN bk.disk.services \ {domain} ELSE bk.disk.services \union {domain}
           R == [bk.rows EXCEPT !.services = r]
           K == [bk.disk EXCEPT !.services = k]
           a == NoReview
           n == bk.clicks + 1
           e == bk.exported
<1>b. /\ T \in SUBSET BackupTasks /\ bk.rows \in Stores /\ bk.disk \in Stores /\ n \in Nat /\ bk.clicks \in Nat
      /\ e \in Payloads \union {NotJson}
  BY <1>a DEF BKState
<1>2. bk.rows.services \in SUBSET RouteDomains /\ bk.disk.services \in SUBSET RouteDomains
  BY <1>b DEF Stores, Kinds
<1>3. r \in SUBSET RouteDomains /\ k \in SUBSET RouteDomains BY <1>2
<1>4. bk' = [bk EXCEPT !.rows = R, !.disk = K, !.applied = a, !.clicks = n]
  BY <1>a, <1>1 DEF Clicked, BKState
<1> HIDE DEF r, k
<1>5. R \in Stores /\ K \in Stores BY <1>b, <1>3 DEF Stores, Kinds
<1> HIDE DEF R, K, a, n
<1>6. bk' = [bk EXCEPT !.tasks = T, !.rows = R, !.disk = K, !.exported = e, !.applied = a, !.clicks = n]
  BY <1>a, <1>4 DEF BKState
<1>7. a \in Choices /\ AppliedSound(a, R, K, e) BY NoReviewType DEF a, AppliedSound
<1>8. TasksSound(T, e, bk.canManage, n)
  <2>1. \A t \in T : t.n <= bk.clicks => t.n <= n BY <1>b DEF BackupTasks, n
  <2> QED BY <1>a, <2>1 DEF TasksSound
<1> HIDE DEF T, e
<1>9. bk.file = "exported" => e # NotJson BY <1>a DEF e
<1> QED BY ONLY BKInv, <1>b, <1>5, <1>6, <1>7, <1>8, <1>9, StoreStep

LEMMA BKStep == BKInv /\ BKNext => BKInv'
<1> SUFFICES ASSUME BKInv, BKNext PROVE BKInv' OBVIOUS
<1>1. CASE (\E file \in DOMAIN BackupFiles \union {"exported", NoFile} : handleBackupFileChange(file))
           \/ \E mode \in Modes : handleImportModeChange(mode)
  BY <1>1, ChoiceSteps
<1>2. CASE \E op \in {"import", "validate", "preview"} : StartTask(op) BY <1>2, TaskStartStep
<1>3. CASE \E t \in bk.tasks :
             FileIsRead(t) \/ ImportHandled(t) \/ ReviewHandled(t) \/ CallFails(t) \/ TaskAnswered(t)
  BY <1>3, ReadStep, ImportStep, AnsweredStep, AnswerShown
<1>4. CASE handleExport \/ OtherAdminEdits BY <1>4, ExportStep, RowsEditStep
<1> QED BY <1>1, <1>2, <1>3, <1>4 DEF BKNext

-----------------------------------------------------------------------------
\* In a list that names no domain twice, an item repeats none before it.
LEMMA DistinctItems ==
  ASSUME NEW items \in Seq(BackupItems), Distinct(items)
  PROVE  \A i, j \in DOMAIN items : items[i].domain = items[j].domain => i = j
<1> DEFINE I == 1..Len(items)
           D == Domains(items)
           f == [i \in I |-> items[i].domain]
<1>1. Len(items) \in Nat /\ DOMAIN items = I OBVIOUS
<1>2. IsFiniteSet(I) /\ Cardinality(I) = Len(items)
  <2>1. 1 \in Int /\ Len(items) \in Int BY <1>1
  <2>2. IsFiniteSet(I) /\ Cardinality(I) = IF 1 > Len(items) THEN 0 ELSE Len(items) - 1 + 1 BY <2>1, FS_Interval, Zenon
  <2> QED BY <1>1, <2>2
<1>3. f \in Surjection(I, D) BY <1>1 DEF Surjection, Domains
<1>4. Cardinality(I) = Cardinality(D) BY <1>2 DEF Distinct
<1> HIDE DEF I, D, f
<1>5. f \in Injection(I, D) BY ONLY <1>2, <1>3, <1>4, FS_SurjSameCardinalityImpliesInj
<1> QED BY <1>1, <1>5 DEF Injection, IsInjective, f

LEMMA LookupsAgree ==
  ASSUME NEW items \in Seq(BackupItems), Distinct(items), NEW K
  PROVE  LET found == {i \in DOMAIN items :
                         items[i].domain \in Domains(SubSeq(items, 1, i - 1)) \union K}
             listed(in) == {i \in DOMAIN items : (items[i].domain \in K) = in}
         IN  /\ found = listed(TRUE)
             /\ Len(items) - Cardinality(found) = Cardinality(listed(FALSE))
<1> DEFINE I == DOMAIN items
           found == {i \in I : items[i].domain \in Domains(SubSeq(items, 1, i - 1)) \union K}
           yes == {i \in I : (items[i].domain \in K) = TRUE}
           no == {i \in I : (items[i].domain \in K) = FALSE}
<1>1. Len(items) \in Nat /\ I = 1..Len(items) OBVIOUS
<1>2. \A i, j \in I : items[i].domain = items[j].domain => i = j BY DistinctItems
<1>3. ASSUME NEW i \in I PROVE items[i].domain \notin Domains(SubSeq(items, 1, i - 1))
  <2> DEFINE before == SubSeq(items, 1, i - 1)
  <2>1. 1 \in Int /\ i - 1 \in Int /\ \A j \in 1..i - 1 : items[j] \in BackupItems BY <1>1
  <2>2. before \in Seq(BackupItems) /\ Len(before) = (IF 1 <= i - 1 THEN i - 1 - 1 + 1 ELSE 0)
        /\ \A j \in 1..i - 1 - 1 + 1 : before[j] = items[1 + j - 1]
    BY <2>1, SubSeqProperties
  <2>3. ASSUME NEW j \in DOMAIN before PROVE before[j].domain # items[i].domain
    <3>1. j \in 1..i - 1 BY <1>1, <2>2
    <3>2. j \in I /\ j # i /\ j = 1 + j - 1 /\ j \in 1..i - 1 - 1 + 1 BY <1>1, <3>1
    <3>3. before[j] = items[j] BY <2>2, <3>2
    <3> QED BY <1>2, <3>2, <3>3
  <2> QED BY <2>3 DEF Domains
<1>4. found = yes BY <1>3
<1>5. IsFiniteSet(I) /\ Cardinality(I) = Len(items)
  <2>1. 1 \in Int /\ Len(items) \in Int BY <1>1
  <2>2. IsFiniteSet(1..Len(items)) /\ Cardinality(1..Len(items)) = IF 1 > Len(items) THEN 0 ELSE Len(items) - 1 + 1
    BY <2>1, FS_Interval, Zenon
  <2> QED BY <1>1, <2>2
<1>6. Cardinality(no) = Len(items) - Cardinality(yes)
  <2>1. no = I \ yes /\ I \cap yes = yes OBVIOUS
  <2> HIDE DEF I, yes, no
  <2>2. Cardinality(I \ yes) = Cardinality(I) - Cardinality(I \cap yes) BY <1>5, FS_Difference
  <2> QED BY <1>5, <2>1, <2>2
<1> HIDE DEF found, yes, no
<1>7. found = yes /\ Len(items) - Cardinality(found) = Cardinality(no) BY <1>4, <1>6
<1> QED BY <1>7 DEF found, yes, no

LEMMA ForetoldIs ==
  ASSUME NEW p \in Payloads, ~Warned(p), NEW mode \in Modes, NEW heldRows \in Stores
  PROVE  previewImport(mode, p, heldRows) = importAll(mode, p, heldRows)
<1>1. ASSUME NEW kind \in Kinds PROVE previewImport(mode, p, heldRows)[kind] = importAll(mode, p, heldRows)[kind]
  <2>1. p[kind] \in Seq(BackupItems) BY PayloadIs
  <2>2. Distinct(p[kind]) BY PayloadIs DEF Warned, Kinds
  <2> DEFINE K == Kept(mode, heldRows[kind])
             found == {i \in DOMAIN p[kind] :
                         p[kind][i].domain \in Domains(SubSeq(p[kind], 1, i - 1)) \union K}
             listed(in) == {i \in DOMAIN p[kind] : (p[kind][i].domain \in K) = in}
             d == IF mode = "overwrite" THEN Cardinality(heldRows[kind]) ELSE 0
  <2>3. found = listed(TRUE) /\ Len(p[kind]) - Cardinality(found) = Cardinality(listed(FALSE))
    BY <2>1, <2>2, LookupsAgree
  <2>4. previewImport(mode, p, heldRows)[kind]
          = [creates |-> Cardinality(listed(FALSE)), updates |-> Cardinality(listed(TRUE)), deletes |-> d]
    BY DEF previewImport, Kept
  <2>5. importAll(mode, p, heldRows)[kind]
          = [creates |-> Len(p[kind]) - Cardinality(found), updates |-> Cardinality(found), deletes |-> d]
    BY DEF importAll
  <2> HIDE DEF found, listed, d
  <2> QED BY <2>3, <2>4, <2>5
<1> HIDE DEF Warned
<1>2. previewImport(mode, p, heldRows) = [kind \in Kinds |-> previewImport(mode, p, heldRows)[kind]] BY DEF previewImport
<1>3. importAll(mode, p, heldRows) = [kind \in Kinds |-> importAll(mode, p, heldRows)[kind]] BY DEF importAll
<1> QED BY <1>1, <1>2, <1>3

LEMMA BKHolds == BKInv => BKTypeOK /\ PreviewForetells /\ ReviewIsOfChoice
<1> SUFFICES ASSUME BKInv PROVE BKTypeOK /\ PreviewForetells /\ ReviewIsOfChoice OBVIOUS
<1>a. bk \in BKState BY DEF BKInv
<1>b. /\ bk.mode \in Modes /\ bk.file \in BackupNames /\ bk.rows \in Stores /\ bk.disk \in Stores
  BY <1>a DEF BKState
<1>1. BKTypeOK
  <2>1. \A kind \in Kinds : bk.rows[kind] \subseteq {"d1", "d2"} /\ bk.disk[kind] \subseteq {"d1", "d2"}
    BY <1>b DEF Stores, RouteDomains
  <2>2. \A t \in bk.tasks : t.op = "import" => bk.canManage BY DEF BKInv, TasksSound
  <2> QED BY <1>b, <2>1, <2>2 DEF BKTypeOK, BackupNames
<1>2. PreviewForetells
  <2> SUFFICES ASSUME bk.file # NoFile, ContentsOf(bk.file) # NotJson, ~Warned(ContentsOf(bk.file))
               PROVE  previewImport(bk.mode, ContentsOf(bk.file), bk.rows) = importAll(bk.mode, ContentsOf(bk.file), bk.rows)
    BY DEF PreviewForetells
  <2>1. ContentsOf(bk.file) = Held(bk.file, bk.exported) BY DEF ContentsOf, Held
  <2>2. ContentsOf(bk.file) \in Payloads BY <1>b, <2>1, HeldIs
  <2> QED BY <1>b, <2>2, ForetoldIs
<1>3. ReviewIsOfChoice
  <2>1. ReviewSound(bk.validation, bk.file, bk.mode) /\ ReviewSound(bk.preview, bk.file, bk.mode) BY DEF BKInv
  <2> QED BY <2>1 DEF ReviewSound, ReviewIsOfChoice
<1> QED BY <1>1, <1>2, <1>3

\* The answer of an import tells which of its two ways it went.
LEMMA AnswersApart ==
  ASSUME BKInv, NEW t \in bk.tasks, NEW ok \in BOOLEAN, NEW T, T = (bk.tasks \ {t}) \union {Answer(t, ok)},
         NEW k \in BOOLEAN, Answer(t, k) \in T
  PROVE  k = ok
<1>1. CASE Answer(t, k) \in bk.tasks \ {t}
  <2>1. Answer(t, k).n = t.n BY AnswerIs
  <2>2. \A x, y \in bk.tasks : x.n = y.n => x = y BY DEF BKInv, TasksSound
  <2> QED BY <1>1, <2>1, <2>2
<1>2. CASE Answer(t, k) = Answer(t, ok)
  <2>1. Answer(t, k).phase = (IF k THEN "ok" ELSE "failed") /\ Answer(t, ok).phase = (IF ok THEN "ok" ELSE "failed")
    BY AnswerIs
  <2> HIDE DEF Answer
  <2> QED BY <1>2, <2>1
<1> QED BY <1>1, <1>2

LEMMA ImportIs ==
  ASSUME BKInv, NEW t \in bk.tasks, ImportHandled(t), NEW k \in BOOLEAN, Answer(t, k) \in bk'.tasks
  PROVE  LET p == ContentsOf(t.file)
         IN  /\ p \in Payloads /\ t.mode \in Modes /\ t.file \in BackupNames
             /\ p = Held(t.file, bk.exported) /\ (t.file = "exported" => p = bk.exported)
             /\ k => bk'.rows = Imported(t.mode, p, bk.rows) /\ bk'.disk = Imported(t.mode, p, bk.disk)
             /\ ~k => bk'.rows = bk.rows /\ bk'.disk = StoppedImport(t.mode, p, bk.disk)
<1> DEFINE p == ContentsOf(t.file)
           ok == bk.canManage /\ Unresolved(p) = {}
<1>a. bk \in BKState /\ TasksSound(bk.tasks, bk.exported, bk.canManage, bk.clicks) BY DEF BKInv
<1>b. t \in BackupTasks /\ bk.canManage \in BOOLEAN BY <1>a DEF BKState
<1>1. t.phase = "sent" /\ t.op = "import" BY DEF ImportHandled
<1>2. p = Held(t.file, bk.exported) /\ p # NotJson /\ t.file # NoFile /\ (t.file = "exported" => p = bk.exported)
  BY <1>a, <1>1 DEF ContentsOf, Held, TasksSound
<1>3. t.file \in BackupNames /\ t.mode \in Modes BY <1>b DEF BackupTasks
<1>4. p \in Payloads BY <1>2, <1>3, HeldIs
<1> HIDE DEF p
<1>5. bk' = IF ok
            THEN [Move(bk, t, {Answer(t, TRUE)}) EXCEPT
                    !.rows = Imported(t.mode, p, @), !.disk = Imported(t.mode, p, @),
                    !.applied = [file |-> t.file, mode |-> t.mode]]
            ELSE [Move(bk, t, {Answer(t, FALSE)}) EXCEPT
                    !.disk = StoppedImport(t.mode, p, @), !.applied = NoReview]
  BY DEF ImportHandled, p
<1>6. ok \in BOOLEAN BY <1>b
<1>7. CASE ok
  <2> DEFINE T == (bk.tasks \ {t}) \union {Answer(t, TRUE)}
  <2>1. bk'.tasks = T /\ bk'.rows = Imported(t.mode, p, bk.rows) /\ bk'.disk = Imported(t.mode, p, bk.disk)
    BY <1>a, <1>5, <1>7 DEF Move, BKState
  <2>2. k = TRUE BY <2>1, AnswersApart
  <2> QED BY <1>2, <1>3, <1>4, <2>1, <2>2 DEF p
<1>8. CASE ~ok
  <2> DEFINE T == (bk.tasks \ {t}) \union {Answer(t, FALSE)}
  <2>1. bk'.tasks = T /\ bk'.rows = bk.rows /\ bk'.disk = StoppedImport(t.mode, p, bk.disk)
    BY <1>a, <1>5, <1>8 DEF Move, BKState
  <2>2. k = FALSE BY <2>1, AnswersApart
  <2> QED BY <1>2, <1>3, <1>4, <2>1, <2>2 DEF p
<1> QED BY <1>7, <1>8

LEMMA BKFailed ==
  ASSUME BKInv, NEW t \in bk.tasks, ImportHandled(t), Answer(t, FALSE) \in bk'.tasks
  PROVE  /\ bk'.rows = bk.rows
         /\ t.mode = "merge" => \A kind \in Kinds : bk.disk[kind] \subseteq bk'.disk[kind]
<1> DEFINE p == ContentsOf(t.file)
<1>1. bk'.rows = bk.rows /\ bk'.disk = StoppedImport(t.mode, p, bk.disk) BY ImportIs
<1> HIDE DEF p
<1>2. ASSUME t.mode = "merge", NEW kind \in Kinds PROVE bk.disk[kind] \subseteq bk'.disk[kind]
  <2>1. bk.disk \in Stores BY DEF BKInv, BKState
  <2>2. \E w : StoppedImport(t.mode, p, bk.disk) = [bk.disk EXCEPT !.services = bk.disk.services \union w]
    BY <1>2 DEF StoppedImport, DeletesFirst
  <2>3. PICK w : bk'.disk = [bk.disk EXCEPT !.services = bk.disk.services \union w] BY <1>1, <2>2
  <2> QED BY <2>1, <2>3 DEF Stores, Kinds
<1> QED BY <1>1, <1>2

LEMMA BKRepeated ==
  ASSUME BKInv, NEW t \in bk.tasks, ImportHandled(t), Answer(t, TRUE) \in bk'.tasks
  PROVE  /\ bk.applied = [file |-> t.file, mode |-> t.mode] => bk'.rows = bk.rows /\ bk'.disk = bk.disk
         /\ t.file = "exported" /\ t.mode = "overwrite"
              => \A kind \in Kinds : bk'.rows[kind] = Domains(bk.exported[kind])
<1> DEFINE p == ContentsOf(t.file)
<1>1. /\ p \in Payloads /\ t.mode \in Modes /\ p = Held(t.file, bk.exported) /\ (t.file = "exported" => p = bk.exported)
      /\ bk'.rows = Imported(t.mode, p, bk.rows) /\ bk'.disk = Imported(t.mode, p, bk.disk)
  BY ImportIs
<1>2. bk.rows \in Stores /\ bk.disk \in Stores BY DEF BKInv, BKState
<1>3. AppliedSound(bk.applied, bk.rows, bk.disk, bk.exported) BY DEF BKInv
<1> HIDE DEF p
<1>4. ASSUME bk.applied = [file |-> t.file, mode |-> t.mode] PROVE bk'.rows = bk.rows /\ bk'.disk = bk.disk
  <2>1. bk.applied.file = t.file /\ bk.applied.mode = t.mode /\ bk.applied # NoReview BY <1>4 DEF NoReview
  <2>2. \A kind \in Kinds : /\ Fits(t.mode, Domains(p[kind]), bk.rows[kind])
                            /\ Fits(t.mode, Domains(p[kind]), bk.disk[kind])
    BY <1>1, <1>3, <2>1 DEF AppliedSound
  <2>3. ASSUME NEW kind \in Kinds PROVE bk'.rows[kind] = bk.rows[kind] /\ bk'.disk[kind] = bk.disk[kind]
    BY <1>1, <1>2, <2>2, ImportedIs
  <2>4. bk'.rows \in Stores /\ bk'.disk \in Stores BY <1>1, <1>2, ImportedIs
  <2> QED BY <1>2, <2>3, <2>4 DEF Stores
<1>5. ASSUME t.file = "exported", t.mode = "overwrite", NEW kind \in Kinds
      PROVE  bk'.rows[kind] = Domains(bk.exported[kind])
  <2>1. bk'.rows[kind] = Domains(p[kind]) \union Kept(t.mode, bk.rows[kind]) BY <1>1, <1>2, ImportedIs
  <2> QED BY <1>1, <1>5, <2>1 DEF Kept
<1> QED BY <1>4, <1>5

-----------------------------------------------------------------------------
(* The list of services (ServicesPage). *)

StoredModes == [ServiceIds -> RoutingModes \union {Gone}]
PageFilters == [health : HealthFilters, search : SearchTexts]
BulkFailures == {NoFailure} \union [mode : RoutingModes, ids : SUBSET ServiceIds]
RunningOperations ==
    [asked : SUBSET ServiceIds, mode : RoutingModes, failed : SUBSET ServiceIds, todo : SUBSET ServiceIds,
     stale : SUBSET ServiceIds]
BulkOperations == {NoOperation} \union RunningOperations
Targets == ServiceIds \union {NoTarget}

SVState ==
    [server : StoredModes, data : StoredModes, filters : PageFilters, url : PageFilters,
     selected : SUBSET ServiceIds, routing : RoutingModes, failure : BulkFailures, op : BulkOperations,
     target : Targets, deleting : Targets, events : Nat]

FailureSound(f, routing, selected) == f # NoFailure => f.mode = routing /\ selected \subseteq f.ids

\* What the operation has not to do any more and nobody touched is done.
OperationSound(op, routing, server) ==
    op # NoOperation =>
      /\ op.mode = routing
      /\ \A id \in op.asked \ (op.stale \union op.failed \union op.todo) : server[id] \in {op.mode, Gone}

SVInv ==
    /\ sv \in SVState
    /\ sv.url = replaceFiltersInUrl(sv.filters)
    /\ FailureSound(sv.failure, sv.routing, sv.selected)
    /\ OperationSound(sv.op, sv.routing, sv.server)

LEMMA SVInitially == SVMounted => SVInv
<1> SUFFICES ASSUME SVMounted PROVE SVInv OBVIOUS
<1> DEFINE all == [id \in ServiceIds |-> "active"]
<1>1. all \in StoredModes BY DEF StoredModes, RoutingModes
<1> HIDE DEF all
<1>2. sv = [server |-> all, data |-> all, filters |-> DefaultFilters, url |-> DefaultFilters,
            selected |-> {}, routing |-> "active", failure |-> NoFailure, op |-> NoOperation,
            target |-> NoTarget, deleting |-> NoTarget, events |-> 0]
  BY DEF SVMounted, all
<1>3. DefaultFilters \in PageFilters BY DEF DefaultFilters, PageFilters, HealthFilters, SearchTexts
<1>4. NoFailure \in BulkFailures /\ NoOperation \in BulkOperations /\ NoTarget \in Targets /\ "active" \in RoutingModes
  BY DEF BulkFailures, BulkOperations, Targets, RoutingModes
<1>5. sv \in SVState BY <1>1, <1>2, <1>3, <1>4 DEF SVState
<1>6. DefaultFilters = replaceFiltersInUrl(DefaultFilters) BY DEF DefaultFilters, replaceFiltersInUrl, trim
<1>7. sv.url = DefaultFilters /\ sv.filters = DefaultFilters /\ sv.failure = NoFailure /\ sv.op = NoOperation BY <1>2
<1> QED BY <1>5, <1>6, <1>7 DEF SVInv, FailureSound, OperationSound

\* Filters and dialogs.
LEMMA ViewStep ==
  ASSUME SVInv, NEW f \in PageFilters, NEW u \in PageFilters, u = replaceFiltersInUrl(f),
         NEW t \in Targets, NEW d \in Targets, NEW n \in Nat,
         sv' = [sv EXCEPT !.filters = f, !.url = u, !.target = t, !.deleting = d, !.events = n]
  PROVE  SVInv'
<1>1. sv \in SVState BY DEF SVInv
<1>2. sv' \in SVState BY <1>1 DEF SVState
<1>3. /\ sv'.url = u /\ sv'.filters = f /\ sv'.failure = sv.failure /\ sv'.routing = sv.routing
      /\ sv'.selected = sv.selected /\ sv'.op = sv.op /\ sv'.server = sv.server
  BY <1>1 DEF SVState
<1> QED BY <1>2, <1>3 DEF SVInv

\* The list, the selection, the mode and the operation.
LEMMA ServiceListStep ==
  ASSUME SVInv, NEW s \in StoredModes, NEW a \in StoredModes, NEW l \in SUBSET ServiceIds, NEW r \in RoutingModes,
         NEW f \in BulkFailures, NEW o \in BulkOperations, NEW t \in Targets, NEW d \in Targets, NEW n \in Nat,
         FailureSound(f, r, l), OperationSound(o, r, s),
         sv' = [sv EXCEPT !.server = s, !.data = a, !.selected = l, !.routing = r, !.failure = f, !.op = o,
                          !.target = t, !.deleting = d, !.events = n]
  PROVE  SVInv'
<1>1. sv \in SVState BY DEF SVInv
<1> DEFINE c == [sv EXCEPT !.server = s, !.data = a, !.selected = l, !.routing = r]
<1>2. c \in SVState BY <1>1 DEF SVState
<1> DEFINE e == [c EXCEPT !.failure = f, !.op = o]
<1>3. e \in SVState
  <2> HIDE DEF c
  <2> QED BY <1>2 DEF SVState
<1>4. sv' \in SVState
  <2>1. sv' = [e EXCEPT !.target = t, !.deleting = d, !.events = n] OBVIOUS
  <2> HIDE DEF e
  <2> QED BY <1>3, <2>1 DEF SVState
<1>5. /\ sv'.url = sv.url /\ sv'.filters = sv.filters /\ sv'.failure = f /\ sv'.routing = r
      /\ sv'.selected = l /\ sv'.op = o /\ sv'.server = s
  BY <1>1 DEF SVState
<1> QED BY <1>4, <1>5 DEF SVInv

Filtering ==
    \/ \E text \in SearchTexts : SetSearch(text)
    \/ \E filter \in {"all", "dns"} : SetHealthFilter(filter)
    \/ \E mode \in RoutingModes : ToggleSummaryCard(mode)
    \/ \E filter \in {"dns", "typo"} : ArriveAt([health |-> filter, search |-> ""])

LEMMA FilteringStep == SVInv /\ Filtering => SVInv'
<1> SUFFICES ASSUME SVInv, Filtering PROVE SVInv' OBVIOUS
<1>a. sv \in SVState BY DEF SVInv
<1>b. sv.filters \in PageFilters /\ sv.target \in Targets /\ sv.deleting \in Targets /\ sv.events \in Nat
  BY <1>a DEF SVState
<1>1. ASSUME NEW f \in PageFilters, ApplyFilters(f) PROVE SVInv'
  <2> DEFINE u == replaceFiltersInUrl(f)
             t == sv.target
             d == sv.deleting
             n == sv.events
  <2>1. u \in PageFilters
    <3>1. f.health \in HealthFilters /\ f.search \in SearchTexts BY DEF PageFilters
    <3>2. trim(f.search) \in SearchTexts BY <3>1 DEF trim, SearchTexts
    <3> QED BY <3>1, <3>2 DEF PageFilters, replaceFiltersInUrl
  <2>2. sv' = [sv EXCEPT !.filters = f, !.url = u, !.target = t, !.deleting = d, !.events = n]
    BY <1>1, <1>a DEF ApplyFilters, SVState
  <2>3. u = replaceFiltersInUrl(f) OBVIOUS
  <2>4. t \in Targets /\ d \in Targets /\ n \in Nat BY <1>b
  <2> HIDE DEF u, t, d, n
  <2> QED BY ONLY SVInv, f \in PageFilters, <2>1, <2>2, <2>3, <2>4, ViewStep
<1>2. ASSUME NEW text \in SearchTexts, SetSearch(text) PROVE SVInv'
  <2>1. [sv.filters EXCEPT !.search = text] \in PageFilters BY <1>b DEF PageFilters
  <2> QED BY <1>1, <1>2, <2>1 DEF SetSearch
<1>3. ASSUME NEW filter \in HealthFilters, SetHealthFilter(filter) PROVE SVInv'
  <2>1. [sv.filters EXCEPT !.health = filter] \in PageFilters BY <1>b DEF PageFilters
  <2> QED BY <1>1, <1>3, <2>1 DEF SetHealthFilter
<1>4. "all" \in HealthFilters /\ "dns" \in HealthFilters /\ RoutingModes \subseteq HealthFilters
  BY DEF HealthFilters, CauseFilters, RoutingModes
<1>5. ASSUME NEW filter \in {"dns", "typo"}, ArriveAt([health |-> filter, search |-> ""]) PROVE SVInv'
  <2> DEFINE u == [health |-> filter, search |-> ""]
             f == readFiltersFromUrl(u)
  <2>1. f \in PageFilters
    <3>1. u.search \in SearchTexts BY DEF SearchTexts
    <3> HIDE DEF u
    <3>2. (IF u.health \in HealthFilters THEN u.health ELSE "all") \in HealthFilters BY <1>4
    <3> QED BY <3>1, <3>2 DEF readFiltersFromUrl, PageFilters
  <2>2. ApplyFilters(f) BY <1>5 DEF ArriveAt
  <2> HIDE DEF f
  <2> QED BY <1>1, <2>1, <2>2
<1>6. ASSUME NEW mode \in RoutingModes, ToggleSummaryCard(mode) PROVE SVInv'
  <2> DEFINE h == IF sv.filters.health = mode THEN "all" ELSE mode
  <2>1. h \in HealthFilters BY <1>4
  <2>2. SetHealthFilter(h) BY <1>6 DEF ToggleSummaryCard
  <2> HIDE DEF h
  <2> QED BY <1>3, <2>1, <2>2
<1> QED BY <1>2, <1>3, <1>4, <1>5, <1>6 DEF Filtering

Dialogs == (\E id \in ServiceIds : OpenDelete(id)) \/ CloseDelete \/ handleDelete \/ DeleteFails

LEMMA DialogsStepSV == SVInv /\ Dialogs => SVInv'
<1> SUFFICES ASSUME SVInv, Dialogs PROVE SVInv' OBVIOUS
<1>a. sv \in SVState /\ sv.url = replaceFiltersInUrl(sv.filters) BY DEF SVInv
<1> DEFINE f == sv.filters
           u == sv.url
           t == sv.target
           d == sv.deleting
           n == sv.events
           n1 == n + 1
           none == NoTarget
<1>b. f \in PageFilters /\ u \in PageFilters /\ u = replaceFiltersInUrl(f) /\ t \in Targets /\ d \in Targets /\ n \in Nat
      /\ n1 \in Nat /\ none \in Targets
  BY <1>a DEF SVState, Targets
<1>1. ASSUME NEW id \in ServiceIds, OpenDelete(id) PROVE SVInv'
  <2>1. sv' = [sv EXCEPT !.filters = f, !.url = u, !.target = id, !.deleting = d, !.events = n]
    BY <1>1, <1>a DEF OpenDelete, SVState
  <2>2. id \in Targets BY DEF Targets
  <2> HIDE DEF f, u, t, d, n, n1, none
  <2> QED BY ONLY SVInv, <1>b, <2>1, <2>2, ViewStep
<1>2. CASE CloseDelete
  <2>1. sv' = [sv EXCEPT !.filters = f, !.url = u, !.target = none, !.deleting = d, !.events = n]
    BY <1>2, <1>a DEF CloseDelete, SVState
  <2> HIDE DEF f, u, t, d, n, n1, none
  <2> QED BY ONLY SVInv, <1>b, <2>1, ViewStep
<1>3. CASE handleDelete
  <2>1. sv' = [sv EXCEPT !.filters = f, !.url = u, !.target = t, !.deleting = t, !.events = n1]
    BY <1>3, <1>a DEF handleDelete, Event, SVState
  <2> HIDE DEF f, u, t, d, n, n1, none
  <2> QED BY ONLY SVInv, <1>b, <2>1, ViewStep
<1>4. CASE DeleteFails
  <2>1. sv' = [sv EXCEPT !.filters = f, !.url = u, !.target = t, !.deleting = none, !.events = n]
    BY <1>4, <1>a DEF DeleteFails, SVState
  <2> HIDE DEF f, u, t, d, n, n1, none
  <2> QED BY ONLY SVInv, <1>b, <2>1, ViewStep
<1> QED BY <1>1, <1>2, <1>3, <1>4 DEF Dialogs

LEMMA FiltersShow == ASSUME sv \in SVState, NEW f PROVE filterServices(sv, f) \subseteq ServiceIds
  BY DEF filterServices

Selecting ==
    \/ \E id \in ServiceIds, on \in BOOLEAN : SelectService(id, on)
    \/ \E mode \in RoutingModes : SetRoutingMode(mode)
    \/ ToggleVisible \/ ClearSelection

LEMMA SelectingStep == SVInv /\ Selecting => SVInv'
<1> SUFFICES ASSUME SVInv, Selecting PROVE SVInv' OBVIOUS
<1>a. sv \in SVState /\ OperationSound(sv.op, sv.routing, sv.server) BY DEF SVInv
<1> DEFINE s == sv.server
           a == sv.data
           l == sv.selected
           r == sv.routing
           f == NoFailure
           o == sv.op
           t == sv.target
           d == sv.deleting
           n == sv.events
<1>b. s \in StoredModes /\ a \in StoredModes /\ l \in SUBSET ServiceIds /\ r \in RoutingModes /\ f \in BulkFailures
      /\ o \in BulkOperations /\ t \in Targets /\ d \in Targets /\ n \in Nat /\ OperationSound(o, r, s)
  BY <1>a DEF SVState, BulkFailures
<1>1. ASSUME NEW m \in SUBSET ServiceIds, sv' = [sv EXCEPT !.failure = NoFailure, !.selected = m] PROVE SVInv'
  <2>1. sv' = [sv EXCEPT !.server = s, !.data = a, !.selected = m, !.routing = r, !.failure = f, !.op = o,
                          !.target = t, !.deleting = d, !.events = n]
    BY <1>1, <1>a DEF SVState
  <2>2. FailureSound(f, r, m) BY DEF FailureSound
  <2> HIDE DEF s, a, l, r, f, o, t, d, n
  <2> QED BY ONLY SVInv, m \in SUBSET ServiceIds, <1>b, <2>1, <2>2, ServiceListStep
<1>2. ASSUME NEW id \in ServiceIds, NEW on \in BOOLEAN, SelectService(id, on) PROVE SVInv'
  <2> DEFINE m == IF on THEN l \union {id} ELSE l \ {id}
  <2>1. m \in SUBSET ServiceIds BY <1>b
  <2>2. sv' = [sv EXCEPT !.failure = NoFailure, !.selected = m] BY <1>2 DEF SelectService
  <2> HIDE DEF m
  <2> QED BY <1>1, <2>1, <2>2
<1>3. CASE ToggleVisible
  <2> DEFINE v == filterServices(sv, sv.filters)
             m == IF v \subseteq l THEN l \ v ELSE l \union v
  <2>1. v \subseteq ServiceIds BY <1>a, FiltersShow
  <2>2. sv' = [sv EXCEPT !.failure = NoFailure, !.selected = m] BY <1>3 DEF ToggleVisible
  <2> HIDE DEF v
  <2>3. m \in SUBSET ServiceIds BY <1>b, <2>1
  <2> HIDE DEF m
  <2> QED BY <1>1, <2>2, <2>3
<1>4. CASE ClearSelection
  <2> DEFINE m == {}
  <2>1. sv' = [sv EXCEPT !.failure = NoFailure, !.selected = m] BY <1>4, <1>a DEF ClearSelection, SVState
  <2>2. m \in SUBSET ServiceIds OBVIOUS
  <2> HIDE DEF m
  <2> QED BY <1>1, <2>1, <2>2
<1>5. ASSUME NEW mode \in RoutingModes, SetRoutingMode(mode) PROVE SVInv'
  <2>1. sv' = [sv EXCEPT !.server = s, !.data = a, !.selected = l, !.routing = mode, !.failure = f, !.op = o,
                          !.target = t, !.deleting = d, !.events = n]
    BY <1>5, <1>a DEF SetRoutingMode, ModeChanged, SVState
  <2>2. FailureSound(f, mode, l) BY DEF FailureSound
  <2>3. OperationSound(o, mode, s) BY <1>5 DEF SetRoutingMode, isBusy, OperationSound
  <2> HIDE DEF s, a, l, r, f, o, t, d, n
  <2> QED BY ONLY SVInv, mode \in RoutingModes, <1>b, <2>1, <2>2, <2>3, ServiceListStep
<1> QED BY <1>2, <1>3, <1>4, <1>5 DEF Selecting

\* An operation starts: what it skips has the mode, or was shown wrongly.
LEMMA BulkStartStep ==
  ASSUME SVInv, NEW ids \in SUBSET ServiceIds,
         sv' = Event([sv EXCEPT !.op = StartOperation(ids, sv.routing)])
  PROVE  SVInv' /\ sv'.op # NoOperation
<1>a. sv \in SVState /\ FailureSound(sv.failure, sv.routing, sv.selected) BY DEF SVInv
<1> DEFINE s == sv.server
           a == sv.data
           l == sv.selected
           r == sv.routing
           f == sv.failure
           o == StartOperation(ids, r)
           t == sv.target
           d == sv.deleting
           n == sv.events + 1
<1>b. s \in StoredModes /\ a \in StoredModes /\ l \in SUBSET ServiceIds /\ r \in RoutingModes /\ f \in BulkFailures
      /\ t \in Targets /\ d \in Targets /\ n \in Nat /\ FailureSound(f, r, l)
  BY <1>a DEF SVState
<1>1. sv' = [sv EXCEPT !.server = s, !.data = a, !.selected = l, !.routing = r, !.failure = f, !.op = o,
                          !.target = t, !.deleting = d, !.events = n]
  BY <1>a DEF Event, SVState
<1>2. o \in RunningOperations BY <1>b DEF StartOperation, RunningOperations, getRoutingUpdateTargets
<1>3. o \in BulkOperations /\ o # NoOperation
  <2> HIDE DEF o
  <2> QED BY <1>2 DEF BulkOperations, RunningOperations, NoOperation, RoutingModes
<1>4. OperationSound(o, r, s)
  <2>1. o.mode = r /\ o.asked = ids \cap Listed /\ o.stale = {id \in ids : sv.data[id] # sv.server[id]}
        /\ o.todo = {id \in ids \cap Listed : sv.data[id] # r}
    BY DEF StartOperation, getRoutingUpdateTargets
  <2> HIDE DEF o
  <2>2. \A id \in o.asked \ (o.stale \union o.failed \union o.todo) : s[id] \in {o.mode, Gone}
    <3> SUFFICES ASSUME NEW id \in o.asked \ (o.stale \union o.failed \union o.todo) PROVE s[id] = r BY <2>1
    <3>1. id \in ids /\ id \in Listed /\ id \notin o.stale /\ id \notin o.todo BY <2>1
    <3> QED BY <2>1, <3>1
  <2> QED BY <2>1, <2>2 DEF OperationSound
<1>5. sv'.op = o BY <1>1, <1>a DEF SVState
<1> HIDE DEF s, a, l, r, f, o, t, d, n
<1>6. SVInv' BY ONLY SVInv, <1>b, <1>1, <1>3, <1>4, ServiceListStep
<1> QED BY <1>3, <1>5, <1>6

LEMMA BulkStep == SVInv /\ (ApplyBulk \/ RetryBulk \/ UpdateWorks \/ UpdateFails) => SVInv' /\ sv'.op # NoOperation
<1> SUFFICES ASSUME SVInv, ApplyBulk \/ RetryBulk \/ UpdateWorks \/ UpdateFails PROVE SVInv' /\ sv'.op # NoOperation OBVIOUS
<1>a. sv \in SVState /\ FailureSound(sv.failure, sv.routing, sv.selected) /\ OperationSound(sv.op, sv.routing, sv.server)
  BY DEF SVInv
<1>1. CASE ApplyBulk
  <2>1. sv.selected \in SUBSET ServiceIds BY <1>a DEF SVState
  <2> QED BY <1>1, <2>1, BulkStartStep DEF ApplyBulk
<1>2. CASE RetryBulk
  <2>1. sv.failure # NoFailure /\ sv.failure \in BulkFailures BY <1>2, <1>a DEF RetryBulk, SVState
  <2>2. sv.failure.ids \in SUBSET ServiceIds BY <2>1 DEF BulkFailures
  <2>3. sv.failure.mode = sv.routing BY <1>a, <2>1 DEF FailureSound
  <2> QED BY <1>2, <2>2, <2>3, BulkStartStep DEF RetryBulk
<1>3. CASE UpdateWorks \/ UpdateFails
  <2> DEFINE s == sv.server
             a == sv.data
             l == sv.selected
             r == sv.routing
             f == sv.failure
             t == sv.target
             d == sv.deleting
             n == sv.events
             id == Next1(sv.op.todo)
             v == sv.op.mode
             todo1 == sv.op.todo \ {id}
             failed1 == sv.op.failed \union {id}
             s1 == [s EXCEPT ![id] = v]
             o1 == [sv.op EXCEPT !.todo = todo1]
             o2 == [sv.op EXCEPT !.todo = todo1, !.failed = failed1]
  <2>b. s \in StoredModes /\ a \in StoredModes /\ l \in SUBSET ServiceIds /\ r \in RoutingModes /\ f \in BulkFailures
        /\ t \in Targets /\ d \in Targets /\ n \in Nat /\ FailureSound(f, r, l)
    BY <1>a DEF SVState
  <2>1. sv.op # NoOperation /\ sv.op \in RunningOperations
    <3>1. sv.op # NoOperation BY <1>3 DEF UpdateWorks, UpdateFails, isBusy
    <3>2. sv.op \in BulkOperations BY <1>a DEF SVState
    <3> QED BY <3>1, <3>2 DEF BulkOperations
  <2>2. sv.op.mode \in RoutingModes /\ sv.op.todo \in SUBSET ServiceIds /\ sv.op.failed \in SUBSET ServiceIds
    BY <2>1 DEF RunningOperations
  <2>3. id \in sv.op.todo /\ id \in ServiceIds
    <3>1. sv.op.todo # {} BY <1>3 DEF UpdateWorks, UpdateFails
    <3>2. id \in sv.op.todo BY <3>1 DEF Next1
    <3> QED BY <2>2, <3>2
  <2> HIDE DEF id
  <2>4. sv.op.mode = r /\ \A x \in sv.op.asked \ (sv.op.stale \union sv.op.failed \union sv.op.todo) : s[x] \in {sv.op.mode, Gone}
    BY <1>a, <2>1 DEF OperationSound
  <2>5. s1 \in StoredModes /\ s1[id] = v /\ \A x \in ServiceIds : x # id => s1[x] = s[x]
    BY <2>b, <2>2, <2>3 DEF StoredModes
  <2>6. o1 \in RunningOperations /\ o1.mode = v /\ o1.asked = sv.op.asked /\ o1.stale = sv.op.stale /\ o1.failed = sv.op.failed
        /\ o1.todo = todo1
    BY <2>1, <2>2 DEF RunningOperations
  <2>7. o2 \in RunningOperations /\ o2.mode = v /\ o2.asked = sv.op.asked /\ o2.stale = sv.op.stale /\ o2.failed = failed1
        /\ o2.todo = todo1
    BY <2>1, <2>2, <2>3 DEF RunningOperations
  <2>8. sv.op.asked \in SUBSET ServiceIds BY <2>1 DEF RunningOperations
  <2>9. CASE UpdateWorks
    <3>1. sv' = [sv EXCEPT !.server = s1, !.data = a, !.selected = l, !.routing = r, !.failure = f, !.op = o1,
                           !.target = t, !.deleting = d, !.events = n]
      BY <2>9, <1>a DEF UpdateWorks, SVState, id
    <3>2. OperationSound(o1, r, s1)
      <4> HIDE DEF s1, o1, s
      <4>1. ASSUME NEW x \in o1.asked \ (o1.stale \union o1.failed \union o1.todo) PROVE s1[x] \in {o1.mode, Gone}
        <5>1. CASE x = id BY <2>5, <2>6, <5>1
        <5>2. CASE x # id
          <6>1. x \in sv.op.asked \ (sv.op.stale \union sv.op.failed \union sv.op.todo) /\ x \in ServiceIds
            BY <2>6, <2>8, <5>2
          <6> QED BY <2>4, <2>5, <2>6, <5>2, <6>1
        <5> QED BY <5>1, <5>2
      <4> QED BY <2>4, <2>6, <4>1 DEF OperationSound
    <3>3. o1 \in BulkOperations /\ o1 # NoOperation
      <4> HIDE DEF o1
      <4> QED BY <2>6 DEF BulkOperations, RunningOperations, NoOperation, RoutingModes
    <3>4. sv'.op = o1 BY <3>1, <1>a DEF SVState
    <3> HIDE DEF s, a, l, r, f, t, d, n, s1, o1, o2
    <3>5. SVInv' BY ONLY SVInv, <2>b, <2>5, <3>1, <3>2, <3>3, ServiceListStep
    <3> QED BY <3>3, <3>4, <3>5
  <2>10. CASE UpdateFails
    <3>1. sv' = [sv EXCEPT !.server = s, !.data = a, !.selected = l, !.routing = r, !.failure = f, !.op = o2,
                           !.target = t, !.deleting = d, !.events = n]
      BY <2>10, <1>a DEF UpdateFails, FailedAdded, SVState, id
    <3>2. OperationSound(o2, r, s)
      <4> HIDE DEF o2, s
      <4>1. ASSUME NEW x \in o2.asked \ (o2.stale \union o2.failed \union o2.todo) PROVE s[x] \in {o2.mode, Gone}
        <5>1. x \in sv.op.asked \ (sv.op.stale \union sv.op.failed \union sv.op.todo) BY <2>7
        <5> QED BY <2>4, <2>7, <5>1
      <4> QED BY <2>4, <2>7, <4>1 DEF OperationSound
    <3>3. o2 \in BulkOperations /\ o2 # NoOperation
      <4> HIDE DEF o2
      <4> QED BY <2>7 DEF BulkOperations, RunningOperations, NoOperation, RoutingModes
    <3>4. sv'.op = o2 BY <3>1, <1>a DEF SVState
    <3> HIDE DEF s, a, l, r, f, t, d, n, s1, o1, o2
    <3>5. SVInv' BY ONLY SVInv, <2>b, <3>1, <3>2, <3>3, ServiceListStep
    <3> QED BY <3>3, <3>4, <3>5
  <2> QED BY <1>3, <2>9, <2>10
<1> QED BY <1>1, <1>2, <1>3

LEMMA SettledBulkStep ==
  SVInv /\ BulkSettled
    => /\ SVInv'
       /\ \A id \in sv.op.asked \ (sv.op.stale \union sv'.selected) : sv.server[id] \in {sv.op.mode, Gone}
<1> SUFFICES ASSUME SVInv, BulkSettled
             PROVE  /\ SVInv'
                    /\ \A id \in sv.op.asked \ (sv.op.stale \union sv'.selected) : sv.server[id] \in {sv.op.mode, Gone}
  OBVIOUS
<1>a. sv \in SVState /\ OperationSound(sv.op, sv.routing, sv.server) BY DEF SVInv
<1>1. sv.op # NoOperation /\ sv.op.todo = {} BY DEF BulkSettled, isBusy
<1>2. sv.op \in RunningOperations
  <2>1. sv.op \in BulkOperations BY <1>a DEF SVState
  <2> QED BY <1>1, <2>1 DEF BulkOperations
<1>3. sv.op.mode = sv.routing /\ sv.op.mode \in RoutingModes /\ sv.op.failed \in SUBSET ServiceIds
  BY <1>a, <1>1, <1>2 DEF OperationSound, RunningOperations
<1> DEFINE s == sv.server
           a == sv.data
           l == sv.op.failed
           r == sv.routing
           f == IF l = {} THEN NoFailure ELSE [mode |-> sv.op.mode, ids |-> l]
           o == NoOperation
           t == sv.target
           d == sv.deleting
           n == sv.events
<1>b. s \in StoredModes /\ a \in StoredModes /\ l \in SUBSET ServiceIds /\ r \in RoutingModes
      /\ t \in Targets /\ d \in Targets /\ n \in Nat /\ o \in BulkOperations
  BY <1>a, <1>3 DEF SVState, BulkOperations
<1>4. f \in BulkFailures /\ FailureSound(f, r, l)
  <2>1. CASE l = {} BY <2>1 DEF BulkFailures, FailureSound
  <2>2. CASE l # {} BY <1>3, <2>2 DEF BulkFailures, FailureSound
  <2> QED BY <2>1, <2>2
<1>5. OperationSound(o, r, s) BY DEF OperationSound
<1>6. \E b \in {s, a} :
        sv' = [sv EXCEPT !.server = s, !.data = b, !.selected = l, !.routing = r, !.failure = f, !.op = o,
                         !.target = t, !.deleting = d, !.events = n]
  <2>1. PICK fetched \in BOOLEAN :
          LET c == IF fetched THEN [sv EXCEPT !.data = sv.server] ELSE sv
          IN  sv' = [c EXCEPT !.op = NoOperation, !.selected = sv.op.failed, !.failure = f]
    BY DEF BulkSettled
  <2> HIDE DEF f
  <2>2. CASE fetched BY <1>a, <2>1, <2>2 DEF SVState
  <2>3. CASE ~fetched BY <1>a, <2>1, <2>3 DEF SVState
  <2> QED BY <2>2, <2>3
<1> HIDE DEF s, a, r, f, o, t, d, n
<1>7. PICK b \in {s, a} :
        sv' = [sv EXCEPT !.server = s, !.data = b, !.selected = l, !.routing = r, !.failure = f, !.op = o,
                         !.target = t, !.deleting = d, !.events = n]
  BY <1>6
<1>8. b \in StoredModes BY <1>b
<1>9. sv'.selected = l BY <1>7, <1>a DEF SVState
<1>10. \A id \in sv.op.asked \ (sv.op.stale \union sv'.selected) : sv.server[id] \in {sv.op.mode, Gone}
  BY <1>a, <1>1, <1>9 DEF OperationSound
<1> HIDE DEF l
<1>11. SVInv' BY ONLY SVInv, <1>b, <1>4, <1>5, <1>7, <1>8, ServiceListStep
<1> QED BY <1>10, <1>11

Elsewhere == DeleteWorks \/ (\E id \in ServiceIds : OtherAdmin(id)) \/ ServicesRefetched

LEMMA ElsewhereStep == SVInv /\ Elsewhere => SVInv' /\ (sv.op # NoOperation => sv'.op # NoOperation)
<1> SUFFICES ASSUME SVInv, Elsewhere PROVE SVInv' /\ (sv.op # NoOperation => sv'.op # NoOperation) OBVIOUS
<1>a. sv \in SVState /\ FailureSound(sv.failure, sv.routing, sv.selected) /\ OperationSound(sv.op, sv.routing, sv.server)
  BY DEF SVInv
<1> DEFINE s == sv.server
           a == sv.data
           l == sv.selected
           r == sv.routing
           f == sv.failure
           o == sv.op
           t == sv.target
           d == sv.deleting
           n == sv.events
           n1 == n + 1
           none == NoTarget
<1>b. s \in StoredModes /\ a \in StoredModes /\ l \in SUBSET ServiceIds /\ r \in RoutingModes /\ f \in BulkFailures
      /\ o \in BulkOperations /\ t \in Targets /\ d \in Targets /\ n \in Nat /\ n1 \in Nat /\ none \in Targets
      /\ FailureSound(f, r, l) /\ OperationSound(o, r, s)
  BY <1>a DEF SVState, Targets
<1>1. CASE DeleteWorks
  <2> DEFINE s1 == [s EXCEPT ![d] = Gone]
  <2>1. sv' = [sv EXCEPT !.server = s1, !.data = a, !.selected = l, !.routing = r, !.failure = f, !.op = o,
                         !.target = none, !.deleting = none, !.events = n]
    BY <1>1, <1>a DEF DeleteWorks, SVState
  <2>2. s1 \in StoredModes /\ \A x \in ServiceIds : s1[x] \in {s[x], Gone}
    BY <1>b DEF StoredModes
  <2>3. OperationSound(o, r, s1)
    <3> HIDE DEF s1, s, o
    <3>1. o # NoOperation => o.asked \in SUBSET ServiceIds BY <1>b DEF BulkOperations, RunningOperations
    <3> QED BY <1>b, <2>2, <3>1 DEF OperationSound
  <2>4. sv'.op = sv.op BY <2>1, <1>a DEF SVState
  <2> HIDE DEF s, a, l, r, f, o, t, d, n, n1, none, s1
  <2>5. SVInv' BY ONLY SVInv, <1>b, <2>1, <2>2, <2>3, ServiceListStep
  <2> QED BY <2>4, <2>5
<1>2. ASSUME NEW id \in ServiceIds, OtherAdmin(id) PROVE SVInv' /\ (sv.op # NoOperation => sv'.op # NoOperation)
  <2> DEFINE stale1 == o.stale \union {id}
             o1 == IF isBusy THEN [o EXCEPT !.stale = stale1] ELSE o
  <2>1. PICK mode \in (RoutingModes \union {Gone}) \ {sv.server[id]} :
               sv' = Event([sv EXCEPT !.server[id] = mode, !.op = o1])
    BY <1>2 DEF OtherAdmin
  <2>2. o1 \in BulkOperations /\ (o # NoOperation => o1 # NoOperation) /\ OperationSound(o1, r, [s EXCEPT ![id] = mode])
    <3>1. CASE ~isBusy
      <4>1. o1 = o /\ o = NoOperation BY <3>1 DEF isBusy
      <4> HIDE DEF o1, o
      <4> QED BY <1>b, <4>1 DEF OperationSound
    <3>2. CASE isBusy
      <4>1. o # NoOperation /\ o \in RunningOperations BY <1>b, <3>2 DEF isBusy, BulkOperations
      <4>2. stale1 \in SUBSET ServiceIds BY <4>1 DEF RunningOperations
      <4>3. o1 = [o EXCEPT !.stale = stale1] BY <3>2
      <4> HIDE DEF o1, o, stale1
      <4>4. o1 \in RunningOperations /\ o1.stale = stale1 /\ o1.asked = o.asked /\ o1.failed = o.failed /\ o1.todo = o.todo
            /\ o1.mode = o.mode
        BY <4>1, <4>2, <4>3 DEF RunningOperations
      <4>5. o1 # NoOperation BY <4>4 DEF RunningOperations, NoOperation, RoutingModes
      <4>6. ASSUME NEW x \in o1.asked \ (o1.stale \union o1.failed \union o1.todo)
            PROVE  [s EXCEPT ![id] = mode][x] \in {o1.mode, Gone}
        <5>1. x # id /\ x \in o.asked \ (o.stale \union o.failed \union o.todo) BY <4>4, <4>6 DEF stale1
        <5>2. x \in ServiceIds BY <4>1, <5>1 DEF RunningOperations
        <5>3. s[x] \in {o.mode, Gone} BY <1>b, <4>1, <5>1 DEF OperationSound
        <5>4. [s EXCEPT ![id] = mode][x] = s[x] BY <1>b, <5>1, <5>2 DEF StoredModes
        <5> QED BY <4>4, <5>3, <5>4
      <4>7. o.mode = r BY <1>b, <4>1 DEF OperationSound
      <4> QED BY <4>4, <4>5, <4>6, <4>7 DEF BulkOperations, OperationSound
    <3> QED BY <3>1, <3>2
  <2> HIDE DEF o1
  <2> DEFINE s1 == [s EXCEPT ![id] = mode]
  <2>3. s1 \in StoredModes BY <1>b DEF StoredModes
  <2>4. sv' = [sv EXCEPT !.server = s1, !.data = a, !.selected = l, !.routing = r, !.failure = f, !.op = o1,
                         !.target = t, !.deleting = d, !.events = n1]
    BY <2>1, <1>a DEF Event, SVState
  <2>5. sv'.op = o1 BY <2>4, <1>a DEF SVState
  <2>6. OperationSound(o1, r, s1) BY <2>2
  <2> HIDE DEF s, a, l, r, f, t, d, n, n1, none, s1
  <2>7. SVInv'
    <3> HIDE DEF o
    <3> QED BY ONLY SVInv, <1>b, <2>2, <2>3, <2>4, <2>6, ServiceListStep
  <2> QED BY <2>2, <2>5, <2>7
<1>3. CASE ServicesRefetched
  <2> DEFINE l1 == {id \in l : s[id] # Gone}
  <2>1. sv' = [sv EXCEPT !.server = s, !.data = s, !.selected = l1, !.routing = r, !.failure = f, !.op = o,
                         !.target = t, !.deleting = d, !.events = n]
    BY <1>3, <1>a DEF ServicesRefetched, PruneSelection, SVState
  <2>2. l1 \in SUBSET ServiceIds /\ l1 \subseteq l BY <1>b
  <2> HIDE DEF l1, l
  <2>3. FailureSound(f, r, l1) BY <1>b, <2>2 DEF FailureSound
  <2>4. sv'.op = sv.op BY <2>1, <1>a DEF SVState
  <2> HIDE DEF s, a, r, f, o, t, d, n, n1, none
  <2>5. SVInv' BY ONLY SVInv, <1>b, <2>1, <2>2, <2>3, ServiceListStep
  <2> QED BY <2>4, <2>5
<1> QED BY <1>1, <1>2, <1>3 DEF Elsewhere

LEMMA SVNextIs ==
  SVNext <=> \/ Filtering \/ Dialogs \/ Selecting \/ Elsewhere \/ BulkSettled
             \/ (ApplyBulk \/ RetryBulk \/ UpdateWorks \/ UpdateFails)
  BY DEF SVNext, Filtering, Dialogs, Selecting, Elsewhere

LEMMA SVStep == SVInv /\ SVNext => SVInv'
  BY SVNextIs, FilteringStep, DialogsStepSV, SelectingStep, ElsewhereStep, BulkStep, SettledBulkStep

\* Filters, dialogs and the selection do not end an operation.
LEMMA OperationStays == SVInv /\ (Filtering \/ Dialogs \/ Selecting) => sv'.op = sv.op
<1> SUFFICES ASSUME SVInv, Filtering \/ Dialogs \/ Selecting PROVE sv'.op = sv.op OBVIOUS
<1>a. sv \in SVState BY DEF SVInv
<1>1. CASE Filtering
  BY <1>1, <1>a DEF Filtering, SetSearch, SetHealthFilter, ToggleSummaryCard, ArriveAt, ApplyFilters, SVState
<1>2. CASE Dialogs
  BY <1>2, <1>a DEF Dialogs, OpenDelete, CloseDelete, handleDelete, DeleteFails, Event, SVState
<1>3. CASE Selecting
  BY <1>3, <1>a DEF Selecting, SelectService, SetRoutingMode, ModeChanged, ToggleVisible, ClearSelection, SVState
<1> QED BY <1>1, <1>2, <1>3

\* BulkReportTrue.
LEMMA SVReports ==
  ASSUME SVInv, SVNext, sv.op # NoOperation, sv'.op = NoOperation
  PROVE  \A id \in sv.op.asked \ (sv.op.stale \union sv'.selected) : sv.server[id] \in {sv.op.mode, Gone}
  BY SVNextIs, OperationStays, ElsewhereStep, BulkStep, SettledBulkStep

LEMMA SVHolds == SVInv => SVTypeOK /\ RetryIsWhatIsShown /\ ReloadShowsSame
<1> SUFFICES ASSUME SVInv PROVE SVTypeOK /\ RetryIsWhatIsShown /\ ReloadShowsSame OBVIOUS
<1>a. sv \in SVState BY DEF SVInv
<1>1. SVTypeOK BY <1>a DEF SVTypeOK, SVState, StoredModes, PageFilters, Targets
<1>2. RetryIsWhatIsShown BY DEF SVInv, FailureSound, RetryIsWhatIsShown
<1>3. ReloadShowsSame
  <2>1. sv.filters.health \in HealthFilters BY <1>a DEF SVState, PageFilters
  <2>2. sv.url.health = sv.filters.health /\ sv.url.search = trim(sv.filters.search) BY DEF SVInv, replaceFiltersInUrl
  <2> DEFINE g == readFiltersFromUrl(sv.url)
  <2>3. g.health = sv.filters.health /\ g.search = trim(sv.filters.search) BY <2>1, <2>2 DEF readFiltersFromUrl
  <2>4. trim(trim(sv.filters.search)) = trim(sv.filters.search) BY DEF trim
  <2> HIDE DEF g
  <2>5. trim(g.search) = trim(sv.filters.search) BY <2>3, <2>4
  <2>6. filterServices(sv, g) = filterServices(sv, sv.filters) BY <2>3, <2>5 DEF filterServices
  <2> QED BY <2>6 DEF ReloadShowsSame, g
<1> QED BY <1>1, <1>2, <1>3

\* The five filters for causes, one by one.
LEMMA CauseMatches ==
  ASSUME NEW mode, NEW health \in Failures
  PROVE  /\ matchesHealthFilter(mode, health, "dns") <=> health.kind = "dns"
         /\ matchesHealthFilter(mode, health, "connection_refused") <=> health.kind = "connection_refused"
         /\ matchesHealthFilter(mode, health, "unexpected_status") <=> health.kind = "unexpected_status"
         /\ matchesHealthFilter(mode, health, "timeout") <=> health.kind \in {"connection_timeout", "request_timeout"}
         /\ matchesHealthFilter(mode, health, "other_error") <=> health.kind \in {"tls", "none"}
<1>1. health.status = "down" /\ health.kind \in {"dns", "connection_refused", "connection_timeout",
                                        "request_timeout", "unexpected_status", "tls", "none"}
  BY DEF Failures
<1>2. matchesOtherHealthError(health) <=> health.kind \in {"tls", "none"} BY <1>1 DEF matchesOtherHealthError
<1>3. matchesHealthFilter(mode, health, "dns") <=> health.kind = "dns" BY DEF matchesHealthFilter, RoutingModes
<1>4. matchesHealthFilter(mode, health, "connection_refused") <=> health.kind = "connection_refused"
  BY DEF matchesHealthFilter, RoutingModes
<1>5. matchesHealthFilter(mode, health, "unexpected_status") <=> health.kind = "unexpected_status"
  BY DEF matchesHealthFilter, RoutingModes
<1>6. matchesHealthFilter(mode, health, "timeout") <=> health.kind \in {"connection_timeout", "request_timeout"}
  BY DEF matchesHealthFilter, RoutingModes
<1>7. matchesHealthFilter(mode, health, "other_error") <=> matchesOtherHealthError(health)
  BY DEF matchesHealthFilter, RoutingModes
<1> QED BY <1>2, <1>3, <1>4, <1>5, <1>6, <1>7

LEMMA SVCauses == OneCausePerFailure
<1>1. ASSUME NEW mode, NEW health \in Failures
      PROVE  Cardinality({f \in CauseFilters : matchesHealthFilter(mode, health, f)}) = 1
  <2> DEFINE T == {f \in CauseFilters : matchesHealthFilter(mode, health, f)}
  <2>1. \E f : T = {f}
    <3>1. health.kind \in {"dns", "connection_refused", "connection_timeout",
                           "request_timeout", "unexpected_status", "tls", "none"}
      BY DEF Failures
    <3>2. T \subseteq {"dns", "connection_refused", "timeout", "unexpected_status", "other_error"} BY DEF CauseFilters
    <3>3. /\ "dns" \in T <=> health.kind = "dns"
          /\ "connection_refused" \in T <=> health.kind = "connection_refused"
          /\ "unexpected_status" \in T <=> health.kind = "unexpected_status"
          /\ "timeout" \in T <=> health.kind \in {"connection_timeout", "request_timeout"}
          /\ "other_error" \in T <=> health.kind \in {"tls", "none"}
      BY CauseMatches DEF CauseFilters
    <3> HIDE DEF T
    <3>4. CASE health.kind = "dns"
      <4>1. T = {"dns"} BY <3>2, <3>3, <3>4
      <4> QED BY <4>1
    <3>5. CASE health.kind = "connection_refused"
      <4>1. T = {"connection_refused"} BY <3>2, <3>3, <3>5
      <4> QED BY <4>1
    <3>6. CASE health.kind = "unexpected_status"
      <4>1. T = {"unexpected_status"} BY <3>2, <3>3, <3>6
      <4> QED BY <4>1
    <3>7. CASE health.kind \in {"connection_timeout", "request_timeout"}
      <4>1. T = {"timeout"} BY <3>2, <3>3, <3>7
      <4> QED BY <4>1
    <3>8. CASE health.kind \in {"tls", "none"}
      <4>1. T = {"other_error"} BY <3>2, <3>3, <3>8
      <4> QED BY <4>1
    <3> QED BY <3>1, <3>4, <3>5, <3>6, <3>7, <3>8
  <2> HIDE DEF T
  <2>2. PICK f : T = {f} BY <2>1
  <2>3. Cardinality(T) = 1 BY <2>2, FS_Singleton
  <2> QED BY <2>3 DEF T
<1> QED BY <1>1 DEF OneCausePerFailure

-----------------------------------------------------------------------------
(* The assignment of middlewares (MiddlewareAssignment). *)

Lists == [AssignableIds -> SUBSET TemplateIds]
Updates == [save : Nat, template : TemplateIds, id : AssignableIds, list : SUBSET TemplateIds]

MAState ==
    [server : Lists, cached : Lists, target : TemplateIds \union {NoTemplate},
     selected : SUBSET AssignableIds, toggled : SUBSET AssignableIds,
     phase : {"idle", "updates", "refetch"}, error : BOOLEAN,
     sent : SUBSET Updates, waiting : SUBSET AssignableIds, saves : Nat,
     template : TemplateIds \union {NoTemplate}, wanted : SUBSET AssignableIds, clean : BOOLEAN]

\* The check marks are those of the data, apart from what was toggled.
MarksOfData(s) ==
    s.target # NoTemplate =>
      \A id \in AssignableIds : (id \in s.selected) <=> ((s.target \in s.cached[id]) # (id \in s.toggled))

WaitsForUpdates(s) == s.phase = "updates" <=> s.waiting # {}

\* What a list does to the services it is sent for.
OwnList(s, oneUpdate) ==
    oneUpdate.list = IF oneUpdate.id \in s.wanted THEN s.server[oneUpdate.id] \union {s.template}
                  ELSE s.server[oneUpdate.id] \ {s.template}

\* The updates under way are those of the last save, one per service, and
\* every other service is as it was asked for.
CleanSave(s) ==
    s.clean =>
      /\ \A oneUpdate \in s.sent :
           /\ oneUpdate.save = s.saves /\ oneUpdate.template = s.template /\ oneUpdate.id \in s.waiting
           /\ OwnList(s, oneUpdate)
      /\ \A oneUpdate, other \in s.sent : oneUpdate.id = other.id => oneUpdate = other
      /\ \A id \in s.waiting : \E oneUpdate \in s.sent : oneUpdate.id = id
      /\ s.phase # "idle" =>
           \A id \in AssignableIds \ s.waiting : id \in s.wanted <=> s.template \in s.server[id]

MASound(s) == MarksOfData(s) /\ WaitsForUpdates(s) /\ CleanSave(s)
MAInv == ma \in MAState /\ MASound(ma)

\* What the parts about a save look at.
LEMMA CleanStays ==
  ASSUME NEW s, NEW t, WaitsForUpdates(s), CleanSave(s),
         t.server = s.server, t.phase = s.phase, t.sent = s.sent, t.waiting = s.waiting, t.saves = s.saves,
         t.template = s.template, t.wanted = s.wanted, t.clean = s.clean
  PROVE  WaitsForUpdates(t) /\ CleanSave(t)
<1>1. WaitsForUpdates(t) BY DEF WaitsForUpdates
<1>2. ASSUME NEW oneUpdate, OwnList(s, oneUpdate) PROVE OwnList(t, oneUpdate) BY <1>2 DEF OwnList
<1>3. ASSUME s.clean PROVE \A oneUpdate \in t.sent :
           /\ oneUpdate.save = t.saves /\ oneUpdate.template = t.template /\ oneUpdate.id \in t.waiting
           /\ OwnList(t, oneUpdate)
  <2> TAKE oneUpdate \in t.sent
  <2>1. oneUpdate \in s.sent OBVIOUS
  <2>2. oneUpdate.save = s.saves /\ oneUpdate.template = s.template /\ oneUpdate.id \in s.waiting /\ OwnList(s, oneUpdate)
    BY <1>3, <2>1 DEF CleanSave
  <2> QED BY <1>2, <2>2
<1>4. ASSUME s.clean
      PROVE  /\ \A oneUpdate, other \in t.sent : oneUpdate.id = other.id => oneUpdate = other
             /\ \A id \in t.waiting : \E oneUpdate \in t.sent : oneUpdate.id = id
             /\ t.phase # "idle" =>
                  \A id \in AssignableIds \ t.waiting : id \in t.wanted <=> t.template \in t.server[id]
  BY <1>4 DEF CleanSave
<1>5. CleanSave(t) BY <1>3, <1>4 DEF CleanSave
<1> QED BY <1>1, <1>5

LEMMA MAInitially == MAMounted => MAInv
<1> SUFFICES ASSUME MAMounted PROVE MAInv OBVIOUS
<1>1. PICK used \in [AssignableIds -> {{}, TemplateIds}] :
      ma = [server |-> used, cached |-> used, target |-> NoTemplate,
            selected |-> {}, toggled |-> {}, phase |-> "idle", error |-> FALSE,
            sent |-> {}, waiting |-> {}, saves |-> 0,
            template |-> NoTemplate, wanted |-> {}, clean |-> FALSE]
  BY DEF MAMounted
<1>2. used \in Lists BY DEF Lists
<1>3. ma \in MAState BY <1>1, <1>2 DEF MAState
<1>4. MASound(ma) BY <1>1 DEF MASound, MarksOfData, WaitsForUpdates, CleanSave
<1> QED BY <1>3, <1>4 DEF MAInv

\* The dialog opens, closes or follows new data.
LEMMA SyncedMarks ==
  ASSUME NEW s \in MAState, WaitsForUpdates(s), CleanSave(s)
  PROVE  /\ syncSelection(s) \in MAState /\ MASound(syncSelection(s))
         /\ syncSelection(s).sent = s.sent /\ syncSelection(s).server = s.server
<1> DEFINE v == IF s.target = NoTemplate THEN {} ELSE AppliedServices(s.cached, s.target)
           t == syncSelection(s)
<1>1. v \in SUBSET AssignableIds BY DEF AppliedServices
<1>2. s.target # NoTemplate => \A id \in AssignableIds : id \in v <=> s.target \in s.cached[id] BY DEF AppliedServices
<1>3. t = [s EXCEPT !.selected = v, !.toggled = {}] BY DEF syncSelection
<1> HIDE DEF v, t
<1>4. t \in MAState BY <1>1, <1>3 DEF MAState
<1>5. /\ t.server = s.server /\ t.cached = s.cached /\ t.target = s.target /\ t.selected = v /\ t.toggled = {}
      /\ t.phase = s.phase /\ t.sent = s.sent /\ t.waiting = s.waiting /\ t.saves = s.saves /\ t.template = s.template
      /\ t.wanted = s.wanted /\ t.clean = s.clean
  BY <1>3 DEF MAState
<1>6. MarksOfData(t) BY <1>2, <1>5 DEF MarksOfData
<1>7. WaitsForUpdates(t) /\ CleanSave(t) BY <1>5, CleanStays
<1> QED BY <1>4, <1>5, <1>6, <1>7 DEF t, MASound

LEMMA DialogStep ==
  MAInv /\ (CloseAssignment \/ \E template \in TemplateIds : OpenAssignment(template)) => MAInv' /\ ma'.sent = ma.sent
<1> SUFFICES ASSUME MAInv, CloseAssignment \/ \E template \in TemplateIds : OpenAssignment(template)
             PROVE  MAInv' /\ ma'.sent = ma.sent
  OBVIOUS
<1>a. ma \in MAState /\ MASound(ma) BY DEF MAInv
<1>1. PICK target \in TemplateIds \union {NoTemplate} : ma' = syncSelection([ma EXCEPT !.target = target])
  BY DEF CloseAssignment, OpenAssignment
<1> DEFINE s == [ma EXCEPT !.target = target]
<1>2. s \in MAState BY <1>a DEF MAState
<1>3. /\ s.server = ma.server /\ s.phase = ma.phase /\ s.sent = ma.sent /\ s.waiting = ma.waiting /\ s.saves = ma.saves
      /\ s.template = ma.template /\ s.wanted = ma.wanted /\ s.clean = ma.clean
  BY <1>a DEF MAState
<1>4. ma' = syncSelection(s) BY <1>1
<1> HIDE DEF s
<1>5. WaitsForUpdates(s) /\ CleanSave(s) BY <1>a, <1>3, CleanStays DEF MASound
<1> QED BY <1>2, <1>3, <1>4, <1>5, SyncedMarks DEF MAInv

LEMMA ToggleStep ==
  ASSUME MAInv, NEW id \in AssignableIds, toggleServiceSelection(id) PROVE MAInv' /\ ma'.sent = ma.sent
<1>a. ma \in MAState /\ MASound(ma) BY DEF MAInv
<1> DEFINE v == Flipped(ma.selected, id)
           t == Flipped(ma.toggled, id)
<1>b. ma.selected \in SUBSET AssignableIds /\ ma.toggled \in SUBSET AssignableIds BY <1>a DEF MAState
<1>1. v \in SUBSET AssignableIds /\ t \in SUBSET AssignableIds BY <1>b DEF Flipped
<1>2. ma' = [ma EXCEPT !.selected = v, !.toggled = t] BY DEF toggleServiceSelection
<1>3. \A i \in AssignableIds : /\ (i \in v) # (i \in ma.selected) <=> i = id
                               /\ (i \in t) # (i \in ma.toggled) <=> i = id
  BY DEF Flipped
<1> HIDE DEF v, t
<1>4. ma' \in MAState
  <2>1. ma \in MAState BY <1>a
  <2> QED BY <1>1, <1>2, <2>1 DEF MAState
<1>5. /\ ma'.server = ma.server /\ ma'.cached = ma.cached /\ ma'.target = ma.target /\ ma'.selected = v /\ ma'.toggled = t
      /\ ma'.phase = ma.phase /\ ma'.sent = ma.sent /\ ma'.waiting = ma.waiting /\ ma'.saves = ma.saves
      /\ ma'.template = ma.template /\ ma'.wanted = ma.wanted /\ ma'.clean = ma.clean
  BY <1>2, <1>a DEF MAState
<1>6. MarksOfData(ma')
  <2> SUFFICES ASSUME ma.target # NoTemplate, NEW i \in AssignableIds
               PROVE  (i \in v) <=> ((ma.target \in ma.cached[i]) # (i \in t))
    BY <1>5 DEF MarksOfData
  <2>1. (i \in ma.selected) <=> ((ma.target \in ma.cached[i]) # (i \in ma.toggled)) BY <1>a DEF MASound, MarksOfData
  <2> QED BY <2>1, <1>3
<1>7. WaitsForUpdates(ma') /\ CleanSave(ma') BY <1>a, <1>5, CleanStays DEF MASound
<1> QED BY <1>4, <1>5, <1>6, <1>7 DEF MAInv, MASound

LEMMA FetchedMarks ==
  ASSUME NEW s \in MAState, MASound(s)
  PROVE  /\ Fetched(s) \in MAState /\ MASound(Fetched(s))
         /\ Fetched(s).sent = s.sent /\ Fetched(s).server = s.server /\ Fetched(s).phase = s.phase
<1> DEFINE n == [s EXCEPT !.cached = s.server]
<1>1. n \in MAState BY DEF MAState
<1>2. /\ n.server = s.server /\ n.cached = s.server /\ n.target = s.target /\ n.selected = s.selected /\ n.toggled = s.toggled
      /\ n.phase = s.phase /\ n.sent = s.sent /\ n.waiting = s.waiting /\ n.saves = s.saves
      /\ n.template = s.template /\ n.wanted = s.wanted /\ n.clean = s.clean
  BY DEF MAState
<1>3. Fetched(s) = IF s.cached = s.server THEN n ELSE syncSelection(n) BY DEF Fetched
<1> HIDE DEF n
<1>4. WaitsForUpdates(n) /\ CleanSave(n) BY <1>2, CleanStays DEF MASound
<1>5. CASE s.cached = s.server
  <2>1. MarksOfData(n) BY <1>2, <1>5 DEF MASound, MarksOfData
  <2> QED BY <1>1, <1>2, <1>3, <1>4, <1>5, <2>1 DEF MASound
<1>6. CASE s.cached # s.server
  <2>1. syncSelection(n).phase = n.phase BY <1>1 DEF syncSelection, MAState
  <2> QED BY <1>1, <1>2, <1>3, <1>4, <1>6, <2>1, SyncedMarks
<1> QED BY <1>5, <1>6

LEMMA RefetchStep == MAInv /\ (AssignedRefetched \/ SaveDone) => MAInv' /\ ma'.sent = ma.sent
<1> SUFFICES ASSUME MAInv, AssignedRefetched \/ SaveDone PROVE MAInv' /\ ma'.sent = ma.sent OBVIOUS
<1>a. ma \in MAState /\ MASound(ma) BY DEF MAInv
<1> DEFINE f == Fetched(ma)
<1>1. f \in MAState /\ MASound(f) /\ f.sent = ma.sent /\ f.phase = ma.phase BY <1>a, FetchedMarks
<1>2. CASE AssignedRefetched
  <2>1. ma' = f BY <1>2 DEF AssignedRefetched
  <2> QED BY <1>1, <2>1 DEF MAInv
<1>3. CASE SaveDone
  <2> DEFINE s == [f EXCEPT !.phase = "idle", !.target = NoTemplate]
  <2>1. ma.phase = "refetch" /\ ma' = syncSelection(s) BY <1>3 DEF SaveDone
  <2> HIDE DEF f
  <2>2. s \in MAState BY <1>1 DEF MAState
  <2>3. /\ s.server = f.server /\ s.phase = "idle" /\ s.sent = f.sent /\ s.waiting = f.waiting /\ s.saves = f.saves
        /\ s.template = f.template /\ s.wanted = f.wanted /\ s.clean = f.clean
    BY <1>1 DEF MAState
  <2> HIDE DEF s
  <2>4. WaitsForUpdates(s) BY <1>1, <2>1, <2>3 DEF MASound, WaitsForUpdates
  <2>5. f.waiting = {} /\ (f.clean => f.sent = {}) BY <1>1, <2>1 DEF MASound, WaitsForUpdates, CleanSave
  <2>6. CleanSave(s) BY <2>3, <2>5 DEF CleanSave
  <2> QED BY <1>1, <2>1, <2>2, <2>3, <2>4, <2>6, SyncedMarks DEF MAInv
<1> QED BY <1>2, <1>3

LEMMA SaveAssignmentStep == MAInv /\ SaveAssignment => MAInv' /\ ma.sent \subseteq ma'.sent
<1> SUFFICES ASSUME MAInv, SaveAssignment PROVE MAInv' /\ ma.sent \subseteq ma'.sent OBVIOUS
<1>a. ma \in MAState /\ MASound(ma) BY DEF MAInv
<1>b. /\ ma.selected \in SUBSET AssignableIds /\ ma.saves \in Nat /\ ma.cached \in Lists /\ ma.sent \in SUBSET Updates
      /\ ma.target \in TemplateIds /\ ma.target # NoTemplate /\ ma.phase = "idle"
  BY <1>a DEF MAState, SaveAssignment
<1> DEFINE c == ChangedServices
           k == IF c = {} THEN "refetch" ELSE "updates"
           n == ma.saves + 1
           U(id) == [save |-> n, template |-> ma.target, id |-> id, list |-> NextTemplateIds(id)]
           new == {U(id) : id \in c}
           sent == ma.sent \union new
           q == ma.cached = ma.server /\ ma.sent = {}
<1>1. ma' = [ma EXCEPT !.phase = k, !.error = FALSE, !.saves = n, !.waiting = c, !.sent = sent,
                       !.template = ma.target, !.wanted = ma.selected, !.clean = q]
  BY DEF SaveAssignment
<1>2. c \in SUBSET AssignableIds /\ k \in {"idle", "updates", "refetch"} /\ n \in Nat /\ q \in BOOLEAN
      /\ (k = "updates" <=> c # {}) /\ k # "idle"
  BY <1>b DEF ChangedServices
<1>3. \A id \in AssignableIds : NextTemplateIds(id) \in SUBSET TemplateIds
  BY <1>b DEF NextTemplateIds, Lists
<1>4. \A id \in AssignableIds : U(id) \in Updates BY <1>2, <1>3, <1>b DEF Updates
<1>5. new \in SUBSET Updates BY <1>2, <1>4
<1>6. sent \in SUBSET Updates BY <1>5, <1>b
<1>7. q => sent = new /\ ma.cached = ma.server OBVIOUS
<1>8. \A id \in c : U(id).save = n /\ U(id).template = ma.target /\ U(id).id = id /\ U(id).list = NextTemplateIds(id)
  OBVIOUS
<1>9. \A id \in AssignableIds : id \notin c => (id \in ma.selected <=> ma.target \in ma.cached[id])
  BY DEF ChangedServices
<1>10. /\ \A oneUpdate \in new : \E id \in c : oneUpdate = U(id)
       /\ \A id \in c : U(id) \in new
  OBVIOUS
<1> HIDE DEF c, k, n, U, new, sent, q
<1>11. ma' \in MAState
  <2> DEFINE r == [ma EXCEPT !.phase = k, !.error = FALSE, !.saves = n, !.waiting = c]
  <2>0. ma \in MAState BY <1>a
  <2>1. r \in MAState BY <2>0, <1>2 DEF MAState
  <2>2. ma' = [r EXCEPT !.sent = sent, !.template = ma.target, !.wanted = ma.selected, !.clean = q] BY <1>1
  <2> HIDE DEF r
  <2> QED BY <1>2, <1>6, <1>b, <2>1, <2>2 DEF MAState
<1>12. /\ ma'.server = ma.server /\ ma'.cached = ma.cached /\ ma'.target = ma.target /\ ma'.selected = ma.selected
       /\ ma'.toggled = ma.toggled /\ ma'.phase = k /\ ma'.sent = sent /\ ma'.waiting = c /\ ma'.saves = n
       /\ ma'.template = ma.target /\ ma'.wanted = ma.selected /\ ma'.clean = q
  BY <1>1, <1>a DEF MAState
<1>13. MarksOfData(ma') BY <1>a, <1>12 DEF MASound, MarksOfData
<1>14. WaitsForUpdates(ma') BY <1>2, <1>12 DEF WaitsForUpdates
<1>15. CleanSave(ma')
  <2>1. ASSUME NEW id \in c, q PROVE OwnList(ma', U(id))
    <3>1. U(id).id = id /\ U(id).list = NextTemplateIds(id) /\ ma.cached = ma.server BY <1>7, <1>8, <2>1
    <3>2. NextTemplateIds(id) = IF id \in ma.selected THEN ma.server[id] \union {ma.target} ELSE ma.server[id] \ {ma.target}
      BY <3>1 DEF NextTemplateIds
    <3> QED BY <1>12, <3>1, <3>2 DEF OwnList
  <2>2. q => \A oneUpdate \in sent :
           oneUpdate.save = n /\ oneUpdate.template = ma.target /\ oneUpdate.id \in c /\ OwnList(ma', oneUpdate)
    BY <1>7, <1>8, <1>10, <2>1
  <2>3. q => \A oneUpdate, other \in sent : oneUpdate.id = other.id => oneUpdate = other
    BY <1>7, <1>8, <1>10
  <2>4. q => \A id \in c : \E oneUpdate \in sent : oneUpdate.id = id
    BY <1>7, <1>8, <1>10
  <2>5. q => \A id \in AssignableIds \ c : id \in ma.selected <=> ma.target \in ma.server[id]
    BY <1>7, <1>9
  <2> QED BY <1>12, <2>2, <2>3, <2>4, <2>5 DEF CleanSave
<1>16. ma.sent \subseteq ma'.sent BY <1>12 DEF sent
<1> QED BY <1>11, <1>13, <1>14, <1>15, <1>16 DEF MAInv, MASound

\* An oneUpdate is answered: it is applied, rejected, or both.
LEMMA AnsweredMarks ==
  ASSUME MAInv, NEW oneUpdate \in ma.sent, NEW l \in SUBSET TemplateIds, NEW q \in BOOLEAN,
         NEW k \in {"idle", "updates", "refetch"}, NEW e \in BOOLEAN, NEW w \in SUBSET AssignableIds,
         ma' = [ma EXCEPT !.sent = @ \ {oneUpdate}, !.server[oneUpdate.id] = l, !.clean = q, !.phase = k, !.error = e, !.waiting = w],
         k = "updates" <=> w # {},
         q => /\ ma.clean /\ l = oneUpdate.list /\ w = ma.waiting \ {oneUpdate.id} /\ k # "idle"
  PROVE  MAInv' /\ ma'.sent = ma.sent \ {oneUpdate}
<1>a. ma \in MAState /\ MASound(ma) BY DEF MAInv
<1>b. ma.server \in Lists /\ ma.sent \in SUBSET Updates BY <1>a DEF MAState
<1>c. oneUpdate \in Updates BY <1>b
<1>d. oneUpdate.id \in AssignableIds BY <1>c DEF Updates
<1> DEFINE v == [ma.server EXCEPT ![oneUpdate.id] = l]
           sent == ma.sent \ {oneUpdate}
<1>1. v \in Lists /\ sent \in SUBSET Updates /\ v[oneUpdate.id] = l /\ \A id \in AssignableIds : id # oneUpdate.id => v[id] = ma.server[id]
  BY <1>b, <1>d DEF Lists
<1>2. ma' = [ma EXCEPT !.sent = sent, !.server = v, !.clean = q, !.phase = k, !.error = e, !.waiting = w]
  BY <1>a DEF MAState
<1>3. \A u : u \in sent <=> u \in ma.sent /\ u # oneUpdate OBVIOUS
<1> HIDE DEF v, sent
<1>4. ma' \in MAState
  <2> DEFINE r == [ma EXCEPT !.sent = sent, !.server = v, !.clean = q]
  <2>0. ma \in MAState BY <1>a
  <2>1. r \in MAState BY <2>0, <1>1 DEF MAState
  <2>2. ma' = [r EXCEPT !.phase = k, !.error = e, !.waiting = w] BY <1>2
  <2> HIDE DEF r
  <2> QED BY <2>1, <2>2 DEF MAState
<1>5. /\ ma'.server = v /\ ma'.cached = ma.cached /\ ma'.target = ma.target /\ ma'.selected = ma.selected
      /\ ma'.toggled = ma.toggled /\ ma'.phase = k /\ ma'.sent = sent /\ ma'.waiting = w /\ ma'.saves = ma.saves
      /\ ma'.template = ma.template /\ ma'.wanted = ma.wanted /\ ma'.clean = q
  BY <1>2, <1>a DEF MAState
<1>6. MarksOfData(ma') BY <1>a, <1>5 DEF MASound, MarksOfData
<1>7. WaitsForUpdates(ma') BY <1>5 DEF WaitsForUpdates
<1>8. CleanSave(ma')
  <2> SUFFICES ASSUME q PROVE CleanSave(ma') BY <1>5 DEF CleanSave
  <2>1. /\ \A u \in ma.sent : u.save = ma.saves /\ u.template = ma.template /\ u.id \in ma.waiting /\ OwnList(ma, u)
        /\ \A u, o \in ma.sent : u.id = o.id => u = o
        /\ \A id \in ma.waiting : \E u \in ma.sent : u.id = id
        /\ \A id \in AssignableIds \ ma.waiting : id \in ma.wanted <=> ma.template \in ma.server[id]
    <3>1. ma.phase # "idle"
      <4>1. oneUpdate.id \in ma.waiting BY <1>a DEF MASound, CleanSave
      <4> QED BY <1>a, <4>1 DEF MASound, WaitsForUpdates
    <3> QED BY <1>a, <3>1 DEF MASound, CleanSave
  <2>2. \A u \in sent : u.id # oneUpdate.id /\ u.id \in AssignableIds BY <1>3, <1>b, <2>1 DEF Updates
  <2>3. \A u \in sent : v[u.id] = ma.server[u.id] BY <1>1, <2>2
  <2>4. \A u \in sent : OwnList(ma', u)
    <3> TAKE u \in sent
    <3>1. OwnList(ma, u) /\ v[u.id] = ma.server[u.id] BY <1>3, <2>1, <2>3
    <3> QED BY <1>5, <3>1 DEF OwnList
  <2>5. \A u \in sent : u.save = ma.saves /\ u.template = ma.template /\ u.id \in w /\ OwnList(ma', u)
    BY <1>3, <2>1, <2>2, <2>4
  <2>6. \A u, o \in sent : u.id = o.id => u = o BY <1>3, <2>1
  <2>7. \A id \in w : \E u \in sent : u.id = id BY <1>3, <2>1
  <2>8. \A id \in AssignableIds \ w : id \in ma.wanted <=> ma.template \in v[id]
    <3>1. oneUpdate.id \in ma.wanted <=> ma.template \in l
      <4>1. OwnList(ma, oneUpdate) /\ l = oneUpdate.list BY <2>1
      <4> QED BY <4>1 DEF OwnList
    <3> TAKE id \in AssignableIds \ w
    <3>2. CASE id = oneUpdate.id BY <1>1, <3>1, <3>2
    <3>3. CASE id # oneUpdate.id
      <4>1. id \in AssignableIds \ ma.waiting /\ v[id] = ma.server[id] BY <1>1, <3>3
      <4> QED BY <2>1, <4>1
    <3> QED BY <3>2, <3>3
  <2> QED BY <1>5, <2>5, <2>6, <2>7, <2>8 DEF CleanSave
<1> QED BY <1>4, <1>5, <1>6, <1>7, <1>8 DEF MAInv, MASound, sent


LEMMA UpdateStep ==
  ASSUME MAInv, NEW oneUpdate \in ma.sent, UpdateSucceeds(oneUpdate) \/ \E applied \in BOOLEAN : UpdateRejected(oneUpdate, applied)
  PROVE  MAInv' /\ ma'.sent = ma.sent \ {oneUpdate}
<1>a. ma \in MAState /\ MASound(ma) BY DEF MAInv
<1>b. /\ ma.server \in Lists /\ ma.sent \in SUBSET Updates /\ ma.phase \in {"idle", "updates", "refetch"}
      /\ ma.error \in BOOLEAN /\ ma.waiting \in SUBSET AssignableIds /\ ma.clean \in BOOLEAN
      /\ (ma.phase = "updates" <=> ma.waiting # {})
  BY <1>a DEF MAState, MASound, WaitsForUpdates
<1>c. oneUpdate.list \in SUBSET TemplateIds /\ oneUpdate.id \in AssignableIds BY <1>b DEF Updates
<1>1. CASE UpdateSucceeds(oneUpdate)
  <2> DEFINE s == [ma EXCEPT !.sent = @ \ {oneUpdate}, !.server[oneUpdate.id] = oneUpdate.list]
             w == ma.waiting \ {oneUpdate.id}
             k == IF AllSucceeded(w) THEN "refetch" ELSE "updates"
  <2>1. ma' = UpdateAnswered(oneUpdate, s) BY <1>1 DEF UpdateSucceeds
  <2>2. CASE ma.phase # "updates" \/ oneUpdate.save # ma.saves
    <3>1. ma' = s BY <2>1, <2>2 DEF UpdateAnswered
    <3>2. ma.clean => oneUpdate.save = ma.saves /\ oneUpdate.id \in ma.waiting BY <1>a DEF MASound, CleanSave
    <3>3. ma.clean = FALSE BY <2>2, <3>2, <1>b
    <3>4. ma' = [ma EXCEPT !.sent = @ \ {oneUpdate}, !.server[oneUpdate.id] = oneUpdate.list, !.clean = FALSE,
                           !.phase = ma.phase, !.error = ma.error, !.waiting = ma.waiting]
      BY <1>a, <3>1, <3>3 DEF MAState
    <3> DEFINE q == FALSE
               k2 == ma.phase
               l == oneUpdate.list
               w2 == ma.waiting
               e == ma.error
    <3>5. /\ q \in BOOLEAN /\ ~q /\ k2 \in {"idle", "updates", "refetch"} /\ l \in SUBSET TemplateIds /\ e \in BOOLEAN
          /\ w2 \in SUBSET AssignableIds /\ (k2 = "updates" <=> w2 # {})
      BY <1>b, <1>c
    <3>6. ma' = [ma EXCEPT !.sent = @ \ {oneUpdate}, !.server[oneUpdate.id] = l, !.clean = q, !.phase = k2, !.error = e, !.waiting = w2]
      BY <3>4
    <3> HIDE DEF q, k2, l, w2, e
    <3> QED BY <3>5, <3>6, AnsweredMarks
  <2>3. CASE ma.phase = "updates" /\ oneUpdate.save = ma.saves
    <3>1. ma' = [s EXCEPT !.waiting = w, !.phase = k] BY <2>1, <2>3 DEF UpdateAnswered
    <3>2. w \in SUBSET AssignableIds /\ k \in {"idle", "updates", "refetch"} /\ (k = "updates" <=> w # {}) /\ k # "idle"
          /\ w = ma.waiting \ {oneUpdate.id}
      BY <1>b DEF AllSucceeded
    <3> HIDE DEF w, k
    <3>3. ma' = [ma EXCEPT !.sent = @ \ {oneUpdate}, !.server[oneUpdate.id] = oneUpdate.list, !.clean = ma.clean,
                           !.phase = k, !.error = ma.error, !.waiting = w]
      BY <1>a, <3>1 DEF MAState
    <3> DEFINE q == ma.clean
               l == oneUpdate.list
               e == ma.error
    <3>5. /\ q \in BOOLEAN /\ l \in SUBSET TemplateIds /\ e \in BOOLEAN
          /\ (q => ma.clean /\ l = oneUpdate.list /\ w = ma.waiting \ {oneUpdate.id} /\ k # "idle")
      BY <1>b, <1>c, <3>2
    <3>6. ma' = [ma EXCEPT !.sent = @ \ {oneUpdate}, !.server[oneUpdate.id] = l, !.clean = q, !.phase = k, !.error = e, !.waiting = w]
      BY <3>3
    <3> HIDE DEF q, l, e
    <3>7. /\ w \in SUBSET AssignableIds /\ k \in {"idle", "updates", "refetch"} /\ (k = "updates" <=> w # {}) BY <3>2
    <3> QED BY ONLY MAInv, oneUpdate \in ma.sent, <3>5, <3>6, <3>7, AnsweredMarks
  <2> QED BY <2>2, <2>3
<1>2. ASSUME NEW applied \in BOOLEAN, UpdateRejected(oneUpdate, applied) PROVE MAInv' /\ ma'.sent = ma.sent \ {oneUpdate}
  <2> DEFINE l == IF applied THEN oneUpdate.list ELSE ma.server[oneUpdate.id]
             s == [ma EXCEPT !.sent = @ \ {oneUpdate}, !.clean = FALSE, !.server[oneUpdate.id] = l]
  <2>1. l \in SUBSET TemplateIds BY <1>b, <1>c DEF Lists
  <2>2. ma' = IF ma.phase = "updates" /\ oneUpdate.save = ma.saves
                THEN [s EXCEPT !.phase = "idle", !.error = TRUE, !.waiting = {}] ELSE s
    BY <1>2 DEF UpdateRejected
  <2> HIDE DEF l
  <2>3. CASE ma.phase = "updates" /\ oneUpdate.save = ma.saves
    <3> DEFINE q == FALSE
               k == "idle"
               w == {}
               e == TRUE
    <3>1. /\ q \in BOOLEAN /\ ~q /\ k \in {"idle", "updates", "refetch"} /\ e \in BOOLEAN
          /\ w \in SUBSET AssignableIds /\ (k = "updates" <=> w # {})
      OBVIOUS
    <3>2. ma' = [ma EXCEPT !.sent = @ \ {oneUpdate}, !.server[oneUpdate.id] = l, !.clean = q, !.phase = k, !.error = e, !.waiting = w]
      BY <2>2, <2>3
    <3> HIDE DEF q, k, w, e
    <3> QED BY <2>1, <3>1, <3>2, AnsweredMarks
  <2>4. CASE ~(ma.phase = "updates" /\ oneUpdate.save = ma.saves)
    <3>1. ma' = s BY <2>2, <2>4
    <3>2. ma' = [ma EXCEPT !.sent = @ \ {oneUpdate}, !.server[oneUpdate.id] = l, !.clean = FALSE,
                           !.phase = ma.phase, !.error = ma.error, !.waiting = ma.waiting]
      BY <1>a, <3>1 DEF MAState
    <3> QED BY <1>b, <2>1, <3>2, AnsweredMarks
  <2> QED BY <2>3, <2>4
<1> QED BY <1>1, <1>2

LEMMA MAStep == MAInv /\ MANext => MAInv'
<1> SUFFICES ASSUME MAInv, MANext PROVE MAInv' OBVIOUS
<1>1. CASE CloseAssignment \/ \E template \in TemplateIds : OpenAssignment(template) BY <1>1, DialogStep
<1>2. CASE \E id \in AssignableIds : toggleServiceSelection(id) BY <1>2, ToggleStep
<1>3. CASE AssignedRefetched \/ SaveDone BY <1>3, RefetchStep
<1>4. CASE SaveAssignment BY <1>4, SaveAssignmentStep
<1>5. ASSUME NEW oneUpdate \in ma.sent, UpdateSucceeds(oneUpdate) \/ \E applied \in BOOLEAN : UpdateRejected(oneUpdate, applied)
      PROVE  MAInv'
  BY <1>5, UpdateStep
<1> QED BY <1>1, <1>2, <1>3, <1>4, <1>5 DEF MANext

LEMMA MAHolds == MAInv => MATypeOK /\ AssignedAsChecked /\ UntouchedDialogSendsNothing
<1> SUFFICES ASSUME MAInv PROVE MATypeOK /\ AssignedAsChecked /\ UntouchedDialogSendsNothing OBVIOUS
<1>a. ma \in MAState /\ MASound(ma) BY DEF MAInv
<1>b. ma.server \in Lists /\ ma.cached \in Lists /\ ma.wanted \in SUBSET AssignableIds
      /\ ma.target \in TemplateIds \union {NoTemplate} /\ ma.selected \in SUBSET AssignableIds
      /\ ma.phase \in {"idle", "updates", "refetch"}
  BY <1>a DEF MAState
<1>1. MATypeOK BY <1>a, <1>b DEF MATypeOK, MASound, WaitsForUpdates, Lists
<1>2. AssignedAsChecked
  <2> SUFFICES ASSUME ma.clean, ma.phase = "refetch" PROVE AppliedServices(ma.server, ma.template) = ma.wanted
    BY DEF AssignedAsChecked
  <2>1. ma.waiting = {} BY <1>a DEF MASound, WaitsForUpdates
  <2>2. \A id \in AssignableIds : id \in ma.wanted <=> ma.template \in ma.server[id] BY <1>a, <2>1 DEF MASound, CleanSave
  <2> QED BY <1>b, <2>2 DEF AppliedServices
<1>3. UntouchedDialogSendsNothing
  BY <1>a DEF UntouchedDialogSendsNothing, ChangedServices, MASound, MarksOfData
<1> QED BY <1>1, <1>2, <1>3

LEMMA MAOwnTemplate == MAInv /\ MANext /\ ma.clean => OwnTemplateOnly
<1> SUFFICES ASSUME MAInv, MANext, ma.clean, NEW u \in ma.sent, u \notin ma'.sent
             PROVE  ma'.server[u.id] \ {u.template} = ma.server[u.id] \ {u.template}
  BY DEF OwnTemplateOnly
<1>a. ma \in MAState /\ MASound(ma) BY DEF MAInv
<1>1. ~(CloseAssignment \/ \E template \in TemplateIds : OpenAssignment(template)) BY DialogStep
<1>2. ~(\E id \in AssignableIds : toggleServiceSelection(id)) BY ToggleStep
<1>3. ~(AssignedRefetched \/ SaveDone) BY RefetchStep
<1>4. ~SaveAssignment BY SaveAssignmentStep
<1>5. PICK oneUpdate \in ma.sent : UpdateSucceeds(oneUpdate) \/ \E applied \in BOOLEAN : UpdateRejected(oneUpdate, applied)
  BY <1>1, <1>2, <1>3, <1>4 DEF MANext
<1>6. u = oneUpdate BY <1>5, UpdateStep
<1>7. u.template = ma.template /\ OwnList(ma, u) BY <1>a DEF MASound, CleanSave
<1>8. ma.server \in Lists /\ u.id \in AssignableIds
  <2>1. ma.server \in Lists /\ ma.sent \in SUBSET Updates BY <1>a DEF MAState
  <2> QED BY <2>1 DEF Updates
<1>9. ma'.server[u.id] = u.list \/ ma'.server[u.id] = ma.server[u.id]
  <2>1. CASE UpdateSucceeds(u)
    <3> DEFINE s == [ma EXCEPT !.sent = @ \ {u}, !.server[u.id] = u.list]
    <3>1. s.server[u.id] = u.list BY <1>a, <1>8 DEF MAState, Lists
    <3>2. ma'.server = s.server BY <1>a, <2>1 DEF UpdateSucceeds, UpdateAnswered, MAState
    <3> QED BY <3>1, <3>2
  <2>2. ASSUME NEW applied \in BOOLEAN, UpdateRejected(u, applied)
        PROVE  ma'.server[u.id] = u.list \/ ma'.server[u.id] = ma.server[u.id]
    <3> DEFINE s == [ma EXCEPT !.sent = @ \ {u}, !.clean = FALSE, !.server[u.id] = IF applied THEN u.list ELSE @]
    <3>1. s.server[u.id] = (IF applied THEN u.list ELSE ma.server[u.id]) BY <1>a, <1>8 DEF MAState, Lists
    <3>2. ma'.server = s.server BY <1>a, <2>2 DEF UpdateRejected, MAState
    <3> QED BY <3>1, <3>2
  <2> QED BY <1>5, <1>6, <2>1, <2>2
<1> QED BY <1>7, <1>9 DEF OwnList

-----------------------------------------------------------------------------
(* Redirect hosts and users (CatalogPages). *)

Entries == Rows \union {NoRow}
EntryForms == [name : {"", "n1", "n2"}, secret : {"", "p2"}]
EntryDialogs ==
    [op : Operations, id : EntryIds \union {0}, form : EntryForms, base : Entries, typed : SUBSET {"name", "secret"}]
EntryRequests ==
    {NoRequest} \union [phase : {"sent"}, dialog : EntryDialogs]
      \union [phase : {"refetch"}, dialog : EntryDialogs, id : EntryIds, row : Entries]
Catalog == [EntryIds -> Entries]

CTState ==
    [kind : CatalogKinds, server : Catalog, cached : Catalog, dialog : EntryDialogs \union {NoDialog},
     request : [Operations -> EntryRequests], requests : Nat, failed : [Operations -> BOOLEAN],
     others : {0, 1}, saved : EntryRequests]

\* An edit that was opened and sent: fields that were not typed are those
\* of the entry on screen, and the password field is empty.
EditOfEntry(d) ==
    d.op = "edit" =>
      /\ d.id \in EntryIds /\ d.base \in Rows
      /\ d.form.name # d.base.name => "name" \in d.typed
      /\ d.form.secret # "" => "secret" \in d.typed

\* What was sent could be sent: an edit by the edit dialog, and so on.
SentSound(s) ==
    \A op \in Operations :
      s.request[op].phase = "sent" =>
        LET d == s.request[op].dialog
        IN  d.op = op /\ EditOfEntry(d) /\ (op # "delete" => d.form.name # "")

SavedIsShown(s) ==
    s.saved # NoRequest => (s.server[s.saved.id] = s.saved.row => s.cached[s.saved.id] = s.saved.row)

CTSound(s) == (s.dialog # NoDialog => EditOfEntry(s.dialog)) /\ SentSound(s) /\ SavedIsShown(s)
CTInv == ct \in CTState /\ CTSound(ct)

LEMMA CTInitially == CTMounted => CTInv
<1> SUFFICES ASSUME CTMounted PROVE CTInv OBVIOUS
<1> DEFINE first == CHOOSE id \in EntryIds : TRUE
           seedRows == [id \in EntryIds |-> IF id = first THEN [name |-> "n1", secret |-> "p1"] ELSE NoRow]
<1>1. PICK kind \in CatalogKinds :
        ct = [kind |-> kind, server |-> seedRows, cached |-> seedRows, dialog |-> NoDialog,
              request |-> [op \in Operations |-> NoRequest], requests |-> 0,
              failed |-> [op \in Operations |-> FALSE], others |-> 0,
              saved |-> NoRequest]
  BY DEF CTMounted
<1>2. seedRows \in Catalog
  <2>1. [name |-> "n1", secret |-> "p1"] \in Entries /\ NoRow \in Entries BY DEF Entries, Rows
  <2> HIDE DEF first
  <2> QED BY <2>1 DEF Catalog
<1>3. NoRequest \in EntryRequests BY DEF EntryRequests
<1> HIDE DEF seedRows
<1>4. ct \in CTState BY <1>1, <1>2, <1>3 DEF CTState
<1>5. CTSound(ct) BY <1>1 DEF CTSound, SentSound, SavedIsShown, NoRequest
<1> QED BY <1>4, <1>5 DEF CTInv

\* The dialogs.
LEMMA DialogStepCT ==
  ASSUME CTInv, NEW d \in EntryDialogs \union {NoDialog}, d # NoDialog => EditOfEntry(d), ct' = [ct EXCEPT !.dialog = d]
  PROVE  CTInv'
<1>a. ct \in CTState /\ CTSound(ct) BY DEF CTInv
<1>1. ct' \in CTState
  <2>1. ct \in CTState BY <1>a
  <2> QED BY <2>1 DEF CTState
<1>2. /\ ct'.dialog = d /\ ct'.server = ct.server /\ ct'.cached = ct.cached /\ ct'.request = ct.request /\ ct'.saved = ct.saved
  BY <1>a DEF CTState
<1>3. CTSound(ct') BY <1>a, <1>2 DEF CTSound, SentSound, SavedIsShown
<1> QED BY <1>1, <1>3 DEF CTInv

LEMMA DialogsStep ==
  CTInv /\ \/ OpenCreate \/ CancelDialog
           \/ \E id \in EntryIds : OpenRow("edit", id) \/ OpenRow("delete", id)
    => CTInv'
<1>1. ASSUME CTInv, OpenCreate PROVE CTInv'
  <2> DEFINE f == [name |-> "", secret |-> ""]
             d == [op |-> "create", id |-> 0, form |-> f, base |-> NoRow, typed |-> {}]
  <2>1. f \in EntryForms BY DEF EntryForms
  <2> HIDE DEF f
  <2>2. d \in EntryDialogs BY <2>1 DEF EntryDialogs, Operations, Entries
  <2>3. EditOfEntry(d) BY DEF EditOfEntry
  <2>4. ct' = [ct EXCEPT !.dialog = d] BY <1>1 DEF OpenCreate, f
  <2> HIDE DEF d
  <2> QED BY <1>1, <2>2, <2>3, <2>4, DialogStepCT
<1>2. ASSUME CTInv, CancelDialog PROVE CTInv' BY <1>2, DialogStepCT DEF CancelDialog
<1>3. ASSUME CTInv, NEW id \in EntryIds, NEW op \in {"edit", "delete"}, OpenRow(op, id) PROVE CTInv'
  <2> DEFINE b == ct.cached[id]
             f == FormOf(b)
             d == [op |-> op, id |-> id, form |-> f, base |-> b, typed |-> {}]
  <2>1. b \in Rows
    <3>1. ct.cached \in Catalog BY <1>3 DEF CTInv, CTState
    <3> QED BY <1>3, <3>1 DEF OpenRow, Catalog, Entries
  <2>2. f \in EntryForms /\ f.name = b.name /\ f.secret = "" BY <2>1 DEF EntryForms, FormOf, Rows
  <2>3. ct' = [ct EXCEPT !.dialog = d] BY <1>3 DEF OpenRow
  <2> HIDE DEF f, b
  <2>4. d \in EntryDialogs BY <2>1, <2>2 DEF EntryDialogs, Operations, Entries
  <2>5. EditOfEntry(d) BY <2>1, <2>2 DEF EditOfEntry
  <2> HIDE DEF d
  <2> QED BY <1>3, <2>3, <2>4, <2>5, DialogStepCT
<1> QED BY <1>1, <1>2, <1>3

LEMMA TypeIntoStep ==
  ASSUME CTInv, NEW field \in {"name", "secret"}, NEW value \in {"n2", "p2"}, TypeInto(field, value),
         (field = "name" <=> value = "n2")
  PROVE  CTInv'
<1>a. ct \in CTState /\ CTSound(ct) BY DEF CTInv
<1>1. ct.dialog \in EntryDialogs /\ ct.dialog # NoDialog
  <2>1. ct.dialog \in EntryDialogs \union {NoDialog} BY <1>a DEF CTState
  <2>2. ct.dialog # NoDialog BY DEF TypeInto, NoDialog
  <2> QED BY <2>1, <2>2
<1>2. EditOfEntry(ct.dialog) BY <1>a, <1>1 DEF CTSound
<1> DEFINE f == [ct.dialog.form EXCEPT ![field] = value]
           t == ct.dialog.typed \union {field}
           d == [ct.dialog EXCEPT !.form = f, !.typed = t]
<1>3. ct.dialog.form \in EntryForms /\ ct.dialog.typed \in SUBSET {"name", "secret"} BY <1>1 DEF EntryDialogs
<1>4. f \in EntryForms /\ (field = "name" => f.secret = ct.dialog.form.secret) /\ (field = "secret" => f.name = ct.dialog.form.name)
  <2>1. CASE field = "name" BY <1>3, <2>1 DEF EntryForms
  <2>2. CASE field = "secret" BY <1>3, <2>2 DEF EntryForms
  <2> QED BY <2>1, <2>2
<1>5. t \in SUBSET {"name", "secret"} /\ field \in t /\ ct.dialog.typed \subseteq t BY <1>3
<1>6. ct' = [ct EXCEPT !.dialog = d]
  <2>1. ct' = [ct EXCEPT !.dialog.form[field] = value, !.dialog.typed = @ \union {field}] BY DEF TypeInto
  <2> QED BY <2>1, <1>1, <1>a DEF CTState, EntryDialogs
<1> HIDE DEF f, t
<1>7. d \in EntryDialogs BY <1>1, <1>4, <1>5 DEF EntryDialogs
<1>8. d.op = ct.dialog.op /\ d.id = ct.dialog.id /\ d.base = ct.dialog.base /\ d.form = f /\ d.typed = t
  BY <1>1 DEF EntryDialogs
<1> HIDE DEF d
<1>9. EditOfEntry(d) BY <1>2, <1>4, <1>5, <1>8 DEF EditOfEntry
<1> QED BY <1>6, <1>7, <1>9, DialogStepCT


LEMMA SubmitStep == CTInv /\ Submit => CTInv'
<1> SUFFICES ASSUME CTInv, Submit PROVE CTInv' OBVIOUS
<1>a. ct \in CTState /\ CTSound(ct) BY DEF CTInv
<1>1. ct.dialog \in EntryDialogs /\ ct.dialog # NoDialog BY <1>a DEF CTState, Submit
<1> DEFINE o == ct.dialog.op
           v == [phase |-> "sent", dialog |-> ct.dialog]
           q == [ct.request EXCEPT ![o] = v]
           f == [ct.failed EXCEPT ![o] = FALSE]
           n == ct.requests + 1
<1>2. o \in Operations BY <1>1 DEF EntryDialogs
<1>3. v \in EntryRequests BY <1>1 DEF EntryRequests
<1>b. ct.request \in [Operations -> EntryRequests] /\ ct.failed \in [Operations -> BOOLEAN] /\ ct.requests \in Nat
  BY <1>a DEF CTState
<1>4. q \in [Operations -> EntryRequests] /\ q[o] = v /\ \A p \in Operations : p # o => q[p] = ct.request[p]
  BY <1>b, <1>2, <1>3
<1>5. f \in [Operations -> BOOLEAN] /\ n \in Nat BY <1>b, <1>2
<1>6. ct' = [ct EXCEPT !.request = q, !.failed = f, !.requests = n] BY <1>a DEF Submit, CTState
<1>7. o # "delete" => ct.dialog.form.name # "" BY DEF Submit, FormAccepted
<1>8. v.dialog = ct.dialog OBVIOUS
<1> HIDE DEF q, f, n, v
<1>9. ct' \in CTState
  <2>1. ct \in CTState BY <1>a
  <2> QED BY <1>4, <1>5, <1>6, <2>1 DEF CTState
<1>10. /\ ct'.dialog = ct.dialog /\ ct'.server = ct.server /\ ct'.cached = ct.cached /\ ct'.request = q /\ ct'.saved = ct.saved
  BY <1>6, <1>a DEF CTState
<1>11. SentSound(ct')
  <2> SUFFICES ASSUME NEW op \in Operations, q[op].phase = "sent"
               PROVE  q[op].dialog.op = op /\ EditOfEntry(q[op].dialog) /\ (op # "delete" => q[op].dialog.form.name # "")
    BY <1>10 DEF SentSound
  <2>1. CASE op = o
    <3>1. q[op].dialog = ct.dialog BY <1>4, <1>8, <2>1
    <3>2. EditOfEntry(ct.dialog) BY <1>a, <1>1 DEF CTSound
    <3> QED BY <1>7, <2>1, <3>1, <3>2
  <2>2. CASE op # o BY <1>4, <1>a, <2>2 DEF CTSound, SentSound
  <2> QED BY <2>1, <2>2
<1>12. SavedIsShown(ct') BY <1>a, <1>10 DEF CTSound, SavedIsShown
<1>13. ct.dialog # NoDialog => EditOfEntry(ct.dialog) BY <1>a DEF CTSound
<1> QED BY <1>9, <1>10, <1>11, <1>12, <1>13 DEF CTInv, CTSound

\* The answer of a request changes the server, the list or the dialogs.
LEMMA RequestMoves ==
  ASSUME CTInv, NEW op \in Operations, NEW v \in EntryRequests, v.phase # "sent",
         NEW srv \in Catalog, NEW cch \in Catalog, NEW d \in EntryDialogs \union {NoDialog},
         d # NoDialog => d = ct.dialog, NEW q \in [Operations -> EntryRequests],
         q[op] = v, \A p \in Operations : p # op => q[p] = ct.request[p],
         NEW f \in [Operations -> BOOLEAN], NEW u \in EntryRequests,
         ct' = [ct EXCEPT !.request = q, !.server = srv, !.cached = cch, !.dialog = d, !.failed = f, !.saved = u],
         u # NoRequest => (srv[u.id] = u.row => cch[u.id] = u.row)
  PROVE  CTInv'
<1>a. ct \in CTState /\ CTSound(ct) BY DEF CTInv
<1>1. q \in [Operations -> EntryRequests] /\ q[op] = v /\ \A p \in Operations : p # op => q[p] = ct.request[p] OBVIOUS
<1>2. ct' = [ct EXCEPT !.request = q, !.server = srv, !.cached = cch, !.dialog = d, !.failed = f, !.saved = u] OBVIOUS
<1>3. ct' \in CTState
  <2> DEFINE r == [ct EXCEPT !.request = q, !.server = srv, !.cached = cch]
  <2>0. ct \in CTState BY <1>a
  <2>1. r \in CTState BY <2>0, <1>1 DEF CTState
  <2>2. ct' = [r EXCEPT !.dialog = d, !.failed = f, !.saved = u] BY <1>2
  <2> HIDE DEF r
  <2> QED BY <2>1, <2>2 DEF CTState
<1>4. ct'.dialog = d /\ ct'.server = srv /\ ct'.cached = cch /\ ct'.request = q /\ ct'.saved = u
  BY <1>2, <1>a DEF CTState
<1>5. SentSound(ct')
  <2> SUFFICES ASSUME NEW p \in Operations, q[p].phase = "sent"
               PROVE  q[p].dialog.op = p /\ EditOfEntry(q[p].dialog) /\ (p # "delete" => q[p].dialog.form.name # "")
    BY <1>4 DEF SentSound
  <2>1. p # op BY <1>1
  <2> QED BY <1>1, <1>a, <2>1 DEF CTSound, SentSound
<1>6. SavedIsShown(ct') BY <1>4 DEF SavedIsShown
<1>7. d # NoDialog => EditOfEntry(d) BY <1>a DEF CTSound
<1> QED BY <1>3, <1>4, <1>5, <1>6, <1>7 DEF CTInv, CTSound

\* What the backend makes of a request.
LEMMA AppliedRow ==
  ASSUME CTInv, NEW op \in Operations, ct.request[op].phase = "sent", op # "delete", NEW id \in EntryIds,
         (op = "create") = (ct.server[id] = NoRow)
  PROVE  PayloadApplied(ct.request[op].dialog, ct.server[id]) \in Entries
<1>a. ct \in CTState /\ CTSound(ct) BY DEF CTInv
<1> DEFINE d == ct.request[op].dialog
           row == ct.server[id]
<1>1. d.form \in EntryForms /\ d.form.name # ""
  <2>1. ct.request[op] \in EntryRequests BY <1>a DEF CTState
  <2>2. d \in EntryDialogs BY <2>1 DEF EntryRequests, NoRequest
  <2>3. d.form.name # "" BY <1>a DEF CTSound, SentSound
  <2> QED BY <2>2, <2>3 DEF EntryDialogs
<1>2. row \in Entries
  <2>1. ct.server \in Catalog BY <1>a DEF CTState
  <2> QED BY <2>1 DEF Catalog
<1> HIDE DEF d, row
<1> DEFINE n == d.form.name
           e == CASE d.form.secret # "" -> d.form.secret
                  [] d.form.secret = "" /\ row # NoRow -> row.secret
                  [] d.form.secret = "" /\ row = NoRow -> "p1"
<1>3. n \in {"n1", "n2"} BY <1>1 DEF EntryForms
<1>4. e \in {"p1", "p2"}
  <2>1. CASE d.form.secret # "" BY <1>1, <2>1 DEF EntryForms
  <2>2. CASE d.form.secret = "" /\ row # NoRow BY <1>2, <2>2 DEF Entries, Rows
  <2>3. CASE d.form.secret = "" /\ row = NoRow BY <2>3
  <2> QED BY <2>1, <2>2, <2>3
<1>5. PayloadApplied(d, row) = [name |-> n, secret |-> e] BY DEF PayloadApplied
<1> HIDE DEF n, e
<1>6. PayloadApplied(d, row) \in Entries BY <1>3, <1>4, <1>5 DEF Entries, Rows
<1> QED BY <1>6 DEF d, row

LEMMA AnswerStep == ASSUME CTInv, NEW op \in Operations, RequestApplied(op) \/ RequestFails(op) \/ RequestDone(op) PROVE CTInv'
<1>a. ct \in CTState /\ CTSound(ct) BY DEF CTInv
<1>b. /\ ct.request \in [Operations -> EntryRequests] /\ ct.failed \in [Operations -> BOOLEAN] /\ ct.server \in Catalog
      /\ ct.cached \in Catalog /\ ct.dialog \in EntryDialogs \union {NoDialog} /\ ct.saved \in EntryRequests
  BY <1>a DEF CTState
<1>c. NoRequest \in EntryRequests /\ NoRequest.phase # "sent" BY DEF EntryRequests, NoRequest
<1>d. ct.saved # NoRequest => (ct.server[ct.saved.id] = ct.saved.row => ct.cached[ct.saved.id] = ct.saved.row)
  BY <1>a DEF CTSound, SavedIsShown
<1>1. CASE RequestApplied(op)
  <2> DEFINE d == ct.request[op].dialog
  <2>1. PICK id \in EntryIds :
         /\ (op = "create") = (ct.server[id] = NoRow)
         /\ LET row == IF op = "delete" THEN NoRow ELSE PayloadApplied(d, ct.server[id])
            IN  ct' = [ct EXCEPT !.server[id] = row,
                         !.request[op] = [phase |-> "refetch", dialog |-> d, id |-> id, row |-> row],
                         !.saved = NoRequest]
    BY <1>1 DEF RequestApplied
  <2> DEFINE row == IF op = "delete" THEN NoRow ELSE PayloadApplied(d, ct.server[id])
             v == [phase |-> "refetch", dialog |-> d, id |-> id, row |-> row]
             srv == [ct.server EXCEPT ![id] = row]
  <2>2. ct.request[op].phase = "sent" BY <1>1 DEF RequestApplied
  <2>3. d \in EntryDialogs BY <1>b, <2>2 DEF EntryRequests, NoRequest
  <2>4. row \in Entries
    <3>1. op = "delete" => row = NoRow OBVIOUS
    <3>2. op # "delete" => row \in Entries BY <2>1, <2>2, AppliedRow
    <3> QED BY <3>1, <3>2 DEF Entries
  <2>5. v \in EntryRequests /\ v.phase # "sent"
    <3> HIDE DEF row, d
    <3> QED BY <2>3, <2>4 DEF EntryRequests
  <2>6. srv \in Catalog
    <3> HIDE DEF row
    <3> QED BY <1>b, <2>4 DEF Catalog
  <2>7. ct' = [ct EXCEPT !.server[id] = row, !.request[op] = v, !.saved = NoRequest] BY <2>1
  <2> HIDE DEF v, row
  <2>8. ct' = [ct EXCEPT !.request[op] = v, !.server = srv, !.cached = ct.cached, !.dialog = ct.dialog, !.failed = ct.failed,
                         !.saved = NoRequest]
    BY <1>a, <2>7 DEF CTState
  <2> HIDE DEF srv
  <2> DEFINE cch == ct.cached
             dlg == ct.dialog
             f == ct.failed
             u == NoRequest
             q == [ct.request EXCEPT ![op] = v]
  <2>9. /\ cch \in Catalog /\ dlg \in EntryDialogs \union {NoDialog} /\ (dlg # NoDialog => dlg = ct.dialog)
        /\ f \in [Operations -> BOOLEAN] /\ u \in EntryRequests
        /\ (u # NoRequest => (srv[u.id] = u.row => cch[u.id] = u.row))
    BY <1>b, <1>c
  <2>10. ct' = [ct EXCEPT !.request = q, !.server = srv, !.cached = cch, !.dialog = dlg, !.failed = f, !.saved = u]
    BY <1>a, <2>8 DEF CTState
  <2>11. q \in [Operations -> EntryRequests] /\ q[op] = v /\ \A p \in Operations : p # op => q[p] = ct.request[p]
    BY <1>b, <2>5
  <2> HIDE DEF cch, dlg, f, u, q
  <2> QED BY <2>11, <2>5, <2>6, <2>9, <2>10, RequestMoves
<1>2. CASE RequestFails(op)
  <2> DEFINE f == [ct.failed EXCEPT ![op] = TRUE]
  <2>1. f \in [Operations -> BOOLEAN] BY <1>b
  <2>2. ct' = [ct EXCEPT !.request[op] = NoRequest, !.server = ct.server, !.cached = ct.cached, !.dialog = ct.dialog,
                         !.failed = f, !.saved = ct.saved]
    BY <1>a, <1>2 DEF RequestFails, CTState
  <2> HIDE DEF f
  <2> DEFINE srv == ct.server
             cch == ct.cached
             dlg == ct.dialog
             u == ct.saved
             v == NoRequest
             q == [ct.request EXCEPT ![op] = v]
  <2>3. /\ cch \in Catalog /\ dlg \in EntryDialogs \union {NoDialog} /\ (dlg # NoDialog => dlg = ct.dialog)
        /\ srv \in Catalog /\ u \in EntryRequests /\ v \in EntryRequests /\ v.phase # "sent"
        /\ (u # NoRequest => (srv[u.id] = u.row => cch[u.id] = u.row))
    BY <1>b, <1>c, <1>d
  <2>4. ct' = [ct EXCEPT !.request = q, !.server = srv, !.cached = cch, !.dialog = dlg, !.failed = f, !.saved = u]
    BY <1>a, <2>2 DEF CTState
  <2>5. q \in [Operations -> EntryRequests] /\ q[op] = v /\ \A p \in Operations : p # op => q[p] = ct.request[p]
    BY <1>b, <2>3
  <2> HIDE DEF cch, dlg, u, v, srv, q
  <2> QED BY <2>5, <2>1, <2>3, <2>4, RequestMoves
<1>3. CASE RequestDone(op)
  <2> DEFINE d == IF ct.dialog.op = op THEN NoDialog ELSE ct.dialog
             u == ct.request[op]
  <2>1. d \in EntryDialogs \union {NoDialog} /\ (d # NoDialog => d = ct.dialog) BY <1>b
  <2>2. u \in EntryRequests BY <1>b
  <2>3. ct' = [ct EXCEPT !.request[op] = NoRequest, !.server = ct.server, !.cached = ct.server, !.dialog = d,
                         !.failed = ct.failed, !.saved = u]
    BY <1>a, <1>3 DEF RequestDone, Refetched, CTState
  <2> HIDE DEF d, u
  <2> DEFINE srv == ct.server
             f == ct.failed
             v == NoRequest
             q == [ct.request EXCEPT ![op] = v]
  <2>4. /\ srv \in Catalog /\ v \in EntryRequests /\ v.phase # "sent" /\ f \in [Operations -> BOOLEAN] BY <1>b, <1>c
  <2>5. q \in [Operations -> EntryRequests] /\ q[op] = v /\ \A p \in Operations : p # op => q[p] = ct.request[p]
    BY <1>b, <1>c
  <2>6. ct' = [ct EXCEPT !.request = q, !.server = srv, !.cached = srv, !.dialog = d, !.failed = f, !.saved = u]
    BY <1>a, <2>3 DEF CTState
  <2>7. u # NoRequest => (srv[u.id] = u.row => srv[u.id] = u.row) OBVIOUS
  <2> HIDE DEF srv, f, v, q
  <2> QED BY <2>1, <2>2, <2>4, <2>5, <2>6, <2>7, RequestMoves
<1> QED BY <1>1, <1>2, <1>3

LEMMA EntryListStep ==
  ASSUME CTInv, ListRefetched \/ \E id \in EntryIds : OtherRenames(id) PROVE CTInv'
<1>a. ct \in CTState /\ CTSound(ct) BY DEF CTInv
<1>0. ct.server \in Catalog BY <1>a DEF CTState
<1>1. PICK srv \in Catalog, cch \in Catalog, n \in {0, 1}, u \in EntryRequests :
        /\ ct' = [ct EXCEPT !.server = srv, !.cached = cch, !.others = n, !.saved = u]
        /\ u # NoRequest => (srv[u.id] = u.row => cch[u.id] = u.row)
  <2>1. CASE ListRefetched
    <3>1. ct' = [ct EXCEPT !.server = ct.server, !.cached = ct.server, !.others = ct.others, !.saved = ct.saved]
      BY <1>a, <2>1 DEF ListRefetched, Refetched, CTState
    <3>2. ct.server \in Catalog /\ ct.others \in {0, 1} /\ ct.saved \in EntryRequests BY <1>a DEF CTState
    <3> QED BY <3>1, <3>2
  <2>2. ASSUME NEW id \in EntryIds, OtherRenames(id)
        PROVE  \E srv \in Catalog : ct' = [ct EXCEPT !.server = srv, !.cached = ct.cached, !.others = 1, !.saved = NoRequest]
    <3> DEFINE e == [ct.server[id] EXCEPT !.name = IF @ = "n1" THEN "n2" ELSE "n1"]
               srv == [ct.server EXCEPT ![id] = e]
    <3>1. ct.server[id] \in Rows BY <1>0, <2>2 DEF OtherRenames, Catalog, Entries
    <3>2. e \in Entries BY <3>1 DEF Rows, Entries
    <3>3. ct' = [ct EXCEPT !.server = srv, !.cached = ct.cached, !.others = 1, !.saved = NoRequest]
      BY <1>a, <2>2 DEF OtherRenames, CTState, Catalog
    <3> HIDE DEF e
    <3>4. srv \in Catalog BY <1>0, <3>2 DEF Catalog
    <3> QED BY <3>3, <3>4
  <2>3. ct.cached \in Catalog /\ NoRequest \in EntryRequests BY <1>a DEF CTState, EntryRequests
  <2> QED BY <2>1, <2>2, <2>3
<1>2. ct' \in CTState
  <2>1. ct \in CTState BY <1>a
  <2> QED BY <1>1, <2>1 DEF CTState
<1>3. /\ ct'.dialog = ct.dialog /\ ct'.server = srv /\ ct'.cached = cch /\ ct'.request = ct.request /\ ct'.saved = u
  BY <1>1, <1>a DEF CTState
<1>4. SentSound(ct') /\ (ct'.dialog # NoDialog => EditOfEntry(ct'.dialog)) BY <1>a, <1>3 DEF CTSound, SentSound
<1>5. SavedIsShown(ct') BY <1>1, <1>3 DEF SavedIsShown
<1> QED BY <1>2, <1>4, <1>5 DEF CTInv, CTSound

LEMMA CTStep == CTInv /\ CTNext => CTInv'
<1> SUFFICES ASSUME CTInv, CTNext PROVE CTInv' OBVIOUS
<1>1. CASE OpenCreate \/ CancelDialog BY <1>1, DialogsStep
<1>2. ASSUME NEW id \in EntryIds, OpenRow("edit", id) \/ OpenRow("delete", id) PROVE CTInv' BY <1>2, DialogsStep
<1>3. CASE Submit BY <1>3, SubmitStep
<1>4. CASE ListRefetched \/ \E id \in EntryIds : OtherRenames(id) BY <1>4, EntryListStep
<1>5. CASE TypeInto("name", "n2") BY <1>5, TypeIntoStep
<1>6. CASE TypeInto("secret", "p2") BY <1>6, TypeIntoStep
<1>7. ASSUME NEW op \in Operations, RequestApplied(op) \/ RequestFails(op) \/ RequestDone(op) PROVE CTInv'
  BY <1>7, AnswerStep
<1> QED BY <1>1, <1>2, <1>3, <1>4, <1>5, <1>6, <1>7 DEF CTNext

LEMMA CTHolds == CTInv => CTTypeOK /\ ListShowsSave
<1> SUFFICES ASSUME CTInv PROVE CTTypeOK /\ ListShowsSave OBVIOUS
<1>a. ct \in CTState /\ CTSound(ct) BY DEF CTInv
<1>1. /\ ct.server \in Catalog /\ ct.dialog \in EntryDialogs \union {NoDialog} /\ ct.request \in [Operations -> EntryRequests]
  BY <1>a DEF CTState
<1>2. CTTypeOK
  <2>1. \A id \in EntryIds : ct.server[id] \in Rows \union {NoRow} BY <1>1 DEF Catalog, Entries
  <2>2. ct.dialog.op \in Operations \union {"none"} BY <1>1 DEF EntryDialogs, NoDialog
  <2>3. \A r \in EntryRequests : r.phase \in {"none", "sent", "refetch"} BY DEF EntryRequests, NoRequest
  <2> QED BY <1>1, <2>1, <2>2, <2>3 DEF CTTypeOK
<1>3. ListShowsSave BY <1>a DEF ListShowsSave, CTSound, SavedIsShown
<1> QED BY <1>2, <1>3

\* What EditKeepsUntyped says of a step.
LEMMA CTKeeps ==
  ASSUME CTInv, CTNext, ct.request["edit"].phase = "sent", ct'.request["edit"].phase = "refetch",
         NEW field \in {"name", "secret"} \ ct.request["edit"].dialog.typed,
         ct.server[ct.request["edit"].dialog.id] = ct.request["edit"].dialog.base
  PROVE  ct'.server[ct.request["edit"].dialog.id][field] = ct.server[ct.request["edit"].dialog.id][field]
<1>a. ct \in CTState /\ CTSound(ct) BY DEF CTInv
<1>b. ct.request \in [Operations -> EntryRequests] /\ ct.server \in Catalog /\ "edit" \in Operations
  BY <1>a DEF CTState, Operations
<1>1. RequestApplied("edit")
  <2>1. ~(OpenCreate \/ CancelDialog \/ ListRefetched \/ TypeInto("name", "n2") \/ TypeInto("secret", "p2"))
    BY <1>a DEF OpenCreate, CancelDialog, ListRefetched, Refetched, TypeInto, CTState
  <2>2. ~(\E id \in EntryIds : OpenRow("edit", id) \/ OpenRow("delete", id) \/ OtherRenames(id))
    <3>1. ASSUME NEW id \in EntryIds, OpenRow("edit", id) \/ OpenRow("delete", id) PROVE ct'.request = ct.request
      BY <1>a, <3>1 DEF OpenRow, CTState
    <3>2. ASSUME NEW id \in EntryIds, OtherRenames(id) PROVE ct'.request = ct.request
      BY <1>a, <3>2 DEF OtherRenames, CTState
    <3>3. ct'.request # ct.request OBVIOUS
    <3> QED BY <3>1, <3>2, <3>3
  <2>3. ~Submit
    <3> SUFFICES ASSUME Submit PROVE FALSE OBVIOUS
    <3> DEFINE v == [phase |-> "sent", dialog |-> ct.dialog]
    <3>1. ct'.request = [ct.request EXCEPT ![ct.dialog.op] = v] BY <1>a DEF Submit, CTState
    <3>2. v.phase = "sent" /\ ct.request[ct.dialog.op] = NoRequest BY DEF Submit
    <3> HIDE DEF v
    <3> QED BY <1>b, <3>1, <3>2
  <2>4. PICK op \in Operations : RequestApplied(op) \/ RequestFails(op) \/ RequestDone(op)
    BY <2>1, <2>2, <2>3 DEF CTNext
  <2>5. ct'.request["edit"] # ct.request["edit"] OBVIOUS
  <2>6. ~RequestFails(op)
    <3> SUFFICES ASSUME RequestFails(op) PROVE FALSE OBVIOUS
    <3>1. ct'.request = [ct.request EXCEPT ![op] = NoRequest] BY <1>a DEF RequestFails, CTState
    <3> QED BY <1>b, <2>5, <3>1 DEF NoRequest
  <2>7. ~RequestDone(op)
    <3> SUFFICES ASSUME RequestDone(op) PROVE FALSE OBVIOUS
    <3>1. ct'.request = [ct.request EXCEPT ![op] = NoRequest] BY <1>a DEF RequestDone, Refetched, CTState
    <3> QED BY <1>b, <2>5, <3>1 DEF NoRequest
  <2>8. op = "edit"
    <3>1. RequestApplied(op) BY <2>4, <2>6, <2>7
    <3>2. \E v : ct'.request = [ct.request EXCEPT ![op] = v]
      <4> DEFINE dlg == ct.request[op].dialog
                 row(id) == IF op = "delete" THEN NoRow ELSE PayloadApplied(dlg, ct.server[id])
                 v(id) == [phase |-> "refetch", dialog |-> dlg, id |-> id, row |-> row(id)]
      <4>1. PICK id \in EntryIds : ct' = [ct EXCEPT !.server[id] = row(id), !.request[op] = v(id), !.saved = NoRequest]
        BY <3>1 DEF RequestApplied
      <4> HIDE DEF row, v
      <4>2. ct'.request = [ct.request EXCEPT ![op] = v(id)] BY <1>a, <4>1 DEF CTState
      <4> QED BY <4>2
    <3> QED BY <1>b, <2>5, <3>2
  <2> QED BY <2>4, <2>6, <2>7, <2>8
<1> DEFINE d == ct.request["edit"].dialog
<1>2. PICK id \in EntryIds :
         /\ id = d.id /\ ct.server[id] # NoRow
         /\ ct' = [ct EXCEPT !.server[id] = PayloadApplied(d, ct.server[id]),
                      !.request["edit"] = [phase |-> "refetch", dialog |-> d, id |-> id,
                                           row |-> PayloadApplied(d, ct.server[id])],
                      !.saved = NoRequest]
  <2> HIDE DEF d
  <2>1. "edit" # "create" /\ "edit" # "delete" OBVIOUS
  <2> QED BY <1>1, <2>1 DEF RequestApplied, d
<1>3. ct'.server[id] = PayloadApplied(d, ct.server[id]) BY <1>2, <1>a, <1>b DEF CTState, Catalog
<1>4. EditOfEntry(d) /\ d.op = "edit" BY <1>a, <1>b DEF CTSound, SentSound
<1>5. field = "name" => d.form.name = ct.server[id].name BY <1>2, <1>4 DEF EditOfEntry
<1>6. field = "secret" => d.form.secret = "" BY <1>4 DEF EditOfEntry
<1> HIDE DEF d
<1>7. PayloadApplied(d, ct.server[id])[field] = ct.server[id][field]
  <2>1. CASE field = "name" BY <1>5, <2>1 DEF PayloadApplied
  <2>2. CASE field = "secret" BY <1>2, <1>6, <2>2 DEF PayloadApplied
  <2> QED BY <2>1, <2>2
<1> QED BY <1>2, <1>3, <1>7 DEF d

-----------------------------------------------------------------------------
(* Row actions of the audit log (AuditActions). *)

RowRequests == [RowActions -> SUBSET (Nat \X Logs)]
Day == AllDays \union {NoRange}

ACState ==
    [flying : RowRequests, latest : [RowActions -> Nat], target : [RowActions -> Logs \union {NoLog}],
     sent : Nat, overlap : BOOLEAN, period : {"all", "7", "custom"}, from : Day, to : Day,
     shown : 0..Cardinality(RotationDays), fetching : BOOLEAN, failed : BOOLEAN]

\* The settings page has one request at a time, and so has each kind as
\* long as no two rows overlapped: the last one, for the target.
RequestsSound(s) ==
    /\ \A r \in s.flying["resend"] : s.flying["resend"] = {r} /\ r[1] = s.latest["resend"]
    /\ ~s.overlap =>
         \A kind \in RowActions : s.flying[kind] = {} \/ s.flying[kind] = {<<s.latest[kind], s.target[kind]>>}

CountSound(s) ==
    isRangeValid(s) /\ ~s.fetching /\ ~s.failed => s.shown = RotationCount(s.period, s.from, s.to)

ACInv == ac \in ACState /\ RequestsSound(ac) /\ CountSound(ac)

LEMMA RotationsFinite == IsFiniteSet(RotationDays) /\ Cardinality(RotationDays) \in Nat
<1>1. 1 \in Int /\ 3 \in Int OBVIOUS
<1>2. IsFiniteSet(1..3) BY <1>1, FS_Interval, Zenon
<1>3. RotationDays \subseteq 1..3 BY RotationsAssumption DEF AllDays, RotationToday
<1>4. IsFiniteSet(RotationDays) BY <1>2, <1>3, FS_Subset
<1> QED BY <1>4, FS_CardinalityType

LEMMA CountBound == \A period, from, to : RotationCount(period, from, to) \in 0..Cardinality(RotationDays)
<1> TAKE period, from, to
<1> DEFINE Chosen(d) == CASE period = "all" -> TRUE
                          [] period = "7" -> d >= 2
                          [] period = "custom" -> from <= d /\ d <= to
<1>1. \E S : S \subseteq RotationDays /\ RotationCount(period, from, to) = Cardinality(S)
  <2>1. RotationCount(period, from, to) = Cardinality({d \in RotationDays : Chosen(d)}) BY DEF RotationCount
  <2> HIDE DEF Chosen
  <2>2. {d \in RotationDays : Chosen(d)} \subseteq RotationDays OBVIOUS
  <2> QED BY <2>1, <2>2
<1>2. PICK S : S \subseteq RotationDays /\ RotationCount(period, from, to) = Cardinality(S) BY <1>1
<1>3. Cardinality(S) <= Cardinality(RotationDays) /\ Cardinality(S) \in Nat
  BY <1>2, RotationsFinite, FS_Subset, FS_CardinalityType
<1> QED BY <1>2, <1>3, RotationsFinite

LEMMA ACInitially == ACMounted => ACInv
<1> SUFFICES ASSUME ACMounted PROVE ACInv OBVIOUS
<1>1. 0 \in 0..Cardinality(RotationDays) BY RotationsFinite
<1>2. NoRange \in Day BY DEF Day
<1>3. ac \in ACState BY <1>1, <1>2 DEF ACMounted, ACState, RowRequests
<1>4. RequestsSound(ac) /\ CountSound(ac) BY DEF ACMounted, RequestsSound, CountSound, RowActions
<1> QED BY <1>3, <1>4 DEF ACInv

\* A request of a row or of the settings page is sent.
LEMMA RowActionStep ==
  ASSUME ACInv, NEW kind \in RowActions, NEW log \in Logs, StartRowAction(kind, log),
         ~RowLocked(kind, log), kind = "resend" => ~isRowPending(kind)
  PROVE  ACInv'
<1>a. ac \in ACState /\ RequestsSound(ac) /\ CountSound(ac) BY DEF ACInv
<1>b. /\ ac.flying \in RowRequests /\ ac.latest \in [RowActions -> Nat] /\ ac.target \in [RowActions -> Logs \union {NoLog}]
      /\ ac.sent \in Nat /\ ac.overlap \in BOOLEAN
  BY <1>a DEF ACState
<1> DEFINE n == ac.sent + 1
           f == [ac.flying EXCEPT ![kind] = @ \union {<<n, log>>}]
           l == [ac.latest EXCEPT ![kind] = n]
           g == [ac.target EXCEPT ![kind] = log]
           next == [ac EXCEPT !.sent = n, !.flying = f, !.latest = l, !.target = g]
           o == ac.overlap \/ \E k \in RowActions : Cardinality(LogsFlying(next, k)) > 1
<1>1. ac' = [next EXCEPT !.overlap = o]
  <2>1. [ac EXCEPT !.sent = n, !.flying[kind] = @ \union {<<n, log>>}, !.latest[kind] = n, !.target[kind] = log] = next
    BY <1>a DEF ACState
  <2>2. ac' = [next EXCEPT !.overlap = next.overlap \/ \E k \in RowActions : Cardinality(LogsFlying(next, k)) > 1]
    <3>1. ac' = [[ac EXCEPT !.sent = n, !.flying[kind] = @ \union {<<n, log>>}, !.latest[kind] = n, !.target[kind] = log]
                   EXCEPT !.overlap = @ \/ \E k \in RowActions : Cardinality(LogsFlying([ac EXCEPT !.sent = n,
                      !.flying[kind] = @ \union {<<n, log>>}, !.latest[kind] = n, !.target[kind] = log], k)) > 1]
      BY DEF StartRowAction
    <3> HIDE DEF next, n
    <3> QED BY <2>1, <3>1
  <2>3. next.overlap = ac.overlap BY <1>a DEF ACState
  <2> HIDE DEF next
  <2> QED BY <2>2, <2>3
<1>2. n \in Nat BY <1>b
<1>3. /\ f \in RowRequests /\ f[kind] = ac.flying[kind] \union {<<n, log>>}
      /\ \A k \in RowActions : k # kind => f[k] = ac.flying[k]
  BY <1>b, <1>2 DEF RowRequests
<1>4. /\ l \in [RowActions -> Nat] /\ l[kind] = n /\ \A k \in RowActions : k # kind => l[k] = ac.latest[k]
      /\ g \in [RowActions -> Logs \union {NoLog}] /\ g[kind] = log /\ \A k \in RowActions : k # kind => g[k] = ac.target[k]
  BY <1>b, <1>2
<1>5. o \in BOOLEAN /\ (~o => ~ac.overlap /\ ~(Cardinality(LogsFlying(next, kind)) > 1)) BY <1>b
<1>6. next \in ACState /\ next.flying = f
  <2>1. ac \in ACState BY <1>a
  <2> HIDE DEF n, f, l, g
  <2> QED BY <1>2, <1>3, <1>4, <2>1 DEF ACState
<1>7. /\ next.period = ac.period /\ next.from = ac.from /\ next.to = ac.to /\ next.shown = ac.shown
      /\ next.fetching = ac.fetching /\ next.failed = ac.failed /\ next.latest = l /\ next.target = g
  BY <1>a DEF ACState
<1> HIDE DEF n, f, l, g, next, o
<1>8. ac' \in ACState BY <1>1, <1>5, <1>6 DEF ACState
<1>9. /\ ac'.flying = f /\ ac'.latest = l /\ ac'.target = g /\ ac'.overlap = o
      /\ ac'.period = ac.period /\ ac'.from = ac.from /\ ac'.to = ac.to /\ ac'.shown = ac.shown
      /\ ac'.fetching = ac.fetching /\ ac'.failed = ac.failed
  BY <1>1, <1>6, <1>7 DEF ACState
<1>10. CountSound(ac') BY <1>9, <1>a DEF CountSound, isRangeValid
<1>11. <<n, log>>[1] = n /\ <<n, log>>[2] = log OBVIOUS
<1>12. kind = "resend" => ac.flying[kind] = {} BY <1>a DEF RequestsSound, isRowPending
<1>13. ~o => ac.flying[kind] = {}
  <2> SUFFICES ASSUME ~o, ac.flying[kind] # {} PROVE FALSE OBVIOUS
  <2> DEFINE t == ac.target[kind]
             r == <<ac.latest[kind], t>>
  <2>1. ac.flying[kind] = {r} BY <1>a, <1>5 DEF RequestsSound
  <2>2. isRowPending(kind) BY <2>1 DEF isRowPending
  <2>3. t # log BY <2>2 DEF RowLocked
  <2>4. LogsFlying(next, kind) = {t} \union {log}
    <3>1. f[kind] = {r, <<n, log>>} BY <1>3, <2>1
    <3>2. r[2] = t OBVIOUS
    <3> HIDE DEF r, t
    <3> QED BY <1>6, <1>11, <3>1, <3>2 DEF LogsFlying
  <2>5. Cardinality({t} \union {log}) = 2
    <3>1. IsFiniteSet({t}) /\ Cardinality({t}) = 1 BY FS_Singleton
    <3>2. log \notin {t} BY <2>3
    <3> HIDE DEF t
    <3> QED BY <3>1, <3>2, FS_AddElement
  <2> QED BY <1>5, <2>4, <2>5
<1>14. RequestsSound(ac')
  <2>1. \A r \in f["resend"] : f["resend"] = {r} /\ r[1] = l["resend"]
    <3>1. CASE kind = "resend"
      <4>1. f["resend"] = {<<n, log>>} /\ l["resend"] = n BY <1>3, <1>4, <1>12, <3>1
      <4> QED BY <1>11, <4>1
    <3>2. CASE kind # "resend"
      <4>1. f["resend"] = ac.flying["resend"] /\ l["resend"] = ac.latest["resend"] BY <1>3, <1>4, <3>2 DEF RowActions
      <4> QED BY <1>a, <4>1 DEF RequestsSound
    <3> QED BY <3>1, <3>2
  <2>2. ASSUME ~o, NEW k \in RowActions PROVE f[k] = {} \/ f[k] = {<<l[k], g[k]>>}
    <3>1. CASE k = kind BY <1>3, <1>4, <1>13, <2>2, <3>1
    <3>2. CASE k # kind BY <1>3, <1>4, <1>5, <1>a, <2>2, <3>2 DEF RequestsSound
    <3> QED BY <3>1, <3>2
  <2> QED BY <1>9, <2>1, <2>2 DEF RequestsSound
<1> QED BY <1>8, <1>10, <1>14 DEF ACInv

LEMMA SettledRowStep == ASSUME ACInv, NEW kind \in RowActions, RowActionSettled(kind) PROVE ACInv'
<1>a. ac \in ACState /\ RequestsSound(ac) /\ CountSound(ac) BY DEF ACInv
<1>b. /\ ac.flying \in RowRequests /\ ac.target \in [RowActions -> Logs \union {NoLog}] /\ ac.overlap \in BOOLEAN
  BY <1>a DEF ACState
<1>1. PICK r \in ac.flying[kind] :
        LET next == [ac EXCEPT !.flying[kind] = @ \ {r}, !.target[kind] = NoLog]
        IN  ac' = [next EXCEPT !.overlap = @ /\ \E k \in RowActions : next.flying[k] # {}]
  BY DEF RowActionSettled
<1> DEFINE f == [ac.flying EXCEPT ![kind] = @ \ {r}]
           g == [ac.target EXCEPT ![kind] = NoLog]
           o == ac.overlap /\ \E k \in RowActions : f[k] # {}
<1>2. ac' = [ac EXCEPT !.flying = f, !.target = g, !.overlap = o]
  <2> DEFINE next == [ac EXCEPT !.flying[kind] = @ \ {r}, !.target[kind] = NoLog]
             m == [ac EXCEPT !.flying = f, !.target = g]
  <2>1. next = m BY <1>a DEF ACState
  <2>2. m.flying = f /\ m.overlap = ac.overlap BY <1>a DEF ACState
  <2>3. ac' = [next EXCEPT !.overlap = next.overlap /\ \E k \in RowActions : next.flying[k] # {}] BY <1>1
  <2> HIDE DEF next, f, g
  <2>4. ac' = [m EXCEPT !.overlap = o] BY <2>1, <2>2, <2>3
  <2> QED BY <2>4
<1>3. /\ f \in RowRequests /\ f[kind] = ac.flying[kind] \ {r} /\ \A k \in RowActions : k # kind => f[k] = ac.flying[k]
      /\ g \in [RowActions -> Logs \union {NoLog}] /\ \A k \in RowActions : k # kind => g[k] = ac.target[k]
      /\ o \in BOOLEAN
  BY <1>b DEF RowRequests
<1>4. ~o => ~ac.overlap \/ \A k \in RowActions : f[k] = {} BY <1>b
<1> HIDE DEF f, g, o
<1>5. ac' \in ACState
  <2>1. ac \in ACState BY <1>a
  <2> QED BY <1>2, <1>3, <2>1 DEF ACState
<1>6. /\ ac'.flying = f /\ ac'.latest = ac.latest /\ ac'.target = g /\ ac'.overlap = o
      /\ ac'.period = ac.period /\ ac'.from = ac.from /\ ac'.to = ac.to /\ ac'.shown = ac.shown
      /\ ac'.fetching = ac.fetching /\ ac'.failed = ac.failed
  BY <1>2, <1>a DEF ACState
<1>7. CountSound(ac') BY <1>6, <1>a DEF CountSound, isRangeValid
<1>8. RequestsSound(ac')
  <2>1. \A q \in f["resend"] : f["resend"] = {q} /\ q[1] = ac.latest["resend"]
    <3>1. CASE kind = "resend"
      <4>1. f["resend"] = {} BY <1>3, <1>a, <3>1 DEF RequestsSound
      <4> QED BY <4>1
    <3>2. CASE kind # "resend"
      <4>1. f["resend"] = ac.flying["resend"] BY <1>3, <3>2 DEF RowActions
      <4> QED BY <1>a, <4>1 DEF RequestsSound
    <3> QED BY <3>1, <3>2
  <2>2. ASSUME ~o, NEW k \in RowActions PROVE f[k] = {} \/ f[k] = {<<ac.latest[k], g[k]>>}
    <3>1. CASE \A j \in RowActions : f[j] = {} BY <3>1
    <3>2. CASE ~ac.overlap
      <4>1. CASE k = kind BY <1>3, <1>a, <3>2, <4>1 DEF RequestsSound
      <4>2. CASE k # kind BY <1>3, <1>a, <3>2, <4>2 DEF RequestsSound
      <4> QED BY <4>1, <4>2
    <3> QED BY <1>4, <2>2, <3>1, <3>2
  <2> QED BY <1>6, <2>1, <2>2 DEF RequestsSound
<1> QED BY <1>5, <1>7, <1>8 DEF ACInv

\* The query of the count.
LEMMA CountStep ==
  ASSUME ACInv, NEW p \in {"all", "7", "custom"}, NEW a \in Day, NEW b \in Day, NEW e \in BOOLEAN, NEW x \in BOOLEAN,
         NEW n \in 0..Cardinality(RotationDays),
         ac' = [ac EXCEPT !.period = p, !.from = a, !.to = b, !.fetching = e, !.failed = x, !.shown = n],
         isRangeValid(ac') /\ ~e /\ ~x => n = RotationCount(p, a, b)
  PROVE  ACInv'
<1>a. ac \in ACState /\ RequestsSound(ac) BY DEF ACInv
<1> DEFINE r == [ac EXCEPT !.period = p, !.from = a, !.to = b]
<1>1. r \in ACState BY <1>a DEF ACState
<1>2. ac' = [r EXCEPT !.fetching = e, !.failed = x, !.shown = n] OBVIOUS
<1>3. ac' \in ACState
  <2> HIDE DEF r
  <2> QED BY <1>1, <1>2 DEF ACState
<1>4. /\ ac'.flying = ac.flying /\ ac'.latest = ac.latest /\ ac'.target = ac.target /\ ac'.overlap = ac.overlap
      /\ ac'.period = p /\ ac'.from = a /\ ac'.to = b /\ ac'.shown = n /\ ac'.fetching = e /\ ac'.failed = x
  BY <1>a DEF ACState
<1>5. RequestsSound(ac') BY <1>4, <1>a DEF RequestsSound
<1>6. CountSound(ac') BY <1>4 DEF CountSound
<1> QED BY <1>3, <1>5, <1>6 DEF ACInv

LEMMA RequeryStep ==
  ASSUME ACInv, NEW p \in {"all", "7", "custom"}, NEW a \in Day, NEW b \in Day,
         ac' \in Requery([ac EXCEPT !.period = p, !.from = a, !.to = b])
  PROVE  ACInv'
<1>a. ac \in ACState BY DEF ACInv
<1> DEFINE s == [ac EXCEPT !.period = p, !.from = a, !.to = b]
           c == RotationCount(p, a, b)
           v == isRangeValid(s)
<1>1. s.period = p /\ s.from = a /\ s.to = b /\ s.shown = ac.shown BY <1>a DEF ACState
<1>2. v \in BOOLEAN BY DEF isRangeValid
<1>3. c \in 0..Cardinality(RotationDays) /\ ac.shown \in 0..Cardinality(RotationDays) BY CountBound, <1>a DEF ACState
<1>4. \/ ac' = [s EXCEPT !.fetching = v, !.failed = FALSE]
      \/ ac' = [s EXCEPT !.fetching = FALSE, !.failed = FALSE, !.shown = c]
  <2> HIDE DEF s, v
  <2>1. \/ ac' = [s EXCEPT !.fetching = isRangeValid(s), !.failed = FALSE]
        \/ ac' = [s EXCEPT !.fetching = FALSE, !.failed = FALSE, !.shown = RotationCount(s.period, s.from, s.to)]
    BY DEF Requery, s
  <2> QED BY <1>1, <2>1 DEF v
<1> DEFINE m == ac.shown
           nn == FALSE
<1>5. CASE ac' = [s EXCEPT !.fetching = v, !.failed = FALSE]
  <2>1. ac' = [ac EXCEPT !.period = p, !.from = a, !.to = b, !.fetching = v, !.failed = nn, !.shown = m]
    BY <1>a, <1>5 DEF ACState
  <2>2. ac'.period = s.period /\ ac'.from = s.from /\ ac'.to = s.to BY <1>a, <1>5 DEF ACState
  <2>3. isRangeValid(ac') = v BY <2>2 DEF isRangeValid
  <2>4. nn \in BOOLEAN /\ (isRangeValid(ac') /\ ~v /\ ~nn => m = RotationCount(p, a, b)) BY <2>3
  <2>5. m \in 0..Cardinality(RotationDays) BY <1>3
  <2> HIDE DEF s, c, v, m, nn
  <2> QED BY <1>2, <2>1, <2>4, <2>5, CountStep
<1>6. CASE ac' = [s EXCEPT !.fetching = FALSE, !.failed = FALSE, !.shown = c]
  <2>1. ac' = [ac EXCEPT !.period = p, !.from = a, !.to = b, !.fetching = nn, !.failed = nn, !.shown = c]
    BY <1>6
  <2>2. nn \in BOOLEAN /\ (isRangeValid(ac') /\ ~nn /\ ~nn => c = RotationCount(p, a, b)) OBVIOUS
  <2> HIDE DEF s, c, v, m, nn
  <2> QED BY <1>3, <2>1, <2>2, CountStep
<1> QED BY <1>4, <1>5, <1>6

RangeStep ==
    \/ \E period \in {"all", "7", "custom"} : SetRotationPeriod(period)
    \/ \E day \in AllDays \union {NoRange} : SetRotationStart(day) \/ SetRotationEnd(day)
    \/ \E day \in RotationDays \union {RotationToday} : SetRotationRange(day)
    \/ CountAnswered

LEMMA ACRangeStep == ACInv /\ RangeStep => ACInv'
<1> SUFFICES ASSUME ACInv, RangeStep PROVE ACInv' OBVIOUS
<1>a. ac \in ACState BY DEF ACInv
<1>b. ac.period \in {"all", "7", "custom"} /\ ac.from \in Day /\ ac.to \in Day BY <1>a DEF ACState
<1>1. ASSUME NEW period \in {"all", "7", "custom"}, SetRotationPeriod(period) PROVE ACInv'
  <2>1. [ac EXCEPT !.period = period] = [ac EXCEPT !.period = period, !.from = ac.from, !.to = ac.to] BY <1>a DEF ACState
  <2> QED BY <1>1, <1>b, <2>1, RequeryStep DEF SetRotationPeriod
<1>2. ASSUME NEW day \in Day, SetRotationStart(day) PROVE ACInv'
  <2>1. [ac EXCEPT !.from = day] = [ac EXCEPT !.period = ac.period, !.from = day, !.to = ac.to] BY <1>a DEF ACState
  <2> QED BY <1>2, <1>b, <2>1, RequeryStep DEF SetRotationStart
<1>3. ASSUME NEW day \in Day, SetRotationEnd(day) PROVE ACInv'
  <2>1. [ac EXCEPT !.to = day] = [ac EXCEPT !.period = ac.period, !.from = ac.from, !.to = day] BY <1>a DEF ACState
  <2> QED BY <1>3, <1>b, <2>1, RequeryStep DEF SetRotationEnd
<1>4. ASSUME NEW day \in RotationDays \union {RotationToday}, SetRotationRange(day) PROVE ACInv'
  <2>1. day \in Day BY RotationsAssumption DEF Day, AllDays, RotationToday
  <2> QED BY <1>4, <2>1, RequeryStep DEF SetRotationRange
<1>5. CASE CountAnswered
  <2>1. RotationCount(ac.period, ac.from, ac.to) \in 0..Cardinality(RotationDays)
        /\ ac.shown \in 0..Cardinality(RotationDays) BY CountBound, <1>a DEF ACState
  <2> DEFINE p == ac.period
             a == ac.from
             b == ac.to
             c == RotationCount(p, a, b)
             m == ac.shown
             no == FALSE
             yes == TRUE
  <2>2. p \in {"all", "7", "custom"} /\ a \in Day /\ b \in Day /\ c \in 0..Cardinality(RotationDays)
        /\ m \in 0..Cardinality(RotationDays) /\ no \in BOOLEAN /\ yes \in BOOLEAN
    BY <1>b, <2>1
  <2>3. CASE ac' = [ac EXCEPT !.fetching = FALSE, !.failed = FALSE, !.shown = c]
    <3>1. ac' = [ac EXCEPT !.period = p, !.from = a, !.to = b, !.fetching = no, !.failed = no, !.shown = c]
      BY <1>a, <2>3 DEF ACState
    <3>2. isRangeValid(ac') /\ ~no /\ ~no => c = RotationCount(p, a, b) OBVIOUS
    <3> HIDE DEF p, a, b, c, m, no, yes
    <3> QED BY ONLY ACInv, <2>2, <3>1, <3>2, CountStep
  <2>4. CASE ac' = [ac EXCEPT !.fetching = FALSE, !.failed = TRUE]
    <3>1. ac' = [ac EXCEPT !.period = p, !.from = a, !.to = b, !.fetching = no, !.failed = yes, !.shown = m]
      BY <1>a, <2>4 DEF ACState
    <3>2. isRangeValid(ac') /\ ~no /\ ~yes => m = RotationCount(p, a, b) OBVIOUS
    <3> HIDE DEF p, a, b, c, m, no, yes
    <3> QED BY ONLY ACInv, <2>2, <3>1, <3>2, CountStep
  <2> QED BY <1>5, <2>3, <2>4 DEF CountAnswered
<1> QED BY <1>1, <1>2, <1>3, <1>4, <1>5 DEF RangeStep, Day

LEMMA ACStep == ACInv /\ ACNext => ACInv'
<1> SUFFICES ASSUME ACInv, ACNext PROVE ACInv' OBVIOUS
<1>0. "rollback" \in RowActions /\ "retry" \in RowActions /\ "resend" \in RowActions BY DEF RowActions
<1>1. ASSUME NEW log \in Logs, HandleRollback(log) \/ HandleRetryDelivery(log) PROVE ACInv'
  BY <1>0, <1>1, RowActionStep DEF HandleRollback, HandleRetryDelivery
<1>2. ASSUME NEW log \in Logs, ~isRowPending("resend"), HandleResend(log) PROVE ACInv'
  <2>1. ~RowLocked("resend", log) BY <1>2 DEF RowLocked
  <2> QED BY <1>0, <1>2, <2>1, RowActionStep DEF HandleResend
<1>3. CASE ResendLastFailure BY <1>2, <1>3 DEF ResendLastFailure, LastFailure
<1>4. ASSUME NEW log \in Logs, ResendFailedEvent(log) PROVE ACInv' BY <1>2, <1>4 DEF ResendFailedEvent
<1>5. ASSUME NEW kind \in RowActions, RowActionSettled(kind) PROVE ACInv' BY <1>5, SettledRowStep
<1>6. CASE RangeStep BY <1>6, ACRangeStep
<1> QED BY <1>1, <1>3, <1>4, <1>5, <1>6 DEF ACNext, RangeStep

LEMMA ACHolds == ACInv => ACTypeOK /\ NoDoubleRowAction /\ CountIsOfRange
<1> SUFFICES ASSUME ACInv PROVE ACTypeOK /\ NoDoubleRowAction /\ CountIsOfRange OBVIOUS
<1>a. ac \in ACState /\ RequestsSound(ac) /\ CountSound(ac) BY DEF ACInv
<1>1. ACTypeOK
  <2>1. ac.target \in [RowActions -> Logs \union {NoLog}] /\ ac.from \in Day /\ ac.to \in Day
        /\ ac.shown \in 0..Cardinality(RotationDays)
    BY <1>a DEF ACState
  <2>2. Day = AllDays \union {NoRange} BY DEF Day
  <2> QED BY ONLY <2>1, <2>2 DEF ACTypeOK
<1>2. NoDoubleRowAction
  <2>1. ASSUME NEW kind \in RowActions, kind = "resend" \/ ~ac.overlap PROVE Cardinality(ac.flying[kind]) <= 1
    <3>1. ac.flying[kind] = {} \/ \E r : ac.flying[kind] = {r}
      <4>1. CASE kind = "resend" BY <1>a, <4>1 DEF RequestsSound
      <4>2. CASE ~ac.overlap BY <1>a, <4>2 DEF RequestsSound
      <4> QED BY <2>1, <4>1, <4>2
    <3> DEFINE f == ac.flying[kind]
    <3>2. CASE f = {} BY <3>2, FS_EmptySet
    <3>3. CASE \E r : f = {r}
      <4> PICK r : f = {r} BY <3>3
      <4> QED BY FS_Singleton
    <3> QED BY <3>1, <3>2, <3>3
  <2> QED BY <2>1 DEF NoDoubleRowAction
<1>3. CountIsOfRange
  <2> SUFFICES ASSUME CountStatus = "ready" PROVE ac.shown = RotationCount(ac.period, ac.from, ac.to)
    BY DEF CountIsOfRange
  <2>1. isRangeValid(ac) /\ ~ac.fetching /\ ~ac.failed
    <3>1. isRangeValid(ac) BY DEF CountStatus
    <3>2. ~ac.fetching BY <3>1 DEF CountStatus
    <3>3. ~ac.failed BY <3>1, <3>2 DEF CountStatus
    <3> QED BY <3>1, <3>2, <3>3
  <2> QED BY <1>a, <2>1 DEF CountSound
<1> QED BY <1>1, <1>2, <1>3

-----------------------------------------------------------------------------
(* The Traefik update panel (UpdatePanel). *)

Versions == 0..Len(TraefikReleases)
RequestKinds == {"update", "retry"}
NothingPending == [kind |-> "none"]
FilesPending == [kind : RequestKinds, from : Versions, target : Versions]
Pendings == {NothingPending} \cup FilesPending
HealthAnswers == [version : Versions, latest : Versions]
DeploymentAnswers == [current : Versions, target : Versions]
OperationsAnswers ==
    {[loaded |-> FALSE]}
      \cup [loaded : {TRUE}, runner : BOOLEAN, pending : BOOLEAN, alert : {"none", "request_failed", "requested"}]
PanelCalls == [id : Nat, kind : RequestKinds, step : {"sent", "checked"}, from : Versions, target : Versions]
AlertStates == {"none", "request_failed", "requested"}
Buttons == [RequestKinds -> Nat]

UPState ==
    [traefik : Known, released : Known, latest : Known, pending : Pendings, alert : AlertStates,
     delivered : Nat, clicks : Nat, health : HealthAnswers, deployment : DeploymentAnswers,
     operations : OperationsAnswers, request : Buttons, calls : SUBSET PanelCalls]

\* A request in the file, and an update that was inspected, is a patch of
\* what ran then.
PendingSound(p) == p.kind = "update" => is_patch_update(p.from, p.target)
CallSound(c) == (c.kind = "update" /\ c.step = "checked") => is_patch_update(c.from, c.target)

\* The alert is sent once, and its state says so.
AlertSound(alert, delivered) == delivered = IF alert = "requested" THEN 1 ELSE 0

\* A button waits for a call of its own kind that is still under way.
WaitSound(q, calls) == \A k \in RequestKinds : q[k] # 0 => \E c \in calls : c.id = q[k] /\ c.kind = k

UPInv ==
    /\ up \in UPState
    /\ PendingSound(up.pending)
    /\ \A c \in up.calls : CallSound(c)
    /\ AlertSound(up.alert, up.delivered)
    /\ WaitSound(up.request, up.calls)

LEMMA VersionsAre == /\ Len(TraefikReleases) \in Nat /\ Known = 1..Len(TraefikReleases) /\ Known \subseteq Versions
                     /\ 0 \in Versions /\ 1 \in Known /\ 2 \in Known
                     /\ \A v \in Versions : v # 0 => v \in Known
<1>1. TraefikReleases \in Seq(Nat \X Nat \X Nat) /\ Len(TraefikReleases) >= 2 BY ReleasesAssumption
<1>2. Len(TraefikReleases) \in Nat /\ DOMAIN TraefikReleases = 1..Len(TraefikReleases) BY <1>1
<1> QED BY <1>1, <1>2 DEF Known, Versions

LEMMA ReleaseIs == ASSUME NEW v \in Known PROVE TraefikReleases[v] \in Nat \X Nat \X Nat
<1>1. TraefikReleases \in Seq(Nat \X Nat \X Nat) BY ReleasesAssumption
<1> QED BY <1>1, VersionsAre

LEMMA UPInitially == UPMounted => UPInv
<1> SUFFICES ASSUME UPMounted PROVE UPInv OBVIOUS
<1> DEFINE h == [version |-> 0, latest |-> 0]
           d == [current |-> 0, target |-> 0]
           o == [loaded |-> FALSE]
           q == [k \in {"update", "retry"} |-> 0]
           m == {}
<1>1. h \in HealthAnswers /\ d \in DeploymentAnswers /\ o \in OperationsAnswers
  BY VersionsAre DEF HealthAnswers, DeploymentAnswers, OperationsAnswers
<1>2. q \in Buttons /\ (\A k \in RequestKinds : q[k] = 0) BY DEF Buttons, RequestKinds
<1>3. NothingPending \in Pendings /\ NothingPending.kind = "none" BY DEF Pendings, NothingPending
<1>4. m \in SUBSET PanelCalls /\ \A c \in m : CallSound(c) OBVIOUS
<1>5. PICK alert \in {"none", "request_failed"} :
        up = [traefik |-> 1, released |-> 2, latest |-> 2, pending |-> NothingPending,
              alert |-> alert, delivered |-> 0, clicks |-> 0,
              health |-> h, deployment |-> d, operations |-> o, request |-> q, calls |-> m]
  BY DEF UPMounted, NothingPending
<1> HIDE DEF h, d, o, q, m
<1>6. alert \in AlertStates BY DEF AlertStates
<1>7. up \in UPState BY <1>1, <1>2, <1>3, <1>4, <1>5, <1>6, VersionsAre DEF UPState
<1>8. /\ up.pending = NothingPending /\ up.calls = m /\ up.alert = alert /\ up.delivered = 0 /\ up.request = q BY <1>5
<1>9. PendingSound(up.pending) BY <1>3, <1>8 DEF PendingSound
<1>10. AlertSound(up.alert, up.delivered) BY <1>8 DEF AlertSound
<1>11. WaitSound(up.request, up.calls) BY <1>2, <1>8 DEF WaitSound
<1> QED BY <1>4, <1>7, <1>8, <1>9, <1>10, <1>11 DEF UPInv

-----------------------------------------------------------------------------
\* Steps of the host and of its runner.
LEMMA HostStep ==
  ASSUME UPInv, NEW t \in Known, NEW r \in Known, NEW l \in Known, NEW p \in Pendings,
         NEW a \in AlertStates, NEW d \in Nat,
         up' = [up EXCEPT !.traefik = t, !.released = r, !.latest = l, !.pending = p, !.alert = a, !.delivered = d],
         PendingSound(p), AlertSound(a, d)
  PROVE  UPInv'
<1>1. up \in UPState BY DEF UPInv
<1>2. up' \in UPState BY <1>1 DEF UPState
<1>3. up'.pending = p /\ up'.alert = a /\ up'.delivered = d /\ up'.request = up.request /\ up'.calls = up.calls
  BY <1>1 DEF UPState
<1>4. (\A c \in up.calls : CallSound(c)) /\ WaitSound(up.request, up.calls) BY DEF UPInv
<1> QED BY <1>2, <1>3, <1>4 DEF UPInv

\* Steps that only read the server.
LEMMA PolledStep ==
  ASSUME UPInv, NEW l \in Known, NEW h \in HealthAnswers, NEW d \in DeploymentAnswers, NEW o \in OperationsAnswers,
         up' = [up EXCEPT !.latest = l, !.health = h, !.deployment = d, !.operations = o]
  PROVE  UPInv'
<1>1. up \in UPState BY DEF UPInv
<1>2. up' \in UPState BY <1>1 DEF UPState
<1>3. /\ up'.pending = up.pending /\ up'.alert = up.alert /\ up'.delivered = up.delivered
      /\ up'.request = up.request /\ up'.calls = up.calls
  BY <1>1 DEF UPState
<1>4. /\ PendingSound(up.pending) /\ AlertSound(up.alert, up.delivered)
      /\ (\A c \in up.calls : CallSound(c)) /\ WaitSound(up.request, up.calls)
  BY DEF UPInv
<1> QED BY <1>2, <1>3, <1>4 DEF UPInv

\* Steps of the two buttons and of their calls.
LEMMA CallsStep ==
  ASSUME UPInv, NEW l \in Known, NEW p \in Pendings, NEW q \in Buttons, NEW m \in SUBSET PanelCalls, NEW n \in Nat,
         up' = [up EXCEPT !.latest = l, !.pending = p, !.request = q, !.calls = m, !.clicks = n],
         PendingSound(p), \A c \in m : CallSound(c), WaitSound(q, m)
  PROVE  UPInv'
<1>1. up \in UPState BY DEF UPInv
<1>2. up' \in UPState BY <1>1 DEF UPState
<1>3. /\ up'.pending = p /\ up'.alert = up.alert /\ up'.delivered = up.delivered /\ up'.request = q /\ up'.calls = m
  BY <1>1 DEF UPState
<1>4. AlertSound(up.alert, up.delivered) BY DEF UPInv
<1> QED BY <1>2, <1>3, <1>4 DEF UPInv

LEMMA VersionMoves == UPInv /\ (NewRelease \/ LatestExpires \/ HostUpgrade) => UPInv'
<1> SUFFICES ASSUME UPInv, NewRelease \/ LatestExpires \/ HostUpgrade PROVE UPInv' OBVIOUS
<1>a. up \in UPState /\ PendingSound(up.pending) /\ AlertSound(up.alert, up.delivered) BY DEF UPInv
<1> DEFINE t == up.traefik
           r == up.released
           l == up.latest
           p == up.pending
           a == up.alert
           d == up.delivered
<1>b. /\ t \in Known /\ r \in Known /\ l \in Known /\ p \in Pendings /\ a \in AlertStates /\ d \in Nat
      /\ PendingSound(p) /\ AlertSound(a, d)
  BY <1>a DEF UPState
<1>1. CASE NewRelease
  <2> DEFINE n == r + 1
  <2>1. n \in Known BY <1>b, <1>1, VersionsAre DEF NewRelease
  <2>2. up' = [up EXCEPT !.traefik = t, !.released = n, !.latest = l, !.pending = p, !.alert = a, !.delivered = d]
    BY <1>a, <1>1 DEF NewRelease, UPState
  <2> HIDE DEF t, r, l, p, a, d, n
  <2> QED BY ONLY UPInv, <1>b, <2>1, <2>2, HostStep
<1>2. CASE LatestExpires
  <2>1. up' = [up EXCEPT !.traefik = t, !.released = r, !.latest = r, !.pending = p, !.alert = a, !.delivered = d]
    BY <1>a, <1>2 DEF LatestExpires, UPState
  <2> HIDE DEF t, r, l, p, a, d
  <2> QED BY ONLY UPInv, <1>b, <2>1, HostStep
<1>3. CASE HostUpgrade
  <2>1. PICK v \in t + 1 .. r : up' = [up EXCEPT !.traefik = v] BY <1>3 DEF HostUpgrade
  <2>2. v \in Known BY <1>b, VersionsAre
  <2>3. up' = [up EXCEPT !.traefik = v, !.released = r, !.latest = l, !.pending = p, !.alert = a, !.delivered = d]
    BY <1>a, <2>1 DEF UPState
  <2> HIDE DEF t, r, l, p, a, d
  <2> QED BY ONLY UPInv, <1>b, <2>2, <2>3, HostStep
<1> QED BY <1>1, <1>2, <1>3

LEMMA RunnerSteps == UPInv /\ (RunnerUpdates \/ RunnerRetriesAlert) => UPInv'
<1> SUFFICES ASSUME UPInv, RunnerUpdates \/ RunnerRetriesAlert PROVE UPInv' OBVIOUS
<1>a. up \in UPState /\ PendingSound(up.pending) /\ AlertSound(up.alert, up.delivered) BY DEF UPInv
<1> DEFINE t == up.traefik
           r == up.released
           l == up.latest
           a == up.alert
           d == up.delivered
<1>b. /\ t \in Known /\ r \in Known /\ l \in Known /\ a \in AlertStates /\ d \in Nat
      /\ AlertSound(a, d) /\ up.pending \in Pendings
  BY <1>a DEF UPState
<1>c. NothingPending \in Pendings /\ PendingSound(NothingPending) BY DEF Pendings, NothingPending, PendingSound
<1>s. \A sent \in BOOLEAN :
        LET e == IF sent THEN "requested" ELSE "request_failed"
            n == IF sent THEN 1 ELSE 0
        IN  e \in AlertStates /\ n \in Nat /\ AlertSound(e, n)
  BY DEF AlertStates, AlertSound
<1>d. CASE up' = [up EXCEPT !.pending = [kind |-> "none"]]
  <2>1. up' = [up EXCEPT !.traefik = t, !.released = r, !.latest = l, !.pending = NothingPending,
                         !.alert = a, !.delivered = d]
    BY <1>a, <1>d DEF UPState, NothingPending
  <2> HIDE DEF t, r, l, a, d, NothingPending
  <2> QED BY ONLY UPInv, <1>b, <1>c, <2>1, HostStep
<1>1. CASE RunnerUpdates
  <2>0. up.pending.kind = "update" BY <1>1 DEF RunnerUpdates
  <2>1. CASE is_patch_update(t, up.pending.target) /\ up' = [up EXCEPT !.traefik = up.pending.target, !.pending = [kind |-> "none"]]
    <3> DEFINE v == up.pending.target
    <3>1. v \in Known
      <4>1. v \in Versions BY <1>b, <2>0 DEF Pendings, FilesPending, NothingPending
      <4>2. v # 0 BY <2>1 DEF is_patch_update
      <4> QED BY <4>1, <4>2, VersionsAre
    <3>2. up' = [up EXCEPT !.traefik = v, !.released = r, !.latest = l, !.pending = NothingPending,
                           !.alert = a, !.delivered = d]
      BY <1>a, <2>1 DEF UPState, NothingPending
    <3> HIDE DEF t, r, l, a, d, v, NothingPending
    <3> QED BY ONLY UPInv, <1>b, <1>c, <3>1, <3>2, HostStep
  <2>2. ASSUME NEW sent \in BOOLEAN,
               up' = [up EXCEPT !.pending = [kind |-> "none"], !.delivered = IF sent THEN 1 ELSE 0,
                                !.alert = IF sent THEN "requested" ELSE "request_failed"]
        PROVE  UPInv'
    <3> DEFINE e == IF sent THEN "requested" ELSE "request_failed"
               n == IF sent THEN 1 ELSE 0
    <3>1. e \in AlertStates /\ n \in Nat /\ AlertSound(e, n) BY <1>s
    <3>2. up' = [up EXCEPT !.traefik = t, !.released = r, !.latest = l, !.pending = NothingPending,
                           !.alert = e, !.delivered = n]
      BY <1>a, <2>2 DEF UPState, NothingPending
    <3> HIDE DEF t, r, l, a, d, e, n, NothingPending
    <3> QED BY ONLY UPInv, <1>b, <1>c, <3>1, <3>2, HostStep
  <2> QED BY <1>1, <1>d, <2>1, <2>2 DEF RunnerUpdates
<1>2. CASE RunnerRetriesAlert
  <2>1. PICK sent \in BOOLEAN :
         up' = IF up.alert # "request_failed" THEN [up EXCEPT !.pending = [kind |-> "none"]]
               ELSE [up EXCEPT !.pending = [kind |-> "none"], !.delivered = IF sent THEN @ + 1 ELSE @,
                               !.alert = IF sent THEN "requested" ELSE "request_failed"]
    BY <1>2 DEF RunnerRetriesAlert
  <2>2. CASE up.alert = "request_failed"
    <3>1. d = 0 BY <1>b, <2>2 DEF AlertSound
    <3> DEFINE e == IF sent THEN "requested" ELSE "request_failed"
               n == IF sent THEN 1 ELSE 0
    <3>2. e \in AlertStates /\ n \in Nat /\ AlertSound(e, n) BY <1>s
    <3>3. (IF sent THEN d + 1 ELSE d) = n BY <3>1
    <3>4. up' = [up EXCEPT !.pending = NothingPending, !.delivered = n, !.alert = e]
      BY <2>1, <2>2, <3>3 DEF NothingPending
    <3> HIDE DEF e, n
    <3>5. up' = [up EXCEPT !.traefik = t, !.released = r, !.latest = l, !.pending = NothingPending,
                           !.alert = e, !.delivered = n]
      BY <1>a, <3>4 DEF UPState
    <3> HIDE DEF t, r, l, a, d, NothingPending
    <3> QED BY ONLY UPInv, <1>b, <1>c, <3>2, <3>5, HostStep
  <2> QED BY <1>d, <2>1, <2>2
<1> QED BY <1>1, <1>2

LEMMA PollSteps == UPInv /\ (HealthFetched \/ DeploymentFetched \/ OperationsFetched \/ RefreshLatest) => UPInv'
<1> SUFFICES ASSUME UPInv, HealthFetched \/ DeploymentFetched \/ OperationsFetched \/ RefreshLatest PROVE UPInv' OBVIOUS
<1>a. up \in UPState BY DEF UPInv
<1> DEFINE t == up.traefik
           r == up.released
           l == up.latest
           h == up.health
           d == up.deployment
           o == up.operations
<1>b. /\ t \in Known /\ r \in Known /\ l \in Known /\ h \in HealthAnswers /\ d \in DeploymentAnswers
      /\ o \in OperationsAnswers /\ up.alert \in AlertStates /\ up.pending \in Pendings
  BY <1>a DEF UPState
<1>1. CASE HealthFetched
  <2>1. PICK connected \in BOOLEAN :
          up' = [up EXCEPT !.health = [version |-> IF connected THEN up.traefik ELSE 0, latest |-> up.latest]]
    BY <1>1 DEF HealthFetched
  <2> DEFINE v == IF connected THEN t ELSE 0
             g == [version |-> v, latest |-> l]
  <2>2. v \in Versions /\ l \in Versions BY <1>b, VersionsAre
  <2>3. g \in HealthAnswers BY <2>2 DEF HealthAnswers
  <2>4. up' = [up EXCEPT !.latest = l, !.health = g, !.deployment = d, !.operations = o] BY <1>a, <2>1 DEF UPState
  <2> HIDE DEF l, d, o, g, h
  <2> QED BY ONLY UPInv, <1>b, <2>3, <2>4, PolledStep
<1>2. CASE DeploymentFetched
  <2>1. PICK enabled \in BOOLEAN :
          up' = [up EXCEPT !.deployment = IF enabled THEN [current |-> up.traefik, target |-> up.latest]
                                          ELSE [current |-> 0, target |-> 0]]
    BY <1>2 DEF DeploymentFetched
  <2> DEFINE g == IF enabled THEN [current |-> t, target |-> l] ELSE [current |-> 0, target |-> 0]
  <2>3. g \in DeploymentAnswers BY <1>b, VersionsAre DEF DeploymentAnswers
  <2>4. up' = [up EXCEPT !.latest = l, !.health = h, !.deployment = g, !.operations = o] BY <1>a, <2>1 DEF UPState
  <2> HIDE DEF l, d, o, g, h
  <2> QED BY ONLY UPInv, <1>b, <2>3, <2>4, PolledStep
<1>3. CASE OperationsFetched
  <2>1. PICK runner \in BOOLEAN :
          up' = [up EXCEPT !.operations =
               [loaded |-> TRUE, runner |-> runner, pending |-> up.pending.kind # "none", alert |-> up.alert]]
    BY <1>3 DEF OperationsFetched
  <2> DEFINE w == up.pending.kind # "none"
             g == [loaded |-> TRUE, runner |-> runner, pending |-> w, alert |-> up.alert]
  <2>2. w \in BOOLEAN OBVIOUS
  <2>4. up' = [up EXCEPT !.latest = l, !.health = h, !.deployment = d, !.operations = g] BY <1>a, <2>1 DEF UPState
  <2> HIDE DEF w
  <2>3. g \in OperationsAnswers BY <1>b, <2>2 DEF OperationsAnswers, AlertStates
  <2> HIDE DEF l, d, o, g, h
  <2> QED BY ONLY UPInv, <1>b, <2>3, <2>4, PolledStep
<1>4. CASE RefreshLatest
  <2> DEFINE g == [version |-> t, latest |-> r]
  <2>3. g \in HealthAnswers BY <1>b, VersionsAre DEF HealthAnswers
  <2>4. up' = [up EXCEPT !.latest = r, !.health = g, !.deployment = d, !.operations = o]
    BY <1>a, <1>4 DEF UPState, RefreshLatest
  <2> HIDE DEF l, d, o, g, h, r
  <2> QED BY ONLY UPInv, <1>b, <2>3, <2>4, PolledStep
<1> QED BY <1>1, <1>2, <1>3, <1>4

\* A call that ends releases its own button and no other one.
LEMMA EndedIs ==
  ASSUME UPInv, NEW c \in up.calls, NEW l \in Known, NEW p \in Pendings, PendingSound(p),
         NEW s, s = [up EXCEPT !.latest = l, !.pending = p], up' = Ended(s, c)
  PROVE  UPInv'
<1>a. up \in UPState /\ (\A e \in up.calls : CallSound(e)) /\ WaitSound(up.request, up.calls) BY DEF UPInv
<1>b. up.request \in Buttons /\ up.calls \in SUBSET PanelCalls /\ up.clicks \in Nat BY <1>a DEF UPState
<1>c. c.kind \in RequestKinds /\ c.id \in Nat BY <1>b DEF PanelCalls
<1> DEFINE v == IF up.request[c.kind] = c.id THEN 0 ELSE up.request[c.kind]
           q == [up.request EXCEPT ![c.kind] = v]
           m == up.calls \ {c}
           n == up.clicks
<1>1. v \in Nat BY <1>b, <1>c DEF Buttons
<1>2. s.request = up.request /\ s.calls = up.calls /\ s.latest = l /\ s.pending = p BY <1>a DEF UPState
<1>3. Ended(s, c) = [s EXCEPT !.calls = m, !.request = q] BY <1>2 DEF Ended
<1>4. up' = [up EXCEPT !.latest = l, !.pending = p, !.request = q, !.calls = m, !.clicks = n]
  BY <1>a, <1>3 DEF UPState
<1>5. q \in Buttons BY <1>b, <1>1 DEF Buttons
<1>6. WaitSound(q, m)
  <2> SUFFICES ASSUME NEW k \in RequestKinds, q[k] # 0 PROVE \E e \in m : e.id = q[k] /\ e.kind = k
    BY DEF WaitSound
  <2>1. q[k] = IF k = c.kind THEN v ELSE up.request[k] BY <1>b, <1>c DEF Buttons
  <2>2. q[k] = up.request[k] /\ (k = c.kind => up.request[k] # c.id) BY <2>1
  <2>3. PICK e \in up.calls : e.id = up.request[k] /\ e.kind = k BY <1>a, <2>2 DEF WaitSound
  <2> QED BY <2>2, <2>3
<1>7. m \in SUBSET PanelCalls /\ n \in Nat /\ \A e \in m : CallSound(e) BY <1>a, <1>b
<1> HIDE DEF q, m, n, v
<1> QED BY ONLY UPInv, l \in Known, p \in Pendings, PendingSound(p), <1>4, <1>5, <1>6, <1>7, CallsStep

LEMMA InspectedStep == UPInv /\ RequestInspected => UPInv'
<1> SUFFICES ASSUME UPInv, RequestInspected PROVE UPInv' OBVIOUS
<1>a. /\ up \in UPState /\ (\A e \in up.calls : CallSound(e)) /\ WaitSound(up.request, up.calls)
      /\ PendingSound(up.pending)
  BY DEF UPInv
<1>b. /\ up.request \in Buttons /\ up.calls \in SUBSET PanelCalls /\ up.clicks \in Nat /\ up.pending \in Pendings
      /\ up.latest \in Known /\ up.released \in Known /\ up.traefik \in Known
  BY <1>a DEF UPState
<1>1. PICK c \in up.calls :
        LET seen == [up EXCEPT !.latest = IF c.kind = "update" THEN up.released ELSE @]
        IN  up' = IF ~Validated(up, c) THEN Ended(seen, c)
                  ELSE [seen EXCEPT !.calls = (@ \ {c}) \cup {[c EXCEPT !.step = "checked", !.from = up.traefik]}]
  BY DEF RequestInspected
<1> DEFINE l == IF c.kind = "update" THEN up.released ELSE up.latest
           p == up.pending
           s == [up EXCEPT !.latest = l]
<1>2. l \in Known /\ p \in Pendings /\ PendingSound(p) BY <1>a, <1>b
<1>3. s = [up EXCEPT !.latest = l, !.pending = p] BY <1>a DEF UPState
<1>4. CASE ~Validated(up, c)
  <2>1. up' = Ended(s, c) BY <1>1, <1>4
  <2> HIDE DEF l, p, s
  <2> QED BY ONLY UPInv, c \in up.calls, <1>2, <1>3, <2>1, EndedIs
<1>5. CASE Validated(up, c)
  <2> DEFINE e == [c EXCEPT !.step = "checked", !.from = up.traefik]
             m == (up.calls \ {c}) \cup {e}
             q == up.request
             n == up.clicks
  <2>1. up' = [s EXCEPT !.calls = m] BY <1>1, <1>5, <1>a DEF UPState
  <2>2. up' = [up EXCEPT !.latest = l, !.pending = p, !.request = q, !.calls = m, !.clicks = n]
    BY <1>a, <2>1 DEF UPState
  <2>3. c \in PanelCalls /\ up.traefik \in Versions BY <1>b, VersionsAre
  <2>4. /\ e \in PanelCalls /\ e.id = c.id /\ e.kind = c.kind /\ e.step = "checked" /\ e.from = up.traefik
        /\ e.target = c.target
    BY <2>3 DEF PanelCalls
  <2>5. CallSound(e)
    <3>1. e.kind = "update" => is_patch_update(up.traefik, c.target)
      BY <1>5, <2>3, <2>4 DEF Validated, PanelCalls, RequestKinds
    <3> QED BY <2>4, <3>1 DEF CallSound
  <2>6. m \in SUBSET PanelCalls /\ (\A d \in m : CallSound(d)) BY <1>a, <1>b, <2>4, <2>5
  <2>7. WaitSound(q, m)
    <3> SUFFICES ASSUME NEW k \in RequestKinds, q[k] # 0 PROVE \E d \in m : d.id = q[k] /\ d.kind = k
      BY DEF WaitSound
    <3>1. PICK d \in up.calls : d.id = q[k] /\ d.kind = k BY <1>a DEF WaitSound
    <3>2. CASE d = c BY <2>4, <3>1, <3>2
    <3>3. CASE d # c BY <3>1, <3>3
    <3> QED BY <3>2, <3>3
  <2>8. q \in Buttons /\ n \in Nat BY <1>b
  <2> HIDE DEF l, p, s, e, m, q, n
  <2> QED BY ONLY UPInv, <1>2, <2>2, <2>6, <2>7, <2>8, CallsStep
<1> QED BY <1>4, <1>5

LEMMA QueuedStep == UPInv /\ RequestQueued => UPInv'
<1> SUFFICES ASSUME UPInv, RequestQueued PROVE UPInv' OBVIOUS
<1>a. up \in UPState /\ (\A e \in up.calls : CallSound(e)) /\ PendingSound(up.pending) BY DEF UPInv
<1>b. up.calls \in SUBSET PanelCalls /\ up.pending \in Pendings /\ up.latest \in Known BY <1>a DEF UPState
<1>1. PICK c \in up.calls, runner \in BOOLEAN :
      /\ c.step = "checked"
      /\ up' = IF ~runner \/ up.pending.kind # "none" THEN Ended(up, c)
               ELSE Ended([up EXCEPT !.pending = [kind |-> c.kind, from |-> c.from, target |-> c.target]], c)
  BY DEF RequestQueued
<1> DEFINE l == up.latest
           p == IF ~runner \/ up.pending.kind # "none" THEN up.pending
                ELSE [kind |-> c.kind, from |-> c.from, target |-> c.target]
           s == [up EXCEPT !.pending = p]
<1>2. s = [up EXCEPT !.latest = l, !.pending = p] BY <1>a DEF UPState
<1>3. up' = Ended(s, c)
  <2>1. CASE ~runner \/ up.pending.kind # "none"
    <3>1. s = up BY <1>a, <2>1 DEF UPState
    <3> QED BY <1>1, <2>1, <3>1
  <2> QED BY <1>1, <2>1
<1>4. p \in Pendings BY <1>b, <1>1 DEF Pendings, FilesPending, PanelCalls
<1>5. PendingSound(p)
  <2>1. CallSound(c) BY <1>a
  <2> QED BY <1>1, <1>a, <2>1 DEF PendingSound, CallSound
<1>6. l \in Known BY <1>b
<1> HIDE DEF l, p, s
<1> QED BY ONLY UPInv, c \in up.calls, <1>2, <1>3, <1>4, <1>5, <1>6, EndedIs

LEMMA ClickedStep ==
  ASSUME UPInv, NEW k \in RequestKinds, NEW target \in Versions, up' = PanelClicked(up, k, target)
  PROVE  UPInv'
<1>a. /\ up \in UPState /\ (\A e \in up.calls : CallSound(e)) /\ WaitSound(up.request, up.calls)
      /\ PendingSound(up.pending)
  BY DEF UPInv
<1>b. /\ up.request \in Buttons /\ up.calls \in SUBSET PanelCalls /\ up.clicks \in Nat /\ up.pending \in Pendings
      /\ up.latest \in Known
  BY <1>a DEF UPState
<1> DEFINE n == up.clicks + 1
           l == up.latest
           p == up.pending
           q == [up.request EXCEPT ![k] = n]
           e == [id |-> n, kind |-> k, step |-> "sent", from |-> 0, target |-> target]
           m == up.calls \cup {e}
<1>1. up' = [up EXCEPT !.latest = l, !.pending = p, !.request = q, !.calls = m, !.clicks = n]
  BY <1>a DEF PanelClicked, UPState
<1>2. n \in Nat /\ l \in Known /\ p \in Pendings /\ PendingSound(p) BY <1>a, <1>b
<1> HIDE DEF n, l, p
<1>3. e \in PanelCalls /\ e.id = n /\ e.kind = k /\ e.step = "sent" BY <1>2, VersionsAre DEF PanelCalls
<1>4. q \in Buttons /\ \A i \in RequestKinds : q[i] = IF i = k THEN n ELSE up.request[i] BY <1>b, <1>2 DEF Buttons
<1> HIDE DEF e, q
<1>5. m \in SUBSET PanelCalls /\ (\A d \in m : CallSound(d)) BY <1>a, <1>b, <1>3 DEF CallSound
<1>6. WaitSound(q, m)
  <2> SUFFICES ASSUME NEW i \in RequestKinds, q[i] # 0 PROVE \E d \in m : d.id = q[i] /\ d.kind = i
    BY DEF WaitSound
  <2>1. CASE i = k BY <1>3, <1>4, <2>1
  <2>2. CASE i # k
    <3>1. PICK d \in up.calls : d.id = up.request[i] /\ d.kind = i BY <1>a, <1>4, <2>2 DEF WaitSound
    <3> QED BY <1>4, <2>2, <3>1
  <2> QED BY <2>1, <2>2
<1> HIDE DEF m
<1> QED BY ONLY UPInv, <1>1, <1>2, <1>4, <1>5, <1>6, CallsStep

LEMMA ButtonSteps == UPInv /\ (handleRequestUpdate \/ handleRetry \/ AnswerLost) => UPInv'
<1> SUFFICES ASSUME UPInv, handleRequestUpdate \/ handleRetry \/ AnswerLost PROVE UPInv' OBVIOUS
<1>a. /\ up \in UPState /\ (\A e \in up.calls : CallSound(e)) /\ WaitSound(up.request, up.calls)
      /\ PendingSound(up.pending)
  BY DEF UPInv
<1>b. /\ up.request \in Buttons /\ up.calls \in SUBSET PanelCalls /\ up.clicks \in Nat /\ up.pending \in Pendings
      /\ up.latest \in Known /\ up.health \in HealthAnswers /\ up.deployment \in DeploymentAnswers
  BY <1>a DEF UPState
<1>1. CASE handleRequestUpdate
  <2>1. buildTraefikUpdatePlan(up).latest = Or(up.deployment.target, up.health.latest) BY DEF buildTraefikUpdatePlan
  <2>2. buildTraefikUpdatePlan(up).latest \in Versions BY <1>b, <2>1 DEF Or, HealthAnswers, DeploymentAnswers
  <2>3. up' = PanelClicked(up, "update", buildTraefikUpdatePlan(up).latest) BY <1>1 DEF handleRequestUpdate
  <2>4. "update" \in RequestKinds BY DEF RequestKinds
  <2> QED BY <2>2, <2>3, <2>4, ClickedStep
<1>2. CASE handleRetry
  <2>1. up' = PanelClicked(up, "retry", 0) BY <1>2 DEF handleRetry
  <2>2. "retry" \in RequestKinds BY DEF RequestKinds
  <2> QED BY <2>1, <2>2, VersionsAre, ClickedStep
<1>3. CASE AnswerLost
  <2>1. PICK k \in RequestKinds : up' = [up EXCEPT !.request[k] = 0] BY <1>3 DEF AnswerLost, RequestKinds
  <2> DEFINE n == up.clicks
             l == up.latest
             p == up.pending
             m == up.calls
             q == [up.request EXCEPT ![k] = 0]
  <2>2. up' = [up EXCEPT !.latest = l, !.pending = p, !.request = q, !.calls = m, !.clicks = n]
    BY <1>a, <2>1 DEF UPState
  <2>3. q \in Buttons /\ \A i \in RequestKinds : q[i] = IF i = k THEN 0 ELSE up.request[i] BY <1>b DEF Buttons
  <2> HIDE DEF q
  <2>4. WaitSound(q, m) BY <1>a, <2>3 DEF WaitSound
  <2>5. n \in Nat /\ l \in Known /\ p \in Pendings /\ m \in SUBSET PanelCalls /\ PendingSound(p) /\ \A d \in m : CallSound(d)
    BY <1>a, <1>b
  <2> HIDE DEF n, l, p, m
  <2> QED BY ONLY UPInv, <2>2, <2>3, <2>4, <2>5, CallsStep
<1> QED BY <1>1, <1>2, <1>3

LEMMA UPStep == UPInv /\ UPNext => UPInv'
BY VersionMoves, RunnerSteps, PollSteps, InspectedStep, QueuedStep, ButtonSteps DEF UPNext

-----------------------------------------------------------------------------
LEMMA OfferIsPatch ==
  ASSUME NEW c \in Versions, NEW l \in Versions, getUpdateRisk(c, l) = "low", c <= l
  PROVE  is_patch_update(c, l)
<1>1. c # 0 /\ l # 0 BY DEF getUpdateRisk
<1>2. c \in Known /\ l \in Known BY <1>1, VersionsAre
<1> DEFINE x == TraefikReleases[c]
           y == TraefikReleases[l]
<1>3. x \in Nat \X Nat \X Nat /\ y \in Nat \X Nat \X Nat BY <1>2, ReleaseIs
<1>4. y[1] <= x[1] /\ y[2] <= x[2] /\ y[3] > x[3]
  <2>1. x[1] \in Nat /\ x[2] \in Nat /\ x[3] \in Nat /\ y[1] \in Nat /\ y[2] \in Nat /\ y[3] \in Nat BY <1>3
  <2>2. (CASE y[1] > x[1] -> "high"
           [] y[1] <= x[1] /\ y[2] > x[2] -> "medium"
           [] y[1] <= x[1] /\ y[2] <= x[2] /\ y[3] > x[3] -> "low"
           [] OTHER -> "unknown") = "low"
    BY <1>1 DEF getUpdateRisk
  <2> HIDE DEF x, y
  <2> QED BY <2>1, <2>2
<1>5. c < l
  <2>1. c # l BY <1>3, <1>4
  <2> QED BY <1>2, <2>1, VersionsAre
<1>6. Older(x, y) BY <1>2, <1>5, ReleasesAssumption
<1>7. x[1] = y[1] /\ x[2] = y[2] BY <1>3, <1>4, <1>6 DEF Older
<1>8. \A i \in 1..2 : x[i] = y[i]
  <2> TAKE i \in 1..2
  <2>1. i = 1 \/ i = 2 OBVIOUS
  <2> HIDE DEF x, y
  <2> QED BY <1>7, <2>1
<1> QED BY <1>1, <1>4, <1>8 DEF is_patch_update

LEMMA UPHolds == UPInv => UPTypeOK /\ QueuedIsPatch /\ AlertDeliveredOnce /\ OfferedIsPatch /\ BlockedIsExplained
<1> SUFFICES ASSUME UPInv PROVE UPTypeOK /\ QueuedIsPatch /\ AlertDeliveredOnce /\ OfferedIsPatch /\ BlockedIsExplained
  OBVIOUS
<1>a. /\ up \in UPState /\ PendingSound(up.pending) /\ AlertSound(up.alert, up.delivered)
      /\ WaitSound(up.request, up.calls)
  BY DEF UPInv
<1>b. /\ up.calls \in SUBSET PanelCalls /\ up.health \in HealthAnswers /\ up.deployment \in DeploymentAnswers
      /\ up.operations \in OperationsAnswers /\ up.alert \in AlertStates
      /\ up.traefik \in Known /\ up.latest \in Known /\ up.released \in Known
  BY <1>a DEF UPState
<1>1. UPTypeOK
  <2>1. \A c \in up.calls : c.step \in {"sent", "checked"} BY <1>b DEF PanelCalls
  <2>2. \A k \in {"update", "retry"} : up.request[k] # 0 => \E c \in up.calls : c.id = up.request[k]
    BY <1>a DEF WaitSound, RequestKinds
  <2> QED BY <1>b, <2>1, <2>2 DEF UPTypeOK, AlertStates
<1>2. QueuedIsPatch BY <1>a DEF QueuedIsPatch, PendingSound
<1>3. AlertDeliveredOnce BY <1>a DEF AlertDeliveredOnce, AlertSound
<1> DEFINE c == Or(up.deployment.current, up.health.version)
           l == Or(up.deployment.target, up.health.latest)
<1>4. c \in Versions /\ l \in Versions BY <1>b DEF Or, HealthAnswers, DeploymentAnswers
<1>5. buildTraefikUpdatePlan(up) = [current |-> c, latest |-> l, risk |-> getUpdateRisk(c, l)]
  BY DEF buildTraefikUpdatePlan
<1> HIDE DEF c, l
<1>6. OfferedIsPatch
  <2> SUFFICES ASSUME CanRequest(up), c <= l PROVE is_patch_update(c, l) BY <1>5 DEF OfferedIsPatch
  <2>1. getUpdateRisk(c, l) = "low" BY <1>5 DEF CanRequest
  <2> QED BY <1>4, <2>1, OfferIsPatch
<1>7. BlockedIsExplained
  <2> DEFINE banner == TraefikStatusBanner(up)
  <2> SUFFICES ASSUME TraefikUpdatePlanPanel(up) # "hidden"
               PROVE  /\ getTraefikVersionStatus(up) = "update" /\ getTraefikStatusTone(up) = "amber"
                      /\ TraefikUpdatePlanPanel(up) # "none"
    BY DEF BlockedIsExplained, TraefikStatusBanner
  <2>1. HasPlan(up) BY DEF TraefikUpdatePlanPanel
  <2>2. up.health.version # 0 /\ up.health.version < up.health.latest BY <2>1 DEF HasPlan
  <2>i. up.health.version \in Nat /\ up.health.latest \in Nat BY <1>b, VersionsAre DEF HealthAnswers, Versions
  <2>3. getTraefikVersionStatus(up) = "update" BY <2>2, <2>i DEF getTraefikVersionStatus
  <2>4. getTraefikStatusTone(up) = "amber" BY <2>2, <2>3, <2>i DEF getTraefikStatusTone
  <2>5. CASE CanRequest(up) BY <2>1, <2>3, <2>4, <2>5 DEF TraefikUpdatePlanPanel
  <2>6. CASE ~CanRequest(up)
    <3>1. TraefikUpdatePlanPanel(up) = getRequestBlockedReason(up) BY <2>1, <2>6 DEF TraefikUpdatePlanPanel
    <3> DEFINE low == buildTraefikUpdatePlan(up).risk = "low"
               o == up.operations
    <3>2. ~low \/ ~o.loaded \/ ~o.runner \/ o.pending BY <2>1, <2>6 DEF CanRequest
    <3>3. o.loaded \in BOOLEAN /\ (o.loaded => o.runner \in BOOLEAN /\ o.pending \in BOOLEAN)
      <4>1. o \in OperationsAnswers BY <1>b
      <4> HIDE DEF o
      <4>2. CASE o = [loaded |-> FALSE] BY <4>2
      <4>3. CASE o \in [loaded : {TRUE}, runner : BOOLEAN, pending : BOOLEAN,
                        alert : {"none", "request_failed", "requested"}]
        BY <4>3
      <4> QED BY <4>1, <4>2, <4>3 DEF OperationsAnswers
    <3>4. getRequestBlockedReason(up) =
            CASE ~low -> "patchesOnly"
              [] o.loaded /\ o.pending -> "alreadyPending"
              [] ~o.loaded -> "checkingRunner"
              [] o.loaded /\ ~o.runner -> "runnerUnavailable"
              [] OTHER -> "none"
      BY DEF getRequestBlockedReason
    <3> HIDE DEF low, o
    <3>5. getRequestBlockedReason(up) # "none" BY <3>2, <3>3, <3>4
    <3> QED BY <2>3, <2>4, <3>1, <3>5
  <2> QED BY <2>5, <2>6
<1> QED BY <1>1, <1>2, <1>3, <1>6, <1>7

-----------------------------------------------------------------------------
(* Certificates (CertificatesPage). *)

Preflights == [probe : Probes, day : Nat]
FailureReports == [signature : [overall : 0..2, keys : SUBSET {"http", "https"}], day : Nat]
Histories == [CertDomains -> Seq(Preflights)]
AlertLists == [CertDomains -> Seq(FailureReports)]
CertRequests ==
    {NoPreflight} \union [status : {"sent", "error"}, domain : CertDomains]
      \union [status : {"done", "success"}, domain : CertDomains, probe : Probes, previous : Probes \union {"none"}]

CEState ==
    [listed : SUBSET CertDomains, history : Histories, alerts : AlertLists, day : Nat,
     list : SUBSET CertDomains, listError : BOOLEAN, selected : CertDomains \union {"none"},
     request : CertRequests, strays : SUBSET CertDomains, started : Nat]

\* Reports are listed newest first, and those of the same failure are apart.
ReportsSound(reports, day) ==
    /\ \A i \in DOMAIN reports : reports[i].day <= day
    /\ \A i, j \in DOMAIN reports : i < j =>
         /\ reports[i].day >= reports[j].day
         /\ reports[i].signature = reports[j].signature => reports[i].day - reports[j].day > Cooldown

HistoriesShort(h) == \A d \in CertDomains : Len(h[d]) <= AlertThreshold + 1
AlertsSound(a, day) == \A d \in CertDomains : ReportsSound(a[d], day)
RequestOfSelected(r, d) == r # NoPreflight => r.domain = d

CEInv ==
    /\ ce \in CEState
    /\ HistoriesShort(ce.history)
    /\ AlertsSound(ce.alerts, ce.day)
    /\ RequestOfSelected(ce.request, ce.selected)


LEMMA SignatureType == \A probe : Signature(probe) \in [overall : 0..2, keys : SUBSET {"http", "https"}]
<1> TAKE probe
<1>1. Overall(probe) \in 0..2 BY DEF Overall, PreflightItems
<1>2. FailingKeys(probe) \in SUBSET {"http", "https"} BY DEF FailingKeys
<1> QED BY <1>1, <1>2 DEF Signature

\* A report in front of the others.
LEMMA ReportInFront ==
  ASSUME NEW old \in Seq(FailureReports), NEW r \in FailureReports, ReportsSound(old, r.day),
         \A newest \in {i \in DOMAIN old : old[i].signature = r.signature} :
           (\A i \in {k \in DOMAIN old : old[k].signature = r.signature} : newest <= i) => r.day - old[newest].day > Cooldown
  PROVE  <<r>> \o old \in Seq(FailureReports) /\ ReportsSound(<<r>> \o old, r.day)
<1> DEFINE new == <<r>> \o old
<1>1. new \in Seq(FailureReports) /\ Len(new) = Len(old) + 1 /\ new[1] = r
      /\ \A i \in 1..Len(old) : new[i + 1] = old[i]
  <2>1. <<r>> \in Seq(FailureReports) /\ Len(<<r>>) = 1 /\ <<r>>[1] = r OBVIOUS
  <2> DEFINE one == <<r>>
  <2> HIDE DEF one
  <2>2. one \o old \in Seq(FailureReports) /\ Len(one \o old) = Len(one) + Len(old)
        /\ \A i \in 1..Len(one) + Len(old) : (one \o old)[i] = IF i <= Len(one) THEN one[i] ELSE old[i - Len(one)]
    BY <2>1, ConcatProperties DEF one
  <2>3. Len(old) \in Nat BY LenProperties
  <2>4. new = one \o old BY DEF one
  <2>5. Len(one) = 1 /\ one[1] = r BY <2>1 DEF one
  <2> HIDE DEF new
  <2> QED BY <2>2, <2>3, <2>4, <2>5
<1>2. Len(old) \in Nat /\ DOMAIN old = 1..Len(old) /\ DOMAIN new = 1..Len(old) + 1
  <2> HIDE DEF new
  <2> QED BY <1>1, LenProperties
<1> HIDE DEF new
<1>3. \A i \in 1..Len(old) : old[i] \in FailureReports /\ old[i].day \in Nat
  <2>1. \A i \in 1..Len(old) : old[i] \in FailureReports BY ElementOfSeq
  <2> QED BY <2>1 DEF FailureReports
<1>4. r.day \in Nat BY DEF FailureReports
<1>5. \A i \in 2..Len(old) + 1 : i - 1 \in 1..Len(old) /\ new[i] = old[i - 1]
  <2> TAKE i \in 2..Len(old) + 1
  <2>1. i - 1 \in 1..Len(old) /\ (i - 1) + 1 = i BY <1>2
  <2> QED BY <1>1, <2>1
<1>6. ASSUME NEW j \in 1..Len(old), old[j].signature = r.signature PROVE r.day - old[j].day > Cooldown
  <2> DEFINE T == {i \in DOMAIN old : old[i].signature = r.signature}
  <2>1. T \subseteq Nat /\ j \in T BY <1>2, <1>6
  <2>2. PICK m \in T : \A y \in T : m <= y
    <3> HIDE DEF T
    <3> QED BY <2>1, LeastIndex
  <2>3. r.day - old[m].day > Cooldown
    <3>1. \A newest \in T : (\A i \in T : newest <= i) => r.day - old[newest].day > Cooldown OBVIOUS
    <3> HIDE DEF T
    <3> QED BY <2>2, <3>1
  <2>4. m \in 1..Len(old) /\ m <= j BY <1>2, <2>1, <2>2
  <2>5. old[m].day >= old[j].day
    <3>1. CASE m = j BY <1>3, <3>1
    <3>2. CASE m < j BY <1>2, <2>4, <3>2 DEF ReportsSound
    <3> QED BY <1>2, <2>4, <3>1, <3>2
  <2>6. old[m].day \in Nat /\ old[j].day \in Nat BY <1>3, <2>4
  <2> QED BY <1>4, <2>3, <2>5, <2>6, DiagnosticsAssumption
<1>7. \A i \in DOMAIN new : new[i].day <= r.day
  <2> TAKE i \in DOMAIN new
  <2>1. CASE i = 1 BY <1>1, <1>4, <2>1
  <2>2. CASE i # 1
    <3>1. i \in 2..Len(old) + 1 BY <1>2, <2>2
    <3> QED BY <1>2, <1>5, <3>1 DEF ReportsSound
  <2> QED BY <2>1, <2>2
<1>8. ASSUME NEW i \in DOMAIN new, NEW j \in DOMAIN new, i < j
      PROVE  /\ new[i].day >= new[j].day
             /\ new[i].signature = new[j].signature => new[i].day - new[j].day > Cooldown
  <2>1. j \in 2..Len(old) + 1 BY <1>2, <1>8
  <2>2. CASE i = 1
    <3>1. new[i] = r /\ new[j] = old[j - 1] /\ j - 1 \in 1..Len(old) BY <1>1, <1>5, <2>1, <2>2
    <3>2. old[j - 1].day <= r.day BY <1>2, <3>1 DEF ReportsSound
    <3>3. old[j - 1].signature = r.signature => r.day - old[j - 1].day > Cooldown BY <1>6, <3>1
    <3>4. old[j - 1].day \in Nat BY <1>3, <3>1
    <3> QED BY <1>4, <3>1, <3>2, <3>3, <3>4
  <2>3. CASE i # 1
    <3>1. i \in 2..Len(old) + 1 BY <1>2, <2>3
    <3>2. i - 1 \in DOMAIN old /\ j - 1 \in DOMAIN old /\ i - 1 < j - 1 BY <1>2, <1>5, <1>8, <2>1, <3>1
    <3>3. new[i] = old[i - 1] /\ new[j] = old[j - 1] BY <1>5, <2>1, <3>1
    <3> QED BY <3>2, <3>3 DEF ReportsSound
  <2> QED BY <2>2, <2>3
<1> QED BY <1>1, <1>7, <1>8 DEF ReportsSound, new

\* What a handled preflight adds to the history and to the reports.
LEMMA RecordedIs ==
  ASSUME CEInv, NEW d \in CertDomains, NEW probe \in Probes
  PROVE  \E h \in Histories, a \in AlertLists :
           /\ Recorded(ce, d, probe) = [ce EXCEPT !.history = h, !.alerts = a]
           /\ HistoriesShort(h) /\ AlertsSound(a, ce.day)
<1>a. ce \in CEState /\ HistoriesShort(ce.history) /\ AlertsSound(ce.alerts, ce.day) BY DEF CEInv
<1>b. ce.history \in Histories /\ ce.alerts \in AlertLists /\ ce.day \in Nat BY <1>a DEF CEState
<1> DEFINE x == [probe |-> probe, day |-> ce.day]
           one == <<x>>
           past == ce.history[d]
           all == one \o past
           k == IF Len(all) > AlertThreshold THEN AlertThreshold + 1 ELSE Len(all)
           hist == SubSeq(all, 1, k)
           old == ce.alerts[d]
           r == [signature |-> Signature(probe), day |-> ce.day]
           due == ShouldReport(old, hist)
           news == IF due THEN <<r>> \o old ELSE old
           h == [ce.history EXCEPT ![d] = hist]
           a == [ce.alerts EXCEPT ![d] = news]
<1>1. Recorded(ce, d, probe) = [ce EXCEPT !.history = h, !.alerts = a]
  BY <1>a DEF Recorded, CEState
<1>2. past \in Seq(Preflights) /\ old \in Seq(FailureReports) /\ x \in Preflights /\ r \in FailureReports
  <2>1. Signature(probe) \in [overall : 0..2, keys : SUBSET {"http", "https"}] BY SignatureType
  <2> QED BY <1>b, <2>1 DEF Histories, AlertLists, Preflights, FailureReports
<1>3. hist \in Seq(Preflights) /\ Len(hist) <= AlertThreshold + 1 /\ Head(hist) = x
  <2> HIDE DEF x
  <2>1. one \in Seq(Preflights) /\ Len(one) = 1 /\ one[1] = x BY <1>2
  <2> HIDE DEF one, past
  <2>2. all \in Seq(Preflights) /\ Len(all) = 1 + Len(past) /\ all[1] = x
    <3>1. all \in Seq(Preflights) /\ Len(all) = Len(one) + Len(past)
          /\ \A i \in 1..Len(one) + Len(past) : all[i] = IF i <= Len(one) THEN one[i] ELSE past[i - Len(one)]
      BY <1>2, <2>1, ConcatProperties
    <3>2. Len(past) \in Nat BY <1>2, LenProperties
    <3> HIDE DEF all
    <3> QED BY <2>1, <3>1, <3>2
  <2>3. Len(past) \in Nat BY <1>2, LenProperties
  <2> HIDE DEF all
  <2>4. k \in 1..Len(all) /\ k <= AlertThreshold + 1 BY <2>2, <2>3, DiagnosticsAssumption
  <2> HIDE DEF k
  <2>5. \A i \in 1..k : all[i] \in Preflights
    <3>1. \A i \in 1..Len(all) : all[i] \in Preflights BY <2>2, ElementOfSeq
    <3> QED BY <2>2, <2>3, <2>4, <3>1
  <2>6. k \in Int /\ 1 \in Int /\ 1 <= k BY <2>2, <2>3, <2>4
  <2>7. /\ hist \in Seq(Preflights) /\ Len(hist) = (IF 1 <= k THEN k - 1 + 1 ELSE 0)
        /\ \A i \in 1..k - 1 + 1 : hist[i] = all[1 + i - 1]
    BY <2>5, <2>6, SubSeqProperties
  <2> HIDE DEF hist
  <2>8. Len(hist) = k /\ hist[1] = all[1] BY <2>6, <2>7
  <2>9. hist # <<>> BY <2>6, <2>8
  <2>10. Head(hist) = hist[1] BY <2>7, <2>9
  <2> QED BY <2>2, <2>4, <2>7, <2>8, <2>10
<1>4. ReportsSound(old, ce.day) BY <1>a DEF AlertsSound
<1>5. news \in Seq(FailureReports) /\ ReportsSound(news, ce.day)
  <2>1. CASE ~due BY <1>2, <1>4, <2>1
  <2>2. CASE due
    <3>1. Head(hist).probe = probe /\ Head(hist).day = ce.day
      <4>1. x.probe = probe /\ x.day = ce.day OBVIOUS
      <4> HIDE DEF hist, x
      <4> QED BY <1>3, <4>1
    <3>2. r.signature = Signature(probe) /\ r.day = ce.day OBVIOUS
    <3> HIDE DEF hist, old, r, x
    <3>3. \A newest \in {i \in DOMAIN old : old[i].signature = Signature(probe)} :
           (\A i \in {n \in DOMAIN old : old[n].signature = Signature(probe)} : newest <= i)
             => ce.day - old[newest].day > Cooldown
      BY <2>2, <3>1 DEF ShouldReport
    <3>4. <<r>> \o old \in Seq(FailureReports) /\ ReportsSound(<<r>> \o old, r.day)
      BY <1>2, <1>4, <3>2, <3>3, ReportInFront
    <3> QED BY <2>2, <3>2, <3>4
  <2> QED BY <2>1, <2>2
<1> HIDE DEF hist, news
<1>6. h \in Histories /\ HistoriesShort(h)
  BY <1>a, <1>b, <1>3 DEF Histories, HistoriesShort
<1>7. a \in AlertLists /\ AlertsSound(a, ce.day)
  BY <1>a, <1>b, <1>5 DEF AlertLists, AlertsSound
<1> HIDE DEF h, a
<1> QED BY <1>1, <1>6, <1>7

-----------------------------------------------------------------------------
LEMMA CEInitially == CEMounted => CEInv
<1> SUFFICES ASSUME CEMounted PROVE CEInv OBVIOUS
<1> DEFINE none == [d \in CertDomains |-> <<>>]
<1>1. ce = [listed |-> CertDomains, history |-> none, alerts |-> none, day |-> 0,
            list |-> CertDomains, listError |-> FALSE, selected |-> "none",
            request |-> NoPreflight, strays |-> {}, started |-> 0]
  BY DEF CEMounted
<1>2. none \in Histories /\ none \in AlertLists BY DEF Histories, AlertLists
<1>3. \A d \in CertDomains : none[d] = <<>> OBVIOUS
<1> HIDE DEF none
<1>4. NoPreflight \in CertRequests BY DEF CertRequests
<1>5. ce \in CEState BY <1>1, <1>2, <1>4 DEF CEState
<1>6. ce.history = none /\ ce.alerts = none /\ ce.request = NoPreflight BY <1>1
<1>7. HistoriesShort(ce.history) BY <1>3, <1>6, DiagnosticsAssumption DEF HistoriesShort
<1>8. AlertsSound(ce.alerts, ce.day) BY <1>3, <1>6 DEF AlertsSound, ReportsSound
<1>9. RequestOfSelected(ce.request, ce.selected) BY <1>6 DEF RequestOfSelected
<1> QED BY <1>5, <1>7, <1>8, <1>9 DEF CEInv

\* A step that leaves the server's records alone.
LEMMA DrawerStep ==
  ASSUME CEInv, NEW g \in SUBSET CertDomains, NEW l \in SUBSET CertDomains, NEW e \in BOOLEAN,
         NEW d \in CertDomains \union {"none"}, NEW r \in CertRequests, NEW s \in SUBSET CertDomains, NEW n \in Nat,
         RequestOfSelected(r, d),
         ce' = [ce EXCEPT !.listed = g, !.list = l, !.listError = e, !.selected = d, !.request = r, !.strays = s, !.started = n]
  PROVE  CEInv'
<1>1. ce \in CEState BY DEF CEInv
<1> DEFINE c == [ce EXCEPT !.listed = g, !.list = l, !.listError = e]
<1>2. c \in CEState BY <1>1 DEF CEState
<1>3. ce' = [c EXCEPT !.selected = d, !.request = r, !.strays = s, !.started = n] OBVIOUS
<1>4. ce' \in CEState
  <2> HIDE DEF c
  <2> QED BY <1>2, <1>3 DEF CEState
<1>5. ce'.history = ce.history /\ ce'.alerts = ce.alerts /\ ce'.day = ce.day /\ ce'.request = r /\ ce'.selected = d
  BY <1>1 DEF CEState
<1> QED BY <1>4, <1>5 DEF CEInv

\* A step that records a preflight.
LEMMA RecordStep ==
  ASSUME CEInv, NEW d \in CertDomains, NEW probe \in Probes, NEW r \in CertRequests, NEW s \in SUBSET CertDomains,
         RequestOfSelected(r, ce.selected),
         ce' = [Recorded(ce, d, probe) EXCEPT !.request = r, !.strays = s]
  PROVE  CEInv'
<1>1. ce \in CEState BY DEF CEInv
<1>2. PICK h \in Histories, a \in AlertLists :
           /\ Recorded(ce, d, probe) = [ce EXCEPT !.history = h, !.alerts = a]
           /\ HistoriesShort(h) /\ AlertsSound(a, ce.day)
  BY RecordedIs
<1>3. ce' = [ce EXCEPT !.history = h, !.alerts = a, !.request = r, !.strays = s] BY <1>1, <1>2 DEF CEState
<1>4. ce' \in CEState BY <1>1, <1>3 DEF CEState
<1>5. ce'.history = h /\ ce'.alerts = a /\ ce'.day = ce.day /\ ce'.request = r /\ ce'.selected = ce.selected
  BY <1>1, <1>3 DEF CEState
<1> QED BY <1>2, <1>4, <1>5 DEF CEInv

LEMMA CERequestType ==
  CEInv => /\ ce.request.status \in {"idle", "sent", "done", "success", "error"}
           /\ ce.request = NoPreflight <=> ce.request.status = "idle"
           /\ ce.request # NoPreflight => ce.request.domain \in CertDomains /\ ce.request.domain = ce.selected
           /\ ce.request.status \in {"done", "success"} =>
                ce.request \in [status : {"done", "success"}, domain : CertDomains, probe : Probes, previous : Probes \union {"none"}]
  BY DEF CEInv, CEState, CertRequests, NoPreflight, RequestOfSelected

LEMMA CEStep == CEInv /\ CENext => CEInv'
<1> SUFFICES ASSUME CEInv, CENext PROVE CEInv' OBVIOUS
<1>a. ce \in CEState BY DEF CEInv
<1> DEFINE g == ce.listed
           l == ce.list
           e == ce.listError
           u == ce.selected
           q == ce.request
           s == ce.strays
           n == ce.started
           st1 == IF q.status = "sent" THEN {q.domain} ELSE {}
           s1 == s \union st1
           n1 == n + 1
           no == FALSE
           yes == TRUE
<1>b. g \in SUBSET CertDomains /\ l \in SUBSET CertDomains /\ e \in BOOLEAN /\ u \in CertDomains \union {"none"}
      /\ q \in CertRequests /\ s \in SUBSET CertDomains /\ n \in Nat /\ n1 \in Nat /\ no \in BOOLEAN /\ yes \in BOOLEAN
  BY <1>a DEF CEState
<1>c. RequestOfSelected(q, u) BY DEF CEInv
<1>d. s1 \in SUBSET CertDomains
  <2>1. st1 \in SUBSET CertDomains
    <3>1. CASE q.status = "sent"
      <4>1. q # NoPreflight BY <3>1 DEF NoPreflight
      <4> QED BY <3>1, <4>1, CERequestType
    <3>2. CASE q.status # "sent" BY <3>2
    <3> QED BY <3>1, <3>2
  <2> HIDE DEF st1
  <2> QED BY <1>b, <2>1
<1>1. CASE CertListRefetched
  <2>1. ce' = [ce EXCEPT !.listed = g, !.list = g, !.listError = no, !.selected = u, !.request = q, !.strays = s, !.started = n]
    BY <1>a, <1>1 DEF CertListRefetched, CEState
  <2> HIDE DEF g, l, e, u, q, s, n, s1, n1, no, yes
  <2> QED BY ONLY CEInv, <1>b, <1>c, <2>1, DrawerStep
<1>2. CASE CertListFails
  <2>1. ce' = [ce EXCEPT !.listed = g, !.list = l, !.listError = yes, !.selected = u, !.request = q, !.strays = s, !.started = n]
    BY <1>a, <1>2 DEF CertListFails, CEState
  <2> HIDE DEF g, l, e, u, q, s, n, s1, n1, no, yes
  <2> QED BY ONLY CEInv, <1>b, <1>c, <2>1, DrawerStep
<1>3. CASE closeCertificateDrawer
  <2> DEFINE d == "none"
             r == NoPreflight
  <2>1. ce' = [ce EXCEPT !.listed = g, !.list = l, !.listError = e, !.selected = d, !.request = r, !.strays = s1, !.started = n]
    BY <1>a, <1>3 DEF closeCertificateDrawer, resetPreflight, CEState
  <2>2. d \in CertDomains \union {"none"} /\ r \in CertRequests /\ RequestOfSelected(r, d)
    BY DEF CertRequests, RequestOfSelected
  <2> HIDE DEF g, l, e, u, q, s, n, s1, n1, no, yes, d, r
  <2> QED BY ONLY CEInv, <1>b, <1>d, <2>1, <2>2, DrawerStep
<1>4. ASSUME NEW d \in CertDomains, ce' = runPreflight([ce EXCEPT !.selected = d], d) PROVE CEInv'
  <2> DEFINE r == [status |-> "sent", domain |-> d]
  <2>1. ce' = [ce EXCEPT !.listed = g, !.list = l, !.listError = e, !.selected = d, !.request = r, !.strays = s1, !.started = n1]
    BY <1>a, <1>4 DEF runPreflight, CEState
  <2>2. d \in CertDomains \union {"none"} /\ r \in CertRequests /\ RequestOfSelected(r, d)
    BY DEF CertRequests, RequestOfSelected
  <2> HIDE DEF g, l, e, u, q, s, n, s1, n1, no, yes, r
  <2> QED BY ONLY CEInv, <1>b, <1>d, <2>1, <2>2, DrawerStep
<1>5. CASE RunPreflightAgain
  <2>1. ce.selected \in CertDomains BY <1>b, <1>5 DEF RunPreflightAgain, DrawerOpen
  <2>2. ce = [ce EXCEPT !.selected = ce.selected] BY <1>a DEF CEState
  <2>3. ce' = runPreflight(ce, ce.selected) BY <1>5 DEF RunPreflightAgain
  <2>4. ce' = runPreflight([ce EXCEPT !.selected = ce.selected], ce.selected) BY <2>2, <2>3
  <2> QED BY <1>4, <2>1, <2>4
<1>6. ASSUME NEW d \in CertDomains, RoutersChange(d) PROVE CEInv'
  <2> DEFINE h == IF d \in g THEN g \ {d} ELSE g \union {d}
  <2>1. ce' = [ce EXCEPT !.listed = h, !.list = l, !.listError = e, !.selected = u, !.request = q, !.strays = s, !.started = n]
    BY <1>a, <1>6 DEF RoutersChange, CEState
  <2>2. h \in SUBSET CertDomains BY <1>b
  <2> HIDE DEF g, l, e, u, q, s, n, s1, n1, no, yes, h
  <2> QED BY ONLY CEInv, <1>b, <1>c, <2>1, <2>2, DrawerStep
<1>7. CASE PreflightHandled
  <2> DEFINE d == ce.request.domain
             b == IF ce.history[d] = <<>> THEN "none" ELSE Head(ce.history[d]).probe
  <2>1. ce.request # NoPreflight /\ d \in CertDomains /\ d = u
    <3>1. ce.request # NoPreflight BY <1>7 DEF PreflightHandled, NoPreflight
    <3> QED BY <3>1, CERequestType
  <2>2. PICK probe \in Probes : ce' = [Recorded(ce, d, probe) EXCEPT !.request =
               [status |-> "done", domain |-> d, probe |-> probe, previous |-> b]]
    BY <1>7 DEF PreflightHandled
  <2>3. b \in Probes \union {"none"}
    <3>1. ce.history[d] \in Seq(Preflights) BY <1>a, <2>1 DEF CEState, Histories
    <3>2. CASE ce.history[d] = <<>> BY <3>2
    <3>3. CASE ce.history[d] # <<>>
      <4>1. Head(ce.history[d]) \in Preflights BY <3>1, <3>3, HeadTailProperties
      <4> QED BY <3>3, <4>1 DEF Preflights
    <3> QED BY <3>2, <3>3
  <2> HIDE DEF b
  <2> DEFINE r == [status |-> "done", domain |-> d, probe |-> probe, previous |-> b]
  <2>4. r \in CertRequests /\ RequestOfSelected(r, ce.selected) BY <2>1, <2>3 DEF CertRequests, RequestOfSelected
  <2>5. ce' = [Recorded(ce, d, probe) EXCEPT !.request = r, !.strays = s]
    <3> HIDE DEF d
    <3>1. PICK h \in Histories, a \in AlertLists :
             /\ Recorded(ce, d, probe) = [ce EXCEPT !.history = h, !.alerts = a]
             /\ HistoriesShort(h) /\ AlertsSound(a, ce.day)
      BY <2>1, RecordedIs
    <3> QED BY <1>a, <2>2, <3>1 DEF CEState
  <2> HIDE DEF d, r, s
  <2> QED BY ONLY CEInv, <1>b, <2>1, <2>4, <2>5, probe \in Probes, RecordStep
<1>8. CASE StrayHandled
  <2>1. PICK d \in ce.strays, probe \in Probes : ce' = [Recorded(ce, d, probe) EXCEPT !.strays = @ \ {d}]
    BY <1>8 DEF StrayHandled
  <2> DEFINE t == s \ {d}
  <2>2. d \in CertDomains BY <1>b
  <2>3. ce' = [Recorded(ce, d, probe) EXCEPT !.request = q, !.strays = t]
    <3>1. PICK h \in Histories, a \in AlertLists :
             /\ Recorded(ce, d, probe) = [ce EXCEPT !.history = h, !.alerts = a]
             /\ HistoriesShort(h) /\ AlertsSound(a, ce.day)
      BY <2>2, RecordedIs
    <3> QED BY <1>a, <2>1, <3>1 DEF CEState
  <2>4. t \in SUBSET CertDomains BY <1>b
  <2>5. RequestOfSelected(q, ce.selected) BY <1>c
  <2> HIDE DEF q, t
  <2> QED BY ONLY CEInv, <1>b, <2>2, <2>3, <2>4, <2>5, probe \in Probes, RecordStep
<1>9. CASE PreflightAnswered
  <2> DEFINE r == [q EXCEPT !.status = "success"]
  <2>1. q \in [status : {"done", "success"}, domain : CertDomains, probe : Probes, previous : Probes \union {"none"}]
    BY <1>9, CERequestType DEF PreflightAnswered
  <2>2. r \in CertRequests /\ r.domain = q.domain BY <2>1 DEF CertRequests
  <2>3. RequestOfSelected(r, u)
    <3>1. q # NoPreflight BY <2>1 DEF NoPreflight
    <3> HIDE DEF r, q
    <3> QED BY <1>c, <2>2, <3>1 DEF RequestOfSelected
  <2>4. ce' = [ce EXCEPT !.listed = g, !.list = l, !.listError = e, !.selected = u, !.request = r, !.strays = s, !.started = n]
    BY <1>a, <1>9 DEF PreflightAnswered, CEState
  <2> HIDE DEF g, l, e, u, q, s, n, s1, n1, no, yes, r
  <2> QED BY ONLY CEInv, <1>b, <2>2, <2>3, <2>4, DrawerStep
<1>10. CASE PreflightFails
  <2> DEFINE r == [status |-> "error", domain |-> ce.request.domain]
  <2>1. ce.request # NoPreflight BY <1>10 DEF PreflightFails, NoPreflight
  <2>2. r \in CertRequests /\ RequestOfSelected(r, u) BY <2>1, CERequestType DEF CertRequests, RequestOfSelected
  <2>3. ce' = [ce EXCEPT !.listed = g, !.list = l, !.listError = e, !.selected = u, !.request = r, !.strays = s, !.started = n]
    BY <1>a, <1>10 DEF PreflightFails, CEState
  <2> HIDE DEF g, l, e, u, q, s, n, s1, n1, no, yes, r
  <2> QED BY ONLY CEInv, <1>b, <2>2, <2>3, DrawerStep
<1>11. CASE DayPasses
  <2> DEFINE t == ce.day + 1
  <2>1. ce.day \in Nat /\ t \in Nat BY <1>a DEF CEState
  <2>2. ce' = [ce EXCEPT !.day = t] BY <1>11 DEF DayPasses
  <2>3. t >= ce.day BY <2>1
  <2> HIDE DEF t
  <2>4. ce' \in CEState BY <1>a, <2>1, <2>2 DEF CEState
  <2>5. ce'.day = t /\ ce'.history = ce.history /\ ce'.alerts = ce.alerts /\ ce'.request = ce.request /\ ce'.selected = ce.selected
    BY <1>a, <2>2 DEF CEState
  <2>6. AlertsSound(ce.alerts, t)
    <3>1. ASSUME NEW d \in CertDomains PROVE ReportsSound(ce.alerts[d], t)
      <4>1. ReportsSound(ce.alerts[d], ce.day) BY DEF CEInv, AlertsSound
      <4>2. ce.alerts[d] \in Seq(FailureReports) BY <1>a DEF CEState, AlertLists
      <4>3. \A i \in DOMAIN ce.alerts[d] : ce.alerts[d][i].day \in Nat
        <5>1. \A i \in 1..Len(ce.alerts[d]) : ce.alerts[d][i] \in FailureReports BY <4>2, ElementOfSeq
        <5>2. DOMAIN ce.alerts[d] = 1..Len(ce.alerts[d]) BY <4>2, LenProperties
        <5> QED BY <5>1, <5>2 DEF FailureReports
      <4>4. \A i \in DOMAIN ce.alerts[d] : ce.alerts[d][i].day <= t BY <2>1, <2>3, <4>1, <4>3 DEF ReportsSound
      <4> QED BY <4>1, <4>4 DEF ReportsSound
    <3> QED BY <3>1 DEF AlertsSound
  <2> QED BY <2>4, <2>5, <2>6 DEF CEInv
<1>12. ASSUME NEW d \in CertDomains, openCertificateDrawer(d) PROVE CEInv'
  BY <1>4, <1>12 DEF openCertificateDrawer
<1>13. ASSUME NEW d \in VolatileDomains, RoutersChange(d) PROVE CEInv'
  BY <1>6, <1>13, DiagnosticsAssumption
<1> QED BY <1>1, <1>2, <1>3, <1>5, <1>7, <1>8, <1>9, <1>10, <1>11, <1>12, <1>13 DEF CENext

LEMMA CEHolds == CEInv => CETypeOK /\ PreflightOfOpened /\ TrendHasReason /\ ReportsApart
<1> SUFFICES ASSUME CEInv PROVE CETypeOK /\ PreflightOfOpened /\ TrendHasReason /\ ReportsApart OBVIOUS
<1>a. ce \in CEState BY DEF CEInv
<1>1. CETypeOK
  <2>1. ce.listed \subseteq CertDomains /\ ce.list \subseteq CertDomains
        /\ ce.selected \in CertDomains \cup {"none"} /\ ce.strays \subseteq CertDomains
    BY <1>a DEF CEState
  <2>2. \A d \in CertDomains : Len(ce.history[d]) <= AlertThreshold + 1 BY DEF CEInv, HistoriesShort
  <2> QED BY <2>1, <2>2, CERequestType DEF CETypeOK
<1>2. PreflightOfOpened BY CERequestType DEF PreflightOfOpened
<1>3. TrendHasReason
  <2>1. ASSUME NEW now, NEW before, ChangedItems(now, before) = {} PROVE PreflightTrend(now, before) = "same"
    <3>1. PreflightItems(now)["http"] = PreflightItems(before)["http"]
          /\ PreflightItems(now)["https"] = PreflightItems(before)["https"]
      <4>1. \A k \in {"http", "https"} : ~(PreflightItems(now)[k] # PreflightItems(before)[k])
        BY <2>1 DEF ChangedItems
      <4> QED BY <4>1
    <3>2. Overall(now) = Overall(before) BY <3>1 DEF Overall
    <3>3. Overall(now) \in 0..2 BY DEF Overall, PreflightItems
    <3>4. ~(Overall(now) < Overall(before)) /\ ~(Overall(now) > Overall(before)) BY <3>2, <3>3
    <3> QED BY <3>4 DEF PreflightTrend
  <2>2. ASSUME NEW now, NEW before, Comparison(now, before).trend # "same" PROVE Comparison(now, before).changed # {}
    BY <2>1, <2>2 DEF Comparison
  <2> QED BY <2>2 DEF TrendHasReason
<1>4. ReportsApart BY DEF CEInv, AlertsSound, ReportsSound, ReportsApart
<1> QED BY <1>1, <1>2, <1>3, <1>4

LEMMA CEAdvice == AdviceForEveryFault
<1>1. ASSUME NEW c \in CertFacts, c.acme # "unknown",
             \E k \in {"resolver", "issued", "recent"} : ChecklistItems(c)[k] = "fail"
      PROVE  ChecklistAction(c) # "nothingToDo"
  <2>1. c.resolver \in BOOLEAN /\ c.expires \in {"never", "past", "soon", "later"} /\ c.acme \in {"none", "dns", "rate_limit"}
    BY <1>1 DEF CertFacts
  <2>2. CASE c.acme \in {"dns", "rate_limit"} BY <2>2 DEF ChecklistAction
  <2>3. CASE c.acme = "none" /\ ~c.resolver BY <2>3 DEF ChecklistAction
  <2>4. CASE c.acme = "none" /\ c.resolver
    <3>1. CertStatus(c) \in {"pending", "inactive"}
      <4>1. c.expires = "never"
        <5>1. ChecklistItems(c)["resolver"] = "ok" /\ ChecklistItems(c)["recent"] = "ok" BY <2>4 DEF ChecklistItems
        <5>2. ChecklistItems(c)["issued"] = "fail" BY <1>1, <5>1
        <5> QED BY <5>2 DEF ChecklistItems
      <4> QED BY <2>4, <4>1 DEF CertStatus
    <3> QED BY <2>4, <3>1 DEF ChecklistAction
  <2> QED BY <2>1, <2>2, <2>3, <2>4
<1> QED BY <1>1 DEF AdviceForEveryFault

-----------------------------------------------------------------------------
(* Monitors (MonitorBoard). *)

BoardStatuses == {"unknown", "healthy", "unhealthy", "recovered", "blocked"}
Transitions ==
    {"none", "manager_watchdog_stale", "manager_watchdog_recovered", "manager_http_errors_high",
     "manager_http_errors_recovered", "manager_settings_history_latency_high",
     "manager_settings_history_latency_recovered"}
StateFiles == [status : BoardStatuses, age : 0..StaleAfter]
StoredChecks ==
    [checked : BOOLEAN, available : BOOLEAN, ready : BOOLEAN, active : BOOLEAN, age : 0..BoardCooldown]
Audits == {"none", "stale", "healthy"}

MBState ==
    [monitor : BoardMonitors, enabled : BOOLEAN, file : StateFiles, stored : StoredChecks,
     audit : Audits, log : Transitions \X Transitions]

\* The log and what a monitor stored last agree: while nothing is recorded
\* an alert is due at once, the newest row is the failure exactly while it
\* lasts, and below a recovery is the failure it ends.
BoardSound(m, q, a, log) ==
    /\ q.available => q.checked
    /\ log[1] = "none" => ~q.active /\ q.age = BoardCooldown
    /\ m \notin {"api", "latency"} => ~q.active
    /\ m # "watchdog" => a = "none"
    /\ m = "api" =>
         /\ q.active => log[1] = "manager_http_errors_high"
         /\ ~q.active => \/ log[1] = "none"
                         \/ log[1] = "manager_http_errors_recovered" /\ log[2] = "manager_http_errors_high"
    /\ m = "watchdog" =>
         /\ a = "stale" => log[1] = "manager_watchdog_stale"
         /\ a # "stale" => \/ log[1] = "none"
                           \/ log[1] = "manager_watchdog_recovered" /\ log[2] = "manager_watchdog_stale"

MBInv == mb \in MBState /\ BoardSound(mb.monitor, mb.stored, mb.audit, mb.log)

LEMMA NotCheckedType == /\ NotChecked \in StoredChecks /\ NotChecked.active = FALSE /\ NotChecked.age = BoardCooldown
                        /\ NotChecked.available = FALSE /\ NotChecked.checked = FALSE
  BY BoardAssumption DEF NotChecked, StoredChecks

LEMMA MBInitially == MBMounted => MBInv
<1> SUFFICES ASSUME MBMounted PROVE MBInv OBVIOUS
<1> DEFINE f == [status |-> "unknown", age |-> 0]
           l == <<"none", "none">>
<1>1. f \in StateFiles BY BoardAssumption DEF StateFiles, BoardStatuses
<1>2. l \in Transitions \X Transitions /\ l[1] = "none" BY DEF Transitions
<1>3. PICK m \in BoardMonitors : mb = [monitor |-> m, enabled |-> TRUE, file |-> f, stored |-> NotChecked,
                                       audit |-> "none", log |-> l]
  BY DEF MBMounted
<1> HIDE DEF f, l
<1>4. mb \in MBState BY <1>1, <1>2, <1>3, NotCheckedType DEF MBState, Audits
<1>5. mb.monitor = m /\ mb.stored = NotChecked /\ mb.audit = "none" /\ mb.log = l BY <1>3
<1>6. BoardSound(mb.monitor, mb.stored, mb.audit, mb.log) BY <1>2, <1>5, NotCheckedType DEF BoardSound
<1> QED BY <1>4, <1>6 DEF MBInv

LEMMA BoardStep ==
  ASSUME MBInv, NEW b \in BOOLEAN, NEW f \in StateFiles, NEW q \in StoredChecks, NEW a \in Audits,
         NEW l \in Transitions \X Transitions,
         mb' = [mb EXCEPT !.enabled = b, !.file = f, !.stored = q, !.audit = a, !.log = l],
         BoardSound(mb.monitor, q, a, l)
  PROVE  MBInv'
<1>1. mb \in MBState BY DEF MBInv
<1>2. mb' \in MBState BY <1>1 DEF MBState
<1>3. mb'.monitor = mb.monitor /\ mb'.stored = q /\ mb'.audit = a /\ mb'.log = l BY <1>1 DEF MBState
<1> QED BY <1>2, <1>3 DEF MBInv

\* Only the file, the switch or the age of the last alert moves.
LEMMA BoardAsideStep == MBInv /\ (HostReports \/ BoardTimePasses \/ SwitchBoardMonitoring) => MBInv'
<1> SUFFICES ASSUME MBInv, HostReports \/ BoardTimePasses \/ SwitchBoardMonitoring PROVE MBInv' OBVIOUS
<1>a. mb \in MBState /\ BoardSound(mb.monitor, mb.stored, mb.audit, mb.log) BY DEF MBInv
<1> DEFINE m == mb.monitor
           b == mb.enabled
           f == mb.file
           q == mb.stored
           a == mb.audit
           l == mb.log
<1>b. b \in BOOLEAN /\ f \in StateFiles /\ q \in StoredChecks /\ a \in Audits /\ l \in Transitions \X Transitions
  BY <1>a DEF MBState
<1>1. CASE HostReports
  <2>1. PICK status \in HostStatuses[mb.monitor] : mb' = [mb EXCEPT !.file = [status |-> status, age |-> 0]]
    BY <1>1 DEF HostReports
  <2>2. status \in BoardStatuses
    <3>1. mb.monitor \in {"watchdog", "systemd", "selfban"} BY <1>1 DEF HostReports, HostStatuses
    <3> QED BY <2>1, <3>1 DEF HostStatuses, BoardStatuses
  <2> DEFINE g == [status |-> status, age |-> 0]
  <2>3. g \in StateFiles BY <2>2, BoardAssumption DEF StateFiles
  <2>4. mb' = [mb EXCEPT !.enabled = b, !.file = g, !.stored = q, !.audit = a, !.log = l] BY <1>a, <2>1 DEF MBState
  <2> HIDE DEF b, f, q, a, l, g
  <2>5. BoardSound(mb.monitor, q, a, l) BY <1>a DEF q, a, l
  <2> QED BY ONLY MBInv, <1>b, <2>3, <2>4, <2>5, BoardStep
<1>2. CASE BoardTimePasses
  <2> DEFINE fa == IF f.age < StaleAfter THEN f.age + 1 ELSE f.age
             qa == IF q.age < BoardCooldown THEN q.age + 1 ELSE q.age
             g == [f EXCEPT !.age = fa]
             r == [q EXCEPT !.age = qa]
  <2>1. mb' = [mb EXCEPT !.file = g, !.stored = r]
    BY <1>a, <1>2 DEF BoardTimePasses, MBState
  <2>2. fa \in 0..StaleAfter /\ qa \in 0..BoardCooldown /\ (q.age = BoardCooldown => qa = BoardCooldown)
    BY <1>b, BoardAssumption DEF StateFiles, StoredChecks
  <2> HIDE DEF fa, qa
  <2>3. g \in StateFiles /\ r \in StoredChecks BY <1>b, <2>2 DEF StateFiles, StoredChecks
  <2>4. r.available = q.available /\ r.checked = q.checked /\ r.active = q.active /\ r.age = qa
    BY <1>b DEF StoredChecks
  <2> HIDE DEF g, r
  <2>5. mb' = [mb EXCEPT !.enabled = b, !.file = g, !.stored = r, !.audit = a, !.log = l] BY <1>a, <2>1 DEF MBState
  <2> HIDE DEF b, f, q, a, l
  <2>6. BoardSound(mb.monitor, r, a, l) BY <1>a, <2>2, <2>4 DEF BoardSound, q, a, l
  <2> QED BY ONLY MBInv, <1>b, <2>3, <2>5, <2>6, BoardStep
<1>3. CASE SwitchBoardMonitoring
  <2> DEFINE c == ~b
  <2>1. c \in BOOLEAN BY <1>b
  <2>2. mb' = [mb EXCEPT !.enabled = c, !.file = f, !.stored = q, !.audit = a, !.log = l]
    BY <1>a, <1>3 DEF SwitchBoardMonitoring, MBState
  <2> HIDE DEF c, b, f, q, a, l
  <2>3. BoardSound(mb.monitor, q, a, l) BY <1>a DEF q, a, l
  <2> QED BY ONLY MBInv, <1>b, <2>1, <2>2, <2>3, BoardStep
<1> QED BY <1>1, <1>2, <1>3

LEMMA RowAddedIs ==
  ASSUME mb \in MBState, NEW e \in Transitions
  PROVE  \E l \in Transitions \X Transitions :
           /\ RowAdded(mb, e) = [mb EXCEPT !.log = l]
           /\ IF e = "none" THEN l = mb.log ELSE l[1] = e /\ l[2] = mb.log[1]
<1>1. mb.log \in Transitions \X Transitions BY DEF MBState
<1>2. CASE e = "none"
  <2>1. RowAdded(mb, e) = [mb EXCEPT !.log = mb.log] BY <1>2 DEF RowAdded, MBState
  <2> QED BY <1>1, <1>2, <2>1
<1>3. CASE e # "none"
  <2> DEFINE l == <<e, mb.log[1]>>
  <2>1. RowAdded(mb, e) = [mb EXCEPT !.log = l] BY <1>3 DEF RowAdded
  <2>2. l \in Transitions \X Transitions /\ l[1] = e /\ l[2] = mb.log[1] BY <1>1
  <2> QED BY <1>3, <2>1, <2>2
<1> QED BY <1>2, <1>3

LEMMA LeaderCheckStep ==
  ASSUME MBInv, NEW e \in Transitions, NEW q \in StoredChecks, NEW a \in Audits,
         mb' = [RowAdded(mb, e) EXCEPT !.stored = q, !.audit = a],
         \A l \in Transitions \X Transitions :
           (IF e = "none" THEN l = mb.log ELSE l[1] = e /\ l[2] = mb.log[1]) => BoardSound(mb.monitor, q, a, l)
  PROVE  MBInv'
<1>a. mb \in MBState BY DEF MBInv
<1>1. PICK l \in Transitions \X Transitions :
           /\ RowAdded(mb, e) = [mb EXCEPT !.log = l]
           /\ IF e = "none" THEN l = mb.log ELSE l[1] = e /\ l[2] = mb.log[1]
  BY <1>a, RowAddedIs
<1>2. BoardSound(mb.monitor, q, a, l) BY <1>1
<1> DEFINE b == mb.enabled
           f == mb.file
<1>3. b \in BOOLEAN /\ f \in StateFiles BY <1>a DEF MBState
<1>4. mb' = [mb EXCEPT !.enabled = b, !.file = f, !.stored = q, !.audit = a, !.log = l] BY <1>a, <1>1 DEF MBState
<1> HIDE DEF b, f
<1> QED BY ONLY MBInv, q \in StoredChecks, a \in Audits, l \in Transitions \X Transitions, <1>2, <1>3, <1>4, BoardStep

LEMMA MBStep == MBInv /\ MBNext => MBInv'
<1> SUFFICES ASSUME MBInv, MBNext PROVE MBInv' OBVIOUS
<1>a. mb \in MBState /\ BoardSound(mb.monitor, mb.stored, mb.audit, mb.log) BY DEF MBInv
<1> DEFINE m == mb.monitor
           q == mb.stored
           a == mb.audit
<1>b. q \in StoredChecks /\ a \in Audits /\ mb.log \in Transitions \X Transitions BY <1>a DEF MBState
<1>1. ASSUME mb.monitor = "watchdog", mb' = WatchdogChecked(mb) PROVE MBInv'
  <2>1. CASE mb.file.status = "unknown"
    <3>1. mb' = mb BY <1>1, <2>1 DEF WatchdogChecked
    <3> QED BY <3>1 DEF MBInv
  <2>2. CASE mb.file.status # "unknown"
    <3> DEFINE current == IF IsStale(mb) THEN "stale" ELSE "healthy"
               event == CASE current = "stale" /\ mb.audit # "stale" -> "manager_watchdog_stale"
                          [] current = "healthy" /\ mb.audit = "stale" -> "manager_watchdog_recovered"
                          [] OTHER -> "none"
    <3>1. mb' = [RowAdded(mb, event) EXCEPT !.audit = current] BY <1>1, <2>2 DEF WatchdogChecked
    <3>2. current = "stale" \/ current = "healthy" OBVIOUS
    <3> HIDE DEF current
    <3>3. /\ current = "stale" /\ a # "stale" => event = "manager_watchdog_stale"
          /\ current = "healthy" /\ a = "stale" => event = "manager_watchdog_recovered"
          /\ (current = "stale" <=> a = "stale") => event = "none"
      BY <3>2
    <3>4. event \in Transitions /\ current \in Audits BY <3>2, <3>3 DEF Transitions, Audits
    <3> HIDE DEF event
    <3>5. mb' = [RowAdded(mb, event) EXCEPT !.stored = q, !.audit = current]
      <4>1. PICK l : RowAdded(mb, event) = [mb EXCEPT !.log = l] BY <1>a, <3>4, RowAddedIs
      <4> QED BY <1>a, <3>1, <4>1 DEF MBState
    <3>6. ASSUME NEW l \in Transitions \X Transitions,
                 IF event = "none" THEN l = mb.log ELSE l[1] = event /\ l[2] = mb.log[1]
          PROVE  BoardSound(mb.monitor, q, current, l)
      <4> HIDE DEF q, a
      <4>1. ~q.active /\ (q.available => q.checked) /\ (mb.log[1] = "none" => q.age = BoardCooldown)
        BY <1>1, <1>a DEF BoardSound, q
      <4>2. /\ a = "stale" => mb.log[1] = "manager_watchdog_stale"
            /\ a # "stale" => \/ mb.log[1] = "none"
                              \/ mb.log[1] = "manager_watchdog_recovered" /\ mb.log[2] = "manager_watchdog_stale"
        BY <1>1, <1>a DEF BoardSound, a
      <4>3. CASE event = "none" BY <1>1, <3>2, <3>3, <3>6, <4>1, <4>2, <4>3 DEF BoardSound
      <4>4. CASE event = "manager_watchdog_stale" BY <1>1, <3>2, <3>3, <3>6, <4>1, <4>2, <4>4 DEF BoardSound
      <4>5. CASE event = "manager_watchdog_recovered" BY <1>1, <3>2, <3>3, <3>6, <4>1, <4>2, <4>5 DEF BoardSound
      <4> QED BY <3>2, <3>3, <4>3, <4>4, <4>5
    <3> HIDE DEF q
    <3> QED BY ONLY MBInv, <1>b, <3>4, <3>5, <3>6, LeaderCheckStep
  <2> QED BY <2>1, <2>2
<1>2. ASSUME mb.monitor \in {"api", "latency"}, mb' = [mb EXCEPT !.stored = NotChecked, !.log = <<"none", "none">>]
      PROVE  MBInv'
  <2> DEFINE b == mb.enabled
             f == mb.file
             l == <<"none", "none">>
  <2>1. b \in BOOLEAN /\ f \in StateFiles BY <1>a DEF MBState
  <2>2. mb' = [mb EXCEPT !.enabled = b, !.file = f, !.stored = NotChecked, !.audit = a, !.log = l]
    BY <1>a, <1>2 DEF MBState
  <2>3. l \in Transitions \X Transitions /\ l[1] = "none" BY DEF Transitions
  <2>4. BoardSound(mb.monitor, NotChecked, a, l) BY <1>2, <1>a, <2>3, NotCheckedType DEF BoardSound
  <2> HIDE DEF b, f, a, l
  <2> QED BY ONLY MBInv, <1>b, <2>1, <2>2, <2>3, <2>4, NotCheckedType, BoardStep
\* A log that cannot be read.
<1>3. ASSUME mb' = [mb EXCEPT !.stored = [@ EXCEPT !.checked = TRUE, !.available = FALSE]] PROVE MBInv'
  <2> DEFINE b == mb.enabled
             f == mb.file
             l == mb.log
             r == [q EXCEPT !.checked = TRUE, !.available = FALSE]
  <2>1. b \in BOOLEAN /\ f \in StateFiles BY <1>a DEF MBState
  <2>2. mb' = [mb EXCEPT !.enabled = b, !.file = f, !.stored = r, !.audit = a, !.log = l]
    BY <1>a, <1>3 DEF MBState
  <2>3. r \in StoredChecks /\ r.active = q.active /\ r.age = q.age /\ r.available = FALSE BY <1>b DEF StoredChecks
  <2> HIDE DEF r
  <2>4. BoardSound(mb.monitor, r, a, l) BY <1>a, <2>3 DEF BoardSound
  <2> HIDE DEF b, f, a, l
  <2> QED BY ONLY MBInv, <1>b, <2>1, <2>2, <2>3, <2>4, BoardStep DEF l
<1>4. ASSUME mb.monitor = "api", NEW found \in {"breached", "fine"}, mb' = HttpErrorsChecked(mb, found) PROVE MBInv'
  <2> DEFINE event == CASE found = "breached" /\ (~mb.stored.active \/ mb.stored.age >= BoardCooldown) -> "manager_http_errors_high"
                   [] found = "fine" /\ mb.stored.active -> "manager_http_errors_recovered"
                   [] OTHER -> "none"
             active == found = "breached"
             age == IF event = "manager_http_errors_high" THEN 0 ELSE mb.stored.age
             r == [NotChecked EXCEPT !.checked = TRUE, !.available = TRUE, !.active = active, !.age = age]
  <2>1. mb' = [RowAdded(mb, event) EXCEPT !.stored = r] BY <1>4 DEF HttpErrorsChecked
  <2>2. /\ (found = "breached" /\ (~mb.stored.active \/ mb.stored.age >= BoardCooldown)) => event = "manager_http_errors_high"
        /\ (found = "breached" /\ mb.stored.active /\ ~(mb.stored.age >= BoardCooldown)) => event = "none"
        /\ (found = "fine" /\ mb.stored.active) => event = "manager_http_errors_recovered"
        /\ (found = "fine" /\ ~mb.stored.active) => event = "none"
    BY <1>4
  <2>3. mb.stored.active \in BOOLEAN /\ mb.stored.age \in 0..BoardCooldown BY <1>b DEF StoredChecks
  <2>4. event \in {"none", "manager_http_errors_high", "manager_http_errors_recovered"} BY <1>4, <2>2, <2>3
  <2> HIDE DEF event
  <2>5. age \in 0..BoardCooldown /\ (event # "manager_http_errors_high" => age = mb.stored.age) BY <2>3, BoardAssumption
  <2>6. active \in BOOLEAN /\ (active <=> found = "breached") OBVIOUS
  <2> HIDE DEF age, active
  <2>7. r \in StoredChecks /\ r.active = active /\ r.age = age /\ r.checked = TRUE
    BY <2>5, <2>6, NotCheckedType DEF StoredChecks
  <2> HIDE DEF r
  <2>8. mb' = [RowAdded(mb, event) EXCEPT !.stored = r, !.audit = a]
    <3>1. PICK l : RowAdded(mb, event) = [mb EXCEPT !.log = l] BY <1>a, <2>4, RowAddedIs DEF Transitions
    <3> QED BY <1>a, <2>1, <3>1 DEF MBState
  <2>9. ASSUME NEW l \in Transitions \X Transitions,
               IF event = "none" THEN l = mb.log ELSE l[1] = event /\ l[2] = mb.log[1]
        PROVE  BoardSound(mb.monitor, r, a, l)
    <3>1. a = "none" BY <1>4, <1>a DEF BoardSound
    <3>2. /\ mb.log[1] = "none" => ~mb.stored.active /\ mb.stored.age = BoardCooldown
          /\ mb.stored.active => mb.log[1] = "manager_http_errors_high"
          /\ ~mb.stored.active =>
                \/ mb.log[1] = "none"
                \/ mb.log[1] = "manager_http_errors_recovered" /\ mb.log[2] = "manager_http_errors_high"
      BY <1>4, <1>a DEF BoardSound
    <3> HIDE DEF a
    <3>3. CASE event = "none"
      BY <1>4, <2>2, <2>3, <2>5, <2>6, <2>7, <2>9, <3>1, <3>2, <3>3 DEF BoardSound
    <3>4. CASE event = "manager_http_errors_high"
      BY <1>4, <2>2, <2>3, <2>5, <2>6, <2>7, <2>9, <3>1, <3>2, <3>4 DEF BoardSound
    <3>5. CASE event = "manager_http_errors_recovered"
      BY <1>4, <2>2, <2>3, <2>5, <2>6, <2>7, <2>9, <3>1, <3>2, <3>5 DEF BoardSound
    <3> QED BY <2>4, <3>3, <3>4, <3>5
  <2>10. event \in Transitions BY <2>4 DEF Transitions
  <2> HIDE DEF a
  <2> QED BY ONLY MBInv, <1>b, <2>10, <2>7, <2>8, <2>9, LeaderCheckStep
<1>5. ASSUME mb.monitor = "latency", NEW found \in {"sampling", "breached", "fine"}, mb' = LatencyChecked(mb, found) PROVE MBInv'
  <2> DEFINE event == CASE found = "breached" /\ mb.stored.age >= BoardCooldown -> "manager_settings_history_latency_high"
                   [] found = "fine" /\ mb.stored.active -> "manager_settings_history_latency_recovered"
                   [] OTHER -> "none"
             active == found = "breached"
             ready == found # "sampling"
             age == IF event = "manager_settings_history_latency_high" THEN 0 ELSE mb.stored.age
             r == [checked |-> TRUE, available |-> TRUE, ready |-> ready, active |-> active, age |-> age]
  <2>1. mb' = [RowAdded(mb, event) EXCEPT !.stored = r] BY <1>5 DEF LatencyChecked
  <2>2. /\ (found = "breached" /\ mb.stored.age >= BoardCooldown) => event = "manager_settings_history_latency_high"
        /\ event \in {"none", "manager_settings_history_latency_high", "manager_settings_history_latency_recovered"}
    BY <1>5
  <2>3. mb.stored.active \in BOOLEAN /\ mb.stored.age \in 0..BoardCooldown BY <1>b DEF StoredChecks
  <2> HIDE DEF event
  <2>5. age \in 0..BoardCooldown /\ (event = "none" => age = mb.stored.age) BY <2>3, BoardAssumption
  <2>6. active \in BOOLEAN /\ ready \in BOOLEAN /\ (active => found = "breached") OBVIOUS
  <2> HIDE DEF age, active, ready
  <2>7. r \in StoredChecks /\ r.active = active /\ r.age = age /\ r.checked = TRUE BY <2>5, <2>6 DEF StoredChecks
  <2> HIDE DEF r
  <2>8. mb' = [RowAdded(mb, event) EXCEPT !.stored = r, !.audit = a]
    <3>1. PICK l : RowAdded(mb, event) = [mb EXCEPT !.log = l] BY <1>a, <2>2, RowAddedIs DEF Transitions
    <3> QED BY <1>a, <2>1, <3>1 DEF MBState
  <2>9. ASSUME NEW l \in Transitions \X Transitions,
               IF event = "none" THEN l = mb.log ELSE l[1] = event /\ l[2] = mb.log[1]
        PROVE  BoardSound(mb.monitor, r, a, l)
    <3>1. a = "none" BY <1>5, <1>a DEF BoardSound
    <3>2. mb.log[1] = "none" => mb.stored.age = BoardCooldown BY <1>a DEF BoardSound
    <3> HIDE DEF a
    <3>3. l[1] = "none" => ~r.active /\ r.age = BoardCooldown
      <4> SUFFICES ASSUME l[1] = "none" PROVE ~r.active /\ r.age = BoardCooldown OBVIOUS
      <4>1. event = "none" /\ mb.log[1] = "none" BY <2>2, <2>9
      <4>2. age = BoardCooldown /\ mb.stored.age >= BoardCooldown BY <2>3, <2>5, <3>2, <4>1, BoardAssumption
      <4>3. ~active BY <2>2, <2>6, <4>1, <4>2
      <4> QED BY <2>7, <4>2, <4>3
    <3> QED BY <1>5, <2>7, <3>1, <3>3 DEF BoardSound
  <2>10. event \in Transitions BY <2>2 DEF Transitions
  <2> HIDE DEF a
  <2> QED BY ONLY MBInv, <1>b, <2>10, <2>7, <2>8, <2>9, LeaderCheckStep
<1>6. CASE LeaderChecks
  <2>1. ASSUME NEW found, found = "unavailable", mb' = HttpErrorsChecked(mb, found) \/ mb' = LatencyChecked(mb, found)
        PROVE  MBInv'
    <3>1. mb' = [mb EXCEPT !.stored = [@ EXCEPT !.checked = TRUE, !.available = FALSE]]
      BY <2>1 DEF HttpErrorsChecked, LatencyChecked
    <3> QED BY <1>3, <3>1
  <2> QED BY <1>1, <1>2, <1>4, <1>5, <1>6, <2>1 DEF LeaderChecks
<1> QED BY <1>6, BoardAsideStep DEF MBNext

LEMMA MBHolds == MBInv => MBTypeOK /\ BannerAgreesWithCards /\ RecoveryRowsPaired
<1> SUFFICES ASSUME MBInv PROVE MBTypeOK /\ BannerAgreesWithCards /\ RecoveryRowsPaired OBVIOUS
<1>a. mb \in MBState /\ BoardSound(mb.monitor, mb.stored, mb.audit, mb.log) BY DEF MBInv
<1>b. /\ mb.monitor \in BoardMonitors /\ mb.enabled \in BOOLEAN /\ mb.audit \in Audits
      /\ mb.file \in StateFiles /\ mb.stored \in StoredChecks /\ mb.log \in Transitions \X Transitions
  BY <1>a DEF MBState
<1>c. mb.monitor \in {"watchdog", "selfban", "systemd", "api", "latency"} BY <1>b, BoardAssumption
<1>1. MBTypeOK
  <2>1. mb.file.age \in 0..StaleAfter /\ mb.stored.age \in 0..BoardCooldown BY <1>b DEF StateFiles, StoredChecks
  <2>2. mb.audit # "none" => mb.monitor = "watchdog" BY <1>a DEF BoardSound
  <2>3. mb.stored.active => mb.log[1] # "none" BY <1>a DEF BoardSound
  <2> QED BY <1>b, <2>1, <2>2, <2>3 DEF MBTypeOK, Audits
<1>2. BannerAgreesWithCards
  <2>1. /\ mb.stored.checked \in BOOLEAN /\ mb.stored.available \in BOOLEAN
        /\ mb.stored.ready \in BOOLEAN /\ mb.stored.active \in BOOLEAN
        /\ mb.stored.available => mb.stored.checked
    BY <1>a, <1>b DEF StoredChecks, BoardSound
  <2>2. mb.file.status \in BoardStatuses BY <1>b DEF StateFiles
  <2> DEFINE Trouble == {"unhealthy", "blocked", "stale", "breached", "unavailable"}
  <2>3. CASE mb.monitor = "systemd"
    <3>1. MonitorCard(mb) = UserSystemdWatchdogCard(mb) BY <2>3 DEF MonitorCard
    <3>2. BannerNames(mb) <=> mb.file.status \in {"unhealthy", "blocked"} \/ IsStale(mb) BY <2>3 DEF BannerNames
    <3>3. UserSystemdWatchdogCard(mb) \in Trouble <=> mb.file.status \in {"unhealthy", "blocked"} \/ IsStale(mb)
      BY <2>2 DEF UserSystemdWatchdogCard, BoardStatuses, IsStale
    <3> QED BY <3>1, <3>2, <3>3 DEF BannerAgreesWithCards
  <2>4. CASE mb.monitor = "selfban"
    <3>1. MonitorCard(mb) = TraefikSelfBanWatchdogCard(mb) BY <2>4 DEF MonitorCard
    <3>2. BannerNames(mb) <=> mb.file.status \in {"unhealthy", "blocked"} \/ IsStale(mb) BY <2>4 DEF BannerNames
    <3>3. TraefikSelfBanWatchdogCard(mb) \in Trouble <=> mb.file.status \in {"unhealthy", "blocked"} \/ IsStale(mb)
      BY <2>2 DEF TraefikSelfBanWatchdogCard, BoardStatuses, IsStale
    <3> QED BY <3>1, <3>2, <3>3 DEF BannerAgreesWithCards
  <2>5. CASE mb.monitor = "watchdog"
    <3>1. MonitorCard(mb) = ManagerDeploymentStatusPanel(mb) BY <2>5 DEF MonitorCard
    <3>2. BannerNames(mb) <=> mb.file.status \in {"unhealthy", "blocked"} \/ IsStale(mb) BY <2>5 DEF BannerNames
    <3>3. ManagerDeploymentStatusPanel(mb) \in Trouble <=> mb.file.status \in {"unhealthy", "blocked"} \/ IsStale(mb)
      BY <2>2 DEF ManagerDeploymentStatusPanel, BoardStatuses, IsStale
    <3> QED BY <3>1, <3>2, <3>3 DEF BannerAgreesWithCards
  <2>6. CASE mb.monitor = "api"
    <3>1. MonitorCard(mb) = HttpErrorMonitorStatus(mb) BY <2>6 DEF MonitorCard
    <3>2. BannerNames(mb) <=> mb.enabled /\ (IF mb.stored.available THEN mb.stored.active ELSE mb.stored.checked)
      BY <2>6 DEF BannerNames
    <3>3. HttpErrorMonitorStatus(mb) \in Trouble <=>
            mb.enabled /\ (IF mb.stored.available THEN mb.stored.active ELSE mb.stored.checked)
      BY <1>b, <2>1 DEF HttpErrorMonitorStatus
    <3> QED BY <3>1, <3>2, <3>3 DEF BannerAgreesWithCards
  <2>7. CASE mb.monitor = "latency"
    <3>1. MonitorCard(mb) = SettingsHistoryLatencyStatus(mb) BY <2>7 DEF MonitorCard
    <3>2. BannerNames(mb) <=> mb.enabled /\ mb.stored.active BY <2>7 DEF BannerNames
    <3>3. mb.stored.available => (SettingsHistoryLatencyStatus(mb) \in Trouble <=> mb.enabled /\ mb.stored.active)
      BY <1>b, <2>1 DEF SettingsHistoryLatencyStatus
    <3> QED BY <2>7, <3>1, <3>2, <3>3 DEF BannerAgreesWithCards
  <2> QED BY <1>c, <2>3, <2>4, <2>5, <2>6, <2>7
<1>3. RecoveryRowsPaired
  <2>1. ASSUME mb.monitor \in {"api", "watchdog"}, mb.log[1] # "none"
        PROVE  /\ ManagerHealthHistoryRow(mb.log[1]) = "green" =>
                    mb.log[2] # "none" /\ ManagerHealthHistoryRow(mb.log[2]) = "red"
               /\ mb.monitor = "watchdog" => (ManagerHealthHistoryRow(mb.log[1]) = "red") <=> (mb.audit = "stale")
    <3>1. CASE mb.monitor = "api" BY <1>a, <1>b, <2>1, <3>1 DEF BoardSound, ManagerHealthHistoryRow
    <3>2. CASE mb.monitor = "watchdog" BY <1>a, <1>b, <2>1, <3>2 DEF BoardSound, ManagerHealthHistoryRow
    <3> QED BY <2>1, <3>1, <3>2
  <2> QED BY <2>1 DEF RecoveryRowsPaired
<1> QED BY <1>1, <1>2, <1>3

-----------------------------------------------------------------------------
(* The pages together: the open one keeps its invariant.                   *)

PartsInv ==
    /\ part = "st" => STInv
    /\ part # "st" => st = Unmounted
    /\ part = "bk" => BKInv
    /\ part # "bk" => bk = Unmounted
    /\ part = "sv" => SVInv
    /\ part # "sv" => sv = Unmounted
    /\ part = "ma" => MAInv
    /\ part # "ma" => ma = Unmounted
    /\ part = "ct" => CTInv
    /\ part # "ct" => ct = Unmounted
    /\ part = "ac" => ACInv
    /\ part # "ac" => ac = Unmounted
    /\ part = "up" => UPInv
    /\ part # "up" => up = Unmounted
    /\ part = "ce" => CEInv
    /\ part # "ce" => ce = Unmounted
    /\ part = "mb" => MBInv
    /\ part # "mb" => mb = Unmounted

LEMMA PartsInitially == Init => PartsInv
<1> SUFFICES ASSUME Init PROVE PartsInv OBVIOUS
<1>1. (part = "st" => STInv) /\ (part # "st" => st = Unmounted) BY STInitially DEF Init
<1>2. (part = "bk" => BKInv) /\ (part # "bk" => bk = Unmounted) BY BKInitially DEF Init
<1>3. (part = "sv" => SVInv) /\ (part # "sv" => sv = Unmounted) BY SVInitially DEF Init
<1>4. (part = "ma" => MAInv) /\ (part # "ma" => ma = Unmounted) BY MAInitially DEF Init
<1>5. (part = "ct" => CTInv) /\ (part # "ct" => ct = Unmounted) BY CTInitially DEF Init
<1>6. (part = "ac" => ACInv) /\ (part # "ac" => ac = Unmounted) BY ACInitially DEF Init
<1>7. (part = "up" => UPInv) /\ (part # "up" => up = Unmounted) BY UPInitially DEF Init
<1>8. (part = "ce" => CEInv) /\ (part # "ce" => ce = Unmounted) BY CEInitially DEF Init
<1>9. (part = "mb" => MBInv) /\ (part # "mb" => mb = Unmounted) BY MBInitially DEF Init
<1> QED BY <1>1, <1>2, <1>3, <1>4, <1>5, <1>6, <1>7, <1>8, <1>9 DEF PartsInv

\* A step is a step of the open part, or changes none.
LEMMA OnePartMoves ==
  [Next]_managerVars =>
    /\ part' = part
    /\ (part = "st" /\ STNext) \/ st' = st
    /\ (part = "bk" /\ BKNext) \/ bk' = bk
    /\ (part = "sv" /\ SVNext) \/ sv' = sv
    /\ (part = "ma" /\ MANext) \/ ma' = ma
    /\ (part = "ct" /\ CTNext) \/ ct' = ct
    /\ (part = "ac" /\ ACNext) \/ ac' = ac
    /\ (part = "up" /\ UPNext) \/ up' = up
    /\ (part = "ce" /\ CENext) \/ ce' = ce
    /\ (part = "mb" /\ MBNext) \/ mb' = mb
<1> SUFFICES ASSUME [Next]_managerVars
           PROVE  /\ part' = part
                  /\ ((part = "st" /\ STNext) \/ st' = st)
                  /\ ((part = "bk" /\ BKNext) \/ bk' = bk)
                  /\ ((part = "sv" /\ SVNext) \/ sv' = sv)
                  /\ ((part = "ma" /\ MANext) \/ ma' = ma)
                  /\ ((part = "ct" /\ CTNext) \/ ct' = ct)
                  /\ ((part = "ac" /\ ACNext) \/ ac' = ac)
                  /\ ((part = "up" /\ UPNext) \/ up' = up)
                  /\ ((part = "ce" /\ CENext) \/ ce' = ce)
                  /\ ((part = "mb" /\ MBNext) \/ mb' = mb)
  OBVIOUS
<1>1. CASE OnlyMoves("st") /\ STNext BY <1>1 DEF OnlyMoves
<1>2. CASE OnlyMoves("bk") /\ BKNext BY <1>2 DEF OnlyMoves
<1>3. CASE OnlyMoves("sv") /\ SVNext BY <1>3 DEF OnlyMoves
<1>4. CASE OnlyMoves("ma") /\ MANext BY <1>4 DEF OnlyMoves
<1>5. CASE OnlyMoves("ct") /\ CTNext BY <1>5 DEF OnlyMoves
<1>6. CASE OnlyMoves("ac") /\ ACNext BY <1>6 DEF OnlyMoves
<1>7. CASE OnlyMoves("up") /\ UPNext BY <1>7 DEF OnlyMoves
<1>8. CASE OnlyMoves("ce") /\ CENext BY <1>8 DEF OnlyMoves
<1>9. CASE OnlyMoves("mb") /\ MBNext BY <1>9 DEF OnlyMoves
<1>10. CASE OnlyMoves("accounts") /\ AccountsNext BY <1>10 DEF OnlyMoves
<1>11. CASE OnlyMoves("retry") /\ RetryNext BY <1>11 DEF OnlyMoves
<1>12. CASE OnlyMoves("retention") /\ RetentionNext BY <1>12 DEF OnlyMoves
<1>13. CASE UNCHANGED managerVars BY <1>13 DEF managerVars, pages
<1> QED BY <1>1, <1>2, <1>3, <1>4, <1>5, <1>6, <1>7, <1>8, <1>9, <1>10, <1>11, <1>12, <1>13 DEF Next

LEMMA PartsStep == PartsInv /\ [Next]_managerVars => PartsInv'
<1> SUFFICES ASSUME PartsInv, [Next]_managerVars PROVE PartsInv' OBVIOUS
<1>0. part' = part BY OnePartMoves
<1>1. (part = "st" => STInv') /\ (part # "st" => st' = Unmounted)
  <2>1. CASE part = "st" /\ STNext BY <2>1, STStep DEF PartsInv
  <2>2. CASE st' = st BY <2>2 DEF PartsInv, STInv
  <2> QED BY <2>1, <2>2, OnePartMoves
<1>2. (part = "bk" => BKInv') /\ (part # "bk" => bk' = Unmounted)
  <2>1. CASE part = "bk" /\ BKNext BY <2>1, BKStep DEF PartsInv
  <2>2. CASE bk' = bk BY <2>2 DEF PartsInv, BKInv
  <2> QED BY <2>1, <2>2, OnePartMoves
<1>3. (part = "sv" => SVInv') /\ (part # "sv" => sv' = Unmounted)
  <2>1. CASE part = "sv" /\ SVNext BY <2>1, SVStep DEF PartsInv
  <2>2. CASE sv' = sv BY <2>2 DEF PartsInv, SVInv
  <2> QED BY <2>1, <2>2, OnePartMoves
<1>4. (part = "ma" => MAInv') /\ (part # "ma" => ma' = Unmounted)
  <2>1. CASE part = "ma" /\ MANext BY <2>1, MAStep DEF PartsInv
  <2>2. CASE ma' = ma BY <2>2 DEF PartsInv, MAInv
  <2> QED BY <2>1, <2>2, OnePartMoves
<1>5. (part = "ct" => CTInv') /\ (part # "ct" => ct' = Unmounted)
  <2>1. CASE part = "ct" /\ CTNext BY <2>1, CTStep DEF PartsInv
  <2>2. CASE ct' = ct BY <2>2 DEF PartsInv, CTInv
  <2> QED BY <2>1, <2>2, OnePartMoves
<1>6. (part = "ac" => ACInv') /\ (part # "ac" => ac' = Unmounted)
  <2>1. CASE part = "ac" /\ ACNext BY <2>1, ACStep DEF PartsInv
  <2>2. CASE ac' = ac BY <2>2 DEF PartsInv, ACInv
  <2> QED BY <2>1, <2>2, OnePartMoves
<1>7. (part = "up" => UPInv') /\ (part # "up" => up' = Unmounted)
  <2>1. CASE part = "up" /\ UPNext BY <2>1, UPStep DEF PartsInv
  <2>2. CASE up' = up BY <2>2 DEF PartsInv, UPInv
  <2> QED BY <2>1, <2>2, OnePartMoves
<1>8. (part = "ce" => CEInv') /\ (part # "ce" => ce' = Unmounted)
  <2>1. CASE part = "ce" /\ CENext BY <2>1, CEStep DEF PartsInv
  <2>2. CASE ce' = ce BY <2>2 DEF PartsInv, CEInv
  <2> QED BY <2>1, <2>2, OnePartMoves
<1>9. (part = "mb" => MBInv') /\ (part # "mb" => mb' = Unmounted)
  <2>1. CASE part = "mb" /\ MBNext BY <2>1, MBStep DEF PartsInv
  <2>2. CASE mb' = mb BY <2>2 DEF PartsInv, MBInv
  <2> QED BY <2>1, <2>2, OnePartMoves
<1> QED BY <1>0, <1>1, <1>2, <1>3, <1>4, <1>5, <1>6, <1>7, <1>8, <1>9 DEF PartsInv

\* A page that is closed shows nothing.
LEMMA PartsAnswer == PartsInv => AnswersBelong
<1> SUFFICES ASSUME PartsInv PROVE AnswersBelong OBVIOUS
<1>1. STTypeOK /\ PreviewIsOfForm /\ TestIsOfStoredSettings
  <2>1. CASE part = "st" BY <2>1, STHolds DEF PartsInv
  <2>2. CASE st = Unmounted BY <2>2 DEF STTypeOK, PreviewIsOfForm, TestIsOfStoredSettings
  <2> QED BY <2>1, <2>2 DEF PartsInv
<1>2. BKTypeOK /\ PreviewForetells /\ ReviewIsOfChoice
  <2>1. CASE part = "bk" BY <2>1, BKHolds DEF PartsInv
  <2>2. CASE bk = Unmounted BY <2>2 DEF BKTypeOK, PreviewForetells, ReviewIsOfChoice
  <2> QED BY <2>1, <2>2 DEF PartsInv
<1>3. SVTypeOK /\ RetryIsWhatIsShown /\ ReloadShowsSame
  <2>1. CASE part = "sv" BY <2>1, SVHolds DEF PartsInv
  <2>2. CASE sv = Unmounted BY <2>2 DEF SVTypeOK, RetryIsWhatIsShown, ReloadShowsSame
  <2> QED BY <2>1, <2>2 DEF PartsInv
<1>4. MATypeOK /\ AssignedAsChecked /\ UntouchedDialogSendsNothing
  <2>1. CASE part = "ma" BY <2>1, MAHolds DEF PartsInv
  <2>2. CASE ma = Unmounted BY <2>2 DEF MATypeOK, AssignedAsChecked, UntouchedDialogSendsNothing
  <2> QED BY <2>1, <2>2 DEF PartsInv
<1>5. CTTypeOK /\ ListShowsSave
  <2>1. CASE part = "ct" BY <2>1, CTHolds DEF PartsInv
  <2>2. CASE ct = Unmounted BY <2>2 DEF CTTypeOK, ListShowsSave
  <2> QED BY <2>1, <2>2 DEF PartsInv
<1>6. ACTypeOK /\ NoDoubleRowAction /\ CountIsOfRange
  <2>1. CASE part = "ac" BY <2>1, ACHolds DEF PartsInv
  <2>2. CASE ac = Unmounted BY <2>2 DEF ACTypeOK, NoDoubleRowAction, CountIsOfRange
  <2> QED BY <2>1, <2>2 DEF PartsInv
<1>7. UPTypeOK /\ QueuedIsPatch /\ AlertDeliveredOnce /\ OfferedIsPatch /\ BlockedIsExplained
  <2>1. CASE part = "up" BY <2>1, UPHolds DEF PartsInv
  <2>2. CASE up = Unmounted BY <2>2 DEF UPTypeOK, QueuedIsPatch, AlertDeliveredOnce, OfferedIsPatch, BlockedIsExplained
  <2> QED BY <2>1, <2>2 DEF PartsInv
<1>8. CETypeOK /\ PreflightOfOpened /\ TrendHasReason /\ ReportsApart
  <2>1. CASE part = "ce" BY <2>1, CEHolds DEF PartsInv
  <2>2. CASE ce = Unmounted BY <2>2 DEF CETypeOK, PreflightOfOpened, TrendHasReason, ReportsApart
  <2> QED BY <2>1, <2>2 DEF PartsInv
<1>9. MBTypeOK /\ BannerAgreesWithCards /\ RecoveryRowsPaired
  <2>1. CASE part = "mb" BY <2>1, MBHolds DEF PartsInv
  <2>2. CASE mb = Unmounted BY <2>2 DEF MBTypeOK, BannerAgreesWithCards, RecoveryRowsPaired
  <2> QED BY <2>1, <2>2 DEF PartsInv
<1> QED BY <1>1, <1>2, <1>3, <1>4, <1>5, <1>6, <1>7, <1>8, <1>9, SVCauses, CEAdvice DEF AnswersBelong, PagesTypeOK

LEMMA PartsAlways == Spec => []PartsInv
<1>1. Init => PartsInv BY PartsInitially
<1>2. PartsInv /\ [Next]_managerVars => PartsInv' BY PartsStep
<1> QED BY <1>1, <1>2, PTL DEF Spec

(* Answers belong to what they are shown beside, on each of the nine pages *)
(* (SettingsForms, BackupImport, ServicesPage, MiddlewareAssignment,       *)
(* CatalogPages, AuditActions, UpdatePanel, CertificatesPage and           *)
(* MonitorBoard name the components and handlers).                         *)
THEOREM AnswersAreInPlace == Spec => []AnswersBelong
<1>1. PartsInv => AnswersBelong BY PartsAnswer
<1> QED BY <1>1, PartsAlways, PTL

\* The writes of each page, as steps.
(* After a save without an error the settings card shows what it saved, or *)
(* something newer.                                                        *)
LEMMA SavesAreRead == Spec => ReadYourWrites
<1>1. PartsInv /\ [Next]_managerVars
      => [(st # Unmounted /\ st' # Unmounted /\ st.save.phase = "refetch"
          /\ st'.save = NoSave /\ ~st'.error)
           => st'.data.version >= st.save.version]_st
  <2> SUFFICES ASSUME PartsInv, [Next]_managerVars, st' # st, st # Unmounted /\ st' # Unmounted /\ st.save.phase = "refetch"
          /\ st'.save = NoSave /\ ~st'.error
               PROVE  st'.data.version >= st.save.version
    OBVIOUS
  <2>1. STInv /\ STNext BY OnePartMoves DEF PartsInv
  <2> QED BY <2>1, STReads
<1> QED BY <1>1, PartsAlways, PTL DEF Spec, ReadYourWrites

(* A save of a settings card changes what was typed and nothing else.      *)
LEMMA TypedSettingsChange == Spec => OnlyTypedSettingsChange
<1>1. PartsInv /\ [Next]_managerVars
      => [(st # Unmounted /\ st' # Unmounted
          /\ st.save.phase = "sent" /\ st'.save.phase = "refetch"
          /\ st.save.base.version = st.server.version)
           => \A field \in Fields \union {"secret"} :
             st'.server[field] # st.server[field] => field \in st.save.typed]_st
  <2> SUFFICES ASSUME PartsInv, [Next]_managerVars, st' # st, st # Unmounted /\ st' # Unmounted
          /\ st.save.phase = "sent" /\ st'.save.phase = "refetch"
          /\ st.save.base.version = st.server.version
               PROVE  \A field \in Fields \union {"secret"} :
             st'.server[field] # st.server[field] => field \in st.save.typed
    OBVIOUS
  <2>1. STInv /\ STNext BY OnePartMoves DEF PartsInv
  <2> QED BY <2>1, STWrites
<1> QED BY <1>1, PartsAlways, PTL DEF Spec, OnlyTypedSettingsChange

(* When an operation on several services ends, the ones that are not       *)
(* reported as failed are as asked.                                        *)
LEMMA ReportsAreTrue == Spec => BulkReportTrue
<1>1. PartsInv /\ [Next]_managerVars
      => [(sv # Unmounted /\ sv' # Unmounted /\ sv.op # NoOperation /\ sv'.op = NoOperation)
           => \A id \in sv.op.asked \ (sv.op.stale \union sv'.selected) :
             sv.server[id] \in {sv.op.mode, Gone}]_sv
  <2> SUFFICES ASSUME PartsInv, [Next]_managerVars, sv' # sv, sv # Unmounted /\ sv' # Unmounted /\ sv.op # NoOperation /\ sv'.op = NoOperation
               PROVE  \A id \in sv.op.asked \ (sv.op.stale \union sv'.selected) :
             sv.server[id] \in {sv.op.mode, Gone}
    OBVIOUS
  <2>1. SVInv /\ SVNext BY OnePartMoves DEF PartsInv
  <2> QED BY <2>1, SVReports
<1> QED BY <1>1, PartsAlways, PTL DEF Spec, BulkReportTrue

(* A save of a template assignment that nobody interferes with leaves the  *)
(* other templates of every service alone.                                 *)
LEMMA OthersAreKept == Spec => CleanSaveKeepsOthers
<1>1. PartsInv /\ [Next]_managerVars
      => [(ma # Unmounted /\ ma' # Unmounted /\ ma.clean)
           => OwnTemplateOnly]_ma
  <2> SUFFICES ASSUME PartsInv, [Next]_managerVars, ma' # ma, ma # Unmounted /\ ma' # Unmounted /\ ma.clean
               PROVE  OwnTemplateOnly
    OBVIOUS
  <2>1. MAInv /\ MANext BY OnePartMoves DEF PartsInv
  <2> QED BY <2>1, MAOwnTemplate
<1> QED BY <1>1, PartsAlways, PTL DEF Spec, CleanSaveKeepsOthers

(* An edit leaves a field that was not typed as it was.                    *)
LEMMA UntypedIsKept == Spec => EditKeepsUntyped
<1>1. PartsInv /\ [Next]_managerVars
      => [(ct # Unmounted /\ ct' # Unmounted /\ ct.request["edit"].phase = "sent"
             /\ ct'.request["edit"].phase = "refetch")
           => LET d == ct.request["edit"].dialog
                  id == d.id
              IN  \A field \in {"name", "secret"} \ d.typed :
                    ct.server[id] = d.base => ct'.server[id][field] = ct.server[id][field]]_ct
  <2> SUFFICES ASSUME PartsInv, [Next]_managerVars, ct' # ct, ct # Unmounted, ct.request["edit"].phase = "sent",
                      ct'.request["edit"].phase = "refetch",
                      NEW field \in {"name", "secret"} \ ct.request["edit"].dialog.typed,
                      ct.server[ct.request["edit"].dialog.id] = ct.request["edit"].dialog.base
               PROVE  ct'.server[ct.request["edit"].dialog.id][field] = ct.server[ct.request["edit"].dialog.id][field]
    OBVIOUS
  <2>1. CTInv /\ CTNext BY OnePartMoves DEF PartsInv
  <2> QED BY <2>1, CTKeeps
<1> QED BY <1>1, PartsAlways, PTL DEF Spec, EditKeepsUntyped

(* A rejected import changes no row, and in merge mode takes no route.     *)
LEMMA FailuresKeepRoutes == Spec => FailedMergeKeepsRoutes
<1>1. PartsInv /\ [Next]_managerVars
      => [(bk # Unmounted /\ bk' # Unmounted)
           => \A t \in bk.tasks :
                (ImportHandled(t) /\ Answer(t, FALSE) \in bk'.tasks)
                  => /\ bk'.rows = bk.rows
                     /\ t.mode = "merge" => \A kind \in Kinds : bk.disk[kind] \subseteq bk'.disk[kind]]_bk
  <2> SUFFICES ASSUME PartsInv, [Next]_managerVars, bk' # bk, bk # Unmounted,
                      NEW t \in bk.tasks, ImportHandled(t), Answer(t, FALSE) \in bk'.tasks
               PROVE  /\ bk'.rows = bk.rows
                      /\ t.mode = "merge" => \A kind \in Kinds : bk.disk[kind] \subseteq bk'.disk[kind]
    OBVIOUS
  <2>1. BKInv BY OnePartMoves DEF PartsInv
  <2> QED BY <2>1, BKFailed
<1> QED BY <1>1, PartsAlways, PTL DEF Spec, FailedMergeKeepsRoutes

(* Importing again what was imported last changes nothing, and an export   *)
(* that is imported over everything restores it.                           *)
LEMMA RepetitionsAreHarmless == Spec => RepeatedImportHarmless
<1>1. PartsInv /\ [Next]_managerVars
      => [(bk # Unmounted /\ bk' # Unmounted)
           => \A t \in bk.tasks :
                (ImportHandled(t) /\ Answer(t, TRUE) \in bk'.tasks)
                  => /\ bk.applied = [file |-> t.file, mode |-> t.mode]
                          => bk'.rows = bk.rows /\ bk'.disk = bk.disk
                     /\ t.file = "exported" /\ t.mode = "overwrite"
                          => \A kind \in Kinds : bk'.rows[kind] = Domains(bk.exported[kind])]_bk
  <2> SUFFICES ASSUME PartsInv, [Next]_managerVars, bk' # bk, bk # Unmounted,
                      NEW t \in bk.tasks, ImportHandled(t), Answer(t, TRUE) \in bk'.tasks
               PROVE  /\ bk.applied = [file |-> t.file, mode |-> t.mode]
                          => bk'.rows = bk.rows /\ bk'.disk = bk.disk
                      /\ t.file = "exported" /\ t.mode = "overwrite"
                          => \A kind \in Kinds : bk'.rows[kind] = Domains(bk.exported[kind])
    OBVIOUS
  <2>1. BKInv BY OnePartMoves DEF PartsInv
  <2> QED BY <2>1, BKRepeated
<1> QED BY <1>1, PartsAlways, PTL DEF Spec, RepeatedImportHarmless

(* What a save, an import or an operation on several services changes is   *)
(* confined to what was asked for: the handlers of the five pages that     *)
(* write, with the backend behind them.                                    *)
THEOREM WritesAreConfined == Spec => WritesConfined
BY SavesAreRead, TypedSettingsChange, ReportsAreTrue, OthersAreKept, UntypedIsKept,
   FailuresKeepRoutes, RepetitionsAreHarmless, PTL DEF WritesConfined

=============================================================================
