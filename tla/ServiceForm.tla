----------------------------- MODULE ServiceForm -----------------------------
(***************************************************************************)
(* The form of a service, new or stored: fields that exclude each other,   *)
(* the effects that bring them in line after a change, the import of a     *)
(* Docker container, the validation and the payload.                       *)
(*                                                                         *)
(* react-hook-form keeps the value of a field that is no longer on the     *)
(* screen, and the validation sees every value; what keeps a hidden field  *)
(* from blocking the form are the effects.                                 *)
(***************************************************************************)
EXTENDS Browser, Naturals, FiniteSets, Sequences
LOCAL Seqs == INSTANCE SequencesExt

CONSTANTS Containers,      \* records name, project, proxy, http, score
          StoredServices   \* the services a form may be opened for

AuthModes == {"none", "authentik", "token"}
NoKey == ""
NoGroup == ""
RateTexts == {"unset", "", "5"}      \* never registered, emptied, a number
NoContainer == [name |-> "none"]
NoSubmit == [sent |-> FALSE]

VARIABLE fo

(* What the backend stores: one kind of authentication at a time, redirect *)
(* only with TLS, verification skipped only over HTTPS.  "until" is the    *)
(* end of the maintenance, a minute and a second.                          *)
Storable ==
    {s \in [auth : AuthModes, key : {NoKey, "stored"}, group : {NoGroup, "g"},
            basic : BOOLEAN, creds : {"blank", "stored"}, tls : BOOLEAN, redirect : BOOLEAN,
            https : BOOLEAN, skip : BOOLEAN, rateOn : BOOLEAN, rate : {"unset", "5"},
            until : {[minute |-> 1, second |-> 30]}] :
       /\ (s.auth = "token") = (s.key # NoKey)
       /\ s.group # NoGroup => s.auth = "authentik"
       /\ s.basic => s.auth = "none"
       /\ s.basic = (s.creds = "stored")
       /\ s.redirect => s.tls
       /\ s.skip => s.https
       /\ s.rateOn = (s.rate # "unset")}
ASSUME StoredServicesAssumption == StoredServices \subseteq Storable
ASSUME ContainersAssumption ==
    /\ IsFiniteSet(Containers) /\ NoContainer \notin Containers
    /\ \A c \in Containers : c.proxy \in BOOLEAN /\ c.http \in BOOLEAN /\ c.score \in Nat

NewService ==
    [auth |-> "none", key |-> NoKey, group |-> NoGroup, basic |-> FALSE, creds |-> "blank",
     tls |-> TRUE, redirect |-> TRUE, https |-> FALSE, skip |-> FALSE,
     rateOn |-> FALSE, rate |-> "unset", until |-> [minute |-> 1, second |-> 0]]

(* createServiceFormDefaultValues; the end of the maintenance is shown to  *)
(* the minute, in Korean time.                                             *)
toKoreanDateTimeLocal(until) == [minute |-> until.minute + 540]
toMaintenanceUntilIso(local) == [minute |-> local.minute - 540, second |-> 0]

(* In place of createServiceFormDefaultValues: the switch starts off. *)
RateLimitForgotten(stored) ==
    [stored EXCEPT !.until = toKoreanDateTimeLocal(@), !.rateOn = FALSE]

createServiceFormDefaultValues(stored) ==
    [stored EXCEPT !.until = toKoreanDateTimeLocal(@)]

-----------------------------------------------------------------------------
(* The effects, each run when what it watches has changed. *)

GenerateKey(f) == IF f.auth = "token" /\ f.key = NoKey THEN [f EXCEPT !.key = "generated"] ELSE f
DropRedirect(f) == IF f.tls THEN f ELSE [f EXCEPT !.redirect = FALSE]
DropGroup(f) == IF f.auth = "authentik" THEN f ELSE [f EXCEPT !.group = NoGroup]

(* In place of DropBasicAuth: basic auth stays beside another mode. *)
KeepBasicAuth(f) == f

DropBasicAuth(f) == IF f.auth = "none" THEN f ELSE [f EXCEPT !.basic = FALSE, !.creds = "blank"]
DropSkipVerify(f) == IF f.https THEN f ELSE [f EXCEPT !.skip = FALSE]

AuthEffects(f) == GenerateKey(DropBasicAuth(DropGroup(f)))
MountEffects(f) == DropSkipVerify(AuthEffects(DropRedirect(f)))

FOMounted ==
    \E stored \in StoredServices \union {NewService} :
      fo = [stored |-> stored, form |-> MountEffects(createServiceFormDefaultValues(stored)),
            touched |-> FALSE, modal |-> "closed", upstream |-> NoContainer,
            submit |-> NoSubmit]

Edit(f) == fo' = [fo EXCEPT !.form = f, !.touched = TRUE]
FormFree == fo.modal = "closed" /\ fo.submit = NoSubmit

-----------------------------------------------------------------------------
(* The controls; a control that is disabled or not shown cannot be used. *)

ChooseAuthMode(mode) ==
    /\ FormFree /\ mode # fo.form.auth
    /\ Edit(AuthEffects([fo.form EXCEPT !.auth = mode]))

RegenerateApiKey ==
    /\ FormFree /\ fo.form.auth = "token" /\ fo.form.key # NoKey
    /\ Edit([fo.form EXCEPT !.key = "generated"])

ChooseGroup(group) ==
    /\ FormFree /\ fo.form.auth = "authentik"
    /\ Edit([fo.form EXCEPT !.group = group])

ToggleBasicAuth ==
    /\ FormFree /\ fo.form.auth = "none"
    /\ Edit([fo.form EXCEPT !.basic = ~@])

TypeCredentials(creds) ==
    /\ FormFree /\ fo.form.auth = "none" /\ fo.form.basic
    /\ Edit([fo.form EXCEPT !.creds = creds])

ToggleTls ==
    /\ FormFree
    /\ Edit(DropRedirect([fo.form EXCEPT !.tls = ~@]))

ToggleHttpsRedirect ==
    /\ FormFree /\ fo.form.tls
    /\ Edit([fo.form EXCEPT !.redirect = ~@])

ToggleUpstreamHttps ==
    /\ FormFree
    /\ Edit(DropSkipVerify([fo.form EXCEPT !.https = ~@]))

ToggleSkipVerify ==
    /\ FormFree /\ fo.form.https
    /\ Edit([fo.form EXCEPT !.skip = ~@])

ToggleRateLimit ==
    /\ FormFree
    /\ Edit([fo.form EXCEPT !.rateOn = ~@])

TypeRateLimit(text) ==
    /\ FormFree /\ fo.form.rateOn
    /\ Edit([fo.form EXCEPT !.rate = text])

(* Another administrator rotated the key: the refetched default replaces   *)
(* whatever key the form holds.                                            *)
StoredKeyRefetched ==
    /\ fo.stored.key = "stored"
    /\ fo' = [fo EXCEPT !.stored.key = "rotated", !.form.key = "rotated"]

-----------------------------------------------------------------------------
(* Importing a container. *)

isLikelyNonHttpContainer(c) == ~c.http

(* In place of Gateways: Traefik need not reach the gateway. *)
GatewaysAnywhere(c) == {g \in Containers : g.project = c.project /\ g.score > 0}

Gateways(c) == {g \in Containers : g.project = c.project /\ g.proxy /\ g.score > 0}

BestGateway(c) == CHOOSE g \in Gateways(c) : \A x \in Gateways(c) : g.score >= x.score

(* The gateway of the same Compose project for a container that Traefik    *)
(* cannot reach itself.                                                    *)
findRecommendedComposeGateway(c) ==
    IF c.project = "" \/ c.proxy \/ isLikelyNonHttpContainer(c) \/ Gateways(c) = {}
    THEN NoContainer ELSE BestGateway(c)

isRecommendedComposeGateway(c) ==
    \E other \in Containers : findRecommendedComposeGateway(other) = c

(* The order of the list: recommended gateways, the proxy network, the rest *)
ContainerScore(c) ==
    IF \E other \in Containers : ~other.proxy /\ findRecommendedComposeGateway(other) = c THEN 2
    ELSE IF c.proxy THEN 1 ELSE 0

OpenContainerImport ==
    /\ FormFree
    /\ fo' = [fo EXCEPT !.modal = "basic"]

ChangeImportMode(mode) ==
    /\ fo.modal # "closed"
    /\ fo' = [fo EXCEPT !.modal = mode]

CloseContainerImport ==
    /\ fo.modal # "closed"
    /\ fo' = [fo EXCEPT !.modal = "closed"]

(* The upstream that an import of c fills in. *)
applyBasicContainerImport(c, gateway) == IF gateway = NoContainer THEN c ELSE gateway

(* The gateway shown with the entry of c; data containers are listed apart *)
(* and without one.                                                        *)
ListedGateway(c) ==
    IF isLikelyNonHttpContainer(c) THEN NoContainer ELSE findRecommendedComposeGateway(c)

(* What the entry announces as the target of Traefik. *)
RecommendedGatewayPreview(c) == IF ListedGateway(c) = NoContainer THEN c ELSE ListedGateway(c)

handleBasicContainerImport(c) ==
    /\ fo.modal = "basic"
    /\ fo' = [fo EXCEPT !.modal = "closed", !.touched = TRUE,
                 !.upstream = applyBasicContainerImport(c, findRecommendedComposeGateway(c))]

(* A candidate of the Traefik labels, as it is or with the gateway as      *)
(* upstream; it sets TLS as well.                                          *)
handleTraefikContainerImport(candidate) ==
    /\ fo.modal = "traefik"
    /\ fo' = [fo EXCEPT !.modal = "closed", !.touched = TRUE,
                        !.form = DropRedirect([@ EXCEPT !.tls = candidate.tls]),
                        !.upstream = candidate.upstream]

withRecommendedGatewayUpstream(candidate) ==
    LET gateway == findRecommendedComposeGateway(candidate.upstream)
    IN  [candidate EXCEPT !.upstream = IF gateway = NoContainer THEN @ ELSE gateway]

(* The second button exists only where a gateway is recommended. *)
ImportTraefikItem(c, tls) ==
    LET candidate == [upstream |-> c, tls |-> tls]
    IN  \/ handleTraefikContainerImport(candidate)
        \/ /\ findRecommendedComposeGateway(c) # NoContainer
           /\ handleTraefikContainerImport(withRecommendedGatewayUpstream(candidate))

-----------------------------------------------------------------------------
(* Validation and payload. *)

(* validateServiceFormRefinements and the schema: an empty text is coerced *)
(* to 0, which is not positive; a value that was never entered is left out.*)
Issues(f) ==
    {issue \in {"redirect", "group", "basic", "rate"} :
       CASE issue = "redirect" -> f.redirect /\ ~f.tls
         [] issue = "group" -> f.auth # "authentik" /\ f.group # NoGroup
         [] issue = "basic" -> f.auth # "none" /\ f.basic
         [] issue = "rate" -> f.rate = "" \/ (f.rateOn /\ f.rate # "5")}

(* In place of buildServiceSubmitPayload: what is hidden is sent too. *)
PayloadAsTyped(f) == [f EXCEPT !.until = toMaintenanceUntilIso(@)]

buildServiceSubmitPayload(f) ==
    [f EXCEPT !.skip = f.https /\ @, !.key = IF f.auth = "token" THEN @ ELSE NoKey,
              !.group = IF f.auth = "authentik" THEN @ ELSE NoGroup,
              !.creds = IF f.basic THEN @ ELSE "blank",
              !.rate = IF f.rateOn THEN @ ELSE "unset",
              !.until = toMaintenanceUntilIso(@)]

SubmitForm ==
    /\ FormFree /\ Issues(fo.form) = {}
    /\ fo' = [fo EXCEPT !.submit = [sent |-> TRUE, payload |-> buildServiceSubmitPayload(fo.form),
                                     over |-> fo.stored]]

SubmitFails ==
    /\ fo.submit.sent
    /\ fo' = [fo EXCEPT !.submit = NoSubmit]

FONext ==
    \/ \E mode \in AuthModes : ChooseAuthMode(mode)
    \/ \E group \in {NoGroup, "g"} : ChooseGroup(group)
    \/ \E creds \in {"blank", "typed"} : TypeCredentials(creds)
    \/ \E text \in RateTexts \ {"unset"} : TypeRateLimit(text)
    \/ RegenerateApiKey \/ ToggleBasicAuth \/ ToggleTls \/ ToggleHttpsRedirect
    \/ ToggleUpstreamHttps \/ ToggleSkipVerify \/ ToggleRateLimit \/ StoredKeyRefetched
    \/ OpenContainerImport \/ CloseContainerImport
    \/ \E mode \in {"basic", "traefik"} : ChangeImportMode(mode)
    \/ \E c \in Containers : handleBasicContainerImport(c)
    \/ \E c \in Containers, tls \in BOOLEAN : ImportTraefikItem(c, tls)
    \/ SubmitForm \/ SubmitFails

-----------------------------------------------------------------------------
(* Properties. *)

FOTypeOK ==
    fo # Unmounted =>
      /\ fo.form.auth \in AuthModes /\ fo.form.rate \in RateTexts
      /\ fo.modal \in {"closed", "basic", "traefik"}

(* No field that cannot be seen or changed blocks the form: the effects    *)
(* keep the fields that exclude each other in line, whatever sequence of   *)
(* changes and imports led here.                                           *)
HiddenFieldsDoNotBlock ==
    fo # Unmounted => Issues(fo.form) \cap {"redirect", "group", "basic"} = {}

(* Saving a form that nobody touched changes nothing: what the form makes  *)
(* of a stored service, effects included, is turned back into it, up to    *)
(* the seconds of the end of the maintenance.                              *)
UntouchedEditChangesNothing ==
    (fo # Unmounted /\ fo.submit # NoSubmit /\ ~fo.touched)
      => fo.submit.payload = [fo.submit.over EXCEPT !.until = [minute |-> @.minute, second |-> 0]]

(* What is sent is consistent for the backend: one authentication, its     *)
(* secrets only with it, a key whenever tokens are asked for.              *)
PayloadConsistent ==
    (fo # Unmounted /\ fo.submit # NoSubmit) =>
      LET p == fo.submit.payload
      IN  /\ (p.auth = "token") = (p.key # NoKey)
          /\ p.basic => p.auth = "none"
          /\ p.redirect => p.tls
          /\ p.skip => p.https
          /\ p.rateOn => p.rate = "5"

\* The form holds the gateway that was announced, and the list has gateways first.
GatewayFilledIn(c) ==
    /\ fo'.upstream.proxy /\ fo'.upstream = RecommendedGatewayPreview(c)
    /\ ~c.proxy => \A x \in Containers :
         ContainerScore(x) >= ContainerScore(fo'.upstream) => isRecommendedComposeGateway(x)

(* Where the project of an imported web container has a gateway that       *)
(* Traefik reaches, the upstream is one that Traefik reaches, it is the    *)
(* one that the list announced, and the list shows it before every         *)
(* container that is not such a gateway.                                   *)
ImportedUpstreamReachable ==
    [][(fo # Unmounted /\ fo.modal = "basic" /\ fo'.modal = "closed") =>
         \A c \in Containers :
           (c.http /\ c.project # "" /\ Gateways(c) # {} /\ handleBasicContainerImport(c)) =>
             GatewayFilledIn(c)]_fo

-----------------------------------------------------------------------------
(* The text areas of the settings page that hold a list, one entry per     *)
(* line or separated by commas: allowed domain suffixes, trusted networks, *)
(* e-mail recipients.  The first two keep the text that is typed and split *)
(* it when the form is saved; the third one splits it at every key stroke  *)
(* and shows the entries joined again.                                     *)
(*                                                                         *)
(* Keys are two letters and the separator; the caret is at the end.        *)
CONSTANTS
    ListFieldNames,  \* the fields explored, of {"domains", "networks", "recipients"}
    MaxKeys          \* bound: key strokes

Letters == {"a", "b"}
Separator == ","

VARIABLE lf

LFMounted ==
    \E field \in ListFieldNames :
      lf = [field |-> field, text |-> << >>, keys |-> << >>, saved |-> << >>, isSaved |-> FALSE]

(* The maximal runs of letters; empty items are dropped. *)
AddKey(items, key) ==
    IF key = Separator THEN Append(items, << >>)
    ELSE [items EXCEPT ![Len(items)] = Append(@, key)]

Split(text) == Seqs!FoldLeft(AddKey, << << >> >>, text)
parseMultivalueText(text) == SelectSeq(Split(text), LAMBDA item : item # << >>)

Joined(entries) ==
    Seqs!FoldLeft(LAMBDA text, entry : IF text = << >> THEN entry ELSE text \o <<Separator>> \o entry,
             << >>, entries)

-----------------------------------------------------------------------------
(* What the area shows after an input event: the text itself in            *)
(* UpstreamSecurityAllowlistSection and LoginDefenseTrustedNetworksField,  *)
(* the normalised entries in SecurityAlertEmailFields.                     *)
EmailFieldShows(text) == Joined(parseMultivalueText(text))

(* In place of ShownText: every field is normalised as it is typed. *)
NormalisedAtOnce(field, text) == EmailFieldShows(text)

ShownText(field, text) == IF field = "recipients" THEN EmailFieldShows(text) ELSE text

TypeKey(key) ==
    /\ Len(lf.keys) < MaxKeys
    /\ lf' = [lf EXCEPT !.keys = Append(@, key), !.isSaved = FALSE,
                        !.text = ShownText(lf.field, Append(lf.text, key))]

SaveList ==
    lf' = [lf EXCEPT !.saved = parseMultivalueText(lf.text), !.isSaved = TRUE]

LFNext == SaveList \/ \E key \in Letters \union {Separator} : TypeKey(key)

-----------------------------------------------------------------------------
(* Properties. *)

LFTypeOK ==
    lf # Unmounted =>
      lf.field \in ListFieldNames /\ Len(lf.text) <= MaxKeys /\ lf.isSaved \in BOOLEAN

(* A list that is typed key by key, with the separators that the help text *)
(* of the field offers, is saved as the entries that were typed.           *)
ListSavedAsTyped ==
    (lf # Unmounted /\ lf.isSaved) => lf.saved = parseMultivalueText(lf.keys)

=============================================================================
