------------------------- MODULE MiddlewareTemplates -------------------------
(***************************************************************************)
(* The two tabs of the middlewares page: the shared templates, and the     *)
(* middlewares that are generated for the services, each with a search, a  *)
(* status filter and counts on the buttons of the filter.  The address bar *)
(* holds the filters of the tab on screen.  The status of a row combines   *)
(* what the database says with what Traefik reports, two requests that are *)
(* answered independently.                                                 *)
(*                                                                         *)
(* One template and one service; the search "x" finds the template only.   *)
(***************************************************************************)
EXTENDS Browser, Naturals, FiniteSets, Sequences

CONSTANT GeneratedFor   \* the settings that the service may have

Tabs == {"templates", "generated"}
MiddlewareTexts == {"", " ", "x"}
TemplateStatuses == {"all", "active", "inactive", "attention"}
GeneratedStatuses == {"all", "attention", "pending"}
StatusesOf(tab) == IF tab = "templates" THEN TemplateStatuses ELSE GeneratedStatuses
RuntimeStatuses == {"enabled", "disabled", "error"}
Absent == ""

(* The generator switches of a service; the request schema excludes basic  *)
(* authentication together with another mode.                              *)
GeneratorSettings ==
    {s \in [auth : {"none", "token", "authentik"}, basic : BOOLEAN,
            httpsRedirect : BOOLEAN, rateLimit : BOOLEAN] : s.basic => s.auth = "none"}
ASSUME GeneratedFor \subseteq GeneratorSettings

VARIABLE mf

Trim(text) == IF text = " " THEN "" ELSE text

-----------------------------------------------------------------------------
(* The address bar. *)

ReadStatus(tab, status) == IF status \in StatusesOf(tab) THEN status ELSE "all"

readMiddlewarePageUrlState(s, url) ==
    LET tab == IF url.tab = "generated" THEN "generated" ELSE "templates"
    IN  [s EXCEPT !.tab = tab,
                  !.search = [t \in Tabs |-> IF t = tab THEN url.search ELSE ""],
                  !.status = [t \in Tabs |-> IF t = tab THEN ReadStatus(t, url.status) ELSE "all"]]

(* In place of UrlOfActiveTab: the templates' filters are written. *)
UrlOfTemplates(s) ==
    [tab |-> s.tab, search |-> Trim(s.search["templates"]), status |-> s.status["templates"]]

UrlOfActiveTab(s) ==
    [tab |-> s.tab, search |-> Trim(s.search[s.tab]),
     status |-> IF s.status[s.tab] = "all" THEN Absent ELSE s.status[s.tab]]
replaceMiddlewarePageUrl(s) == [s EXCEPT !.url = UrlOfActiveTab(s)]

OpenedAt(s, url) == replaceMiddlewarePageUrl(readMiddlewarePageUrlState(s, url))

-----------------------------------------------------------------------------
(* What the database and Traefik say. *)

(* registerAccessMiddlewares, ...SecurityMiddlewares, ...AuthMiddlewares. *)
AccessNames(s) == IF s.rateLimit THEN {"ratelimit"} ELSE {}
SecurityNames(s) == IF s.httpsRedirect THEN {"redirectscheme"} ELSE {}

(* In place of AuthNames: Authentik gets the token's middleware. *)
TokenForEveryMode(s) ==
    (IF s.basic THEN {"basicauth"} ELSE {}) \union (IF s.auth # "none" THEN {"token-auth"} ELSE {})

AuthNames(s) ==
    (IF s.basic THEN {"basicauth"} ELSE {})
      \union (IF s.auth = "token" THEN {"token-auth"} ELSE {})
      \union (IF s.auth = "authentik" THEN {"authentik"} ELSE {})
buildGeneratedMiddlewareItems(s) == AccessNames(s) \union SecurityNames(s) \union AuthNames(s)

(* The route file of an active service, and the authentik middleware that  *)
(* it refers to.                                                           *)
WrittenMiddlewares(s) ==
    {name \in {"ratelimit", "basicauth", "token-auth", "authentik", "redirectscheme"} :
       \/ name = "ratelimit" /\ s.rateLimit
       \/ name = "basicauth" /\ s.basic
       \/ name = "token-auth" /\ s.auth = "token"
       \/ name = "authentik" /\ s.auth = "authentik"
       \/ name = "redirectscheme" /\ s.httpsRedirect}

Disconnected == [connected |-> FALSE, names |-> {}, status |-> "enabled"]

MFMounted ==
    \E service \in GeneratedFor, url \in [tab : {Absent, "generated"}, search : {"", "x"},
          status : {Absent, "bogus"} \union TemplateStatuses \union GeneratedStatuses] :
      mf = OpenedAt([tab |-> "templates", search |-> [t \in Tabs |-> ""],
                     status |-> [t \in Tabs |-> "all"], url |-> url,
                     service |-> service, applied |-> TRUE, runtime |-> Disconnected,
                     current |-> FALSE], url)

ServicesChanged(service, applied) ==
    /\ service # mf.service \/ applied # mf.applied
    /\ mf' = [mf EXCEPT !.service = service, !.applied = applied, !.current = FALSE]

(* Traefik answers, having loaded the present files, or nothing yet. *)
RuntimeAnswered(loaded, template, status) ==
    mf' = [mf EXCEPT
      !.runtime = [connected |-> TRUE, status |-> status,
                   names |-> (IF loaded THEN WrittenMiddlewares(mf.service) ELSE {})
                               \union (IF template THEN {"template"} ELSE {})],
      !.current = loaded]

RuntimeUnreachable == mf' = [mf EXCEPT !.runtime = Disconnected, !.current = FALSE]

ShownMissing(name) == name \notin mf.runtime.names
mapRuntimeStatus(name) ==
    CASE ~mf.runtime.connected -> "pending"
      [] mf.runtime.connected /\ ShownMissing(name) -> "warning"
      [] mf.runtime.connected /\ ~ShownMissing(name) ->
           [enabled |-> "active", disabled |-> "inactive", error |-> "error"][mf.runtime.status]

getSharedTemplateStatus == IF mf.applied THEN mapRuntimeStatus("template") ELSE "inactive"

-----------------------------------------------------------------------------
(* Rows and counts. *)

Found(tab, search) == Trim(search) = "" \/ tab = "templates"

filterMiddlewareTemplates(status) ==
    IF Found("templates", mf.search["templates"])
       /\ \/ status = "all"
          \/ status = "attention" /\ getSharedTemplateStatus \in {"warning", "error", "pending"}
          \/ status = getSharedTemplateStatus
      THEN {"template"} ELSE {}

countMiddlewareTemplateStatuses ==
    LET found == Cardinality(filterMiddlewareTemplates("all"))
        own == getSharedTemplateStatus
        counted == IF own \in {"active", "inactive"} THEN own ELSE "attention"
    IN  [status \in TemplateStatuses |-> IF status \in {"all", counted} THEN found ELSE 0]

generatedItems ==
    IF Found("generated", mf.search["generated"]) THEN buildGeneratedMiddlewareItems(mf.service)
    ELSE {}

isAttentionItem(name) == mapRuntimeStatus(name) \notin {"active", "pending"}

filterGeneratedServiceGroups(status) ==
    {name \in generatedItems :
       \/ status = "all"
       \/ status = "pending" /\ mapRuntimeStatus(name) = "pending"
       \/ status = "attention" /\ isAttentionItem(name)}

(* In place of countGeneratedMiddlewareStatuses: pending ones need attention. *)
PendingAsAttention ==
    [status \in GeneratedStatuses |->
       Cardinality({name \in generatedItems :
         status = "all" \/ (mapRuntimeStatus(name) = "active") # (status = "attention")})]

countGeneratedMiddlewareStatuses ==
    [status \in GeneratedStatuses |->
       Cardinality({name \in generatedItems :
         CASE status = "all" -> TRUE
           [] status = "attention" -> isAttentionItem(name)
           [] status = "pending" -> mapRuntimeStatus(name) = "pending"})]

-----------------------------------------------------------------------------
(* The controls: the effect writes the address bar after every change. *)

ChangeTab(tab) == mf.tab # tab /\ mf' = replaceMiddlewarePageUrl([mf EXCEPT !.tab = tab])

ChangeSearch(text) == mf' = replaceMiddlewarePageUrl([mf EXCEPT !.search[mf.tab] = text])

ChangeMiddlewareStatus(status) ==
    /\ status \in StatusesOf(mf.tab)
    /\ mf' = replaceMiddlewarePageUrl([mf EXCEPT !.status[mf.tab] = status])

(* Offered with the filters, and where they leave nothing to show. *)
resetFilters ==
    /\ mf.tab = "templates"
    /\ Trim(mf.search[mf.tab]) # "" \/ mf.status[mf.tab] # "all"
       \/ filterMiddlewareTemplates(mf.status[mf.tab]) = {}
    /\ mf' = replaceMiddlewarePageUrl([mf EXCEPT !.search[mf.tab] = "", !.status[mf.tab] = "all"])

(* Back and forward, and a reload. *)
PopState == mf' = OpenedAt(mf, mf.url)

MFNext ==
    \/ \E tab \in Tabs : ChangeTab(tab)
    \/ \E text \in MiddlewareTexts : ChangeSearch(text)
    \/ \E status \in TemplateStatuses \union GeneratedStatuses : ChangeMiddlewareStatus(status)
    \/ resetFilters \/ PopState \/ RuntimeUnreachable
    \/ \E service \in GeneratedFor, applied \in BOOLEAN : ServicesChanged(service, applied)
    \/ \E loaded, template \in BOOLEAN, status \in RuntimeStatuses :
         RuntimeAnswered(loaded, template, status)

-----------------------------------------------------------------------------
(* Properties. *)

MFTypeOK ==
    mf # Unmounted =>
      /\ mf.tab \in Tabs /\ mf.service \in GeneratedFor
      /\ \A tab \in Tabs : mf.search[tab] \in MiddlewareTexts /\ mf.status[tab] \in StatusesOf(tab)

(* The address bar brings back the tab on screen with its rows, although   *)
(* the two tabs share the names of the parameters and not their values.    *)
MiddlewareLinkRestores ==
    mf # Unmounted =>
      LET again == readMiddlewarePageUrlState(mf, mf.url)
      IN  /\ again.tab = mf.tab /\ again.status[mf.tab] = mf.status[mf.tab]
          /\ Trim(again.search[mf.tab]) = Trim(mf.search[mf.tab])

(* The number on a filter button is the number of rows that the button     *)
(* leaves, on both tabs, although counts and rows are computed apart.      *)
FilterCountsTrue ==
    mf # Unmounted =>
      /\ \A status \in TemplateStatuses :
           countMiddlewareTemplateStatuses[status] = Cardinality(filterMiddlewareTemplates(status))
      /\ \A status \in GeneratedStatuses :
           countGeneratedMiddlewareStatuses[status]
             = Cardinality(filterGeneratedServiceGroups(status))

(* The tab expects of an active service what the backend writes for it:    *)
(* when Traefik runs the present files nothing asks for attention, and     *)
(* nothing that was written is left out of the list.                       *)
HealthyServiceNeedsNoAttention ==
    (mf # Unmounted /\ mf.current /\ mf.runtime.status = "enabled"
       /\ Trim(mf.search["generated"]) = "") =>
      /\ filterGeneratedServiceGroups("attention") = {}
      /\ WrittenMiddlewares(mf.service) \subseteq generatedItems

-----------------------------------------------------------------------------
(* The form of a middleware template: one of four types, each with fields  *)
(* of its own.  The values of the other types stay in the form while their *)
(* fields are hidden; the payload holds the configuration of the chosen    *)
(* type only.  Lists are typed as text, headers as rows of key and value.  *)
TemplateTypes == {"ipAllowList", "rateLimit", "basicAuth", "headers"}
ListTexts == {"", ",", "a", "a,b"}
NumberTexts == {"unset", "", "5"}
HeaderKeys == {"", "h", "h "}
NewTemplate == [type |-> "new"]

(* What the backend stores: a non-empty list, two positive numbers or a    *)
(* non-empty set of headers.                                               *)
StoredTemplates ==
    {[type |-> "ipAllowList", config |-> list] : list \in {<<"a">>, <<"a", "b">>}}
      \union {[type |-> "basicAuth", config |-> <<"a">>],
              [type |-> "rateLimit", config |-> <<5, 5>>],
              [type |-> "headers", config |-> {"h"}]}

VARIABLE tf

(* extractMiddlewareFormDefaults *)
FirstOnly(list) == "a"
TextOf(list) == IF Len(list) = 1 THEN "a" ELSE "a,b"
extractMiddlewareFormDefaults(t) ==
    [type |-> IF t = NewTemplate THEN "ipAllowList" ELSE t.type,
     ranges |-> IF t.type = "ipAllowList" THEN TextOf(t.config) ELSE "",
     average |-> IF t.type = "rateLimit" THEN "5" ELSE "unset",
     burst |-> IF t.type = "rateLimit" THEN "5" ELSE "unset",
     users |-> IF t.type = "basicAuth" THEN TextOf(t.config) ELSE "",
     headers |-> IF t.type = "headers" THEN <<"h">> ELSE <<"">>]

(* Registering a number field that has no value gives it the empty text of *)
(* its input element.                                                      *)
Registered(f) ==
    IF f.type # "rateLimit" THEN f
    ELSE [f EXCEPT !.average = IF @ = "unset" THEN "" ELSE @,
                   !.burst = IF @ = "unset" THEN "" ELSE @]

TFMounted ==
    \E t \in StoredTemplates \union {NewTemplate} :
      tf = [stored |-> t, form |-> Registered(extractMiddlewareFormDefaults(t)),
            touched |-> FALSE, submit |-> NewTemplate]

FillIn(f) == tf.submit = NewTemplate /\ tf' = [tf EXCEPT !.form = f, !.touched = TRUE]

ChangeType(type) == FillIn(Registered([tf.form EXCEPT !.type = type]))

TypeRanges(text) == tf.form.type = "ipAllowList" /\ FillIn([tf.form EXCEPT !.ranges = text])
TypeUsers(text) == tf.form.type = "basicAuth" /\ FillIn([tf.form EXCEPT !.users = text])
TypeRate(field, text) ==
    tf.form.type = "rateLimit" /\ text # "unset" /\ FillIn([tf.form EXCEPT ![field] = text])

(* The rows of the headers: the last one cannot be removed; bound: two. *)
AddHeader ==
    /\ tf.form.type = "headers" /\ Len(tf.form.headers) < 2
    /\ FillIn([tf.form EXCEPT !.headers = Append(@, "")])
TypeHeader(i, key) ==
    /\ tf.form.type = "headers" /\ i \in DOMAIN tf.form.headers
    /\ FillIn([tf.form EXCEPT !.headers[i] = key])
RemoveHeader(i) ==
    /\ tf.form.type = "headers" /\ i \in DOMAIN tf.form.headers /\ Len(tf.form.headers) > 1
    /\ FillIn([tf.form EXCEPT !.headers = SubSeq(@, 1, i - 1) \o SubSeq(@, i + 1, Len(@))])

-----------------------------------------------------------------------------
(* Validation and payload. *)

parseMultiline(text) ==
    CASE text \in {"", ","} -> << >> [] text = "a" -> <<"a">> [] text = "a,b" -> <<"a", "b">>

(* z.coerce makes 0 of an empty text, which is not positive. *)
isRate(text) == text \in {"unset", "5"}

TrimmedKey(key) == IF key = "h " THEN "h" ELSE key
hasHeader(f) == \E i \in DOMAIN f.headers : TrimmedKey(f.headers[i]) # ""

(* In place of HasConfig: a text of blank lines is enough. *)
TextSuffices(f) ==
    CASE f.type = "ipAllowList" -> f.ranges # ""
      [] f.type = "basicAuth" -> f.users # ""
      [] OTHER -> TRUE

HasConfig(f) ==
    CASE f.type = "ipAllowList" -> parseMultiline(f.ranges) # << >>
      [] f.type = "rateLimit" -> f.average # "unset" /\ f.burst # "unset"
      [] f.type = "basicAuth" -> parseMultiline(f.users) # << >>
      [] f.type = "headers" -> hasHeader(f)

middlewareFormSchema(f) == isRate(f.average) /\ isRate(f.burst) /\ HasConfig(f)

buildCustomResponseHeaders(f) == {TrimmedKey(f.headers[i]) : i \in DOMAIN f.headers} \ {""}

buildMiddlewareConfig(f) ==
    CASE f.type = "ipAllowList" -> parseMultiline(f.ranges)
      [] f.type = "rateLimit" -> <<5, 5>>
      [] f.type = "basicAuth" -> parseMultiline(f.users)
      [] f.type = "headers" -> buildCustomResponseHeaders(f)

SubmitTemplate ==
    /\ tf.submit = NewTemplate /\ middlewareFormSchema(tf.form)
    /\ tf' = [tf EXCEPT !.submit = [type |-> tf.form.type,
                                    config |-> buildMiddlewareConfig(tf.form)]]

TFNext ==
    \/ \E type \in TemplateTypes : ChangeType(type)
    \/ \E text \in ListTexts : TypeRanges(text) \/ TypeUsers(text)
    \/ \E field \in {"average", "burst"}, text \in NumberTexts : TypeRate(field, text)
    \/ AddHeader \/ SubmitTemplate
    \/ \E i \in 1..2 : RemoveHeader(i) \/ \E key \in HeaderKeys : TypeHeader(i, key)

-----------------------------------------------------------------------------
(* Properties. *)

(* The validation of the backend, which every payload has to pass. *)
BackendAccepts(t) ==
    CASE t.type \in {"ipAllowList", "basicAuth", "rateLimit"} -> t.config # << >>
      [] t.type = "headers" -> t.config # {} /\ t.config \subseteq {"h"}

TFTypeOK ==
    tf # Unmounted =>
      /\ tf.form.type \in TemplateTypes /\ tf.form.ranges \in ListTexts
      /\ Len(tf.form.headers) \in 1..2

(* What the form accepts, the backend accepts too: however types were      *)
(* changed back and forth and rows added and left empty on the way.        *)
TemplatePayloadAccepted ==
    (tf # Unmounted /\ tf.submit # NewTemplate) => BackendAccepts(tf.submit)

(* A template that is opened and saved without a change is stored as it    *)
(* was: lists and headers survive the way to text fields and back.         *)
UntouchedTemplateKept ==
    (tf # Unmounted /\ tf.submit # NewTemplate /\ ~tf.touched) => tf.submit = tf.stored

=============================================================================
