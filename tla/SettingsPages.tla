---------------------------- MODULE SettingsPages ----------------------------
(***************************************************************************)
(* The settings pages of the administration console, and the form of an    *)
(* application, in several browsers over one stored section: the cache of  *)
(* each browser (fetch, refetch, invalidation), the form a page fills from it, *)
(* the edits, and the PUT a save sends, with answers that come late, fail  *)
(* or are lost.                                                            *)
(*                                                                         *)
(* A field has one of three values: Blank (empty, zero, off), Default (the *)
(* value a page has built in for it) and Other.                            *)
(***************************************************************************)
EXTENDS QueryCache, FiniteSets

CONSTANTS Browsers,   \* the administrators' browsers
          Sections,   \* the sections checked
          LimitTypes, \* the kinds of rate limit
          Extensions, \* the file extensions that may be excluded from them
          Inputs,     \* bound: the values typed into a form
          MaxEdits,   \* bound: edits in a behaviour
          MaxSaves,   \* bound: saves sent in a behaviour
          MaxUpsets   \* bound: pages left, caches dropped, requests that fail

VARIABLES section,    \* the section this behaviour is about
          stored,     \* the settings table: [part -> [field -> value]]
          past,       \* every version of each part that was ever stored
          edited,     \* the fields of the edit that was stored last
          version,    \* how many saves have been stored
          cache,      \* per browser: the data of the section's query, its version
          fetch,      \* per browser: the request of that query
          page,       \* per browser: the page shown
          form,       \* per browser: the form or the open dialog of the page
          touched,    \* per browser: the fields changed since the form was filled
          reqs,       \* saves under way
          shown,      \* per browser: the save its open page must come to show
          edits, saves, upsets   \* how many of each there have been

server == <<stored, past, edited, version>>
browser == <<cache, fetch, page, form, touched>>
counts == <<edits, saves, upsets>>
vars == <<section, server, browser, reqs, shown, counts>>

Blank == 0
Default == 1
Other == 2
Values == {Blank, Default, Other}
On == Other
Flip(v) == IF v = Blank THEN On ELSE Blank

\* value || default
OrDefault(v) == IF v = Blank THEN Default ELSE v

-----------------------------------------------------------------------------
(***************************************************************************)
(* WAFEngine                                                               *)
(***************************************************************************)
WAFInitial == [paranoia |-> Default, inbound |-> Default, outbound |-> Default,
               methods |-> Default, disabled |-> Default, custom |-> Blank]

\* The methods are an array, so an empty one is kept.
WAFFilled(d) == [f \in DOMAIN d |-> IF f \in {"methods", "custom"} THEN d[f]
                                    ELSE OrDefault(d[f])]

ParanoiaEdits(f) == {[f EXCEPT !.paranoia = v] : v \in {Default, Other}}
ThresholdEdits(f) == {[f EXCEPT !.inbound = v] : v \in Inputs}
                     \cup {[f EXCEPT !.outbound = v] : v \in Inputs}
MethodEdits(f) == {[f EXCEPT !.methods = v] : v \in Inputs}
                  \cup {[f EXCEPT !.disabled = v] : v \in Inputs}
CustomEdits(f) == {[f EXCEPT !.custom = v] : v \in Inputs \ {Default}}

ValidateWAFConfig(c) == c.paranoia # Blank /\ c.inbound # Blank

-----------------------------------------------------------------------------
(***************************************************************************)
(* ScoringEngine and AnomalyBehavior: the form is a clone of the data.     *)
(***************************************************************************)
ScoringInitial == [block |-> Other, challenge |-> Default, weights |-> Default,
                   trust |-> Default]
DecisionEdits(f) == {[f EXCEPT !.block = v] : v \in Inputs}
                    \cup {[f EXCEPT !.challenge = v] : v \in Inputs}
WeightEdits(f) == {[f EXCEPT !.weights = v] : v \in Inputs}
TrustEdits(f) == {[f EXCEPT !.trust = v] : v \in Inputs}

ValidateScoringConfig(c) == c.challenge # Blank /\ c.block > c.challenge

AnomalyInitial == [header |-> Default, cookie |-> Default, ja4 |-> Default]
HeaderRuleEdits(f) == {[f EXCEPT !.header = v] : v \in Inputs}
CookieRuleEdits(f) == {[f EXCEPT !.cookie = v] : v \in Inputs}
JA4RuleEdits(f) == {[f EXCEPT !.ja4 = v] : v \in Inputs}

-----------------------------------------------------------------------------
(***************************************************************************)
(* Challenged and BotDetector share the bot section.  Challenged edits the *)
(* challenge fields of the section, BotDetector the rule scores (in a      *)
(* dialog that holds a copy of the section) and the DNS switch.            *)
(***************************************************************************)
BotInitial == [headers |-> Default, behaviour |-> Default, dns |-> On, texts |-> Default,
               html |-> Blank, times |-> Other, trust |-> Default]

ChallengedOpened == [texts |-> Blank, html |-> Blank, mode |-> "basic",
                     times |-> Default, attempts |-> Default, trust |-> Default]
ChallengedFilled(d) == [texts |-> OrDefault(d.texts), html |-> d.html,
                        mode |-> IF d.html # Blank THEN "custom" ELSE "basic",
                        times |-> OrDefault(d.times), attempts |-> Default,
                        trust |-> d.trust]
AppearanceEdits(f) == {[f EXCEPT !.texts = v] : v \in Inputs}
                      \cup {[f EXCEPT !.times = v] : v \in Inputs}
                      \cup {[f EXCEPT !.attempts = v] : v \in {Default, Other}}
TrustLevelEdits(f) == {[f EXCEPT !.trust = v] : v \in Inputs}
ChallengedPayload(d, f) ==
    [d EXCEPT !.texts = f.texts,
              !.html = IF f.mode = "custom" THEN f.html ELSE Blank,
              !.times = f.times, !.trust = f.trust]

RulesDialogOpened(d) == {d}
HeaderScoreEdits(f) == {[f EXCEPT !.headers = v] : v \in Inputs}
BehaviourScoreEdits(f) == {[f EXCEPT !.behaviour = v] : v \in Inputs}
DNSToggled(d) == [d EXCEPT !.dns = Flip(@)]

ValidateBotConfig(c) == c.times # Blank

-----------------------------------------------------------------------------
(***************************************************************************)
(* RateLimiter: one part per limit and one for the exclusions.  A row is   *)
(* edited in place; switches and exclusions are sent at once, composed     *)
(* from the cached data.                                                   *)
(***************************************************************************)
RateLimitInitial ==
    [t \in LimitTypes |-> [on |-> IF t = "error" THEN Blank ELSE On, vals |-> Default]]
ExcludeInitial == [e \in Extensions \cup {"path"} |-> Blank]

StartEdits(d) == {[type |-> t, vals |-> d[t].vals] : t \in LimitTypes}
LimitEdits(f) == {[f EXCEPT !.vals = v] : v \in Inputs}
CancelEdit == None
LimitRows(d, f) == IF f = None THEN StartEdits(d)
                   ELSE LimitEdits(f) \cup {CancelEdit} \cup {g \in StartEdits(d) : g.type # f.type}
LimitCards(d, f) == LimitRows(d, f)      \* the narrow layout: the same controls
LimitToggles(d) == {[part |-> t, payload |-> [d[t] EXCEPT !.on = Flip(@)],
                     fields |-> {"on"}, closes |-> FALSE] : t \in LimitTypes}
\* Mutant: saving a limit switches it on.
LimitSavesOn(d, f) ==
    {[part |-> f.type, payload |-> [on |-> On, vals |-> f.vals],
      fields |-> {"vals"}, closes |-> TRUE]}
LimitSaves(d, f) ==
    {[part |-> f.type, payload |-> [on |-> d[f.type].on, vals |-> f.vals],
      fields |-> {"vals"}, closes |-> TRUE]}
ExcludeSave(d, e, v) ==
    [part |-> "exclude", payload |-> [d.exclude EXCEPT ![e] = v],
     fields |-> {e}, closes |-> FALSE]
AddExtension(d) == {ExcludeSave(d, e, On) : e \in {x \in Extensions : d.exclude[x] = Blank}}
RemoveExtension(d) == {ExcludeSave(d, e, Blank) : e \in {x \in Extensions : d.exclude[x] = On}}
AddPath(d) == {ExcludeSave(d, e, On) : e \in {x \in {"path"} : d.exclude[x] = Blank}}
RemovePath(d) == {ExcludeSave(d, e, Blank) : e \in {x \in {"path"} : d.exclude[x] = On}}
ExcludeCard(d) == AddExtension(d) \cup RemoveExtension(d) \cup AddPath(d) \cup RemovePath(d)

-----------------------------------------------------------------------------
(***************************************************************************)
(* IPReputation: the form is made of the data by the first edit and then   *)
(* kept.  An edit before the data is there leaves the other field out.     *)
(***************************************************************************)
ReputationInitial == [maxmind |-> Default, spamhaus |-> Default]
ReputationOpened == [config |-> None, dirty |-> {}]
CurrentConfig(d, f) == IF f.config # None THEN f.config
                       ELSE IF d # None THEN d
                       ELSE [maxmind |-> None, spamhaus |-> None]
ScoreEdits(d, f, card) ==
    {[config |-> [CurrentConfig(d, f) EXCEPT ![card] = v], dirty |-> f.dirty \cup {card}] :
       v \in Inputs}
ReputationPayload(c) == [f \in DOMAIN c |-> IF c[f] = None THEN Blank ELSE c[f]]

-----------------------------------------------------------------------------
(***************************************************************************)
(* AppForm: the application in tabs.  The first upstream decides whether   *)
(* it is an HTTP application (Default) or a stream (Other).  An upstream   *)
(* is off (Blank), on without a host (Default) or usable (Other).  The     *)
(* advanced tab stands for all that a stream application must not show.    *)
(***************************************************************************)
AppInitial == [domain |-> Default, note |-> Blank, scheme |-> Default, up |-> Other,
               ports |-> Blank, health |-> Blank, connection |-> Default,
               headers |-> Blank, cors |-> Default]
defaultAppConfig == [AppInitial EXCEPT !.domain = Blank, !.up = Default, !.health = Default]
WithTab(c, tab) == [x \in DOMAIN c \cup {"tab"} |-> IF x = "tab" THEN tab ELSE c[x]]
AppOpened == WithTab(defaultAppConfig, "basic")

isStream(f) == f.scheme = Other
\* The effect on isStream: no tab of an HTTP application is left open.
KeptTab(f, tab) == IF isStream(f) THEN "basic" ELSE tab
sanitizedConfig(d) == [d EXCEPT !.health = OrDefault(@)]
AppFilled(d, tab) == WithTab(sanitizedConfig(d), KeptTab(d, tab))

SwitchTab(f) == {[f EXCEPT !.tab = t] : t \in {"basic"} \cup IF isStream(f) THEN {} ELSE {"advanced"}}
IdentityEdits(f) == {[f EXCEPT !.domain = v] : v \in Inputs} \cup {[f EXCEPT !.note = Other]}
UpstreamEdits(f) == {[f EXCEPT !.scheme = v] : v \in {Default, Other}}
                    \cup {[f EXCEPT !.up = v] : v \in Inputs}
StreamEdits(f) == IF isStream(f) THEN {[f EXCEPT !.ports = Other]} ELSE {}
HealthEdits(f) == IF isStream(f) THEN {} ELSE {[f EXCEPT !.health = v] : v \in Inputs}
ConnectionEdits(f) == {[f EXCEPT !.connection = Other]}
HeaderEdits(f) == {[f EXCEPT !.headers = Other]}
CORSEdits(f) == {[f EXCEPT !.cors = v] : v \in Inputs}
BasicTab(f) == IdentityEdits(f) \cup UpstreamEdits(f) \cup StreamEdits(f) \cup HealthEdits(f)
AdvancedTab(f) == ConnectionEdits(f) \cup HeaderEdits(f) \cup CORSEdits(f)

\* With every upstream off nothing is sent: a message, and the basic tab.
AppSaves(f, fields) ==
    IF f.up = Blank THEN {}
    ELSE {[part |-> "app", payload |-> [x \in DOMAIN AppInitial |-> f[x]],
           fields |-> fields, closes |-> TRUE]}

ValidateApp(c) == c.domain # Blank /\ c.up = Other
\* The description has no column, and a stream without a port is given one.
AppStored(c) == [c EXCEPT !.note = Blank,
                          !.ports = IF isStream(c) THEN OrDefault(@) ELSE @]

-----------------------------------------------------------------------------
(***************************************************************************)
(* Sections, pages and forms                                               *)
(***************************************************************************)
Initial(s) ==
    CASE s = "waf" -> [waf |-> WAFInitial]
      [] s = "scoring" -> [scoring |-> ScoringInitial]
      [] s = "anomaly" -> [anomaly |-> AnomalyInitial]
      [] s = "app" -> [app |-> AppInitial]
      [] s = "bot" -> [bot |-> BotInitial]
      [] s = "reputation" -> [reputation |-> ReputationInitial]
      [] s = "ratelimit" -> [p \in LimitTypes \cup {"exclude"} |->
                               IF p = "exclude" THEN ExcludeInitial ELSE RateLimitInitial[p]]

PagesOf(s) ==
    CASE s = "waf" -> {"WAFEngine"}
      [] s = "scoring" -> {"ScoringEngine"}
      [] s = "anomaly" -> {"AnomalyBehavior"}
      [] s = "app" -> {"AppForm"}
      [] s = "bot" -> {"Challenged", "BotDetector"}
      [] s = "reputation" -> {"IPReputation"}
      [] s = "ratelimit" -> {"RateLimiter"}

\* The tables of a section, and what the form of IPReputation keeps of one.
Tables(s) == LET first == Initial(s) IN
             [DOMAIN first -> UNION {[DOMAIN first[p] -> Values] : p \in DOMAIN first}]
ReputationConfigs == [DOMAIN ReputationInitial -> {None} \cup Values]

\* The forms a page can hold, open dialogs included; a page without one has None.
Forms(p) ==
    CASE p = "WAFEngine" -> [DOMAIN WAFInitial -> Values]
      [] p = "ScoringEngine" -> [DOMAIN ScoringInitial -> Values]
      [] p = "AnomalyBehavior" -> [DOMAIN AnomalyInitial -> Values]
      [] p = "BotDetector" -> [DOMAIN BotInitial -> Values]
      [] p = "Challenged" -> [texts : Values, html : Values, mode : {"basic", "custom"},
                              times : Values, attempts : Values, trust : Values]
      [] p = "AppForm" -> [domain : Values, note : Values, scheme : Values, up : Values,
                           ports : Values, health : Values, connection : Values,
                           headers : Values, cors : Values, tab : {"basic", "advanced"}]
      [] p = "RateLimiter" -> [type : LimitTypes, vals : Values]
      [] p = "IPReputation" -> [config : {None} \cup ReputationConfigs,
                                dirty : SUBSET DOMAIN ReputationInitial]

AllSections == {"waf", "scoring", "anomaly", "app", "bot", "reputation", "ratelimit"}

\* Pages with an effect that fills the form anew whenever the data changes.
Filling == {"WAFEngine", "ScoringEngine", "AnomalyBehavior", "Challenged", "AppForm"}

\* The parts of the rate limits are kept under names of their own, and None is not one
\* of the things it stands in for.
ASSUME SettingsAssumption ==
    /\ Sections \subseteq AllSections /\ Inputs \subseteq Values
    /\ LimitTypes \cap (AllSections \cup {"exclude"}) = {}
    /\ None \notin Values \cup ReputationConfigs \cup Filling
    /\ \A s \in Sections : /\ None \notin PagesOf(s) \cup Tables(s)
                          /\ \A p \in PagesOf(s) : None \notin Forms(p)

\* The form of a page that has just been mounted, before its effects.
Opened(p) == CASE p = "WAFEngine" -> WAFInitial
               [] p = "Challenged" -> ChallengedOpened
               [] p = "IPReputation" -> ReputationOpened
               [] p = "AppForm" -> AppOpened
               [] OTHER -> None

\* The form after the effect that depends on the data.
Filled(p, d, f) == IF d = None THEN f ELSE
                   CASE p = "WAFEngine" -> WAFFilled(d.waf)
                     [] p = "ScoringEngine" -> d.scoring
                     [] p = "AnomalyBehavior" -> d.anomaly
                     [] p = "Challenged" -> ChallengedFilled(d.bot)
                     [] p = "AppForm" -> AppFilled(d.app, f.tab)
                     [] OTHER -> f

\* What the controls of the page can make of its form.
Edits(p, d, f) ==
    CASE p = "WAFEngine" -> ParanoiaEdits(f) \cup ThresholdEdits(f)
                            \cup MethodEdits(f) \cup CustomEdits(f)
      [] p = "ScoringEngine" -> IF f = None THEN {} ELSE
                                DecisionEdits(f) \cup WeightEdits(f) \cup TrustEdits(f)
      [] p = "AnomalyBehavior" -> IF f = None THEN {} ELSE
                                  HeaderRuleEdits(f) \cup CookieRuleEdits(f) \cup JA4RuleEdits(f)
      [] p = "Challenged" -> AppearanceEdits(f) \cup TrustLevelEdits(f)
      [] p = "BotDetector" -> IF f # None THEN HeaderScoreEdits(f) \cup BehaviourScoreEdits(f) \cup {None}
                              ELSE IF d # None THEN RulesDialogOpened(d.bot) ELSE {}
      [] p = "AppForm" -> SwitchTab(f) \cup (IF f.tab = "basic" THEN BasicTab(f) ELSE AdvancedTab(f))
      [] p = "RateLimiter" -> IF d = None THEN {} ELSE LimitRows(d, f) \cup LimitCards(d, f)
      [] p = "IPReputation" -> LET c == IF d = None THEN None ELSE d.reputation IN
                               ScoreEdits(c, f, "maxmind") \cup ScoreEdits(c, f, "spamhaus")

\* The saves the page can send now: the part, the body, whose fields they are.
Saves(b) ==
    LET d == cache[b].data
        f == form[b]
        Whole(part, body, fields) == {[part |-> part, payload |-> body,
                                       fields |-> fields, closes |-> FALSE]}
    IN CASE page[b] = "WAFEngine" -> Whole("waf", f, touched[b])
         [] page[b] = "ScoringEngine" /\ f # None -> Whole("scoring", f, touched[b])
         [] page[b] = "AnomalyBehavior" /\ f # None -> Whole("anomaly", f, touched[b])
         [] page[b] = "Challenged" /\ d # None ->
              Whole("bot", ChallengedPayload(d.bot, f), touched[b])
         [] page[b] = "BotDetector" /\ d # None ->
              Whole("bot", DNSToggled(d.bot), {"dns"})
              \cup (IF f = None THEN {} ELSE
                    {[part |-> "bot", payload |-> f, fields |-> touched[b], closes |-> TRUE]})
         [] page[b] = "RateLimiter" /\ d # None ->
              LimitToggles(d) \cup ExcludeCard(d)
              \cup (IF f = None THEN {} ELSE LimitSaves(d, f))
         [] page[b] = "AppForm" -> AppSaves(f, touched[b])
         [] page[b] = "IPReputation" ->
              IF \E r \in reqs : r.by = b /\ r.live THEN {}
              ELSE {[part |-> "reputation", payload |-> ReputationPayload(f.config),
                     fields |-> touched[b], closes |-> FALSE, clears |-> card] : card \in f.dirty}
         [] OTHER -> {}

Accepts(part, c) == CASE part = "waf" -> ValidateWAFConfig(c)
                      [] part = "scoring" -> ValidateScoringConfig(c)
                      [] part = "bot" -> ValidateBotConfig(c)
                      [] part = "app" -> ValidateApp(c)
                      [] OTHER -> TRUE
AsStored(part, c) == IF part = "app" THEN AppStored(c) ELSE c

-----------------------------------------------------------------------------
Init == /\ section \in Sections
        /\ stored = Initial(section)
        /\ past = [p \in DOMAIN stored |-> {stored[p]}]
        /\ edited = {} /\ version = 0
        /\ cache = [b \in Browsers |-> Unloaded]
        /\ fetch = [b \in Browsers |-> Idle]
        /\ page = [b \in Browsers |-> None]
        /\ form = [b \in Browsers |-> None]
        /\ touched = [b \in Browsers |-> {}]
        /\ reqs = {} /\ shown = [b \in Browsers |-> 0]
        /\ edits = 0 /\ saves = 0 /\ upsets = 0

Loading(b) == LoadingNow(cache[b], fetch[b])

Upset == upsets < MaxUpsets /\ upsets' = upsets + 1

\* A page is mounted: the query is stale at once, so it is fetched anew.
Open(b, p) ==
    /\ page[b] = None
    /\ page' = [page EXCEPT ![b] = p]
    /\ form' = [form EXCEPT ![b] = Filled(p, cache[b].data, Opened(p))]
    /\ touched' = [touched EXCEPT ![b] = {}]
    /\ fetch' = [fetch EXCEPT ![b] = Mounted(@)]
    /\ UNCHANGED <<section, server, cache, reqs, shown, counts>>

\* The page is unmounted; its answers no longer reach a form.
Leave(b) ==
    /\ Upset
    /\ page[b] # None
    /\ page' = [page EXCEPT ![b] = None]
    /\ form' = [form EXCEPT ![b] = None]
    /\ touched' = [touched EXCEPT ![b] = {}]
    /\ reqs' = {IF r.by = b THEN [r EXCEPT !.live = FALSE] ELSE r : r \in reqs}
    /\ shown' = [shown EXCEPT ![b] = 0]
    /\ UNCHANGED <<section, server, cache, fetch, edits, saves>>

\* The cache drops a query nobody has used for five minutes.
Forget(b) ==
    /\ Upset
    /\ page[b] = None /\ fetch[b].phase = "idle" /\ cache[b] # Unloaded
    /\ cache' = [cache EXCEPT ![b] = Unloaded]
    /\ UNCHANGED <<section, server, fetch, page, form, touched, reqs, shown, edits, saves>>

ServerReads(b) ==
    /\ fetch[b].phase = "sent"
    /\ fetch' = [fetch EXCEPT ![b] = AnsweredWith(stored, version)]
    /\ UNCHANGED <<section, server, cache, page, form, touched, reqs, shown, counts>>

\* Mutant: the form is filled by the first answer only.
DeliverFirst(b) ==
    /\ fetch[b].phase = "answered"
    /\ cache' = [cache EXCEPT ![b] = Received(fetch[b])]
    /\ fetch' = [fetch EXCEPT ![b] = Idle]
    /\ form' = [form EXCEPT ![b] = IF page[b] \in Filling /\ cache[b].data = None
                                   THEN Filled(page[b], fetch[b].data, @) ELSE @]
    /\ UNCHANGED <<section, server, page, touched, reqs, shown, counts>>

\* Equal data keeps its identity and starts no effect.
Deliver(b) ==
    /\ fetch[b].phase = "answered"
    /\ cache' = [cache EXCEPT ![b] = Received(fetch[b])]
    /\ fetch' = [fetch EXCEPT ![b] = Idle]
    /\ IF page[b] \in Filling /\ fetch[b].data # cache[b].data
       THEN /\ form' = [form EXCEPT ![b] = Filled(page[b], fetch[b].data, @)]
            /\ touched' = [touched EXCEPT ![b] = {}]
       ELSE UNCHANGED <<form, touched>>
    /\ UNCHANGED <<section, server, page, reqs, shown, counts>>

\* The request and its one retry failed; the data that was there stays.
FetchFails(b) ==
    /\ Upset
    /\ fetch[b].phase # "idle"
    /\ fetch' = [fetch EXCEPT ![b] = Idle]
    /\ shown' = [shown EXCEPT ![b] = 0]
    /\ UNCHANGED <<section, server, cache, page, form, touched, reqs, edits, saves>>

\* The fields an edit changes.
Changed(p, f, g) == IF p = "IPReputation" THEN g.dirty
                    ELSE IF p = "RateLimiter" THEN {}
                    ELSE {x \in DOMAIN f : f[x] # g[x]}

Edit(b) ==
    /\ edits < MaxEdits /\ edits' = edits + 1
    /\ page[b] # None /\ ~Loading(b)
    /\ \E g \in Edits(page[b], cache[b].data, form[b]) \ {form[b]} :
         /\ form' = [form EXCEPT ![b] = g]
         /\ touched' = [touched EXCEPT ![b] =
                          IF None \in {form[b], g} THEN {}
                          ELSE @ \cup Changed(page[b], form[b], g)]
    /\ UNCHANGED <<section, server, cache, fetch, page, reqs, shown, saves, upsets>>

Save(b) ==
    /\ saves < MaxSaves /\ saves' = saves + 1
    /\ page[b] # None /\ ~Loading(b)
    /\ \E s \in Saves(b) :
         reqs' = reqs \cup {[id |-> saves, by |-> b, live |-> TRUE, state |-> "sent",
                             ver |-> 0, save |-> s]}
    /\ UNCHANGED <<section, server, browser, shown, edits, upsets>>

ServerStores(r) ==
    /\ r.state = "sent"
    /\ IF Accepts(r.save.part, r.save.payload)
       THEN /\ stored' = [stored EXCEPT ![r.save.part] = AsStored(r.save.part, r.save.payload)]
            /\ past' = [past EXCEPT ![r.save.part] = @ \cup {stored'[r.save.part]}]
            /\ edited' = r.save.fields
            /\ version' = version + 1
            /\ reqs' = (reqs \ {r}) \cup {[r EXCEPT !.state = "ok", !.ver = version + 1]}
       ELSE /\ reqs' = (reqs \ {r}) \cup {[r EXCEPT !.state = "failed"]}
            /\ UNCHANGED server
    /\ UNCHANGED <<section, browser, shown, counts>>

\* The request never arrives, or its answer is lost after it was stored.
SaveFails(r) ==
    /\ Upset
    /\ r.state # "failed"
    /\ reqs' = (reqs \ {r}) \cup {[r EXCEPT !.state = "failed"]}
    /\ UNCHANGED <<section, server, browser, shown, edits, saves>>

\* What a successful save does to the page that sent it.
Settled(b, r) ==
    CASE ~r.live -> form[b]
      [] r.live /\ r.save.closes -> None
      [] r.live /\ ~r.save.closes ->
           IF page[b] = "IPReputation" THEN [form[b] EXCEPT !.dirty = @ \ {r.save.clears}]
           ELSE form[b]

SaveAnswered(r) ==
    /\ r.state = "ok" /\ page[r.by] # "AppForm"
    /\ reqs' = reqs \ {r}
    /\ fetch' = [fetch EXCEPT ![r.by] =
                    Refetched(page[r.by] # None, cache[r.by], @)]
    /\ form' = [form EXCEPT ![r.by] = Settled(r.by, r)]
    /\ touched' = [touched EXCEPT ![r.by] = IF r.live /\ r.save.closes THEN {} ELSE @]
    /\ shown' = [shown EXCEPT ![r.by] = IF r.live /\ ~Loading(r.by) /\ r.ver > @ THEN r.ver ELSE @]
    /\ UNCHANGED <<section, server, cache, page, counts>>

\* A saved application leads back to the list, even from a form opened since.
AppSaved(r) ==
    /\ r.state = "ok" /\ page[r.by] = "AppForm"
    /\ reqs' = {IF q.by = r.by THEN [q EXCEPT !.live = FALSE] ELSE q : q \in reqs \ {r}}
    /\ fetch' = [fetch EXCEPT ![r.by] = Refetched(TRUE, cache[r.by], @)]
    /\ page' = [page EXCEPT ![r.by] = None]
    /\ form' = [form EXCEPT ![r.by] = None]
    /\ touched' = [touched EXCEPT ![r.by] = {}]
    /\ shown' = [shown EXCEPT ![r.by] = 0]
    /\ UNCHANGED <<section, server, cache, counts>>

\* Refused or failed: a message, and nothing else changes.
SaveRefused(r) ==
    /\ r.state = "failed"
    /\ reqs' = reqs \ {r}
    /\ UNCHANGED <<section, server, browser, shown, counts>>

Next == \/ \E b \in Browsers :
              \/ \E p \in PagesOf(section) : Open(b, p)
              \/ Leave(b) \/ Forget(b) \/ ServerReads(b) \/ Deliver(b) \/ FetchFails(b)
              \/ Edit(b) \/ Save(b)
        \/ \E r \in reqs : \/ ServerStores(r) \/ SaveFails(r)
                           \/ SaveAnswered(r) \/ AppSaved(r) \/ SaveRefused(r)

Spec == Init /\ [][Next]_vars

-----------------------------------------------------------------------------
(***************************************************************************)
(* Properties                                                              *)
(***************************************************************************)

\* A field nobody touched shows what the last read returned: the effects of the
\* pages that fill a form run on every change of the data, not on the first.
FormFollowsCache ==
    \A b \in Browsers :
      page[b] \in Filling /\ cache[b].data # None =>
        LET g == Filled(page[b], cache[b].data, form[b]) IN
        \A x \in DOMAIN g \ (touched[b] \cup {"tab"}) : form[b][x] = g[x]

\* Once its own save has been answered, a page that stays open and whose reads
\* succeed does not come to rest on data older than that save.
OwnSavesShown ==
    \A b \in Browsers : fetch[b].phase = "idle" => cache[b].ver >= shown[b]

\* Every store of the pages is a store of the abstract specification: one version
\* of the part with the fields of one edit replaced.
BuiltIn == [p \in {"waf", "scoring", "anomaly", "bot", "reputation", "app", "exclude"} \cup LimitTypes |->
              CASE p = "waf" -> {WAFInitial}
                [] p = "app" -> {defaultAppConfig}
                [] p = "reputation" -> {[maxmind |-> Blank, spamhaus |-> Blank]}
                [] OTHER -> {}]
NothingLeft == {}
Shared == INSTANCE SharedSettings WITH left <- NothingLeft, emptied <- NothingLeft, Empty <- Blank
ImplementsSharedSettings == Shared!Spec
=============================================================================
