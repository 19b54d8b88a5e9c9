------------------------------ MODULE ListPages ------------------------------
(***************************************************************************)
(* The pages that keep a list of rows: the bot patterns and the verified   *)
(* address ranges (BotDetector), the reputation entries (IPReputation),    *)
(* the access rules of an application (IPAccessSection) and the            *)
(* applications themselves (Applications, with the form that creates one). *)
(* One browser is followed; a step elsewhere stands for any other          *)
(* administrator.                                                          *)
(*                                                                         *)
(* A row has a class (what the filters ask for), a body (its contents, for *)
(* a provider its addresses), a score (of a pattern or an entry) and a     *)
(* switch.  Of a provider the class tells a URL to sync from (good) from   *)
(* addresses typed by hand (bad); of an application it tells HTTP (good)   *)
(* from a stream (bad), and the switch is its under-attack mode.           *)
(***************************************************************************)
EXTENDS QueryCache, Integers, FiniteSets

CONSTANTS Lists,        \* the lists checked
          Ids,          \* row identifiers, each given to one row only
          PageSizes,    \* the choices of rows per page
          MaxClicks,    \* bound: changes of the view and of a dialog
          MaxSends,     \* bound: requests that change rows; after the last no control is used
          MaxUpsets     \* bound: steps elsewhere, requests that fail, page left

ListsAssumption == Lists \subseteq {"patterns", "ranges", "entries", "access", "apps"}

VARIABLES list,         \* the list this behaviour is about
          stored, past, edited, version,   \* the table, as in SettingsPages
          left,         \* the columns the last change left out
          emptied,      \* the columns the last change emptied though no control named them
          cache, fetch, \* the list's query in this browser
          view,         \* filter, search, page, rows per page, selection, error shown
          dialog,       \* the open dialog or form, None if there is none
          bulkForm,     \* the form for the selected rows, kept while it is closed
          reqs,         \* changes under way
          shown,        \* the change the open page must come to show
          clicks, sends, upsets

server == <<stored, past, edited, left, emptied, version>>
dialogs == <<dialog, bulkForm>>
counts == <<clicks, sends, upsets>>
vars == <<list, server, cache, fetch, view, dialogs, reqs, shown, counts>>

Classes == {"good", "bad"}
Other(class) == IF class = "good" THEN "bad" ELSE "good"
Row(there, class, body, score, on) ==
    [there |-> there, class |-> class, body |-> body, score |-> score, on |-> on]
Absent == Row(FALSE, "good", 0, 0, TRUE)
Contents == {"class", "body", "score", "on"}
Only(r, fields) == [f \in fields |-> r[f]]

\* The rows of the answer; they are listed in the order of their identifiers.
Listed(d) == IF d = None THEN {} ELSE {i \in Ids : d[i].there}

-----------------------------------------------------------------------------
(***************************************************************************)
(* Filters, pages and selection                                            *)
(***************************************************************************)
Matches(r, v) == /\ v.filter \in {"all", r.class}
                 /\ v.search => r.body = 1
filteredPatterns(d, v) == {i \in Listed(d) : Matches(d[i], v)}
filteredEntries(d, v) == {i \in Listed(d) : Matches(d[i], v)}
Filtered(d, v) == CASE list = "patterns" -> filteredPatterns(d, v)
                    [] list = "entries" -> filteredEntries(d, v)
                    [] OTHER -> Listed(d)

TotalPages(d, v) == (Cardinality(Filtered(d, v)) + v.per - 1) \div v.per

\* The slice is memoised on the rows and the page, not on the rows per page:
\* it is cut with the number that was chosen when it was last computed.
paginatedPatterns(d, v) ==
    {i \in Filtered(d, v) :
       Cardinality({j \in Filtered(d, v) : j <= i}) \in (v.page - 1) * v.sliced + 1 .. v.page * v.sliced}
paginatedEntries(d, v) == paginatedPatterns(d, v)
ShownRows(d, v) == IF list \in {"patterns", "entries"} THEN paginatedPatterns(d, v)
                   ELSE Listed(d)

Recut(v) == [v EXCEPT !.sliced = v.per]
Narrowed(v) == Recut([v EXCEPT !.page = 1])

TypeButtons(v) == {Narrowed([v EXCEPT !.filter = IF @ = c THEN "all" ELSE c]) : c \in Classes}
PatternSearch(v) == {Narrowed([v EXCEPT !.search = ~@])}
EntryFilters(v) == {Narrowed([v EXCEPT !.filter = c]) : c \in Classes \cup {"all"}}
                   \cup {Narrowed([v EXCEPT !.search = ~@])}

RowsPerPage(v) ==
    {IF v.page = 1 THEN [v EXCEPT !.per = n] ELSE Narrowed([v EXCEPT !.per = n]) : n \in PageSizes}

\* Previous and Next are there when there is more than one page; Next is only
\* disabled on the last one, so it goes on from a page beyond it.
PatternPager(d, v) ==
    RowsPerPage(v) \cup
    (IF TotalPages(d, v) <= 1 THEN {}
     ELSE {Recut([v EXCEPT !.page = @ - 1]) : x \in {y \in {1} : v.page # 1}}
          \cup {Recut([v EXCEPT !.page = @ + 1]) : x \in {y \in {1} : v.page # TotalPages(d, v)}})
EntryPager(d, v) == PatternPager(d, v)

toggleSelectPattern(v, i) == [v EXCEPT !.sel = IF i \in @ THEN @ \ {i} ELSE @ \cup {i}]
toggleSelectAllPatterns(d, v) ==
    LET all == filteredPatterns(d, v)
    IN [v EXCEPT !.sel = IF all \subseteq @ THEN {} ELSE all]
SelectMatching(d, v) ==
    IF v.sel # {} /\ Cardinality(v.sel) < Cardinality(Filtered(d, v))
    THEN {[v EXCEPT !.sel = Filtered(d, v)]} ELSE {}
toggleSelect(v, i) == toggleSelectPattern(v, i)
toggleSelectAll(d, v) ==
    LET here == paginatedEntries(d, v)
    IN [v EXCEPT !.sel = IF here \subseteq @ THEN @ \ here ELSE @ \cup here]

PatternTable(d, v) == {toggleSelectPattern(v, i) : i \in ShownRows(d, v)}
                      \cup {toggleSelectAllPatterns(d, v)} \cup SelectMatching(d, v)
EntryTable(d, v) == {toggleSelect(v, i) : i \in ShownRows(d, v)}
                    \cup {toggleSelectAll(d, v)} \cup SelectMatching(d, v)

Views(d, v) ==
    CASE list = "patterns" -> TypeButtons(v) \cup PatternSearch(v) \cup PatternPager(d, v) \cup PatternTable(d, v)
      [] list = "entries" -> EntryFilters(v) \cup EntryPager(d, v) \cup EntryTable(d, v)
      [] OTHER -> {}

FirstView == [filter |-> IF list = "patterns" THEN "good" ELSE "all", search |-> FALSE, page |-> 1,
              per |-> 1, sliced |-> 1, sel |-> {}, error |-> FALSE]

-----------------------------------------------------------------------------
(***************************************************************************)
(* Dialogs and forms: a new row, a copy of a row, or values for the        *)
(* selected rows.                                                          *)
(***************************************************************************)
Dialog(mode, ids, row) == [mode |-> mode, ids |-> ids, row |-> row, fields |-> {}]
NewRow == Row(TRUE, "bad", 1, 1, TRUE)
RowDialogs(d, v) == {Dialog("edit", {i}, d[i]) : i \in ShownRows(d, v)}
                    \cup {Dialog("create", {}, NewRow)}
FirstBulk == Dialog("bulk", {}, NewRow)

handleOpenPatternDialog(d, v) == RowDialogs(d, v)
BulkEditDialog(v) == IF v.sel = {} THEN {} ELSE {bulkForm}
\* The form takes over the addresses typed by hand, not those synced from a URL.
handleOpenIPRangeDialog(d, v) ==
    {Dialog("edit", {i}, [d[i] EXCEPT !.body = IF d[i].class = "good" THEN 0 ELSE @]) : i \in ShownRows(d, v)}
    \cup {Dialog("create", {}, Row(TRUE, "good", 0, 1, TRUE))}
openEntry(d, v) == RowDialogs(d, v)
BulkScoreDialog(v) == IF v.sel = {} THEN {} ELSE {bulkForm}
openRule(d, v) == RowDialogs(d, v)
DeleteDialog(d, v) == {Dialog("delete", {i}, d[i]) : i \in ShownRows(d, v)}

Opening(d, v) ==
    CASE list = "patterns" -> handleOpenPatternDialog(d, v) \cup BulkEditDialog(v)
      [] list = "ranges" -> handleOpenIPRangeDialog(d, v)
      [] list = "entries" -> openEntry(d, v) \cup BulkScoreDialog(v)
      [] list = "access" -> openRule(d, v) \cup DeleteDialog(d, v)
      [] list = "apps" -> DeleteDialog(d, v) \cup {Dialog("create", {}, NewRow)}

\* A control of the form: what it changes, or brings along, counts as edited.
Set(g, field, value) == [g EXCEPT !.row = [@ EXCEPT ![field] = value], !.fields = @ \cup {field}]

\* A new classification brings a score of the right sign along; there is no switch.
Suggested(class, score) == IF class = "good" THEN IF score >= 0 THEN -1 ELSE score
                           ELSE IF score < 0 THEN 1 ELSE score
PatternDialog(g) ==
    LET class == Other(g.row.class)
    IN {Set(Set(g, "class", class), "score", Suggested(class, g.row.score)),
        Set(g, "body", 1 - g.row.body)}
       \cup {Set(g, "score", n) : n \in -1..1 \ {g.row.score}}
\* A field is ticked, given a value when it is ticked, or unticked.
BulkEditFields(g) ==
    {Set(g, "class", c) : c \in Classes} \cup {Set(g, "score", n) : n \in {-1, 1}}
    \cup {Set(g, "on", b) : b \in BOOLEAN}
    \cup {[g EXCEPT !.fields = @ \ {f}] : f \in g.fields}
IPRangeDialog(g) ==
    {Set(g, "on", ~g.row.on), Set(g, "class", Other(g.row.class))}
    \cup (IF g.row.class = "bad" THEN {Set(g, "body", 1 - g.row.body)} ELSE {})
EntryDialog(g) == {Set(g, "class", Other(g.row.class)), Set(g, "body", 1 - g.row.body),
                   Set(g, "score", 3 - g.row.score), Set(g, "on", ~g.row.on)}
BulkScoreField(g) == {Set(g, "score", 3 - g.row.score)}
RuleFormView(g) == {Set(g, "body", 1 - g.row.body), Set(g, "class", Other(g.row.class)), Set(g, "on", ~g.row.on)}
CreateForm(g) == {Set(g, "body", 1 - g.row.body), Set(g, "class", Other(g.row.class))}

DialogEdits(g) ==
    CASE g.mode = "delete" -> {}
      [] list = "patterns" -> IF g.mode = "bulk" THEN BulkEditFields(g) ELSE PatternDialog(g)
      [] list = "ranges" -> IPRangeDialog(g)
      [] list = "entries" -> IF g.mode = "bulk" THEN BulkScoreField(g) ELSE EntryDialog(g)
      [] list = "access" -> RuleFormView(g)
      [] list = "apps" -> CreateForm(g)

-----------------------------------------------------------------------------
(***************************************************************************)
(* Requests: which rows, the columns they set, whose edit it is, and what  *)
(* their success does to the page.                                         *)
(***************************************************************************)
Pending(op) == \E r \in reqs : r.live /\ r.req.op = op

Request(op, ids, set, fields, then) ==
    [op |-> op, ids |-> ids, set |-> set, fields |-> fields, then |-> then]
Create(g, then) == Request("create", {}, [Only(g.row, Contents \cup {"there"}) EXCEPT !.there = TRUE],
                           Contents \cup {"there"}, then)
Gone == [there |-> FALSE]
Delete(ids, then) == Request("delete", ids, Gone, {"there"}, then)

handleSavePattern(g) ==
    IF g.mode = "edit" THEN {Request("update", g.ids, Only(g.row, Contents), g.fields, "close")}
    ELSE {Create(g, "close")}
handleBulkEdit(g) ==
    IF {} \in {g.fields, g.ids} \/ Pending("bulkupdate") THEN {}
    ELSE {Request("bulkupdate", g.ids, Only(g.row, g.fields), g.fields, "both")}
handleDeletePattern(i) == Delete({i}, "none")
handleBulkDeletePatterns(v) ==
    IF v.sel = {} \/ Pending("bulkdelete") THEN {}
    ELSE {Request("bulkdelete", v.sel, Gone, {"there"}, "deselect")}

\* A provider with a URL is saved without addresses, those synced from it before included;
\* one without needs some.
Provider(g) == [Only(g.row, Contents) EXCEPT !.body = IF g.row.class = "good" THEN 0 ELSE @]
\* Mutant: an edited provider is sent switched on.
handleSaveIPRangeOn(g) ==
    IF g.row.class # "good" /\ g.row.body = 0 THEN {}
    ELSE IF g.mode = "edit" THEN {Request("update", g.ids, [Provider(g) EXCEPT !.on = TRUE], g.fields, "close")}
    ELSE {Create([g EXCEPT !.row.body = Provider(g).body], "close")}
handleSaveIPRange(g) ==
    IF g.row.class # "good" /\ g.row.body = 0 THEN {}
    ELSE IF g.mode = "edit" THEN {Request("update", g.ids, Provider(g), g.fields, "close")}
    ELSE {Create([g EXCEPT !.row.body = Provider(g).body], "close")}
handleDeleteIPRange(i) == Delete({i}, "none")
handleSyncIPRange(i) == Request("sync", {i}, [body |-> 1], {"body"}, "none")

\* A new entry's dialog closes at once, an edited one's when it is stored.
handleSubmitEntry(g) ==
    IF g.mode = "edit" THEN {Request("update", g.ids, Only(g.row, Contents), g.fields, "close")}
    ELSE {Create(g, "none")}
handleDelete(i) == Delete({i}, "none")
handleBulkDelete(v) ==
    IF v.sel = {} \/ Pending("bulkdelete") THEN {}
    ELSE {Request("bulkdelete", v.sel, Gone, {"there"}, "deselect")}
handleBulkUpdateScore(g) ==
    IF g.ids = {} \/ Pending("bulkupdate") THEN {}
    ELSE {Request("bulkupdate", g.ids, [score |-> g.row.score], {"score"}, "both")}

handleSubmitRule(g) ==
    IF g.mode = "edit" THEN {Request("update", g.ids, Only(g.row, Contents), g.fields, "close")}
    ELSE {Create(g, "close")}
handleToggle(d, i) == Request("update", {i}, [on |-> ~d[i].on], {"on"}, "none")
handleDeleteConfirm(g) == {Delete(g.ids, "close")}

\* A new application is not under attack; the switch of a stream is disabled.
createApp(g) == {Create([g EXCEPT !.row.on = FALSE], "close")}
handleToggleAttack(d, i) ==
    IF d[i].class = "good" THEN {Request("update", {i}, [on |-> ~d[i].on], {"on"}, "none")} ELSE {}
deleteApp(g) == {Delete(g.ids, "close")}
AppCards(d, v) == UNION {handleToggleAttack(d, i) : i \in ShownRows(d, v)}

\* What the buttons of the open dialog send.
DialogSends(g) ==
    CASE list = "patterns" -> IF g.mode = "bulk" THEN handleBulkEdit([g EXCEPT !.ids = view.sel])
                              ELSE handleSavePattern(g)
      [] list = "ranges" -> handleSaveIPRange(g)
      [] list = "entries" -> IF Pending("update") \/ Pending("create") THEN {}
                             ELSE IF g.mode = "bulk" THEN handleBulkUpdateScore([g EXCEPT !.ids = view.sel])
                             ELSE handleSubmitEntry(g)
      [] list = "access" -> IF g.mode = "delete" THEN handleDeleteConfirm(g)
                            ELSE IF Pending("update") \/ Pending("create") THEN {}
                            ELSE handleSubmitRule(g)
      [] list = "apps" -> IF g.mode = "delete" THEN deleteApp(g) ELSE createApp(g)

\* What the buttons of the rows and of the page send.
PageSends(d, v) ==
    CASE list = "patterns" -> {handleDeletePattern(i) : i \in ShownRows(d, v)} \cup handleBulkDeletePatterns(v)
      [] list = "ranges" -> {handleDeleteIPRange(i) : i \in ShownRows(d, v)}
                            \cup {handleSyncIPRange(i) : i \in {j \in ShownRows(d, v) :
                                    d[j].class = "good" /\ ~Pending("sync")}}
      [] list = "entries" -> {handleDelete(i) : i \in ShownRows(d, v)} \cup handleBulkDelete(v)
      [] list = "access" -> {handleToggle(d, i) : i \in ShownRows(d, v)}
      [] list = "apps" -> AppCards(d, v)

-----------------------------------------------------------------------------
(***************************************************************************)
(* The table                                                               *)
(***************************************************************************)
Table0 == [i \in Ids |-> IF i < 3 THEN Row(TRUE, "good", i - 1, IF list = "patterns" THEN -1 ELSE 1, i = 1)
                         ELSE Absent]
Fresh == {i \in Ids : past[i] = {Absent}}

\* The columns an update sets: an empty description of an access rule is left out.
Columns(r) == IF list = "access" /\ r.op = "update"
              THEN {c \in DOMAIN r.set : c # "body" \/ r.set.body # 0} ELSE DOMAIN r.set

\* The columns a change empties that nobody asked it to: the addresses of a provider with a URL.
Emptied(r) == IF list = "ranges" /\ r.op = "update" THEN {c \in {"body"} : r.set.class = "good"} ELSE {}

Affected(r) == IF r.op = "create" THEN {CHOOSE i \in Fresh : \A j \in Fresh : i <= j}
               ELSE {i \in r.ids : stored[i].there}

\* The under-attack mode is for HTTP applications; switching it off is not checked.
ToggleUnderAttackMode(r) == r.set.on => \E i \in Affected(r) : stored[i].class = "good"

\* The score of one pattern, or of new ones, has the sign of its class; of a bulk edit it
\* need not.
ScoreFits(r) == IF r.set.class = "good" THEN r.set.score <= 0 ELSE r.set.score >= 0

\* Entries and access rules report a row that is not there, and so does the deletion of
\* an application; the others do not.
Accepts(r) == IF list = "patterns" /\ r.op \in {"create", "update"} THEN ScoreFits(r)
              ELSE IF r.op = "create" THEN list = "ranges" /\ r.set.class = "bad" => r.set.body = 1
              ELSE IF list = "apps" THEN IF r.op = "update" THEN ToggleUnderAttackMode(r) ELSE Affected(r) # {}
              ELSE Affected(r) = {} => list \notin {"entries", "access"} \/ r.op \in {"bulkdelete", "bulkupdate"}

Apply(r) ==
    /\ stored' = [i \in Ids |-> IF i \notin Affected(r) THEN stored[i]
                                ELSE [c \in DOMAIN stored[i] |->
                                        IF c \in Columns(r) THEN r.set[c] ELSE stored[i][c]]]
    /\ past' = [i \in Ids |-> past[i] \cup {stored'[i]}]
    /\ edited' = r.fields /\ left' = DOMAIN r.set \ Columns(r) /\ emptied' = Emptied(r)
    /\ version' = version + 1

-----------------------------------------------------------------------------
Init == /\ list \in Lists
        /\ stored = Table0 /\ past = [i \in Ids |-> {Table0[i]}]
        /\ edited = {} /\ left = {} /\ emptied = {} /\ version = 0
        /\ cache = Unloaded /\ fetch = Sent
        /\ view = FirstView /\ dialog = None /\ bulkForm = FirstBulk
        /\ reqs = {} /\ shown = 0
        /\ clicks = 0 /\ sends = 0 /\ upsets = 0

Upset == upsets < MaxUpsets /\ upsets' = upsets + 1
Loading == LoadingNow(cache, fetch)
\* The applications give way to the message of a failed read, even when there is data.
Usable == ~Loading /\ ~view.error

\* Patterns that are switched off are not in the answer.
Answer == IF list = "patterns" THEN [i \in Ids |-> IF stored[i].on THEN stored[i] ELSE Absent] ELSE stored

ServerReads ==
    /\ fetch.phase = "sent"
    /\ fetch' = AnsweredWith(Answer, version)
    /\ UNCHANGED <<list, server, cache, view, dialogs, reqs, shown, counts>>

Deliver ==
    /\ fetch.phase = "answered"
    /\ cache' = Received(fetch) /\ fetch' = Idle
    /\ view' = [IF cache.data # fetch.data THEN Recut(view) ELSE view EXCEPT !.error = FALSE]
    /\ UNCHANGED <<list, server, dialogs, reqs, shown, counts>>

FetchFails ==
    /\ Upset /\ fetch.phase # "idle"
    /\ fetch' = Idle /\ shown' = 0
    /\ view' = [view EXCEPT !.error = list = "apps"]
    /\ UNCHANGED <<list, server, cache, dialogs, reqs, clicks, sends>>

\* The page is left and opened again: everything but the cache starts anew.
Reopen ==
    /\ Upset
    /\ view' = [FirstView EXCEPT !.error = view.error /\ cache.data # None] /\ shown' = 0
    /\ dialog' = None /\ bulkForm' = FirstBulk
    /\ reqs' = {[r EXCEPT !.live = FALSE] : r \in reqs}
    /\ fetch' = Mounted(fetch)
    /\ UNCHANGED <<list, server, cache, clicks, sends>>

Click == /\ Usable /\ dialog = None /\ clicks < MaxClicks /\ sends < MaxSends
         /\ view' \in Views(cache.data, view) \ {view}
         /\ clicks' = clicks + 1
         /\ UNCHANGED <<list, server, cache, fetch, dialogs, reqs, shown, sends, upsets>>

\* A dialog is opened, changed, or closed by a click beside it; the form for the selected
\* rows keeps what was ticked and typed.  Closing, and opening that form, is free.
UseDialog ==
    /\ Usable /\ sends < MaxSends
    /\ dialog' \in IF dialog = None
                   THEN {g \in Opening(cache.data, view) :
                           ~(list = "entries" /\ g.mode = "create" /\ Pending("create"))}
                   ELSE {None} \cup DialogEdits(dialog)
    /\ bulkForm' = IF dialog' # None /\ dialog'.mode = "bulk" THEN dialog' ELSE bulkForm
    /\ clicks' = IF dialog' \in {None, bulkForm} THEN clicks ELSE clicks + 1
    /\ clicks' <= MaxClicks
    /\ UNCHANGED <<list, server, cache, fetch, view, reqs, shown, sends, upsets>>

Sending(r) == /\ Usable /\ sends < MaxSends /\ sends' = sends + 1
              /\ reqs' = reqs \cup {[id |-> sends, live |-> TRUE, state |-> "sent", ver |-> 0, req |-> r]}
              /\ UNCHANGED <<list, server, cache, fetch, view, bulkForm, shown, clicks, upsets>>

SendDialog == /\ dialog # None
              /\ \E r \in DialogSends(dialog) :
                   /\ Sending(r)
                   /\ dialog' = IF list = "entries" /\ r.op = "create" THEN None ELSE dialog

SendPage == /\ dialog = None
            /\ \E r \in PageSends(cache.data, view) : Sending(r)
            /\ UNCHANGED dialog

\* Another administrator deletes a row or turns an application into a stream, or a sync
\* of the providers fills a row.
Elsewhere ==
    /\ Upset
    /\ \E i \in Ids :
         /\ stored[i].there
         /\ \/ Apply(Delete({i}, "none"))
            \/ list = "ranges" /\ stored[i].class = "good" /\ Apply(handleSyncIPRange(i))
            \/ list = "apps" /\ Apply(Request("update", {i}, [class |-> "bad"], {"class"}, "none"))
    /\ UNCHANGED <<list, cache, fetch, view, dialogs, reqs, shown, clicks, sends>>

ServerApplies(q) ==
    /\ q.state = "sent" /\ (q.req.op = "create" => Fresh # {})
    /\ IF Accepts(q.req)
       THEN /\ Apply(q.req)
            /\ reqs' = (reqs \ {q}) \cup {[q EXCEPT !.state = "ok", !.ver = version + 1]}
       ELSE /\ reqs' = (reqs \ {q}) \cup {[q EXCEPT !.state = "failed"]}
            /\ UNCHANGED server
    /\ UNCHANGED <<list, cache, fetch, view, dialogs, shown, counts>>

RequestFails(q) ==
    /\ Upset /\ q.state # "failed"
    /\ reqs' = (reqs \ {q}) \cup {[q EXCEPT !.state = "failed"]}
    /\ UNCHANGED <<list, server, cache, fetch, view, dialogs, shown, clicks, sends>>

\* A success closes the kind of dialog it was sent from, even one opened since; a created
\* application leads back to the list, even when its form was left before.
Window(mode) == IF mode \in {"create", "edit"} THEN "form" ELSE mode
WindowOf(op) == CASE op = "delete" -> "delete" [] op = "bulkupdate" -> "bulk" [] OTHER -> "form"
Closed(q) == IF /\ dialog # None /\ q.req.then \in {"close", "both"}
                /\ Window(dialog.mode) = WindowOf(q.req.op)
                /\ q.live \/ (list = "apps" /\ q.req.op = "create")
             THEN None ELSE dialog

\* Mutant: the hook of a change does not invalidate the list.
SucceededSilently(q) ==
    /\ q.state = "ok" /\ reqs' = reqs \ {q}
    /\ shown' = IF q.live /\ ~Loading /\ q.ver > shown THEN q.ver ELSE shown
    /\ UNCHANGED <<list, server, cache, fetch, view, dialogs, counts>>
Succeeded(q) ==
    /\ q.state = "ok" /\ reqs' = reqs \ {q}
    /\ fetch' = Refetched(TRUE, cache, fetch)
    /\ view' = IF q.live /\ q.req.then \in {"deselect", "both"} THEN [view EXCEPT !.sel = {}] ELSE view
    /\ dialog' = Closed(q)
    /\ bulkForm' = IF q.live /\ list = "patterns" /\ q.req.op = "bulkupdate" THEN FirstBulk ELSE bulkForm
    /\ shown' = IF q.live /\ ~Loading /\ q.ver > shown THEN q.ver ELSE shown
    /\ UNCHANGED <<list, server, cache, counts>>

Failed(q) ==
    /\ q.state = "failed" /\ reqs' = reqs \ {q}
    /\ UNCHANGED <<list, server, cache, fetch, view, dialogs, shown, counts>>

Next == \/ ServerReads \/ Deliver \/ FetchFails \/ Reopen
        \/ Click \/ UseDialog \/ SendDialog \/ SendPage \/ Elsewhere
        \/ \E q \in reqs : ServerApplies(q) \/ RequestFails(q) \/ Succeeded(q) \/ Failed(q)

Spec == Init /\ [][Next]_vars

-----------------------------------------------------------------------------
(***************************************************************************)
(* Properties                                                              *)
(***************************************************************************)

\* After an own change was answered, an open page whose reads succeed does not come
\* to rest on rows older than that change: no deleted row is left standing.
RowsFollowOwnChanges == fetch.phase = "idle" => cache.ver >= shown

\* A change stores one version of each row with the fields of one edit replaced, but for
\* two things the code does of itself: an empty description of an access rule is left out,
\* so that the one in the table is kept, also when the rest is from an older version; and
\* a provider with a URL, whatever was edited of it, is stored with no addresses, those
\* synced from the URL are lost until the next sync.  What counts as edited is what the
\* controls of the form have changed, the score a new classification brings along included.
NoBuiltIn == [i \in Ids |-> {}]
Shared == INSTANCE SharedSettings WITH BuiltIn <- NoBuiltIn, Blank <- None, Default <- None, Empty <- 0
ImplementsSharedRows == Shared!Spec
=============================================================================
