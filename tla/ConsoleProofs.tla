---------------------------- MODULE ConsoleProofs -----------------------------
(***************************************************************************)
(* The list pages and the rule pages of the console, for any number of     *)
(* rows and rules, clicks, requests, failures and changes elsewhere.  The  *)
(* lists implement SharedSettings: whatever is cached, opened, selected,   *)
(* sent late or lost, a change stores one version of a row with the fields *)
(* of one edit replaced; and a page shows the changes made from it.  Of    *)
(* the rules, what a drag shows ahead of the server does not stay, and     *)
(* rules of equal priority have an explanation.                            *)
(***************************************************************************)
EXTENDS MCConsole, FiniteSetTheorems, SequenceTheorems, TLAPS

-----------------------------------------------------------------------------
(* Changes store versions of rows: the refinement of SharedSettings *)

Cols == Contents \cup {"there"}
IsRow(r) == DOMAIN r = Cols /\ r.there \in BOOLEAN

\* Every row is there in its newest version, and versions are rows.
Table(s, p) ==
    /\ s = [i \in Ids |-> s[i]] /\ p = [i \in Ids |-> p[i]]
    /\ \A i \in Ids : s[i] \in p[i] /\ \A r \in p[i] : IsRow(r)

\* What a read returned: of every row some version, or nothing (GetAllPatterns).
OfVersions(d, p) == d = None \/ \A i \in Ids : d[i] \in p[i] \cup {Absent}

\* Outside the edited fields the contents are those of one version of each row.
Based(row, fields, ids, p) ==
    \A i \in ids \cap Ids : \E base \in p[i] :
      base.there = TRUE /\ \A c \in Contents \ fields : row[c] = base[c]

\* An open dialog; one that edits a row holds a version of it and what was edited.  That of
\* a provider with a URL was opened without the addresses, and has none before some are typed.
IsDialog(g) == /\ g \in [mode : {g.mode}, ids : {g.ids}, row : {g.row}, fields : {g.fields}]
               /\ DOMAIN g.row = Cols /\ g.fields \subseteq Contents
BasedButAddresses(g, p) ==
    list = "ranges" /\ g.row.body = 0 /\ Based(g.row, g.fields \cup {"body"}, g.ids, p)
DialogSound(g, p) ==
    IsDialog(g) /\ (g.mode = "edit" => Based(g.row, g.fields, g.ids, p) \/ BasedButAddresses(g, p))

\* A request sets edited fields only, or all contents, based on one version but for what
\* it empties; what it empties is left empty.
EmptiesOnly(r) == Emptied(r) = {} \/ (Emptied(r) = {"body"} /\ "body" \in DOMAIN r.set /\ r.set.body = 0)
RequestSound(r, p) ==
    /\ EmptiesOnly(r)
    /\ \/ /\ DOMAIN r.set \subseteq r.fields
          /\ "there" \in DOMAIN r.set => r.set.there \in BOOLEAN
       \/ r.op # "create" /\ DOMAIN r.set = Contents /\ Based(r.set, r.fields \cup Emptied(r), r.ids, p)
IsChange(q) ==
    q \in [id : {q.id}, live : {q.live}, state : {q.state}, ver : {q.ver}, req : {q.req}]

SoundInv ==
    /\ list \in Lists
    /\ Table(stored, past)
    /\ OfVersions(cache.data, past) /\ OfVersions(fetch.data, past)
    /\ dialog # None => DialogSound(dialog, past)
    /\ DialogSound(bulkForm, past) /\ bulkForm.mode = "bulk"
    /\ \A q \in reqs : IsChange(q) /\ RequestSound(q.req, past)

\* Versions are added and never forgotten.
Grown(p, pp) == \A i \in Ids : p[i] \subseteq pp[i]

\* More versions leave what was sound so.
LEMMA StillSound ==
    ASSUME NEW p, NEW pp, Grown(p, pp)
    PROVE  /\ \A d : OfVersions(d, p) => OfVersions(d, pp)
           /\ \A g : DialogSound(g, p) => DialogSound(g, pp)
           /\ \A r : RequestSound(r, p) => RequestSound(r, pp)
<1>1. \A row, fields, ids : Based(row, fields, ids, p) => Based(row, fields, ids, pp)
  BY DEF Based, Grown
<1>2. \A d : OfVersions(d, p) => OfVersions(d, pp)
  BY DEF OfVersions, Grown
<1>3. \A g : DialogSound(g, p) => DialogSound(g, pp)
  BY <1>1 DEF DialogSound, BasedButAddresses
<1>4. \A r : RequestSound(r, p) => RequestSound(r, pp)
  BY <1>1 DEF RequestSound
<1> QED
  BY <1>2, <1>3, <1>4

\* What is sound of a list stays so: the list of a behaviour does not change.
LEMMA SameList ==
    ASSUME UNCHANGED list
    PROVE  /\ \A g, p : DialogSound(g, p)' <=> DialogSound(g, p)
           /\ \A r, p : RequestSound(r, p)' <=> RequestSound(r, p)
BY DEF DialogSound, BasedButAddresses, RequestSound, EmptiesOnly, Emptied

\* The rows a page shows are there in what it has read.
LEMMA ShownAreThere ==
    ASSUME NEW d, NEW v, NEW i \in ShownRows(d, v)
    PROVE  d # None /\ i \in Ids /\ d[i].there
<1>1. Filtered(d, v) \subseteq Listed(d)
  BY DEF Filtered, filteredPatterns, filteredEntries
<1>2. i \in Listed(d)
  BY <1>1 DEF ShownRows, paginatedPatterns
<1> QED
  BY <1>2 DEF Listed

\* A dialog opens with a version of its row (openRule, handleOpenPatternDialog and the like).
LEMMA OpensSound ==
    ASSUME ListsAssumption, list \in Lists, Table(stored, past), NEW d, OfVersions(d, past), NEW v,
           DialogSound(bulkForm, past), NEW g \in Opening(d, v)
    PROVE  g # None => DialogSound(g, past)
<1>1. \A i \in ShownRows(d, v) :
        d[i] \in past[i] /\ i \in Ids /\ d[i].there = TRUE /\ DOMAIN d[i] = Cols
  <2> SUFFICES ASSUME NEW i \in ShownRows(d, v)
               PROVE  d[i] \in past[i] /\ i \in Ids /\ d[i].there = TRUE /\ DOMAIN d[i] = Cols
    OBVIOUS
  <2>1. d # None /\ i \in Ids /\ d[i].there
    BY ShownAreThere
  <2>2. ~Absent.there
    BY DEF Absent, Row
  <2>3. d[i] \in past[i] /\ IsRow(d[i])
    BY <2>1, <2>2 DEF OfVersions, Table
  <2> QED
    BY <2>1, <2>3 DEF IsRow
<1>2. \A i \in ShownRows(d, v) : DialogSound(Dialog("edit", {i}, d[i]), past)
  BY <1>1 DEF DialogSound, IsDialog, Dialog, Based
<1>3. \A i \in ShownRows(d, v) : DialogSound(Dialog("delete", {i}, d[i]), past)
  BY <1>1 DEF DialogSound, IsDialog, Dialog
<1>4. DialogSound(Dialog("create", {}, NewRow), past)
  BY DEF DialogSound, IsDialog, Dialog, NewRow, Row, Cols, Contents
<1>5. ASSUME g \in handleOpenIPRangeDialog(d, v), list = "ranges" PROVE DialogSound(g, past)
  <2>1. CASE g = Dialog("create", {}, Row(TRUE, "good", 0, 1, TRUE))
    BY <2>1 DEF DialogSound, IsDialog, Dialog, Row, Cols, Contents
  <2>2. ASSUME NEW i \in ShownRows(d, v),
               g = Dialog("edit", {i}, [d[i] EXCEPT !.body = IF d[i].class = "good" THEN 0 ELSE @])
        PROVE  DialogSound(g, past)
    <3> DEFINE row == [d[i] EXCEPT !.body = IF d[i].class = "good" THEN 0 ELSE @]
    <3>1. /\ DOMAIN row = Cols /\ \A c \in Cols : c # "body" => row[c] = d[i][c]
          /\ row.body = IF d[i].class = "good" THEN 0 ELSE d[i].body
      BY <1>1 DEF Cols, Contents
    <3> HIDE DEF row
    <3>2. g.mode = "edit" /\ g.ids = {i} /\ g.row = row /\ g.fields = {}
      BY <2>2 DEF Dialog, row
    <3>3. IsDialog(g)
      BY <2>2, <3>1 DEF IsDialog, Dialog, row
    <3>4. CASE d[i].class = "good"
      <4>1. Based(row, {"body"}, {i}, past)
        BY <1>1, <3>1 DEF Based, Cols
      <4> QED
        BY <1>5, <3>1, <3>2, <3>3, <3>4, <4>1 DEF DialogSound, BasedButAddresses
    <3>5. CASE d[i].class # "good"
      <4>1. \A c \in Cols : row[c] = d[i][c]
        BY <3>1, <3>5
      <4>2. Based(row, {}, {i}, past)
        BY <1>1, <4>1 DEF Based, Cols
      <4> QED
        BY <3>2, <3>3, <4>2 DEF DialogSound
    <3> QED
      BY <3>4, <3>5
  <2> QED
    BY <1>5, <2>1, <2>2 DEF handleOpenIPRangeDialog
<1>6. \/ g \in RowDialogs(d, v) \cup DeleteDialog(d, v) \cup {Dialog("create", {}, NewRow), bulkForm}
      \/ g \in handleOpenIPRangeDialog(d, v) /\ list = "ranges"
  BY DEF Opening, ListsAssumption, handleOpenPatternDialog, BulkEditDialog, openEntry, BulkScoreDialog, openRule
<1> QED
  BY <1>2, <1>3, <1>4, <1>5, <1>6 DEF RowDialogs, DeleteDialog

\* One field of a dialog is changed and counts as edited (Set).
LEMMA SetSound ==
    ASSUME NEW g, NEW p, DialogSound(g, p), NEW field \in Contents, NEW value
    PROVE  DialogSound(Set(g, field, value), p)
<1> DEFINE row == [g.row EXCEPT ![field] = value]
           fields == g.fields \cup {field}
           h == Set(g, field, value)
<1>1. DOMAIN row = Cols /\ \A c \in Cols : c # field => row[c] = g.row[c]
  BY DEF DialogSound, IsDialog
<1>2. h.mode = g.mode /\ h.ids = g.ids /\ h.row = row /\ h.fields = fields
  BY DEF Set, DialogSound, IsDialog
<1>3. h \in [mode : {g.mode}, ids : {g.ids}, row : {row}, fields : {fields}]
  BY DEF Set, DialogSound, IsDialog
<1>4. g.mode = "edit" => (\/ Based(row, fields, g.ids, p)
                         \/ (list = "ranges" /\ row.body = 0 /\ Based(row, fields \cup {"body"}, g.ids, p)))
  <2> SUFFICES ASSUME g.mode = "edit"
               PROVE  \/ Based(row, fields, g.ids, p)
                      \/ list = "ranges" /\ row.body = 0 /\ Based(row, fields \cup {"body"}, g.ids, p)
    OBVIOUS
  <2>1. \A c \in Contents \ fields : row[c] = g.row[c] /\ c \in Contents \ g.fields
    BY <1>1 DEF Cols
  <2>2. Based(g.row, g.fields, g.ids, p) \/ BasedButAddresses(g, p)
    BY DEF DialogSound
  <2>3. field = "body" => "body" \in fields
    OBVIOUS
  <2>4. field # "body" => row.body = g.row.body
    BY <1>1 DEF Cols, Contents
  <2> HIDE DEF row, fields
  <2>5. CASE Based(g.row, g.fields, g.ids, p)
    BY <2>1, <2>5 DEF Based
  <2>6. CASE BasedButAddresses(g, p)
    <3>1. Based(row, fields \cup {"body"}, g.ids, p)
      BY <2>1, <2>6 DEF Based, BasedButAddresses
    <3>2. CASE field = "body"
      <4>1. fields \cup {"body"} = fields
        BY <2>3, <3>2
      <4> QED
        BY <3>1, <4>1
    <3>3. CASE field # "body"
      BY <2>4, <2>6, <3>1, <3>3 DEF BasedButAddresses
    <3> QED
      BY <3>2, <3>3
  <2> QED
    BY <2>2, <2>5, <2>6
<1> HIDE DEF row, fields, h
<1>5. IsDialog(h)
  <2>1. fields \subseteq Contents
    BY DEF fields, DialogSound, IsDialog
  <2> QED
    BY <1>1, <1>2, <1>3, <2>1 DEF IsDialog
<1>6. DialogSound(h, p)
  BY <1>2, <1>4, <1>5 DEF DialogSound, BasedButAddresses
<1> QED
  BY <1>6 DEF h

\* Every control of a dialog changes it by Set, or unticks a field of the bulk edit form.
LEMMA EditsSound ==
    ASSUME ListsAssumption, list \in Lists, NEW g, NEW p, DialogSound(g, p), NEW h \in DialogEdits(g)
    PROVE  DialogSound(h, p)
<1>1. \/ \E f \in Contents : \E v : h = Set(g, f, v)
      \/ \E f \in Contents, e \in Contents : \E v, w : h = Set(Set(g, f, v), e, w)
      \/ g.mode = "bulk" /\ \E f : h = [g EXCEPT !.fields = @ \ {f}]
  BY DEF Contents, DialogEdits, ListsAssumption, PatternDialog, BulkEditFields, IPRangeDialog, EntryDialog,
         BulkScoreField, RuleFormView, CreateForm
<1>2. ASSUME g.mode = "bulk", NEW f, h = [g EXCEPT !.fields = @ \ {f}]
      PROVE  DialogSound(h, p)
  <2>1. h.mode = g.mode /\ h.ids = g.ids /\ h.row = g.row /\ h.fields = g.fields \ {f}
    BY <1>2 DEF DialogSound, IsDialog
  <2>2. h \in [mode : {g.mode}, ids : {g.ids}, row : {g.row}, fields : {g.fields \ {f}}]
    BY <1>2 DEF DialogSound, IsDialog
  <2> QED
    BY <1>2, <2>1, <2>2 DEF DialogSound, IsDialog
<1> QED
  BY <1>1, <1>2, SetSound

\* A dialog that edits a row sends its contents, based on one version of the row.
LEMMA UpdateSound ==
    ASSUME NEW g, NEW p, DialogSound(g, p), g.mode = "edit", list # "ranges", NEW then
    PROVE  RequestSound(Request("update", g.ids, Only(g.row, Contents), g.fields, then), p)
<1>1. Based(g.row, g.fields, g.ids, p)
  BY DEF DialogSound, BasedButAddresses
<1> DEFINE set == Only(g.row, Contents)
<1>2. DOMAIN set = Contents /\ \A c \in Contents : set[c] = g.row[c]
  BY DEF Only
<1> HIDE DEF set
<1>3. Based(set, g.fields, g.ids, p)
  BY <1>1, <1>2 DEF Based
<1>4. RequestSound(Request("update", g.ids, set, g.fields, then), p)
  BY <1>2, <1>3 DEF RequestSound, Request, EmptiesOnly, Emptied
<1> QED
  BY <1>4 DEF set

\* A provider with a URL is saved without its addresses, one without with those of the form.
LEMMA RangeSound ==
    ASSUME NEW g, NEW p, DialogSound(g, p), NEW r \in handleSaveIPRange(g), g.mode = "edit", list = "ranges"
    PROVE  RequestSound(r, p)
<1> DEFINE byURL == g.row.class = "good"
           all == Only(g.row, Contents)
           set == [all EXCEPT !.body = IF byURL THEN 0 ELSE @]
<1>1. r = Request("update", g.ids, set, g.fields, "close") /\ ~(g.row.class # "good" /\ g.row.body = 0)
  BY DEF handleSaveIPRange, Provider
<1>2. DOMAIN all = Contents /\ \A c \in Contents : all[c] = g.row[c]
  BY DEF Only
<1> HIDE DEF all
<1>3. /\ DOMAIN set = Contents /\ \A c \in Contents : c # "body" => set[c] = g.row[c]
      /\ set.body = IF byURL THEN 0 ELSE g.row.body
  BY <1>2 DEF Contents
<1>4. set.class = g.row.class
  BY <1>3 DEF Contents
<1> HIDE DEF set
<1>5. Based(g.row, g.fields, g.ids, p) \/ BasedButAddresses(g, p)
  BY DEF DialogSound
<1>6. r.op = "update" /\ r.ids = g.ids /\ r.set = set /\ r.fields = g.fields
  BY <1>1 DEF Request
<1>7. CASE byURL
  <2>1. Emptied(r) = {"body"}
    BY <1>4, <1>6, <1>7 DEF Emptied
  <2>2. Based(set, g.fields \cup {"body"}, g.ids, p)
    BY <1>3, <1>5 DEF Based, BasedButAddresses
  <2>3. EmptiesOnly(r)
    BY <1>3, <1>6, <1>7, <2>1 DEF EmptiesOnly, Contents
  <2> QED
    BY <1>3, <1>6, <2>1, <2>2, <2>3 DEF RequestSound
<1>8. CASE ~byURL
  <2>1. Emptied(r) = {}
    BY <1>4, <1>6, <1>8 DEF Emptied
  <2>2. \A c \in Contents : set[c] = g.row[c]
    BY <1>3, <1>8
  <2>3. Based(set, g.fields \cup Emptied(r), g.ids, p)
    <3>1. CASE Based(g.row, g.fields, g.ids, p)
      BY <2>1, <2>2, <3>1 DEF Based
    <3>2. ~BasedButAddresses(g, p)
      BY <1>1, <1>8 DEF BasedButAddresses
    <3> QED
      BY <1>5, <3>1, <3>2
  <2> QED
    BY <1>3, <1>6, <2>1, <2>3 DEF RequestSound, EmptiesOnly
<1> QED
  BY <1>7, <1>8

\* Requests that set what is edited and nothing else.
LEMMA PlainSound ==
    ASSUME NEW p, NEW op, NEW ids, NEW set, NEW fields, NEW then, DOMAIN set \subseteq fields,
           "there" \in DOMAIN set => set.there \in BOOLEAN, op # "update" \/ list # "ranges"
    PROVE  RequestSound(Request(op, ids, set, fields, then), p)
BY DEF RequestSound, Request, EmptiesOnly, Emptied

\* A new row is all edit.
LEMMA CreateSound ==
    ASSUME NEW g, NEW p, NEW then
    PROVE  RequestSound(Create(g, then), p)
<1> DEFINE set == [Only(g.row, Contents \cup {"there"}) EXCEPT !.there = TRUE]
<1>1. DOMAIN set \subseteq Contents \cup {"there"} /\ set.there \in BOOLEAN
  BY DEF Only
<1> HIDE DEF set
<1>2. RequestSound(Request("create", {}, set, Contents \cup {"there"}, then), p)
  BY <1>1, PlainSound
<1> QED
  BY <1>2 DEF Create, set

\* A deletion marks the row and nothing else.
LEMMA DeleteSound ==
    ASSUME NEW p, NEW ids, NEW then
    PROVE  RequestSound(Delete(ids, then), p)
<1>1. DOMAIN Gone \subseteq {"there"} /\ Gone.there \in BOOLEAN
  BY DEF Gone
<1> QED
  BY <1>1, PlainSound DEF Delete

\* Every button of a dialog sends a sound request (handleSavePattern and the like).
LEMMA DialogSendsSound ==
    ASSUME ListsAssumption, list \in Lists, NEW g, NEW p, DialogSound(g, p), NEW r \in DialogSends(g)
    PROVE  RequestSound(r, p)
<1> DEFINE bulk == [g EXCEPT !.ids = view.sel]
<1>1. bulk.row = g.row /\ bulk.fields = g.fields
  BY DEF DialogSound, IsDialog
<1> HIDE DEF bulk
<1>2. r \in handleBulkEdit(bulk) => RequestSound(r, p)
  <2>1. DOMAIN Only(bulk.row, bulk.fields) = bulk.fields
    BY DEF Only
  <2>2. "there" \notin bulk.fields
    BY <1>1 DEF DialogSound, IsDialog, Contents
  <2> QED
    BY <2>1, <2>2, PlainSound DEF handleBulkEdit
<1>3. r \in handleBulkUpdateScore(bulk) => RequestSound(r, p)
  <2>1. DOMAIN [score |-> bulk.row.score] = {"score"}
    OBVIOUS
  <2> QED
    BY <2>1, PlainSound DEF handleBulkUpdateScore
<1>4. list # "ranges" /\ r \in handleSavePattern(g) \cup handleSubmitEntry(g) \cup handleSubmitRule(g)
        => RequestSound(r, p)
  BY UpdateSound, CreateSound DEF handleSavePattern, handleSubmitEntry, handleSubmitRule
<1>5. ASSUME list = "ranges", r \in handleSaveIPRange(g) PROVE RequestSound(r, p)
  <2>1. CASE g.mode = "edit"
    BY <1>5, <2>1, RangeSound
  <2>2. CASE g.mode # "edit"
    BY <1>5, <2>2, CreateSound DEF handleSaveIPRange
  <2> QED
    BY <2>1, <2>2
<1>6. r \in handleDeleteConfirm(g) \cup deleteApp(g) \cup createApp(g) => RequestSound(r, p)
  BY DeleteSound, CreateSound DEF handleDeleteConfirm, deleteApp, createApp
<1>7. \/ r \in handleBulkEdit(bulk) \/ r \in handleBulkUpdateScore(bulk)
      \/ list # "ranges" /\ r \in handleSavePattern(g) \cup handleSubmitEntry(g) \cup handleSubmitRule(g)
      \/ list = "ranges" /\ r \in handleSaveIPRange(g)
      \/ r \in handleDeleteConfirm(g) \cup deleteApp(g) \cup createApp(g)
  BY DEF DialogSends, ListsAssumption, bulk
<1> QED
  BY <1>2, <1>3, <1>4, <1>5, <1>6, <1>7

\* Every button of a row or of the page sends a sound request (handleToggle and the like).
LEMMA PageSendsSound ==
    ASSUME ListsAssumption, list \in Lists, NEW d, NEW v, NEW p, NEW r \in PageSends(d, v)
    PROVE  RequestSound(r, p)
<1>1. \/ \E ids, then : r = Delete(ids, then)
      \/ \E ids : r = Request("bulkdelete", ids, Gone, {"there"}, "deselect")
      \/ \E i : r = handleSyncIPRange(i)
      \/ list # "ranges" /\ \E i, on : r = Request("update", {i}, [on |-> on], {"on"}, "none")
  BY DEF PageSends, ListsAssumption, handleDeletePattern, handleBulkDeletePatterns, handleDeleteIPRange,
         handleDelete, handleBulkDelete, handleToggle, AppCards, handleToggleAttack
<1>2. \A ids : RequestSound(Request("bulkdelete", ids, Gone, {"there"}, "deselect"), p)
  <2>1. DOMAIN Gone \subseteq {"there"} /\ Gone.there \in BOOLEAN
    BY DEF Gone
  <2> QED
    BY <2>1, PlainSound
<1>3. \A i : RequestSound(handleSyncIPRange(i), p)
  <2>1. DOMAIN [body |-> 1] = {"body"}
    OBVIOUS
  <2> QED
    BY <2>1, PlainSound DEF handleSyncIPRange
<1>4. list # "ranges" => \A i, on : RequestSound(Request("update", {i}, [on |-> on], {"on"}, "none"), p)
  <2>1. \A on : DOMAIN [on |-> on] = {"on"}
    OBVIOUS
  <2> QED
    BY <2>1, PlainSound
<1> QED
  BY <1>1, <1>2, <1>3, <1>4, DeleteSound

\* What a change does to one row it affects: the row is a row again, and outside the
\* edit, the columns left out and those emptied it is one version (Apply).
LEMMA RowApplied ==
    ASSUME Table(stored, past), NEW r, RequestSound(r, past), NEW i \in Ids, i \in Affected(r),
           NEW new, new = [c \in DOMAIN stored[i] |-> IF c \in Columns(r) THEN r.set[c] ELSE stored[i][c]]
    PROVE  /\ IsRow(new)
           /\ \E base \in past[i] : \A c \in Cols :
                IF c \in DOMAIN r.set \ Columns(r) THEN new[c] = stored[i][c]
                ELSE IF c \in Emptied(r) THEN new[c] = 0
                ELSE c \notin r.fields => new[c] = base[c]
<1>0. EmptiesOnly(r)
  BY DEF RequestSound
<1>1. stored[i] \in past[i] /\ IsRow(stored[i])
  BY DEF Table
<1>2. DOMAIN new = Cols
  BY <1>1 DEF IsRow
<1>3. \A c \in Cols : /\ c \in Columns(r) => new[c] = r.set[c]
                      /\ c \notin Columns(r) => new[c] = stored[i][c]
  BY <1>1 DEF IsRow
<1>4. Columns(r) \subseteq DOMAIN r.set
  BY DEF Columns
<1>5. "there" \in Cols /\ stored[i].there \in BOOLEAN
  BY <1>1 DEF IsRow, Cols
<1>6. ASSUME DOMAIN r.set \subseteq r.fields, "there" \in DOMAIN r.set => r.set.there \in BOOLEAN
      PROVE  /\ new.there \in BOOLEAN
             /\ \A c \in Cols : c \notin r.fields => new[c] = stored[i][c]
  BY <1>3, <1>4, <1>5, <1>6
<1>7. ASSUME r.op # "create", DOMAIN r.set = Contents, Based(r.set, r.fields \cup Emptied(r), r.ids, past)
      PROVE  /\ new.there \in BOOLEAN
             /\ \E base \in past[i] : \A c \in Cols :
                  c \notin Contents \ Columns(r) /\ c \notin r.fields \cup Emptied(r) => new[c] = base[c]
  <2>1. i \in r.ids /\ stored[i].there = TRUE
    BY <1>5, <1>7 DEF Affected
  <2>2. PICK base \in past[i] :
          base.there = TRUE /\ \A c \in Contents \ (r.fields \cup Emptied(r)) : r.set[c] = base[c]
    BY <1>7, <2>1 DEF Based
  <2>3. "there" \notin Columns(r)
    BY <1>4, <1>7 DEF Contents
  <2>4. new.there = TRUE
    BY <1>3, <1>5, <2>1, <2>3
  <2>5. \A c \in Cols : c \notin Contents \ Columns(r) /\ c \notin r.fields \cup Emptied(r) => new[c] = base[c]
    <3> SUFFICES ASSUME NEW c \in Cols, c \notin Contents \ Columns(r), c \notin r.fields \cup Emptied(r)
                 PROVE  new[c] = base[c]
      OBVIOUS
    <3>1. CASE c = "there"
      BY <3>1, <2>2, <2>4
    <3>2. CASE c \in Contents
      BY <3>2, <1>3, <2>2
    <3> QED
      BY <3>1, <3>2 DEF Cols
  <2> QED
    BY <2>2, <2>4, <2>5
<1>8. new.there \in BOOLEAN
  BY <1>6, <1>7 DEF RequestSound
<1>9. \A c \in Cols : c \in DOMAIN r.set \ Columns(r) => new[c] = stored[i][c]
  BY <1>3
<1>10. \E base \in past[i] : \A c \in Cols :
         c \notin DOMAIN r.set \ Columns(r) /\ c \notin r.fields \cup Emptied(r) => new[c] = base[c]
  BY <1>1, <1>6, <1>7 DEF RequestSound
<1>11. ASSUME NEW c \in Emptied(r), c \notin DOMAIN r.set \ Columns(r) PROVE new[c] = 0
  <2>1. c = "body" /\ c \in DOMAIN r.set /\ r.set.body = 0
    BY <1>0, <1>11 DEF EmptiesOnly
  <2>2. c \in Columns(r) /\ c \in Cols
    BY <1>11, <2>1 DEF Cols, Contents
  <2> QED
    BY <1>3, <2>1, <2>2
<1> QED
  BY <1>2, <1>8, <1>9, <1>10, <1>11 DEF IsRow

\* A sound change that is applied is a store of SharedSettings, and adds a version.
LEMMA Applied ==
    ASSUME Table(stored, past), NEW r, RequestSound(r, past), Apply(r)
    PROVE  Shared!Next /\ Table(stored, past)' /\ Grown(past, past')
<1> DEFINE new(i) == [c \in DOMAIN stored[i] |-> IF c \in Columns(r) THEN r.set[c] ELSE stored[i][c]]
           parts == Ids \cap Affected(r)
<1>1. /\ stored' = [i \in Ids |-> IF i \notin Affected(r) THEN stored[i] ELSE new(i)]
      /\ past' = [i \in Ids |-> past[i] \cup {stored'[i]}]
      /\ edited' = r.fields /\ left' = DOMAIN r.set \ Columns(r) /\ emptied' = Emptied(r)
  BY DEF Apply
<1>2. \A i \in parts :
        /\ IsRow(new(i))
        /\ \E base \in past[i] : \A c \in Cols :
             IF c \in left' THEN new(i)[c] = stored[i][c]
             ELSE IF c \in emptied' THEN new(i)[c] = 0
             ELSE c \notin edited' => new(i)[c] = base[c]
  BY <1>1, RowApplied
<1> HIDE DEF new
<1>3. /\ \A i \in parts : stored'[i] = new(i)
      /\ \A i \in Ids \ parts : stored'[i] = stored[i]
  BY <1>1
<1>4. DOMAIN stored = Ids /\ DOMAIN stored' = Ids /\ DOMAIN past = Ids
  BY <1>1 DEF Table
<1>5. \A i \in Ids : IsRow(stored[i])
  BY DEF Table
<1>6. Table(stored, past)'
  <2>1. stored' = [i \in Ids |-> stored'[i]] /\ past' = [i \in Ids |-> past'[i]]
    BY <1>1
  <2>2. \A i \in Ids : IsRow(stored'[i]) /\ past'[i] = past[i] \cup {stored'[i]}
    BY <1>1, <1>2, <1>3, <1>5
  <2>3. \A i \in Ids : stored'[i] \in past'[i] /\ \A x \in past'[i] : IsRow(x)
    BY <2>2 DEF Table
  <2> QED
    BY <2>1, <2>3 DEF Table
<1>7. Grown(past, past')
  BY <1>1 DEF Grown
<1>8. Shared!Store(parts)
  <2>1. \A p \in parts : \E base \in past[p] \cup NoBuiltIn[p] : \A c \in DOMAIN stored[p] :
          IF c \in left' THEN stored'[p][c] = stored[p][c]
          ELSE IF c \in emptied' THEN stored'[p][c] = 0
          ELSE c \notin edited' => Shared!Kept(stored'[p][c], base[c])
    BY <1>2, <1>3, <1>5 DEF Shared!Kept, IsRow
  <2>2. past' = [p \in DOMAIN past |-> past[p] \cup {stored'[p]}]
    BY <1>1, <1>4
  <2> QED
    BY <2>1, <2>2, <1>3, <1>4 DEF Shared!Store
<1>9. parts \in SUBSET DOMAIN stored
  BY <1>4
<1> QED
  BY <1>6, <1>7, <1>8, <1>9 DEF Shared!Next

\* The form for the selected rows is a dialog that edits no row of its own.
LEMMA FirstBulkSound == \A p : DialogSound(FirstBulk, p) /\ FirstBulk.mode = "bulk"
BY DEF FirstBulk, DialogSound, IsDialog, Dialog, NewRow, Row, Cols, Contents

\* The first states: one version of every row, nothing read or opened.
LEMMA SoundInit == Init => SoundInv /\ Shared!Init
<1> SUFFICES ASSUME Init PROVE SoundInv /\ Shared!Init
  OBVIOUS
<1>1. \A i \in Ids : IsRow(Table0[i])
  BY DEF Table0, Row, Absent, IsRow, Cols, Contents
<1>2. /\ list \in Lists /\ stored = Table0 /\ past = [i \in Ids |-> {Table0[i]}]
      /\ edited = {} /\ left = {} /\ emptied = {} /\ cache = Unloaded /\ fetch = Sent
      /\ dialog = None /\ bulkForm = FirstBulk /\ reqs = {}
  BY DEF Init
<1>3. Table0 = [i \in Ids |-> Table0[i]] /\ DOMAIN Table0 = Ids
  BY DEF Table0
<1>4. Table(stored, past)
  BY <1>1, <1>2, <1>3 DEF Table
<1>5. OfVersions(cache.data, past) /\ OfVersions(fetch.data, past)
  BY <1>2 DEF OfVersions, Unloaded, Sent, Idle
<1> QED
  BY <1>2, <1>3, <1>4, <1>5, FirstBulkSound DEF SoundInv, Shared!Init

\* What is left alone when the table is, in both specifications.
table == <<list, stored, past, edited, left, emptied>>

\* A read that brings versions only leaves everything sound.
LEMMA SoundReads ==
    ASSUME SoundInv, UNCHANGED <<table, dialogs, reqs>>,
           OfVersions(cache'.data, past), OfVersions(fetch'.data, past)
    PROVE  SoundInv'
BY SameList DEF SoundInv, table, dialogs

\* The read of the list brings versions only (ServerReads, Deliver, FetchFails).
LEMMA ReadsSound ==
    ASSUME SoundInv, ServerReads \/ Deliver \/ FetchFails
    PROVE  SoundInv' /\ UNCHANGED table
<1>1. UNCHANGED <<table, dialogs, reqs>>
  BY DEF ServerReads, Deliver, FetchFails, server, table
<1>2. OfVersions(None, past)
  BY DEF OfVersions
<1>3. OfVersions(Answer, past) /\ OfVersions(cache.data, past) /\ OfVersions(fetch.data, past)
  <2>1. \A i \in Ids : Answer[i] \in {stored[i], Absent}
    BY DEF Answer
  <2>2. OfVersions(Answer, past)
    BY <2>1 DEF SoundInv, Table, OfVersions
  <2> QED
    BY <2>2 DEF SoundInv
<1>4. cache'.data \in {cache.data, fetch.data}
  BY DEF ServerReads, Deliver, FetchFails, Received
<1>5. fetch'.data \in {Answer, None}
  BY DEF ServerReads, Deliver, FetchFails, AnsweredWith, Idle
<1> QED
  BY <1>1, <1>2, <1>3, <1>4, <1>5, SoundReads DEF table

\* A change whose fields other than the request are touched stays a change.
LEMMA ChangeKept ==
    ASSUME NEW q, IsChange(q), NEW v
    PROVE  /\ LET r == [q EXCEPT !.live = FALSE] IN IsChange(r) /\ r.req = q.req
           /\ LET r == [q EXCEPT !.state = "failed"] IN IsChange(r) /\ r.req = q.req
           /\ LET r == [q EXCEPT !.state = "ok", !.ver = v] IN IsChange(r) /\ r.req = q.req
<1>1. LET r == [q EXCEPT !.live = FALSE] IN IsChange(r) /\ r.req = q.req
  BY DEF IsChange
<1>2. LET r == [q EXCEPT !.state = "failed"] IN IsChange(r) /\ r.req = q.req
  BY DEF IsChange
<1> DEFINE r == [q EXCEPT !.state = "ok", !.ver = v]
<1>3. r.id = q.id /\ r.live = q.live /\ r.state = "ok" /\ r.ver = v /\ r.req = q.req
  BY DEF IsChange
<1>4. r \in [id : {q.id}, live : {q.live}, state : {"ok"}, ver : {v}, req : {q.req}]
  BY DEF IsChange
<1> HIDE DEF r
<1>5. IsChange(r) /\ r.req = q.req
  BY <1>3, <1>4 DEF IsChange
<1> QED
  BY <1>1, <1>2, <1>5 DEF r

\* The page is left and opened again (Reopen).
LEMMA ReopenSound ==
    ASSUME SoundInv, Reopen
    PROVE  SoundInv' /\ UNCHANGED table
<1> DEFINE dead(q) == [q EXCEPT !.live = FALSE]
<1>1. /\ UNCHANGED <<table, cache>> /\ dialog' = None /\ bulkForm' = FirstBulk
      /\ reqs' = {dead(q) : q \in reqs} /\ fetch' = Mounted(fetch)
  BY DEF Reopen, server, table
<1>2. \A q \in reqs : IsChange(dead(q)) /\ dead(q).req = q.req
  BY ChangeKept DEF SoundInv
<1> HIDE DEF dead
<1>3. \A q \in reqs' : IsChange(q) /\ RequestSound(q.req, past)
  BY <1>1, <1>2 DEF SoundInv
<1>4. OfVersions(fetch'.data, past)
  BY <1>1 DEF SoundInv, Mounted, Sent, Idle, OfVersions
<1> QED
  BY <1>1, <1>3, <1>4, FirstBulkSound, SameList DEF SoundInv, table

\* A dialog is opened, changed or closed (UseDialog).
LEMMA UseSound ==
    ASSUME ListsAssumption, SoundInv, UseDialog
    PROVE  SoundInv' /\ UNCHANGED table
<1>1. UNCHANGED <<table, cache, fetch, reqs>>
  BY DEF UseDialog, server, table
<1>2. /\ \/ dialog' \in Opening(cache.data, view)
         \/ dialog' = None
         \/ dialog # None /\ dialog' \in DialogEdits(dialog)
      /\ bulkForm' = IF dialog' # None /\ dialog'.mode = "bulk" THEN dialog' ELSE bulkForm
  BY DEF UseDialog
<1>3. dialog' # None => DialogSound(dialog', past)
  BY <1>2, OpensSound, EditsSound DEF SoundInv
<1>4. DialogSound(bulkForm', past) /\ bulkForm'.mode = "bulk"
  BY <1>2, <1>3 DEF SoundInv
<1> QED
  BY <1>1, <1>3, <1>4, SameList DEF SoundInv, table

\* A sound request is sent (Sending).
LEMMA SendingSound ==
    ASSUME SoundInv, NEW r, Sending(r), RequestSound(r, past), dialog' \in {dialog, None}
    PROVE  SoundInv' /\ UNCHANGED table
<1> DEFINE new == [id |-> sends, live |-> TRUE, state |-> "sent", ver |-> 0, req |-> r]
<1>1. reqs' = reqs \cup {new} /\ UNCHANGED <<table, cache, fetch, bulkForm>>
  BY DEF Sending, server, table
<1>2. IsChange(new) /\ new.req = r
  BY DEF IsChange
<1> HIDE DEF new
<1>3. \A q \in reqs' : IsChange(q) /\ RequestSound(q.req, past)
  BY <1>1, <1>2 DEF SoundInv
<1> QED
  BY <1>1, <1>3, SameList DEF SoundInv, table

\* The buttons of a dialog and of the page send sound requests (SendDialog, SendPage).
LEMMA SendsSound ==
    ASSUME ListsAssumption, SoundInv, SendDialog \/ SendPage
    PROVE  SoundInv' /\ UNCHANGED table
<1>1. CASE SendDialog
  <2>1. PICK r \in DialogSends(dialog) : Sending(r) /\ dialog' \in {dialog, None}
    BY <1>1 DEF SendDialog
  <2>2. RequestSound(r, past)
    BY <1>1, DialogSendsSound DEF SendDialog, SoundInv
  <2> QED
    BY <2>1, <2>2, SendingSound
<1>2. CASE SendPage
  <2>1. PICK r \in PageSends(cache.data, view) : Sending(r) /\ dialog' = dialog
    BY <1>2 DEF SendPage
  <2>2. RequestSound(r, past)
    BY PageSendsSound DEF SoundInv
  <2> QED
    BY <2>1, <2>2, SendingSound
<1> QED
  BY <1>1, <1>2

\* A sound change is applied and everything else stays sound.
LEMMA AppliedSound ==
    ASSUME SoundInv, NEW r, RequestSound(r, past), Apply(r), UNCHANGED <<list, cache, fetch, dialogs>>,
           \A q \in reqs' : IsChange(q) /\ RequestSound(q.req, past)
    PROVE  SoundInv' /\ Shared!Next
<1>1. Shared!Next /\ Table(stored, past)' /\ Grown(past, past')
  BY Applied DEF SoundInv
<1>2. OfVersions(cache'.data, past') /\ OfVersions(fetch'.data, past')
  BY <1>1, StillSound DEF SoundInv
<1>3. (dialog' # None => DialogSound(dialog', past')) /\ DialogSound(bulkForm', past') /\ bulkForm'.mode = "bulk"
  BY <1>1, StillSound DEF SoundInv, dialogs
<1>4. \A q \in reqs' : IsChange(q) /\ RequestSound(q.req, past')
  BY <1>1, StillSound
<1> QED
  BY <1>1, <1>2, <1>3, <1>4, SameList DEF SoundInv

\* Another administrator changes a row (Elsewhere).
LEMMA ElsewhereSound ==
    ASSUME SoundInv, Elsewhere
    PROVE  SoundInv' /\ Shared!Next
<1>1. UNCHANGED <<list, cache, fetch, dialogs, reqs>>
  BY DEF Elsewhere
<1>2. \E i : \/ Apply(Delete({i}, "none"))
             \/ Apply(handleSyncIPRange(i))
             \/ list = "apps" /\ Apply(Request("update", {i}, [class |-> "bad"], {"class"}, "none"))
  BY DEF Elsewhere
<1>3. \A i : RequestSound(handleSyncIPRange(i), past)
  <2>1. DOMAIN [body |-> 1] = {"body"}
    OBVIOUS
  <2> QED
    BY <2>1, PlainSound DEF handleSyncIPRange
<1>4. list = "apps" => \A i : RequestSound(Request("update", {i}, [class |-> "bad"], {"class"}, "none"), past)
  <2>1. DOMAIN [class |-> "bad"] = {"class"}
    OBVIOUS
  <2> QED
    BY <2>1, PlainSound
<1>5. \A q \in reqs' : IsChange(q) /\ RequestSound(q.req, past)
  BY <1>1 DEF SoundInv
<1> QED
  BY <1>1, <1>2, <1>3, <1>4, <1>5, DeleteSound, AppliedSound

\* The server applies or refuses a change (ServerApplies).
LEMMA ServerSound ==
    ASSUME SoundInv, NEW q \in reqs, ServerApplies(q)
    PROVE  SoundInv' /\ (Shared!Next \/ UNCHANGED table)
<1> DEFINE ok == [q EXCEPT !.state = "ok", !.ver = version + 1]
           failed == [q EXCEPT !.state = "failed"]
<1>1. IsChange(q) /\ RequestSound(q.req, past)
  BY DEF SoundInv
<1>2. IsChange(ok) /\ ok.req = q.req /\ IsChange(failed) /\ failed.req = q.req
  BY <1>1, ChangeKept
<1>3. /\ UNCHANGED <<list, cache, fetch, dialogs>>
      /\ \/ Apply(q.req) /\ reqs' = (reqs \ {q}) \cup {ok}
         \/ reqs' = (reqs \ {q}) \cup {failed} /\ UNCHANGED server
  BY DEF ServerApplies
<1> HIDE DEF ok, failed
<1>4. \A r \in reqs' : IsChange(r) /\ RequestSound(r.req, past)
  BY <1>1, <1>2, <1>3 DEF SoundInv
<1>5. CASE Apply(q.req)
  BY <1>1, <1>3, <1>4, <1>5, AppliedSound
<1>6. CASE UNCHANGED server
  BY <1>3, <1>4, <1>6, SameList DEF SoundInv, server, table, dialogs
<1> QED
  BY <1>3, <1>5, <1>6

\* A request fails (RequestFails), or is answered (Succeeded, Failed).
LEMMA AnswersSound ==
    ASSUME SoundInv, NEW q \in reqs, RequestFails(q) \/ Succeeded(q) \/ Failed(q)
    PROVE  SoundInv' /\ UNCHANGED table
<1> DEFINE failed == [q EXCEPT !.state = "failed"]
<1>1. IsChange(q) /\ RequestSound(q.req, past)
  BY DEF SoundInv
<1>2. IsChange(failed) /\ failed.req = q.req
  BY <1>1, ChangeKept
<1>3. reqs' \subseteq reqs \cup {failed} /\ UNCHANGED <<table, cache>> /\ dialog' \in {dialog, None}
      /\ bulkForm' \in {bulkForm, FirstBulk}
  BY DEF RequestFails, Succeeded, Failed, Closed, server, table, dialogs
<1>4. fetch' \in {fetch, Sent}
  BY DEF RequestFails, Succeeded, Failed, Refetched
<1> HIDE DEF failed
<1>5. OfVersions(fetch'.data, past)
  BY <1>4 DEF SoundInv, OfVersions, Sent, Idle
<1>6. \A r \in reqs' : IsChange(r) /\ RequestSound(r.req, past)
  BY <1>1, <1>2, <1>3 DEF SoundInv
<1> QED
  BY <1>3, <1>5, <1>6, FirstBulkSound, SameList DEF SoundInv, table

\* Every step keeps the invariant and is a step of SharedSettings or leaves it alone.
LEMMA SoundStep ==
    ASSUME ListsAssumption, SoundInv, [Next]_vars
    PROVE  SoundInv' /\ (Shared!Next \/ UNCHANGED table)
<1>1. CASE ServerReads \/ Deliver \/ FetchFails
  BY <1>1, ReadsSound
<1>2. CASE Reopen
  BY <1>2, ReopenSound
<1>3. CASE Click
  BY <1>3, SameList DEF Click, SoundInv, server, table, dialogs
<1>4. CASE UseDialog
  BY <1>4, UseSound
<1>5. CASE SendDialog \/ SendPage
  BY <1>5, SendsSound
<1>6. CASE Elsewhere
  BY <1>6, ElsewhereSound
<1>7. ASSUME NEW q \in reqs, ServerApplies(q)
      PROVE  SoundInv' /\ (Shared!Next \/ UNCHANGED table)
  BY <1>7, ServerSound
<1>8. ASSUME NEW q \in reqs, RequestFails(q) \/ Succeeded(q) \/ Failed(q)
      PROVE  SoundInv' /\ UNCHANGED table
  BY <1>8, AnswersSound
<1>9. CASE UNCHANGED vars
  BY <1>9, SameList DEF vars, server, SoundInv, table, dialogs
<1> QED
  BY <1>1, <1>2, <1>3, <1>4, <1>5, <1>6, <1>7, <1>8, <1>9 DEF Next

\* The list pages implement SharedSettings, a row being a part: a change that the server
\* applies replaces the fields that the controls of one form have changed in one version of
\* each row it affects, but for an empty description of an access rule, which the table
\* keeps, and for the addresses of a provider with a URL, which every change of it empties.
THEOREM ListsImplementSharedRows ==
    ASSUME ListsAssumption
    PROVE  Spec => ImplementsSharedRows
<1>1. Init => SoundInv /\ Shared!Init
  BY SoundInit
<1>2. SoundInv /\ [Next]_vars => SoundInv' /\ [Shared!Next]_(Shared!vars)
  BY SoundStep DEF table, Shared!vars
<1> QED
  BY <1>1, <1>2, PTL DEF Spec, ImplementsSharedRows, Shared!Spec

-----------------------------------------------------------------------------
(* The page shows its own changes *)

\* A change under way; of what it asks for nothing is needed here.
ChangeTyped(q) ==
    q \in [id : {q.id}, live : BOOLEAN, state : {"sent", "ok", "failed"}, ver : Nat, req : {q.req}]

ListTypes == /\ version \in Nat /\ shown \in Nat
             /\ cache.ver \in Nat
             /\ fetch.phase \in {"idle", "sent", "answered"} /\ fetch.ver \in Nat
             /\ \A q \in reqs : ChangeTyped(q)

\* Nobody waits for a change that has not been stored.
ShownIsStored == shown <= version /\ \A q \in reqs : q.ver <= version

\* An answer on its way was read after the change that is waited for: what the cache
\* holds is no longer enough when the answer comes in.
AnswerIsNew == fetch.phase = "answered" => fetch.ver >= shown

ListInv == ListTypes /\ ShownIsStored /\ AnswerIsNew /\ RowsFollowOwnChanges

USE DEF Idle, Sent, Unloaded

\* The first page: nothing read, nothing changed.
LEMMA ListInit == Init => ListInv
BY DEF Init, ListInv, ListTypes, ShownIsStored, AnswerIsNew, RowsFollowOwnChanges

\* A step that changes neither reads nor changes nor the version (clicks, dialogs).
LEMMA ListUntouched ==
    ASSUME ListInv, UNCHANGED <<version, shown, cache, fetch, reqs>>
    PROVE  ListInv'
BY DEF ListInv, ListTypes, ShownIsStored, AnswerIsNew, RowsFollowOwnChanges, ChangeTyped

\* The read of the list: it is answered by the server, comes in, or fails.
LEMMA ListReads ==
    ASSUME ListInv, ServerReads \/ Deliver \/ FetchFails
    PROVE  ListInv'
<1>1. UNCHANGED <<version, reqs>>
  BY DEF ServerReads, Deliver, FetchFails, server
<1>2. CASE ServerReads
  <2>1. /\ fetch'.phase = "answered" /\ fetch'.ver = version /\ UNCHANGED <<shown, cache>>
    BY <1>2 DEF ServerReads, AnsweredWith
  <2> QED
    BY <1>1, <2>1 DEF ListInv, ListTypes, ShownIsStored, AnswerIsNew, RowsFollowOwnChanges, ChangeTyped
<1>3. CASE Deliver
  <2>1. /\ fetch.phase = "answered" /\ cache'.ver = fetch.ver
        /\ fetch'.phase = "idle" /\ fetch'.ver = 0 /\ UNCHANGED shown
    BY <1>3 DEF Deliver, Received
  <2> QED
    BY <1>1, <2>1 DEF ListInv, ListTypes, ShownIsStored, AnswerIsNew, RowsFollowOwnChanges, ChangeTyped
<1>4. CASE FetchFails
  <2>1. fetch'.phase = "idle" /\ fetch'.ver = 0 /\ shown' = 0 /\ UNCHANGED cache
    BY <1>4 DEF FetchFails
  <2> QED
    BY <1>1, <2>1 DEF ListInv, ListTypes, ShownIsStored, AnswerIsNew, RowsFollowOwnChanges, ChangeTyped
<1> QED
  BY <1>2, <1>3, <1>4

\* A change whose page was left is the same change otherwise.
LEMMA ChangeLeft ==
    ASSUME NEW q, ChangeTyped(q)
    PROVE  LET r == [q EXCEPT !.live = FALSE] IN ChangeTyped(r) /\ r.ver = q.ver
BY DEF ChangeTyped

\* The page is left and opened again (Reopen).
LEMMA ListReopen ==
    ASSUME ListInv, Reopen
    PROVE  ListInv'
<1> DEFINE dead(q) == [q EXCEPT !.live = FALSE]
<1>1. /\ reqs' = {dead(q) : q \in reqs} /\ shown' = 0 /\ fetch' = Mounted(fetch)
      /\ UNCHANGED <<version, cache>>
  BY DEF Reopen, server
<1>2. \A q \in reqs : ChangeTyped(dead(q)) /\ dead(q).ver = q.ver
  BY ChangeLeft DEF ListInv, ListTypes
<1> HIDE DEF dead
<1>3. \A q \in reqs' : ChangeTyped(q) /\ q.ver <= version
  BY <1>1, <1>2 DEF ListInv, ShownIsStored
<1>4. fetch'.phase \in {"idle", "sent", "answered"} /\ fetch'.ver \in Nat
  BY <1>1 DEF Mounted, ListInv, ListTypes
<1> QED
  BY <1>1, <1>3, <1>4 DEF ListInv, ListTypes, ShownIsStored, AnswerIsNew, RowsFollowOwnChanges, ChangeTyped

\* A click sends a change (SendDialog, SendPage).
LEMMA ListSends ==
    ASSUME ListInv, NEW r, Sending(r)
    PROVE  ListInv'
<1> DEFINE new == [id |-> sends, live |-> TRUE, state |-> "sent", ver |-> 0, req |-> r]
<1>1. reqs' = reqs \cup {new} /\ UNCHANGED <<version, shown, cache, fetch>>
  BY DEF Sending, server
<1>2. ChangeTyped(new) /\ new.ver = 0
  BY DEF ChangeTyped
<1> HIDE DEF new
<1> QED
  BY <1>1, <1>2 DEF ListInv, ListTypes, ShownIsStored, AnswerIsNew, RowsFollowOwnChanges, ChangeTyped

\* One change is replaced by another that is no newer than the table.
LEMMA ListReplace ==
    ASSUME ListInv, NEW q \in reqs, NEW r, ChangeTyped(r), version' \in {version, version + 1},
           r.ver <= version', reqs' = (reqs \ {q}) \cup {r}, UNCHANGED <<shown, cache, fetch>>
    PROVE  ListInv'
<1>1. ListTypes'
  BY DEF ListInv, ListTypes, ChangeTyped
<1>2. ShownIsStored'
  BY DEF ListInv, ListTypes, ShownIsStored, ChangeTyped
<1>3. AnswerIsNew' /\ RowsFollowOwnChanges'
  BY DEF ListInv, AnswerIsNew, RowsFollowOwnChanges
<1> QED
  BY <1>1, <1>2, <1>3 DEF ListInv

\* The record of a change that was stored.
LEMMA ChangeStored ==
    ASSUME NEW q, ChangeTyped(q), NEW v \in Nat
    PROVE  LET r == [q EXCEPT !.state = "ok", !.ver = v] IN ChangeTyped(r) /\ r.ver = v
<1> DEFINE r == [q EXCEPT !.state = "ok", !.ver = v]
<1>1. /\ r.id = q.id /\ r.live = q.live /\ r.state = "ok" /\ r.ver = v /\ r.req = q.req
  BY DEF ChangeTyped
<1>2. r \in [id : {q.id}, live : BOOLEAN, state : {"sent", "ok", "failed"}, ver : Nat, req : {q.req}]
  BY DEF ChangeTyped
<1> HIDE DEF r
<1>3. ChangeTyped(r)
  BY <1>1, <1>2 DEF ChangeTyped
<1> QED
  BY <1>1, <1>3 DEF r

\* The server applies or refuses a change (ServerApplies), or it fails (RequestFails).
LEMMA ListApplies ==
    ASSUME ListInv, NEW q \in reqs, ServerApplies(q) \/ RequestFails(q)
    PROVE  ListInv'
<1> DEFINE kept == [q EXCEPT !.state = "ok", !.ver = version + 1]
           lost == [q EXCEPT !.state = "failed"]
<1>0. version \in Nat /\ version + 1 \in Nat /\ ChangeTyped(q) /\ q.ver <= version
  BY DEF ListInv, ListTypes, ShownIsStored
<1>1. ChangeTyped(kept) /\ kept.ver = version + 1
  BY <1>0, ChangeStored
<1>2. ChangeTyped(lost) /\ lost.ver = q.ver
  BY <1>0 DEF ChangeTyped
<1>3. UNCHANGED <<shown, cache, fetch>>
  BY DEF ServerApplies, RequestFails
<1>4. \/ version' = version + 1 /\ reqs' = (reqs \ {q}) \cup {kept}
      \/ version' = version /\ reqs' = (reqs \ {q}) \cup {lost}
  BY DEF ServerApplies, RequestFails, Apply, server
<1> HIDE DEF kept, lost
<1>5. CASE version' = version + 1 /\ reqs' = (reqs \ {q}) \cup {kept}
  BY <1>0, <1>1, <1>3, <1>5, ListReplace
<1>6. CASE version' = version /\ reqs' = (reqs \ {q}) \cup {lost}
  BY <1>0, <1>2, <1>3, <1>6, ListReplace
<1> QED
  BY <1>4, <1>5, <1>6

\* Another administrator changes a row (Elsewhere).
LEMMA ListElsewhere ==
    ASSUME ListInv, Elsewhere
    PROVE  ListInv'
<1>1. version' = version + 1 /\ UNCHANGED <<shown, cache, fetch, reqs>>
  BY DEF Elsewhere, Apply
<1> QED
  BY <1>1 DEF ListInv, ListTypes, ShownIsStored, AnswerIsNew, RowsFollowOwnChanges, ChangeTyped

\* The answer of a change (Succeeded): the list is read anew, and a read that was under
\* way is given up for it unless nothing has been read yet.
LEMMA ListSucceeded ==
    ASSUME ListInv, NEW q \in reqs, Succeeded(q)
    PROVE  ListInv'
<1>1. /\ reqs' = reqs \ {q} /\ UNCHANGED <<version, cache>>
      /\ fetch' = Refetched(TRUE, cache, fetch)
      /\ shown' = IF q.live /\ ~Loading /\ q.ver > shown THEN q.ver ELSE shown
  BY DEF Succeeded, server
<1>2. q.ver \in Nat /\ q.ver <= version
  BY DEF ListInv, ListTypes, ShownIsStored, ChangeTyped
<1>3. CASE Loading
  <2>1. fetch' = fetch
    BY <1>1, <1>3 DEF Loading, Refetched
  <2>2. shown' = shown
    BY <1>1, <1>3
  <2> QED
    BY <1>1, <2>1, <2>2 DEF ListInv, ListTypes, ShownIsStored, AnswerIsNew, RowsFollowOwnChanges, ChangeTyped
<1>4. CASE ~Loading
  <2>0. fetch' = Sent
    BY <1>1, <1>4 DEF Loading, Refetched
  <2>1. fetch'.phase = "sent" /\ fetch'.ver = 0
    BY <2>0 DEF Sent, Idle
  <2>2. shown' \in {shown, q.ver}
    BY <1>1
  <2>3. shown' \in Nat /\ shown' <= version /\ version \in Nat /\ cache.ver \in Nat
    BY <1>2, <2>2 DEF ListInv, ListTypes, ShownIsStored
  <2>4. /\ version' = version /\ cache' = cache
        /\ \A p \in reqs' : ChangeTyped(p) /\ p.ver <= version
    BY <1>1 DEF ListInv, ListTypes, ShownIsStored
  <2>5. ListTypes' /\ ShownIsStored'
    BY <2>1, <2>3, <2>4 DEF ListTypes, ShownIsStored, ChangeTyped
  <2>6. AnswerIsNew' /\ RowsFollowOwnChanges'
    BY <2>1 DEF AnswerIsNew, RowsFollowOwnChanges
  <2> QED
    BY <2>5, <2>6 DEF ListInv
<1> QED
  BY <1>3, <1>4

\* Every step of the page keeps the invariant.
LEMMA ListStep == ListInv /\ [Next]_vars => ListInv'
<1> SUFFICES ASSUME ListInv, [Next]_vars PROVE ListInv'
  OBVIOUS
<1>1. CASE ServerReads \/ Deliver \/ FetchFails
  BY <1>1, ListReads
<1>2. CASE Reopen
  BY <1>2, ListReopen
<1>3. CASE Click \/ UseDialog
  BY <1>3, ListUntouched DEF Click, UseDialog, server
<1>4. CASE SendDialog
  BY <1>4, ListSends DEF SendDialog
<1>5. CASE SendPage
  BY <1>5, ListSends DEF SendPage
<1>6. CASE Elsewhere
  BY <1>6, ListElsewhere
<1>7. ASSUME NEW q \in reqs, ServerApplies(q) \/ RequestFails(q) PROVE ListInv'
  BY <1>7, ListApplies
<1>8. ASSUME NEW q \in reqs, Succeeded(q) PROVE ListInv'
  BY <1>8, ListSucceeded
<1>9. ASSUME NEW q \in reqs, Failed(q) PROVE ListInv'
  <2>1. reqs' = reqs \ {q} /\ UNCHANGED <<version, shown, cache, fetch>>
    BY <1>9 DEF Failed, server
  <2> QED
    BY <2>1 DEF ListInv, ListTypes, ShownIsStored, AnswerIsNew, RowsFollowOwnChanges, ChangeTyped
<1>10. CASE UNCHANGED vars
  BY <1>10, ListUntouched DEF vars, server
<1> QED
  BY <1>1, <1>2, <1>3, <1>4, <1>5, <1>6, <1>7, <1>8, <1>9, <1>10 DEF Next

\* After its own change was answered, an open list whose reads succeed does not come to
\* rest on rows older than that change (the hooks of the lists invalidate their query).
THEOREM OwnChangesAreShown == Spec => []RowsFollowOwnChanges
<1>1. ListInv => RowsFollowOwnChanges
  BY DEF ListInv
<1> QED
  BY ListInit, ListStep, <1>1, PTL DEF Spec

-----------------------------------------------------------------------------
(* The rule pages: what a drag shows ahead of the server does not stay *)

\* A change under way; its operation and, once stored, the version it made.
IsSend(q, v) ==
    /\ q \in [nr : {q.nr}, op : {q.op}, ids : {q.ids}, row : {q.row}, rule : {q.rule},
              basis : {q.basis}, typed : {q.typed}, closes : {q.closes}, before : {q.before},
              state : {q.state}, ver : Nat, latest : {q.latest}, mounted : {q.mounted}]
    /\ q.ver <= v

\* Nothing is waited for that has not been stored.
SendsTyped == /\ version \in Nat /\ ruleShown \in Nat /\ ruleShown <= version
              /\ \A q \in reqs : IsSend(q, version)

\* An answer on its way was read after the change that is waited for: OptimismSettles
\* speaks of a query at rest and is not kept by an answer that comes in.
ReadIsNew == fetch.phase = "answered" => fetch.ver >= ruleShown

DragInv == SendsTyped /\ ReadIsNew /\ R!OptimismSettles

\* A request for the list is read anew by the server or given up.
LEMMA RuleReads ==
    ASSUME DragInv, R!ServerReads \/ R!Deliver \/ R!FetchFails
    PROVE  DragInv'
<1>1. CASE R!ServerReads
  <2>1. /\ fetch' = AnsweredWith(ruleStored, version)
        /\ UNCHANGED <<version, ruleShown, reqs>>
    BY <1>1 DEF R!ServerReads, R!AnsweredWith, AnsweredWith, R!server
  <2>2. fetch'.phase = "answered" /\ fetch'.ver = version
    BY <2>1 DEF AnsweredWith
  <2> QED
    BY <2>1, <2>2 DEF DragInv, SendsTyped, ReadIsNew, IsSend, R!OptimismSettles
<1>2. CASE R!Deliver
  <2>1. /\ fetch.phase = "answered" /\ cache' = Received(fetch) /\ fetch' = Idle
        /\ optimistic' = FALSE /\ UNCHANGED <<version, ruleShown, reqs>>
    BY <1>2 DEF R!Deliver, R!Received, Received, R!Idle, Idle, R!server
  <2>2. cache'.ver = fetch.ver /\ fetch'.phase = "idle"
    BY <2>1 DEF Received, Idle
  <2> QED
    BY <2>1, <2>2 DEF DragInv, SendsTyped, ReadIsNew, IsSend, R!OptimismSettles
<1>3. CASE R!FetchFails
  <2>1. /\ fetch' = Idle /\ gaveUp' = TRUE /\ UNCHANGED <<version, ruleShown, reqs>>
    BY <1>3 DEF R!FetchFails, R!Idle, Idle, R!server
  <2>2. fetch'.phase = "idle"
    BY <2>1 DEF Idle
  <2> QED
    BY <2>1, <2>2 DEF DragInv, SendsTyped, ReadIsNew, IsSend, R!OptimismSettles
<1> QED
  BY <1>1, <1>2, <1>3

\* The changes under way are replaced by the same changes and perhaps a new one, and
\* the reads are left alone.
LEMMA RuleSends ==
    ASSUME DragInv, version' \in {version, version + 1},
           \A q \in reqs' : IsSend(q, version'),
           \A q \in reqs : \E p \in reqs' : p.op = q.op,
           UNCHANGED <<ruleShown, cache, fetch, optimistic, gaveUp>>
    PROVE  DragInv'
<1>1. SendsTyped' /\ ReadIsNew'
  BY DEF DragInv, SendsTyped, ReadIsNew
<1>2. R!OptimismSettles'
  BY DEF DragInv, R!OptimismSettles
<1> QED
  BY <1>1, <1>2 DEF DragInv

\* What a page or the server changes in a change under way leaves its operation.
LEMMA SendKept ==
    ASSUME NEW v \in Nat, NEW q, IsSend(q, v)
    PROVE  /\ LET p == [q EXCEPT !.latest = FALSE, !.mounted = FALSE]
              IN  IsSend(p, v) /\ p.op = q.op
           /\ LET p == [q EXCEPT !.state = "failed"]
              IN  IsSend(p, v) /\ p.op = q.op
           /\ \A n : LET p == [q EXCEPT !.row = n]
                     IN  IsSend(p, v) /\ p.op = q.op
           /\ LET p == [q EXCEPT !.state = "ok", !.ver = v + 1]
              IN  IsSend(p, v + 1) /\ p.op = q.op
           /\ IsSend(q, v + 1)
<1>1. LET p == [q EXCEPT !.state = "ok", !.ver = v + 1]
      IN  IsSend(p, v + 1) /\ p.op = q.op
  <2> DEFINE n == v + 1
             p == [q EXCEPT !.state = "ok", !.ver = n]
  <2>1. n \in Nat
    OBVIOUS
  <2> HIDE DEF n
  <2>2. p.ver = n /\ p.op = q.op
    BY DEF IsSend
  <2>3. p \in [nr : {p.nr}, op : {p.op}, ids : {p.ids}, row : {p.row}, rule : {p.rule},
               basis : {p.basis}, typed : {p.typed}, closes : {p.closes}, before : {p.before},
               state : {p.state}, ver : Nat, latest : {p.latest}, mounted : {p.mounted}]
    BY <2>1 DEF IsSend
  <2>4. IsSend(p, n)
    BY <2>1, <2>2, <2>3 DEF IsSend
  <2> QED
    BY <2>2, <2>4 DEF n
<1>2. IsSend(q, v + 1)
  BY DEF IsSend
<1>3. /\ LET p == [q EXCEPT !.latest = FALSE, !.mounted = FALSE]
         IN  IsSend(p, v) /\ p.op = q.op
      /\ LET p == [q EXCEPT !.state = "failed"]
         IN  IsSend(p, v) /\ p.op = q.op
      /\ \A n : LET p == [q EXCEPT !.row = n]
                IN  IsSend(p, v) /\ p.op = q.op
  BY DEF IsSend
<1> QED
  BY <1>1, <1>2, <1>3

\* A change is sent (Sending): whichever control it comes from, what is read stays.
LEMMA RuleSending ==
    ASSUME DragInv, NEW op, NEW ids, NEW rule, NEW basis, NEW typed, NEW closes, NEW before,
           R!Sending(op, ids, rule, basis, typed, closes, before)
    PROVE  /\ SendsTyped' /\ UNCHANGED <<version, ruleShown>>
           /\ \A q \in reqs : \E p \in reqs' : p.op = q.op
           /\ \E p \in reqs' : p.op = op
<1> DEFINE aged(q) == [q EXCEPT !.latest = @ /\ q.op # op]
           new == [nr |-> sends, op |-> op, ids |-> ids, row |-> 1, rule |-> rule,
                   basis |-> basis, typed |-> typed, closes |-> closes, before |-> before,
                   state |-> "sent", ver |-> 0, latest |-> TRUE, mounted |-> TRUE]
<1>1. reqs' = {aged(q) : q \in reqs} \cup {new} /\ UNCHANGED <<version, ruleShown>>
  BY DEF R!Sending, R!server
<1>2. \A q \in reqs : IsSend(aged(q), version) /\ aged(q).op = q.op
  BY DEF DragInv, SendsTyped, IsSend
<1>3. IsSend(new, version) /\ new.op = op
  BY DEF DragInv, SendsTyped, IsSend
<1> HIDE DEF aged, new
<1>4. \A q \in reqs' : IsSend(q, version)
  BY <1>1, <1>2, <1>3
<1>5. SendsTyped'
  BY <1>1, <1>4 DEF DragInv, SendsTyped, IsSend
<1> QED
  BY <1>1, <1>2, <1>3, <1>5

\* A switch, a form or a confirmed deletion is sent; nothing is shown ahead of it.
LEMMA RuleControls ==
    ASSUME DragInv, R!Toggle \/ R!ConfirmDelete \/ R!Submit
    PROVE  DragInv'
<1>1. UNCHANGED <<cache, fetch, optimistic, gaveUp>>
  BY DEF R!Toggle, R!ConfirmDelete, R!Submit, R!reads
<1>2. \E op, ids, rule, basis, typed, closes, before :
        R!Sending(op, ids, rule, basis, typed, closes, before)
  BY DEF R!Toggle, R!ConfirmDelete, R!Submit, R!handleToggle, R!handleDeleteConfirm, R!handleSubmit
<1>3. /\ SendsTyped' /\ UNCHANGED <<version, ruleShown>>
      /\ \A q \in reqs : \E p \in reqs' : p.op = q.op
  BY <1>2, RuleSending
<1> QED
  BY <1>1, <1>3 DEF DragInv, SendsTyped, ReadIsNew, R!OptimismSettles

\* A drag (Drag) rearranges the list and gives up the read; it is under way itself.
LEMMA RuleDrag ==
    ASSUME DragInv, R!Drag
    PROVE  DragInv'
<1>1. \E ids, basis, before : R!Sending("reorder", ids, R!Absent, basis, FALSE, FALSE, before)
  BY DEF R!Drag
<1>2. SendsTyped' /\ \E p \in reqs' : p.op = "reorder"
  BY <1>1, RuleSending
<1>3. fetch'.phase = "idle"
  BY DEF R!Drag, R!Idle
<1> QED
  BY <1>2, <1>3 DEF DragInv, ReadIsNew, R!OptimismSettles

\* The tab is opened anew (Reopen): the list is read, and the changes go on.
LEMMA RuleReopen ==
    ASSUME DragInv, R!Reopen
    PROVE  DragInv'
<1> DEFINE detached(q) == [q EXCEPT !.latest = FALSE, !.mounted = FALSE]
<1>1. /\ reqs' = {detached(q) : q \in reqs} /\ UNCHANGED <<version, ruleShown, cache, optimistic, gaveUp>>
      /\ fetch' = Mounted(fetch)
  BY DEF R!Reopen, R!server, R!Mounted, Mounted, R!Sent, Sent, R!Idle, Idle
<1>2. \A q \in reqs : IsSend(detached(q), version)
  BY SendKept DEF DragInv, SendsTyped
<1>3. fetch'.phase # "idle" /\ (fetch'.phase = "answered" => fetch' = fetch)
  BY <1>1 DEF Mounted, Sent, Idle
<1> HIDE DEF detached
<1>4. SendsTyped'
  BY <1>1, <1>2 DEF DragInv, SendsTyped
<1> QED
  BY <1>1, <1>3, <1>4 DEF DragInv, ReadIsNew, R!OptimismSettles

\* One change under way is replaced by the same one in another state, and the server
\* has perhaps stored something (ServerStores, ReorderRow, RequestFails, Elsewhere).
LEMMA RuleReplace ==
    ASSUME DragInv, NEW q \in reqs, NEW p, p.op = q.op, IsSend(p, version'),
           version' \in {version, version + 1}, reqs' = (reqs \ {q}) \cup {p},
           UNCHANGED <<ruleShown, cache, fetch, optimistic, gaveUp>>
    PROVE  DragInv'
<1>1. \A r \in reqs : IsSend(r, version')
  BY SendKept DEF DragInv, SendsTyped
<1>2. SendsTyped' /\ ReadIsNew'
  BY <1>1 DEF DragInv, SendsTyped, ReadIsNew
<1>3. R!OptimismSettles'
  BY DEF DragInv, R!OptimismSettles
<1> QED
  BY <1>2, <1>3 DEF DragInv

\* The server stores, refuses or loses a change.
LEMMA RuleServer ==
    ASSUME DragInv, NEW q \in reqs, R!ServerStores(q) \/ R!ReorderRow(q) \/ R!RequestFails(q)
    PROVE  DragInv'
<1> DEFINE ok == [q EXCEPT !.state = "ok", !.ver = version + 1]
           failed == [q EXCEPT !.state = "failed"]
           row(n) == [q EXCEPT !.row = n]
<1>0. version \in Nat /\ IsSend(q, version)
  BY DEF DragInv, SendsTyped
<1>1. UNCHANGED <<ruleShown, cache, fetch, optimistic, gaveUp>>
  BY DEF R!ServerStores, R!ReorderRow, R!RequestFails, R!reads
<1>2. \/ version' = version + 1 /\ reqs' = (reqs \ {q}) \cup {ok}
      \/ version' = version /\ reqs' = (reqs \ {q}) \cup {failed}
      \/ version' = version + 1 /\ \E n : reqs' = (reqs \ {q}) \cup {row(n)}
  BY DEF R!ServerStores, R!ReorderRow, R!RequestFails, R!Update, R!server
<1>3. /\ IsSend(ok, version + 1) /\ ok.op = q.op
      /\ IsSend(failed, version) /\ failed.op = q.op
  BY <1>0, SendKept
<1>4. \A n : IsSend(row(n), version + 1) /\ row(n).op = q.op
  BY <1>0, SendKept
<1> HIDE DEF ok, failed, row
<1>5. CASE version' = version + 1 /\ reqs' = (reqs \ {q}) \cup {ok}
  BY <1>1, <1>3, <1>5, RuleReplace
<1>6. CASE version' = version /\ reqs' = (reqs \ {q}) \cup {failed}
  BY <1>1, <1>3, <1>6, RuleReplace
<1>7. ASSUME version' = version + 1, NEW n, reqs' = (reqs \ {q}) \cup {row(n)}
      PROVE  DragInv'
  BY <1>1, <1>4, <1>7, RuleReplace
<1> QED
  BY <1>2, <1>5, <1>6, <1>7

\* The answer of a change (Succeeded, Failed): the list is read anew, unless its first
\* read is still under way; a refused drag is taken back first.
LEMMA RuleAnswers ==
    ASSUME DragInv, NEW q \in reqs, R!Succeeded(q) \/ R!Failed(q)
    PROVE  DragInv'
<1>0. reqs' = reqs \ {q} /\ version' = version
  BY DEF R!Succeeded, R!Failed, R!server
<1>1. Refetched(TRUE, cache', fetch) = IF LoadingNow(cache', fetch) THEN fetch ELSE Sent
  BY DEF Refetched
<1>2. Sent.phase = "sent"
  BY DEF Sent, Idle
<1>3. CASE R!Succeeded(q)
  <2>1. /\ fetch' = Refetched(TRUE, cache, fetch) /\ cache' = cache
        /\ ruleShown' = IF LoadingNow(cache, fetch) \/ q.ver < ruleShown THEN ruleShown ELSE q.ver
    BY <1>3 DEF R!Succeeded, R!Refetched, Refetched, R!LoadingNow, LoadingNow, R!Sent, Sent,
                R!Idle, Idle
  <2>2. q.ver \in Nat /\ q.ver <= version
    BY DEF DragInv, SendsTyped, IsSend
  <2>3. SendsTyped'
    BY <1>0, <2>1, <2>2 DEF DragInv, SendsTyped
  <2>4. CASE LoadingNow(cache, fetch)
    <3>1. fetch' = fetch /\ ruleShown' = ruleShown /\ fetch.phase # "idle"
      BY <1>1, <2>1, <2>4 DEF LoadingNow
    <3> QED
      BY <2>3, <3>1 DEF DragInv, ReadIsNew, R!OptimismSettles
  <2>5. CASE ~LoadingNow(cache, fetch)
    <3>1. fetch'.phase = "sent"
      BY <1>1, <1>2, <2>1, <2>5
    <3> QED
      BY <2>3, <3>1 DEF DragInv, ReadIsNew, R!OptimismSettles
  <2> QED
    BY <2>4, <2>5
<1>4. CASE R!Failed(q)
  <2>1. SendsTyped'
    BY <1>0, <1>4 DEF R!Failed, DragInv, SendsTyped
  <2>2. CASE q.op = "reorder"
    <3>1. fetch' = Refetched(TRUE, cache', fetch) /\ ruleShown' = ruleShown
      BY <1>4, <2>2 DEF R!Failed, R!Refetched, Refetched, R!LoadingNow, LoadingNow, R!Sent, Sent,
                        R!Idle, Idle
    <3>2. fetch'.phase # "idle" /\ (fetch'.phase = "answered" => fetch' = fetch)
      BY <1>1, <1>2, <3>1 DEF LoadingNow
    <3> QED
      BY <2>1, <3>1, <3>2 DEF DragInv, ReadIsNew, R!OptimismSettles
  <2>3. CASE q.op # "reorder"
    <3>1. UNCHANGED <<ruleShown, cache, fetch, optimistic, gaveUp>>
      BY <1>4, <2>3 DEF R!Failed
    <3> QED
      BY <1>0, <2>1, <2>3, <3>1 DEF DragInv, ReadIsNew, R!OptimismSettles
  <2> QED
    BY <2>2, <2>3
<1> QED
  BY <1>3, <1>4

\* A step that touches neither reads nor changes under way.
LEMMA RuleUntouched ==
    ASSUME DragInv, UNCHANGED <<version, ruleShown, reqs, cache, fetch, optimistic, gaveUp>>
    PROVE  DragInv'
BY DEF DragInv, SendsTyped, ReadIsNew, R!OptimismSettles

\* Every step of the rule pages keeps the invariant.
LEMMA RuleStep == DragInv /\ R!Next => DragInv'
<1> SUFFICES ASSUME DragInv, R!Next PROVE DragInv'
  OBVIOUS
<1>1. CASE R!ServerReads \/ R!Deliver \/ R!FetchFails
  BY <1>1, RuleReads
<1>2. CASE R!Reopen
  BY <1>2, RuleReopen
<1>3. CASE R!OpenForm \/ R!CloseForm \/ R!EditForm
  BY <1>3, RuleUntouched DEF R!OpenForm, R!CloseForm, R!EditForm, R!server, R!reads
<1>4. CASE R!Toggle \/ R!ConfirmDelete \/ R!Submit
  BY <1>4, RuleControls
<1>5. CASE R!Drag
  BY <1>5, RuleDrag
<1>6. CASE R!Elsewhere
  <2>1. version' = version + 1 /\ UNCHANGED <<ruleShown, reqs, cache, fetch, optimistic, gaveUp>>
    BY <1>6 DEF R!Elsewhere, R!reads
  <2>2. \A q \in reqs : IsSend(q, version + 1)
    BY SendKept DEF DragInv, SendsTyped
  <2> QED
    BY <2>1, <2>2 DEF DragInv, SendsTyped, ReadIsNew, R!OptimismSettles
<1>7. ASSUME NEW q \in reqs, R!ServerStores(q) \/ R!ReorderRow(q) \/ R!RequestFails(q)
      PROVE  DragInv'
  BY <1>7, RuleServer
<1>8. ASSUME NEW q \in reqs, R!Succeeded(q) \/ R!Failed(q)
      PROVE  DragInv'
  BY <1>8, RuleAnswers
<1> QED
  BY <1>1, <1>2, <1>3, <1>4, <1>5, <1>6, <1>7, <1>8 DEF R!Next

\* A rule list that was rearranged ahead of the server (useAppRulesManagement: the drag
\* cancels the read under way, a refusal restores the list, either answer invalidates)
\* ends up as one the server sent, however requests and answers overlap.
THEOREM DragsAreSettled == ConsoleSpec => []OptimismSettles
<1> DEFINE Inv == part = "rules" => DragInv
<1>1. ConsoleInit => Inv
  <2>1. R!Init => DragInv
    BY DEF R!Init, R!Unloaded, R!Sent, R!Idle, DragInv, SendsTyped, ReadIsNew, R!OptimismSettles
  <2> QED
    BY <2>1 DEF ConsoleInit
<1>2. Inv /\ [ConsoleNext]_consoleVars => Inv'
  <2> SUFFICES ASSUME Inv, [ConsoleNext]_consoleVars, part' = "rules" PROVE DragInv'
    OBVIOUS
  <2>1. part = "rules" /\ DragInv
    BY DEF ConsoleNext, consoleVars
  <2>2. CASE R!Next
    BY <2>1, <2>2, RuleStep
  <2>3. CASE UNCHANGED consoleVars
    BY <2>1, <2>3, RuleUntouched DEF consoleVars, both, ofRules
  <2> QED
    BY <2>1, <2>2, <2>3 DEF ConsoleNext
<1>3. Inv => OptimismSettles
  BY DEF DragInv, OptimismSettles
<1> QED
  BY <1>1, <1>2, <1>3, PTL DEF ConsoleSpec

-----------------------------------------------------------------------------
(* The rule pages: where rules of equal priority come from *)

\* The rules as the server has them, or as a page shows them; a rule has a priority.
IsTable(d) == /\ d \in [Rules -> R!Rule]
              /\ \A i \in Rules : d[i].there => d[i].prio > 0
Known(d) == d = None \/ IsTable(d)

\* INSTANCE gives the rule pages a Cardinality and an IsFiniteSet of their own.
LEMMA RuleSizes ==
    /\ \A S : R!Cardinality(S) = Cardinality(S)
    /\ IsFiniteSet(Rules) /\ Rules \subseteq Nat \ {0}
    /\ \A d : IsTable(d) => d # None
<1>1. \A S : R!Cardinality(S) = Cardinality(S)
  BY Zenon DEF R!Cardinality, Cardinality
<1>2. \A S : R!IsFiniteSet(S) <=> IsFiniteSet(S)
  BY Zenon DEF R!IsFiniteSet, IsFiniteSet
<1>3. IsFiniteSet(Rules) /\ Rules = 1..Cardinality(Rules)
  BY <1>1, <1>2, R!RulesAssumption DEF R!RulesAssumption
<1>4. Cardinality(Rules) \in Nat
  BY <1>3, FS_CardinalityType
<1>5. \A d : IsTable(d) => d # None
  BY R!RulesAssumption DEF R!RulesAssumption, IsTable
<1> QED
  BY <1>1, <1>3, <1>4, <1>5

\* Counting what comes before gives every element of a finite, strictly ordered set a
\* place of its own, and no place stays empty.
LEMMA Places ==
    ASSUME NEW S, IsFiniteSet(S), NEW B \in [S -> SUBSET S],
           \A i \in S : i \notin B[i],
           \A i, j \in S : i = j \/ i \in B[j] \/ j \in B[i],
           \A i, j \in S : i \in B[j] => B[i] \subseteq B[j]
    PROVE  /\ Cardinality(S) \in Nat
           /\ \A i \in S : Cardinality(B[i]) \in 0..(Cardinality(S) - 1)
           /\ \A i, j \in S : i \in B[j] => Cardinality(B[i]) < Cardinality(B[j])
           /\ \A k \in 0..(Cardinality(S) - 1) : \E i \in S : Cardinality(B[i]) = k
<1> DEFINE n == Cardinality(S)
           place == [i \in S |-> Cardinality(B[i])]
<1>1. n \in Nat
  BY FS_CardinalityType
<1>2. \A i \in S : Cardinality(B[i]) \in 0..(n - 1)
  <2> TAKE i \in S
  <2>1. B[i] \subseteq S \ {i} /\ B[i] # S
    OBVIOUS
  <2>2. Cardinality(B[i]) \in Nat /\ Cardinality(B[i]) < n
    BY <2>1, FS_Subset, FS_CardinalityType
  <2> HIDE DEF n
  <2> QED
    BY <1>1, <2>2
<1>3. \A i, j \in S : i \in B[j] => Cardinality(B[i]) < Cardinality(B[j])
  <2> SUFFICES ASSUME NEW i \in S, NEW j \in S, i \in B[j]
               PROVE  Cardinality(B[i]) < Cardinality(B[j])
    OBVIOUS
  <2>1. B[i] \subseteq B[j] /\ B[i] # B[j]
    OBVIOUS
  <2>2. IsFiniteSet(B[j]) /\ IsFiniteSet(B[i])
    BY FS_Subset
  <2>3. Cardinality(B[j]) \in Nat /\ Cardinality(B[i]) \in Nat
    BY <2>2, FS_CardinalityType
  <2>4. Cardinality(B[i]) <= Cardinality(B[j]) /\ Cardinality(B[i]) # Cardinality(B[j])
    BY <2>1, <2>2, FS_Subset
  <2> QED
    BY <2>3, <2>4
<1>4. place \in Injection(S, 0..(n - 1))
  <2>1. place \in [S -> 0..(n - 1)]
    BY <1>2
  <2>2. \A i, j \in S : place[i] = place[j] => i = j
    <3> SUFFICES ASSUME NEW i \in S, NEW j \in S, place[i] = place[j], i # j PROVE FALSE
      OBVIOUS
    <3>1. Cardinality(B[i]) = Cardinality(B[j]) /\ Cardinality(B[i]) \in Nat
      BY <1>1, <1>2
    <3>2. i \in B[j] \/ j \in B[i]
      OBVIOUS
    <3> QED
      BY <1>3, <3>1, <3>2
  <2> QED
    BY <2>1, <2>2 DEF Injection, IsInjective
<1>5. IsFiniteSet(0..(n - 1)) /\ Cardinality(0..(n - 1)) = n
  BY <1>1, FS_Interval
<1>6. place \in Surjection(S, 0..(n - 1))
  BY <1>4, <1>5, FS_Injection
<1>7. \A k \in 0..(n - 1) : \E i \in S : Cardinality(B[i]) = k
  BY <1>6 DEF Surjection
<1> QED
  BY <1>1, <1>2, <1>3, <1>7

\* An order of some rules: no rule twice.
IsOrder(s) == s \in Seq(Rules) /\ \A j, k \in 1..Len(s) : s[j] = s[k] => j = k
Shows(s, i) == \E k \in 1..Len(s) : s[k] = i

\* The list shows every rule once, and the last one has the highest priority (sortedRules).
LEMMA SortedFacts ==
    ASSUME NEW d, Known(d)
    PROVE  LET s == R!sortedRules(d)
           IN  /\ IsOrder(s)
               /\ \A i : Shows(s, i) <=> i \in R!In(d)
               /\ \A i \in R!In(d) : \E m \in R!In(d) : \A j \in R!In(d) : d[j].prio <= d[m].prio
<1> DEFINE S == R!In(d)
           n == Cardinality(S)
           before(i) == {j \in S : d[j].prio < d[i].prio \/ (d[j].prio = d[i].prio /\ j < i)}
           B == [i \in S |-> before(i)]
           s == R!sortedRules(d)
<1>1. S \subseteq Rules /\ IsFiniteSet(S) /\ S \subseteq Nat
  <2>1. S \subseteq Rules
    BY DEF R!In
  <2> HIDE DEF S
  <2> QED
    BY <2>1, RuleSizes, FS_Subset
<1>2. \A i \in S : d[i].prio \in Nat
  BY DEF R!In, Known, IsTable, R!Rule
<1>3. /\ B \in [S -> SUBSET S]
      /\ \A i \in S : i \notin B[i]
      /\ \A i, j \in S : i = j \/ i \in B[j] \/ j \in B[i]
      /\ \A i, j \in S : i \in B[j] => B[i] \subseteq B[j]
  <2> HIDE DEF S
  <2>1. B \in [S -> SUBSET S]
    OBVIOUS
  <2>2. \A i, j \in S : j \in B[i] <=> d[j].prio < d[i].prio \/ (d[j].prio = d[i].prio /\ j < i)
    OBVIOUS
  <2> HIDE DEF B
  <2>3. \A i \in S : i \notin B[i]
    BY <1>1, <1>2, <2>2
  <2>4. \A i, j \in S : i = j \/ i \in B[j] \/ j \in B[i]
    BY <1>1, <1>2, <2>2
  <2>5. ASSUME NEW i \in S, NEW j \in S, i \in B[j], NEW k \in B[i]
        PROVE  k \in B[j]
    <3>1. k \in S
      BY <2>1, <2>5
    <3> QED
      BY <1>1, <1>2, <2>2, <2>5, <3>1
  <2> QED
    BY <2>1, <2>3, <2>4, <2>5
<1>4. s = [k \in 1..n |-> CHOOSE i \in S : Cardinality(before(i)) = k - 1]
  BY Zenon DEF R!sortedRules, R!Cardinality, Cardinality
<1>4b. \A i \in S : B[i] = before(i)
  OBVIOUS
<1> HIDE DEF s, B, S
<1>5. /\ n \in Nat
      /\ \A i \in S : Cardinality(B[i]) \in 0..(n - 1)
      /\ \A i, j \in S : i \in B[j] => Cardinality(B[i]) < Cardinality(B[j])
      /\ \A k \in 0..(n - 1) : \E i \in S : Cardinality(B[i]) = k
  BY <1>1, <1>3, Places
<1>6. \A k \in 1..n : s[k] \in S /\ Cardinality(B[s[k]]) = k - 1
  <2> SUFFICES ASSUME NEW k \in 1..n
               PROVE  s[k] \in S /\ Cardinality(B[s[k]]) = k - 1
    OBVIOUS
  <2>1. \E i \in S : Cardinality(B[i]) = k - 1
    <3>1. k - 1 \in 0..(n - 1)
      BY <1>5
    <3> QED
      BY <1>5, <3>1
  <2>2. \E i \in S : Cardinality(before(i)) = k - 1
    BY <1>4b, <2>1, Zenon
  <2> HIDE DEF before
  <2>3. s[k] = CHOOSE i \in S : Cardinality(before(i)) = k - 1
    BY <1>4
  <2>4. s[k] \in S /\ Cardinality(before(s[k])) = k - 1
    BY <2>2, <2>3
  <2> QED
    BY <1>4b, <2>4, Zenon DEF before
<1>7. s \in Seq(Rules) /\ Len(s) = n
  <2> HIDE DEF before, n
  <2>1. DOMAIN s = 1..n /\ s = [k \in 1..n |-> s[k]]
    BY <1>4
  <2>2. \A k \in 1..n : s[k] \in Rules
    BY <1>1, <1>6
  <2> QED
    BY <1>5, <2>1, <2>2
<1>8. IsOrder(s)
  <2> SUFFICES ASSUME NEW j \in 1..n, NEW k \in 1..n, s[j] = s[k] PROVE j = k
    BY <1>7 DEF IsOrder
  <2>1. j - 1 = k - 1
    BY <1>6
  <2> QED
    BY <2>1
<1>9. \A i : Shows(s, i) <=> i \in S
  <2>1. ASSUME NEW i, Shows(s, i) PROVE i \in S
    BY <1>6, <1>7, <2>1 DEF Shows
  <2>2. ASSUME NEW i \in S PROVE Shows(s, i)
    <3> DEFINE k == Cardinality(B[i]) + 1
    <3>1. k \in 1..n /\ k - 1 = Cardinality(B[i])
      BY <1>5
    <3> HIDE DEF k
    <3>2. s[k] \in S /\ Cardinality(B[s[k]]) = Cardinality(B[i])
      BY <1>6, <3>1
    <3>3. s[k] = i
      <4> SUFFICES ASSUME s[k] # i PROVE FALSE
        OBVIOUS
      <4>1. s[k] \in B[i] \/ i \in B[s[k]]
        BY <1>3, <3>2
      <4>2. Cardinality(B[i]) < Cardinality(B[i])
        BY <1>5, <3>2, <4>1
      <4> QED
        BY <1>5, <4>2
    <3> QED
      BY <1>7, <3>1, <3>3 DEF Shows
  <2> QED
    BY <2>1, <2>2
<1>10. ASSUME S # {} PROVE \E m \in S : \A j \in S : d[j].prio <= d[m].prio
  <2>1. n # 0
    BY <1>1, <1>10, FS_EmptySet
  <2>2. PICK m \in S : Cardinality(B[m]) = n - 1
    BY <1>5, <2>1
  <2>3. \A j \in S : m \notin B[j]
    BY <1>5, <2>2
  <2>4. \A j \in S : d[j].prio <= d[m].prio
    BY <1>1, <1>2, <2>3 DEF B
  <2> QED
    BY <2>4
<1> QED
  BY <1>8, <1>9, <1>10 DEF s, S

\* A rule that is moved is still there, once (arrayMove).
LEMMA MoveFacts ==
    ASSUME NEW s, IsOrder(s), NEW from \in 1..Len(s), NEW to \in 1..Len(s)
    PROVE  LET r == R!arrayMove(s, from, to)
           IN  IsOrder(r) /\ Len(r) = Len(s) /\ \A i : Shows(s, i) => Shows(r, i)
<1> DEFINE n == Len(s)
           rest == R!RemoveAt(s, from)
           r == R!arrayMove(s, from, to)
           old(k) == LET m == IF k < to THEN k ELSE k - 1
                     IN  IF k = to THEN from ELSE IF m < from THEN m ELSE m + 1
<1>0. s \in Seq(Rules) /\ n \in Nat
  BY DEF IsOrder
<1>1. /\ rest \in Seq(Rules) /\ Len(rest) = n - 1
      /\ \A k \in 1..(n - 1) : rest[k] = IF k < from THEN s[k] ELSE s[k + 1]
  <2> DEFINE a == SubSeq(s, 1, from - 1)
             b == SubSeq(s, from + 1, n)
  <2>1. /\ a \in Seq(Rules) /\ Len(a) = from - 1
        /\ \A k \in 1..(from - 1) : a[k] = s[k]
    BY <1>0
  <2>2. /\ b \in Seq(Rules) /\ Len(b) = n - from
        /\ \A k \in 1..(n - from) : b[k] = s[from + k]
    BY <1>0
  <2>3. rest = a \o b
    BY DEF R!RemoveAt
  <2> HIDE DEF a, b, rest
  <2>4. rest \in Seq(Rules) /\ Len(rest) = n - 1
    BY <1>0, <2>1, <2>2, <2>3
  <2>5. \A k \in 1..(n - 1) : rest[k] = IF k <= from - 1 THEN a[k] ELSE b[k - (from - 1)]
    BY <1>0, <2>1, <2>2, <2>3
  <2>6. \A k \in 1..(n - 1) : rest[k] = IF k < from THEN s[k] ELSE s[k + 1]
    <3> SUFFICES ASSUME NEW k \in 1..(n - 1)
                 PROVE  rest[k] = IF k < from THEN s[k] ELSE s[k + 1]
      OBVIOUS
    <3>1. CASE k < from
      <4>1. k \in 1..(from - 1) /\ k <= from - 1
        BY <1>0, <3>1
      <4>2. a[k] = s[k]
        BY <2>1, <4>1
      <4>3. rest[k] = a[k]
        BY <2>5, <4>1
      <4> QED
        BY <3>1, <4>2, <4>3
    <3>2. CASE ~(k < from)
      <4>1. k - (from - 1) \in 1..(n - from) /\ from + (k - (from - 1)) = k + 1
        BY <1>0, <3>2
      <4>2. b[k - (from - 1)] = s[k + 1]
        BY <2>2, <4>1
      <4>3. rest[k] = b[k - (from - 1)]
        <5>1. ~(k <= from - 1)
          BY <1>0, <3>2
        <5> QED
          BY <2>5, <5>1
      <4> QED
        BY <3>2, <4>2, <4>3
    <3> QED
      BY <3>1, <3>2
  <2> QED
    BY <2>4, <2>6
<1>2. r = R!InsertAt(rest, to, s[from])
  BY DEF R!arrayMove
<1> HIDE DEF rest, r
<1>3. /\ r \in Seq(Rules) /\ Len(r) = n
      /\ \A k \in 1..n : r[k] = IF k < to THEN rest[k] ELSE IF k = to THEN s[from] ELSE rest[k - 1]
  <2> DEFINE a == SubSeq(rest, 1, to - 1)
             b == SubSeq(rest, to, n - 1)
             x == <<s[from]>>
  <2>1. /\ a \in Seq(Rules) /\ Len(a) = to - 1
        /\ \A k \in 1..(to - 1) : a[k] = rest[k]
    BY <1>0, <1>1
  <2>2. /\ b \in Seq(Rules) /\ Len(b) = n - to
        /\ \A k \in 1..(n - to) : b[k] = rest[to + k - 1]
    BY <1>0, <1>1
  <2>3. x \in Seq(Rules) /\ Len(x) = 1 /\ x[1] = s[from]
    BY <1>0
  <2> DEFINE c == a \o x
  <2>4. r = c \o b
    BY <1>1, <1>2 DEF R!InsertAt
  <2> HIDE DEF a, b, x
  <2>5. /\ c \in Seq(Rules) /\ Len(c) = to
        /\ \A k \in 1..to : c[k] = IF k < to THEN a[k] ELSE s[from]
    <3>1. c \in Seq(Rules) /\ Len(c) = Len(a) + Len(x)
      BY <2>1, <2>3, ConcatProperties
    <3>2. \A k \in 1..(Len(a) + Len(x)) : c[k] = IF k <= Len(a) THEN a[k] ELSE x[k - Len(a)]
      BY <2>1, <2>3, ConcatProperties
    <3> HIDE DEF c
    <3>3. \A k \in 1..to : IF k < to THEN c[k] = a[k] ELSE c[k] = x[1]
      BY <1>0, <2>1, <2>3, <3>2
    <3> QED
      BY <1>0, <2>1, <2>3, <3>1, <3>3
  <2> HIDE DEF c
  <2>6. r \in Seq(Rules) /\ Len(r) = n
    <3>1. r \in Seq(Rules) /\ Len(r) = Len(c) + Len(b)
      BY <2>2, <2>4, <2>5, ConcatProperties
    <3> QED
      BY <1>0, <2>2, <2>5, <3>1
  <2>7. \A k \in 1..n : r[k] = IF k <= to THEN c[k] ELSE b[k - to]
    <3>1. \A k \in 1..(Len(c) + Len(b)) : r[k] = IF k <= Len(c) THEN c[k] ELSE b[k - Len(c)]
      BY <2>2, <2>4, <2>5, ConcatProperties
    <3> QED
      BY <1>0, <2>2, <2>5, <3>1
  <2>8. ASSUME NEW k \in 1..n
        PROVE  r[k] = IF k < to THEN rest[k] ELSE IF k = to THEN s[from] ELSE rest[k - 1]
    <3>1. CASE k < to
      BY <1>0, <2>1, <2>5, <2>7, <3>1
    <3>2. CASE k = to
      BY <1>0, <2>5, <2>7, <3>2
    <3>3. CASE k > to
      <4>1. k - to \in 1..(n - to) /\ to + (k - to) - 1 = k - 1
        BY <1>0, <3>3
      <4> QED
        BY <1>0, <2>2, <2>7, <3>3, <4>1
    <3> QED
      BY <1>0, <3>1, <3>2, <3>3
  <2> QED
    BY <2>6, <2>8
<1>4. \A k \in 1..n : old(k) \in 1..n /\ r[k] = s[old(k)]
  BY <1>0, <1>1, <1>3
<1>5. \A j, k \in 1..n : old(j) = old(k) => j = k
  BY <1>0
<1>6. \A m \in 1..n : \E k \in 1..n : old(k) = m
  <2> SUFFICES ASSUME NEW m \in 1..n PROVE \E k \in 1..n : old(k) = m
    OBVIOUS
  <2> DEFINE p == IF m < from THEN m ELSE m - 1
             k == IF m = from THEN to ELSE IF p < to THEN p ELSE p + 1
  <2>1. k \in 1..n /\ old(k) = m
    BY <1>0
  <2> QED
    BY <2>1
<1> HIDE DEF old
<1>7. IsOrder(r)
  <2> SUFFICES ASSUME NEW j \in 1..n, NEW k \in 1..n, r[j] = r[k] PROVE j = k
    BY <1>3 DEF IsOrder
  <2>1. old(j) = old(k)
    BY <1>4 DEF IsOrder
  <2> QED
    BY <1>5, <2>1
<1>8. \A i : Shows(s, i) => Shows(r, i)
  <2> SUFFICES ASSUME NEW m \in 1..n PROVE \E k \in 1..n : r[k] = s[m]
    BY <1>3 DEF Shows
  <2>1. PICK k \in 1..n : old(k) = m
    BY <1>6
  <2>2. r[k] = s[m]
    BY <1>4, <2>1
  <2> QED
    BY <2>2
<1> QED
  BY <1>3, <1>7, <1>8 DEF r

\* The suggested priority is higher than any that is shown (nextPriority).
LEMMA SuggestedIsHigher ==
    ASSUME NEW d, Known(d)
    PROVE  /\ R!nextPriority(d) \in Nat \ {0}
           /\ R!Prio(d) \in [Rules -> Nat]
           /\ \A i \in Rules : R!Prio(d)[i] < R!nextPriority(d)
<1> DEFINE S == R!In(d)
<1>1. \A i \in S : i \in Rules /\ d[i].prio \in Nat
  BY DEF R!In, Known, IsTable, R!Rule
<1>2. /\ R!Prio(d) \in [Rules -> Nat]
      /\ \A i \in Rules : R!Prio(d)[i] = IF i \in S THEN d[i].prio ELSE 0
  BY <1>1 DEF R!Prio
<1>3. CASE S = {}
  <2>1. R!nextPriority(d) = 1
    BY <1>3 DEF R!nextPriority
  <2> QED
    BY <1>2, <1>3, <2>1
<1>4. CASE S # {}
  <2>1. PICK m \in S : \A j \in S : d[j].prio <= d[m].prio
    BY <1>4, SortedFacts
  <2> DEFINE P == {d[i].prio : i \in S}
             h == R!Highest(d)
  <2>2. d[m].prio \in P /\ \A i \in S : d[i].prio <= d[m].prio
    BY <2>1
  <2>3. h = CHOOSE p \in P : \A i \in S : d[i].prio <= p
    BY DEF R!Highest
  <2> HIDE DEF h
  <2>4. h \in P /\ \A i \in S : d[i].prio <= h
    BY <2>2, <2>3
  <2>5. h \in Nat
    BY <1>1, <2>4
  <2>6. R!nextPriority(d) = h + 1
    BY <1>4 DEF R!nextPriority, h
  <2> HIDE DEF S
  <2> QED
    BY <1>1, <1>2, <2>4, <2>5, <2>6
<1> QED
  BY <1>3, <1>4

-----------------------------------------------------------------------------
\* A query or its request, with the rules a page may get to see.
IsQuery(c) == c \in [data : {c.data}, ver : {c.ver}] /\ Known(c.data)

\* A priority that nobody typed is the one of the rule, or higher than any other.
Kept(basis, i, prio) == basis = [j \in {i} |-> prio]
Higher(basis, prio) == basis \in [Rules -> Nat] /\ \A i \in Rules : basis[i] < prio

FormSound(g) ==
    /\ g \in [mode : {"create", "edit", "delete"}, id : {g.id}, prio : Nat, on : BOOLEAN,
              named : BOOLEAN, typed : BOOLEAN, basis : {g.basis}]
    /\ g.mode # "create" => g.id \in Rules
    /\ g.mode # "delete" => g.prio > 0
    /\ g.mode = "edit" => g.typed \/ Kept(g.basis, g.id, g.prio)
    /\ g.mode = "create" => g.typed \/ Higher(g.basis, g.prio)

\* A change under way: a new rule, a rule written back, a rule that goes, an order.
Setting(q) == q.rule \in R!Rule /\ q.rule.there /\ q.rule.prio > 0
Single(q) == \E i \in Rules : q.ids = <<i>>
Ordering(q) ==
    /\ IsOrder(q.ids) /\ q.row \in 1..Len(q.ids)
    /\ q.basis \in [Rules -> Nat] /\ \A i \in Rules : q.basis[i] # 0 => Shows(q.ids, i)
    /\ IsQuery(q.before.cache)
SendSound(q) ==
    /\ q \in [nr : {q.nr}, op : {"create", "update", "delete", "reorder"}, ids : {q.ids},
              row : Nat, rule : {q.rule}, basis : {q.basis}, typed : BOOLEAN,
              closes : {q.closes}, before : {q.before}, state : {"sent", "ok", "failed"},
              ver : {q.ver}, latest : {q.latest}, mounted : {q.mounted}]
    /\ q.op # "reorder" => q.row = 1
    /\ q.op = "create" => Setting(q) /\ (q.typed \/ Higher(q.basis, q.rule.prio))
    /\ q.op = "update" => Setting(q) /\ Single(q)
                          /\ (q.typed \/ Kept(q.basis, q.ids[1], q.rule.prio))
    /\ q.op = "delete" => q.rule = R!Absent /\ Single(q)
    /\ q.op = "reorder" => Ordering(q)

RulesSound ==
    /\ IsTable(ruleStored) /\ excused \in BOOLEAN
    /\ IsQuery(cache) /\ Known(fetch.data)
    /\ form # None => FormSound(form)
    /\ \A q \in reqs : SendSound(q)

\* The rows before the n-th of the order have their place for a priority.
OrderedUpTo(d, s, n) ==
    \A i \in Rules : d[i].there =>
      \E k \in 1..Len(s) : s[k] = i /\ (k < n => d[i].prio = k)
NoTies(d) == \A i, j \in R!In(d) : d[i].prio = d[j].prio => i = j

\* What an order that stopped nowhere has done so far.  TiesAreExplained says nothing of
\* the rules while an order is half way, and would be lost when it is through.
HalfWayIsOrdered ==
    excused \/ \A q \in reqs : R!HalfWay(q) => OrderedUpTo(ruleStored, q.ids, q.row)

TieInv == RulesSound /\ HalfWayIsOrdered /\ R!TiesAreExplained

\* At first the rules have their numbers for priorities, and nothing is under way.
LEMMA TieInit == R!Init => TieInv
<1> SUFFICES ASSUME R!Init PROVE TieInv
  OBVIOUS
<1>1. IsTable(ruleStored)
  <2>1. ruleStored = [i \in Rules |-> IF i # R!New THEN [there |-> TRUE, prio |-> i, on |-> i # 1]
                                      ELSE [there |-> FALSE, prio |-> 0, on |-> FALSE]]
    BY DEF R!Init, R!Rules0, R!Absent
  <2>2. \A i \in Rules : i \in Nat /\ i > 0
    BY RuleSizes
  <2> QED
    BY <2>1, <2>2 DEF IsTable, R!Rule
<1>2. IsQuery(cache) /\ Known(fetch.data) /\ excused = FALSE /\ form = None /\ reqs = {}
  BY DEF R!Init, R!Unloaded, R!Sent, R!Idle, IsQuery, Known
<1>3. \A i, j \in R!In(ruleStored) : ruleStored[i].prio = ruleStored[j].prio => i = j
  BY DEF R!Init, R!Rules0, R!Absent, R!In
<1> QED
  BY <1>1, <1>2, <1>3 DEF TieInv, RulesSound, HalfWayIsOrdered, R!TiesAreExplained

\* As long as the rules stay, every order that is half way stays half way, and no order
\* is new, nothing is lost.
LEMMA TiesStay ==
    ASSUME TieInv, UNCHANGED <<ruleStored, excused>>,
           \A p \in reqs' : R!HalfWay(p) =>
             \E q \in reqs : R!HalfWay(q) /\ q.ids = p.ids /\ q.row = p.row,
           \A q \in reqs : R!HalfWay(q) => \E p \in reqs' : R!HalfWay(p)
    PROVE  HalfWayIsOrdered' /\ R!TiesAreExplained'
<1>1. HalfWayIsOrdered'
  BY DEF TieInv, RulesSound, HalfWayIsOrdered, OrderedUpTo, R!HalfWay
<1>2. R!TiesAreExplained'
  BY DEF TieInv, RulesSound, R!TiesAreExplained, R!In, R!HalfWay
<1> QED
  BY <1>1, <1>2

\* The list is read, the page left, a form opened, edited or closed.
LEMMA TieReads ==
    ASSUME TieInv, R!ServerReads \/ R!Deliver \/ R!FetchFails
    PROVE  TieInv'
<1>1. UNCHANGED <<ruleStored, excused, form, reqs>>
  BY DEF R!ServerReads, R!Deliver, R!FetchFails, R!server
<1>2. IsQuery(cache') /\ Known(fetch'.data)
  BY DEF R!ServerReads, R!Deliver, R!FetchFails, R!AnsweredWith, R!Received, R!Idle, TieInv,
         RulesSound, IsQuery, Known
<1>3. RulesSound'
  BY <1>1, <1>2 DEF TieInv, RulesSound, IsTable
<1>4. HalfWayIsOrdered' /\ R!TiesAreExplained'
  BY <1>1, TiesStay
<1> QED
  BY <1>3, <1>4 DEF TieInv

LEMMA TieReopen ==
    ASSUME TieInv, R!Reopen
    PROVE  TieInv'
<1> DEFINE detached(q) == [q EXCEPT !.latest = FALSE, !.mounted = FALSE]
<1>1. /\ UNCHANGED <<ruleStored, excused, cache>> /\ form' = None
      /\ reqs' = {detached(q) : q \in reqs} /\ fetch' = R!Mounted(fetch)
  BY DEF R!Reopen, R!server
<1>2. Known(fetch'.data)
  BY <1>1 DEF R!Mounted, R!Sent, R!Idle, TieInv, RulesSound, Known
<1>3. \A q \in reqs : /\ SendSound(detached(q)) /\ (R!HalfWay(detached(q)) <=> R!HalfWay(q))
                      /\ detached(q).ids = q.ids /\ detached(q).row = q.row
  <2> SUFFICES ASSUME NEW q \in reqs
               PROVE  /\ SendSound(detached(q)) /\ (R!HalfWay(detached(q)) <=> R!HalfWay(q))
                      /\ detached(q).ids = q.ids /\ detached(q).row = q.row
    OBVIOUS
  <2>1. SendSound(q)
    BY DEF TieInv, RulesSound
  <2> QED
    BY <2>1 DEF SendSound, Setting, Single, Ordering, R!HalfWay
<1> HIDE DEF detached
<1>4. RulesSound'
  BY <1>1, <1>2, <1>3 DEF TieInv, RulesSound, IsTable, IsQuery, Known
<1>5. HalfWayIsOrdered' /\ R!TiesAreExplained'
  <2>1. \A p \in reqs' : R!HalfWay(p) =>
          \E q \in reqs : R!HalfWay(q) /\ q.ids = p.ids /\ q.row = p.row
    BY <1>1, <1>3
  <2>2. \A q \in reqs : R!HalfWay(q) => \E p \in reqs' : R!HalfWay(p)
    BY <1>1, <1>3
  <2> QED
    BY <1>1, <2>1, <2>2, TiesStay
<1> QED
  BY <1>4, <1>5 DEF TieInv

\* What the list offers to open: rules that are shown (RuleActions, openCreate).
LEMMA OfferedForms ==
    ASSUME NEW d, Known(d), NEW g \in R!ListView(d)
    PROVE  FormSound(g)
<1>1. \A i \in R!Openable(d) : i \in Rules /\ d[i] \in R!Rule /\ d[i].prio > 0
  <2>1. \A i \in R!Openable(d) : i \in R!In(d)
    <3>1. \A i \in R!Openable(d) : Shows(R!sortedRules(d), i)
      BY SortedFacts DEF R!Openable, R!Range, Shows, IsOrder
    <3> QED
      BY <3>1, SortedFacts
  <2> QED
    BY <2>1 DEF R!In, Known, IsTable
<1>2. CASE g = R!openCreate(d)
  <2> DEFINE p == R!nextPriority(d)
             b == R!Prio(d)
  <2>1. p \in Nat \ {0} /\ Higher(b, p)
    BY SuggestedIsHigher DEF Higher
  <2>2. g = [mode |-> "create", id |-> 0, prio |-> p, on |-> TRUE, named |-> FALSE,
             typed |-> FALSE, basis |-> b]
    BY <1>2 DEF R!openCreate, R!Form
  <2> HIDE DEF p, b
  <2> QED
    BY <2>1, <2>2 DEF FormSound
<1>3. ASSUME NEW i \in R!Openable(d), g = R!openEdit(d, i)
      PROVE  FormSound(g)
  <2>1. g = [mode |-> "edit", id |-> i, prio |-> d[i].prio, on |-> d[i].on, named |-> TRUE,
             typed |-> FALSE, basis |-> [j \in {i} |-> d[j].prio]]
    BY <1>3 DEF R!openEdit, R!Form
  <2>2. Kept([j \in {i} |-> d[j].prio], i, d[i].prio)
    BY DEF Kept
  <2> QED
    BY <1>1, <2>1, <2>2 DEF FormSound, R!Rule
<1>4. ASSUME NEW i \in R!Openable(d), g = R!DeleteDialog(i)
      PROVE  FormSound(g)
  BY <1>1, <1>4 DEF R!DeleteDialog, R!Form, R!Absent, FormSound
<1> QED
  BY <1>2, <1>3, <1>4 DEF R!ListView, R!RuleActions

LEMMA TieForms ==
    ASSUME TieInv, R!OpenForm \/ R!CloseForm \/ R!EditForm
    PROVE  TieInv'
<1>1. UNCHANGED <<ruleStored, excused, cache, fetch, reqs>>
  BY DEF R!OpenForm, R!CloseForm, R!EditForm, R!server, R!reads
<1>2. form' # None => FormSound(form')
  <2>1. CASE R!OpenForm
    BY <2>1, OfferedForms DEF R!OpenForm, TieInv, RulesSound, IsQuery
  <2>2. CASE R!CloseForm
    BY <2>2 DEF R!CloseForm
  <2>3. CASE R!EditForm
    <3>1. FormSound(form) /\ form' \in R!RuleFields(form)
      BY <2>3 DEF R!EditForm, TieInv, RulesSound
    <3>2. CASE form.mode = "delete"
      BY <3>1, <3>2 DEF R!RuleFields
    <3> DEFINE Forms == [mode : {"create", "edit", "delete"}, id : {form.id}, prio : Nat,
                         on : BOOLEAN, named : BOOLEAN, typed : BOOLEAN, basis : {form.basis}]
               flipped == ~form.on
    <3>a. form \in Forms /\ flipped \in BOOLEAN
      BY <3>1 DEF FormSound
    <3>3. CASE form' = [form EXCEPT !.named = TRUE]
      <4>1. form' \in Forms /\ \A x \in {"mode", "id", "prio", "typed", "basis"} : form'[x] = form[x]
        BY <3>a, <3>3
      <4> QED
        BY <3>1, <4>1 DEF FormSound
    <3>4. CASE form' = [form EXCEPT !.on = flipped]
      <4> HIDE DEF flipped
      <4>1. form' \in Forms /\ \A x \in {"mode", "id", "prio", "typed", "basis"} : form'[x] = form[x]
        BY <3>a, <3>4
      <4> QED
        BY <3>1, <4>1 DEF FormSound
    <3>5. CASE form' = [form EXCEPT !.prio = 1, !.typed = TRUE]
      <4>1. /\ form' \in Forms /\ \A x \in {"mode", "id", "basis"} : form'[x] = form[x]
            /\ form'.prio = 1 /\ form'.typed = TRUE
        BY <3>a, <3>5
      <4> QED
        BY <3>1, <4>1 DEF FormSound
    <3> QED
      BY <3>1, <3>2, <3>3, <3>4, <3>5 DEF R!RuleFields, R!NameAndExpression, R!PriorityAndSwitch
  <2> QED
    BY <2>1, <2>2, <2>3
<1>3. RulesSound'
  BY <1>1, <1>2 DEF TieInv, RulesSound, IsTable, IsQuery, Known
<1>4. HalfWayIsOrdered' /\ R!TiesAreExplained'
  BY <1>1, TiesStay
<1> QED
  BY <1>3, <1>4 DEF TieInv

\* A change that is sent (Sending): the others are no longer the latest of their kind.
SentAs(op, ids, rule, basis, typed, closes, before) ==
    [nr |-> sends, op |-> op, ids |-> ids, row |-> 1, rule |-> rule, basis |-> basis,
     typed |-> typed, closes |-> closes, before |-> before, state |-> "sent", ver |-> 0,
     latest |-> TRUE, mounted |-> TRUE]

LEMMA TieSending ==
    ASSUME TieInv, NEW op, NEW ids, NEW rule, NEW basis, NEW typed, NEW closes, NEW before,
           R!Sending(op, ids, rule, basis, typed, closes, before),
           SendSound(SentAs(op, ids, rule, basis, typed, closes, before)),
           IsQuery(cache'), Known(fetch'.data)
    PROVE  TieInv'
<1> DEFINE aged(q) == [q EXCEPT !.latest = @ /\ q.op # op]
           new == SentAs(op, ids, rule, basis, typed, closes, before)
<1>1. /\ reqs' = {aged(q) : q \in reqs} \cup {new}
      /\ UNCHANGED <<ruleStored, excused, form>>
  BY DEF R!Sending, R!server, SentAs
<1>2. \A q \in reqs : /\ SendSound(aged(q)) /\ (R!HalfWay(aged(q)) <=> R!HalfWay(q))
                      /\ aged(q).ids = q.ids /\ aged(q).row = q.row
  <2> SUFFICES ASSUME NEW q \in reqs
               PROVE  /\ SendSound(aged(q)) /\ (R!HalfWay(aged(q)) <=> R!HalfWay(q))
                      /\ aged(q).ids = q.ids /\ aged(q).row = q.row
    OBVIOUS
  <2>1. SendSound(q)
    BY DEF TieInv, RulesSound
  <2> QED
    BY <2>1 DEF SendSound, Setting, Single, Ordering, R!HalfWay
<1>3. SendSound(new) /\ ~R!HalfWay(new)
  BY DEF SentAs, R!HalfWay
<1> HIDE DEF aged, new
<1>4. \A p \in reqs' : SendSound(p)
  BY <1>1, <1>2, <1>3
<1>5. RulesSound'
  BY <1>1, <1>4 DEF TieInv, RulesSound, IsTable, IsQuery, Known
<1>6. HalfWayIsOrdered' /\ R!TiesAreExplained'
  <2>1. \A p \in reqs' : R!HalfWay(p) =>
          \E q \in reqs : R!HalfWay(q) /\ q.ids = p.ids /\ q.row = p.row
    BY <1>1, <1>2, <1>3
  <2>2. \A q \in reqs : R!HalfWay(q) => \E p \in reqs' : R!HalfWay(p)
    BY <1>1, <1>2
  <2> QED
    BY <1>1, <2>1, <2>2, TiesStay
<1> QED
  BY <1>5, <1>6 DEF TieInv

\* A switch is turned (handleToggle): the row is written back as it was shown.
LEMMA TieToggle ==
    ASSUME TieInv, R!Toggle
    PROVE  TieInv'
<1>1. PICK i \in R!Openable(cache.data) : R!handleToggle(i)
  BY DEF R!Toggle
<1> DEFINE r == cache.data[i]
           rule == [r EXCEPT !.on = ~@]
           flipped == ~r.on
           basis == [j \in {i} |-> r.prio]
<1>2. i \in Rules /\ r \in R!Rule /\ r.there /\ r.prio > 0
  <2>1. Known(cache.data)
    BY DEF TieInv, RulesSound, IsQuery
  <2>2. Shows(R!sortedRules(cache.data), i)
    BY <2>1, SortedFacts DEF R!Openable, R!Range, Shows, IsOrder
  <2>3. i \in R!In(cache.data)
    BY <2>1, <2>2, SortedFacts
  <2> QED
    BY <2>1, <2>3 DEF R!In, Known, IsTable
<1>3. R!Sending("update", <<i>>, rule, basis, FALSE, FALSE, None)
  BY <1>1 DEF R!handleToggle
<1>4. rule \in R!Rule /\ rule.there /\ rule.prio = r.prio
  <2>1. rule = [r EXCEPT !.on = flipped] /\ flipped \in BOOLEAN
    BY <1>2
  <2> HIDE DEF flipped, rule, r
  <2> QED
    BY <1>2, <2>1 DEF R!Rule
<1>5. SendSound(SentAs("update", <<i>>, rule, basis, FALSE, FALSE, None))
  <2>1. Kept(basis, <<i>>[1], rule.prio)
    BY <1>4 DEF Kept
  <2> HIDE DEF basis, rule
  <2> QED
    BY <1>2, <1>4, <2>1 DEF SendSound, SentAs, Setting, Single
<1>6. UNCHANGED <<cache, fetch>>
  BY DEF R!Toggle, R!reads
<1>7. IsQuery(cache') /\ Known(fetch'.data)
  BY <1>6 DEF TieInv, RulesSound, IsQuery
<1> HIDE DEF rule, basis
<1> QED
  BY <1>3, <1>5, <1>7, TieSending

\* A deletion is confirmed (handleDeleteConfirm), a form is saved (handleSubmit).
LEMMA TieDelete ==
    ASSUME TieInv, R!ConfirmDelete
    PROVE  TieInv'
<1>1. /\ R!Sending("delete", <<form.id>>, R!Absent, form.basis, FALSE, TRUE, None)
      /\ form # None /\ form.mode = "delete" /\ UNCHANGED <<cache, fetch>>
  BY DEF R!ConfirmDelete, R!handleDeleteConfirm, R!reads
<1>2. form.id \in Rules
  BY <1>1 DEF TieInv, RulesSound, FormSound
<1>3. SendSound(SentAs("delete", <<form.id>>, R!Absent, form.basis, FALSE, TRUE, None))
  BY <1>2 DEF SendSound, SentAs, Single
<1>4. IsQuery(cache') /\ Known(fetch'.data)
  BY <1>1 DEF TieInv, RulesSound, IsQuery
<1> QED
  BY <1>1, <1>3, <1>4, TieSending

LEMMA TieSubmit ==
    ASSUME TieInv, R!Submit
    PROVE  TieInv'
<1> DEFINE rule == [there |-> TRUE, prio |-> form.prio, on |-> form.on]
<1>1. /\ form # None /\ form.mode # "delete" /\ UNCHANGED <<cache, fetch>>
      /\ IF form.mode = "edit"
         THEN R!Sending("update", <<form.id>>, rule, form.basis, form.typed, TRUE, None)
         ELSE R!Sending("create", <<>>, rule, form.basis, form.typed, TRUE, None)
  BY DEF R!Submit, R!handleSubmit, R!reads
<1>2. FormSound(form)
  BY <1>1 DEF TieInv, RulesSound
<1>3. rule \in R!Rule /\ rule.there /\ rule.prio > 0 /\ rule.prio = form.prio
  BY <1>1, <1>2 DEF FormSound, R!Rule
<1>4. IsQuery(cache') /\ Known(fetch'.data)
  BY <1>1 DEF TieInv, RulesSound, IsQuery
<1> HIDE DEF rule
<1>5. CASE form.mode = "edit"
  <2>1. <<form.id>>[1] = form.id
    OBVIOUS
  <2>2. SendSound(SentAs("update", <<form.id>>, rule, form.basis, form.typed, TRUE, None))
    BY <1>2, <1>3, <1>5, <2>1 DEF SendSound, SentAs, FormSound, Setting, Single
  <2> QED
    BY <1>1, <1>4, <1>5, <2>2, TieSending
<1>6. CASE form.mode # "edit"
  <2>1. form.mode = "create"
    BY <1>1, <1>2, <1>6 DEF FormSound
  <2>2. SendSound(SentAs("create", <<>>, rule, form.basis, form.typed, TRUE, None))
    BY <1>2, <1>3, <2>1 DEF SendSound, SentAs, FormSound, Setting
  <2> QED
    BY <1>1, <1>4, <1>6, <2>2, TieSending
<1> QED
  BY <1>5, <1>6

\* What is shown while a drag is under way: the rules sent, in their order (onMutate).
LEMMA OptimisticFacts ==
    ASSUME NEW d, Known(d), NEW s, IsOrder(s)
    PROVE  IsTable(R!Optimistic(d, s))
<1> DEFINE place(i) == CHOOSE k \in DOMAIN s : s[k] = i
           t == R!Optimistic(d, s)
<1>1. t = [i \in Rules |-> IF i \in R!In(d) \cap R!Range(s) THEN [d[i] EXCEPT !.prio = place(i)]
                           ELSE R!Absent]
  BY DEF R!Optimistic
<1>2. DOMAIN s = 1..Len(s) /\ Len(s) \in Nat
  BY DEF IsOrder
<1>3. \A i \in R!Range(s) : place(i) \in 1..Len(s)
  BY <1>2 DEF R!Range
<1> HIDE DEF place, t
<1>4. ASSUME NEW i \in Rules
      PROVE  t[i] \in R!Rule /\ (t[i].there => t[i].prio > 0)
  <2>1. CASE i \in R!In(d) \cap R!Range(s)
    <3>1. d[i] \in R!Rule /\ place(i) \in Nat /\ place(i) > 0
      BY <1>2, <1>3, <2>1 DEF R!In, Known, IsTable
    <3>2. t[i] = [d[i] EXCEPT !.prio = place(i)]
      BY <1>1, <2>1
    <3> QED
      BY <3>1, <3>2 DEF R!Rule
  <2>2. CASE i \notin R!In(d) \cap R!Range(s)
    BY <1>1, <2>2 DEF R!Absent, R!Rule
  <2> QED
    BY <2>1, <2>2
<1>5. t \in [Rules -> R!Rule]
  BY <1>1, <1>4
<1> QED
  BY <1>4, <1>5 DEF IsTable, t

\* A rule is dragged (Drag): the order that is sent has every rule that is shown, once.
LEMMA TieDrag ==
    ASSUME TieInv, R!Drag
    PROVE  TieInv'
<1> DEFINE d == cache.data
           s == R!sortedRules(d)
           basis == R!Prio(d)
           before == [cache |-> cache, optimistic |-> optimistic]
<1>0. IsQuery(cache) /\ Known(d)
  BY DEF TieInv, RulesSound, IsQuery
<1>1. PICK ids \in R!handleDragEnd(d) :
        /\ R!Sending("reorder", ids, R!Absent, basis, FALSE, FALSE, before)
        /\ cache' = [cache EXCEPT !.data = R!Optimistic(d, ids)]
        /\ fetch' = R!Idle
  BY DEF R!Drag
<1>2. IsOrder(s) /\ \A i : Shows(s, i) <=> i \in R!In(d)
  BY <1>0, SortedFacts
<1>3. PICK from \in 1..Len(s), to \in 1..Len(s) : ids = R!arrayMove(s, from, to)
  <2>1. DOMAIN s = 1..Len(s)
    BY <1>2 DEF IsOrder
  <2> HIDE DEF s
  <2>2. \E from \in R!Handles(s), to \in DOMAIN s : ids = R!arrayMove(s, from, to)
    BY <1>1 DEF R!handleDragEnd, s
  <2>3. R!Handles(s) \subseteq DOMAIN s
    BY DEF R!Handles
  <2> QED
    BY <2>1, <2>2, <2>3
<1> HIDE DEF s, basis
<1>4. IsOrder(ids) /\ Len(ids) = Len(s) /\ \A i : Shows(s, i) => Shows(ids, i)
  BY <1>2, <1>3, MoveFacts
<1>5. 1 \in 1..Len(ids)
  BY <1>2, <1>3, <1>4 DEF IsOrder
<1>6. basis \in [Rules -> Nat] /\ \A i \in Rules : basis[i] # 0 => Shows(ids, i)
  <2>1. \A i \in Rules : basis[i] # 0 => i \in R!In(d)
    BY DEF basis, R!Prio
  <2>2. basis \in [Rules -> Nat]
    BY <1>0, SuggestedIsHigher DEF basis
  <2> QED
    BY <1>2, <1>4, <2>1, <2>2
<1>7. SendSound(SentAs("reorder", ids, R!Absent, basis, FALSE, FALSE, before))
  BY <1>0, <1>4, <1>5, <1>6 DEF SendSound, SentAs, Ordering
<1>8. IsQuery(cache') /\ Known(fetch'.data)
  <2> DEFINE o == R!Optimistic(d, ids)
  <2>1. IsTable(o)
    BY <1>0, <1>4, OptimisticFacts
  <2>2. cache' = [cache EXCEPT !.data = o]
    BY <1>1
  <2> HIDE DEF o
  <2> QED
    BY <1>0, <1>1, <2>1, <2>2 DEF IsQuery, Known, R!Idle
<1> HIDE DEF before
<1> QED
  BY <1>1, <1>7, <1>8, TieSending

\* One row of an order is written (ReorderRow), and once they all are there are no ties.
Placed(t, i, n) == [t EXCEPT ![i] = IF @.there THEN [@ EXCEPT !.prio = n] ELSE @]

LEMMA RowPlaced ==
    ASSUME NEW t, IsTable(t), NEW s, IsOrder(s), NEW n \in 1..Len(s)
    PROVE  /\ IsTable(Placed(t, s[n], n))
           /\ OrderedUpTo(t, s, n) => OrderedUpTo(Placed(t, s[n], n), s, n + 1)
<1> DEFINE x == s[n]
           row == IF t[x].there THEN [t[x] EXCEPT !.prio = n] ELSE t[x]
           u == Placed(t, x, n)
<1>1. x \in Rules /\ Len(s) \in Nat /\ n \in Nat /\ n > 0
  BY DEF IsOrder
<1>2. u = [t EXCEPT ![x] = row]
  BY DEF Placed
<1>3. /\ row \in R!Rule /\ row.there = t[x].there
      /\ row.there => row.prio = n
  <2>1. t[x] \in R!Rule
    BY <1>1 DEF IsTable
  <2> QED
    BY <1>1, <2>1 DEF R!Rule
<1> HIDE DEF u, row, x
<1>4. \A i \in Rules : u[i] = IF i = x THEN row ELSE t[i]
  BY <1>1, <1>2 DEF IsTable
<1>5. IsTable(u)
  BY <1>1, <1>2, <1>3, <1>4 DEF IsTable
<1>6. ASSUME OrderedUpTo(t, s, n) PROVE OrderedUpTo(u, s, n + 1)
  <2> SUFFICES ASSUME NEW i \in Rules, u[i].there
               PROVE  \E k \in 1..Len(s) : s[k] = i /\ (k < n + 1 => u[i].prio = k)
    BY DEF OrderedUpTo
  <2>1. CASE i = x
    BY <1>1, <1>3, <1>4, <2>1 DEF x
  <2>2. CASE i # x
    <3>1. t[i].there /\ u[i] = t[i]
      BY <1>4, <2>2
    <3>2. PICK k \in 1..Len(s) : s[k] = i /\ (k < n => t[i].prio = k)
      BY <1>6, <3>1 DEF OrderedUpTo
    <3>3. k # n
      BY <2>2, <3>2 DEF x
    <3>4. k < n + 1 => k < n
      BY <1>1, <3>3
    <3> QED
      BY <3>1, <3>2, <3>4
  <2> QED
    BY <2>1, <2>2
<1> QED
  BY <1>5, <1>6 DEF u, x

LEMMA AllPlaced ==
    ASSUME NEW t, NEW s, IsOrder(s), OrderedUpTo(t, s, Len(s) + 1)
    PROVE  NoTies(t)
<1> SUFFICES ASSUME NEW i \in R!In(t), NEW j \in R!In(t), t[i].prio = t[j].prio
             PROVE  i = j
  BY DEF NoTies
<1>1. i \in Rules /\ j \in Rules /\ t[i].there /\ t[j].there /\ Len(s) \in Nat
  BY DEF R!In, IsOrder
<1>2. PICK k \in 1..Len(s) : s[k] = i /\ t[i].prio = k
  BY <1>1 DEF OrderedUpTo
<1>3. PICK m \in 1..Len(s) : s[m] = j /\ t[j].prio = m
  BY <1>1 DEF OrderedUpTo
<1> QED
  BY <1>2, <1>3

\* One change under way is replaced by itself in another state.
LEMMA SendMoves ==
    ASSUME NEW q, SendSound(q)
    PROVE  /\ \A v : LET p == [q EXCEPT !.state = "ok", !.ver = v]
                     IN  SendSound(p) /\ ~R!HalfWay(p)
           /\ LET p == [q EXCEPT !.state = "failed"]
              IN  SendSound(p) /\ ~R!HalfWay(p)
           /\ \A n \in Nat : LET p == [q EXCEPT !.row = n] IN
                /\ q.op = "reorder" /\ n \in 1..Len(q.ids) => SendSound(p)
                /\ p.ids = q.ids /\ p.row = n
<1>1. \A v : LET p == [q EXCEPT !.state = "ok", !.ver = v]
             IN  SendSound(p) /\ ~R!HalfWay(p)
  BY DEF SendSound, Setting, Single, Ordering, R!HalfWay
<1>2. LET p == [q EXCEPT !.state = "failed"]
      IN  SendSound(p) /\ ~R!HalfWay(p)
  BY DEF SendSound, Setting, Single, Ordering, R!HalfWay
<1>3. ASSUME NEW n \in Nat
      PROVE  LET p == [q EXCEPT !.row = n] IN
               /\ q.op = "reorder" /\ n \in 1..Len(q.ids) => SendSound(p)
               /\ p.ids = q.ids /\ p.row = n
  BY DEF SendSound, Setting, Single, Ordering
<1> QED
  BY <1>1, <1>2, <1>3

\* The server stores a rule, a rule written back, or a deletion (ServerStores).
LEMMA TieStores ==
    ASSUME TieInv, NEW q \in reqs, R!ServerStores(q)
    PROVE  TieInv'
<1> DEFINE i == IF q.op = "create" THEN R!New ELSE q.ids[1]
           ok == [q EXCEPT !.state = "ok", !.ver = version + 1]
           failed == [q EXCEPT !.state = "failed"]
<1>0. /\ SendSound(q) /\ q.op # "reorder" /\ q.op \in {"create", "update", "delete"}
      /\ SendSound(ok) /\ ~R!HalfWay(ok) /\ SendSound(failed) /\ ~R!HalfWay(failed)
      /\ ~R!HalfWay(q) /\ excused \in BOOLEAN /\ q.typed \in BOOLEAN
  <2>1. SendSound(q) /\ q.op # "reorder" /\ excused \in BOOLEAN
    BY DEF TieInv, RulesSound, R!ServerStores
  <2>2. q.op \in {"create", "update", "delete"} /\ ~R!HalfWay(q) /\ q.typed \in BOOLEAN
    BY <2>1 DEF SendSound, R!HalfWay
  <2> QED
    BY <2>1, <2>2, SendMoves
<1>1. /\ UNCHANGED <<cache, fetch, form>>
      /\ \/ /\ q.op = "create" \/ ruleStored[q.ids[1]].there
            /\ ruleStored' = [ruleStored EXCEPT ![i] = q.rule]
            /\ excused' = (excused \/ q.typed \/ R!Stale(q) \/ \E r \in reqs : R!HalfWay(r))
            /\ reqs' = (reqs \ {q}) \cup {ok}
         \/ UNCHANGED <<ruleStored, excused>> /\ reqs' = (reqs \ {q}) \cup {failed}
  BY DEF R!ServerStores, R!Update, R!reads, R!server
<1> HIDE DEF ok, failed
<1>2. \A p \in reqs' : SendSound(p) /\ (R!HalfWay(p) => p \in reqs)
  BY <1>0, <1>1 DEF TieInv, RulesSound
<1>3. CASE UNCHANGED <<ruleStored, excused>> /\ reqs' = (reqs \ {q}) \cup {failed}
  <2>1. RulesSound'
    BY <1>1, <1>2, <1>3 DEF TieInv, RulesSound, IsTable, IsQuery, Known
  <2>2. HalfWayIsOrdered' /\ R!TiesAreExplained'
    BY <1>0, <1>2, <1>3, TiesStay
  <2> QED
    BY <2>1, <2>2 DEF TieInv
<1>4. CASE /\ q.op = "create" \/ ruleStored[q.ids[1]].there
           /\ ruleStored' = [ruleStored EXCEPT ![i] = q.rule]
           /\ excused' = (excused \/ q.typed \/ R!Stale(q) \/ \E r \in reqs : R!HalfWay(r))
           /\ reqs' = (reqs \ {q}) \cup {ok}
  <2>1. q.rule \in R!Rule /\ (q.rule.there => q.rule.prio > 0)
    <3>1. CASE q.op = "delete"
      <4>1. q.rule = [there |-> FALSE, prio |-> 0, on |-> FALSE]
        BY <1>0, <3>1 DEF SendSound, R!Absent
      <4> QED
        BY <4>1 DEF R!Rule
    <3>2. CASE q.op \in {"create", "update"}
      BY <1>0, <3>2 DEF SendSound, Setting
    <3> QED
      BY <1>0, <3>1, <3>2
  <2>2. IsTable(ruleStored) /\ IsTable(ruleStored')
    <3>1. IsTable(ruleStored)
      BY DEF TieInv, RulesSound
    <3> HIDE DEF i
    <3> QED
      BY <1>4, <2>1, <3>1 DEF IsTable
  <2>3. excused' \in BOOLEAN
    BY <1>4
  <2>4. RulesSound'
    BY <1>1, <1>2, <2>2, <2>3 DEF TieInv, RulesSound, IsQuery, Known
  <2>5. excused' \/ (~excused /\ ~q.typed /\ ~R!Stale(q) /\ ~ \E r \in reqs : R!HalfWay(r))
    BY <1>4
  <2>6. HalfWayIsOrdered'
    BY <1>2, <2>5 DEF HalfWayIsOrdered
  <2>7. ASSUME ~excused, ~q.typed, ~R!Stale(q), ~ \E r \in reqs : R!HalfWay(r)
        PROVE  NoTies(ruleStored')
    <3>1. NoTies(ruleStored)
      BY <2>7 DEF TieInv, R!TiesAreExplained, NoTies
    <3>2. \A j \in DOMAIN q.basis : q.basis[j] = R!Prio(ruleStored)[j]
      BY <2>7 DEF R!Stale
    <3>3. \A j \in R!In(ruleStored') : j \in Rules /\ (j # i => j \in R!In(ruleStored) /\ ruleStored'[j] = ruleStored[j])
      <4> HIDE DEF i
      <4>1. ruleStored # None /\ ruleStored' # None
        BY <2>2, RuleSizes
      <4>2. \A j \in Rules : j # i => ruleStored'[j] = ruleStored[j]
        BY <1>4, <2>2 DEF IsTable
      <4> QED
        BY <4>1, <4>2 DEF R!In
    <3>4. CASE q.op = "create"
      <4>1. Higher(q.basis, q.rule.prio)
        BY <1>0, <2>7, <3>4 DEF SendSound
      <4>2. \A j \in R!In(ruleStored) : ruleStored[j].prio < q.rule.prio
        <5> TAKE j \in R!In(ruleStored)
        <5>1. j \in Rules /\ R!Prio(ruleStored)[j] = ruleStored[j].prio
          BY DEF R!Prio, R!In
        <5> QED
          BY <3>2, <4>1, <5>1 DEF Higher
      <4>3. i \in Rules => ruleStored'[i].prio = q.rule.prio
        BY <1>4, <2>2 DEF IsTable
      <4> QED
        BY <2>2, <3>1, <3>3, <4>2, <4>3 DEF NoTies, IsTable, R!Rule, R!In
    <3>5. CASE q.op = "update"
      <4>1. i \in Rules /\ ruleStored[i].there /\ Kept(q.basis, i, q.rule.prio)
        BY <1>0, <1>4, <2>7, <3>5 DEF SendSound, Single
      <4>2. ruleStored'[i].prio = ruleStored[i].prio
        <5>1. q.basis[i] = q.rule.prio /\ i \in DOMAIN q.basis
          BY <4>1 DEF Kept
        <5>2. R!Prio(ruleStored)[i] = ruleStored[i].prio
          BY <2>2, <4>1, RuleSizes DEF R!Prio, R!In
        <5>3. ruleStored'[i] = q.rule
          BY <1>4, <2>2, <4>1 DEF IsTable
        <5> QED
          BY <3>2, <5>1, <5>2, <5>3
      <4>3. i \in R!In(ruleStored') => i \in R!In(ruleStored)
        BY <2>2, <4>1, RuleSizes DEF R!In
      <4> HIDE DEF i
      <4> QED
        BY <3>1, <3>3, <4>2, <4>3 DEF NoTies
    <3>6. CASE q.op = "delete"
      <4>1. i \in Rules => ~ruleStored'[i].there
        BY <1>0, <1>4, <2>2, <3>6 DEF SendSound, R!Absent, IsTable
      <4>2. i \notin R!In(ruleStored')
        BY <4>1 DEF R!In
      <4> QED
        BY <3>1, <3>3, <4>2 DEF NoTies
    <3> QED
      BY <1>0, <3>4, <3>5, <3>6
  <2>8. R!TiesAreExplained'
    BY <2>5, <2>7 DEF R!TiesAreExplained, NoTies
  <2> QED
    BY <2>4, <2>6, <2>8 DEF TieInv
<1> QED
  BY <1>1, <1>3, <1>4

\* ReorderRules writes one row (ReorderRow).
LEMMA TieReorderRow ==
    ASSUME TieInv, NEW q \in reqs, R!ReorderRow(q)
    PROVE  TieInv'
<1> DEFINE i == q.ids[q.row]
           last == [q EXCEPT !.state = "ok", !.ver = version + 1]
           n == q.row + 1
           next == [q EXCEPT !.row = n]
           p == IF q.row < Len(q.ids) THEN next ELSE last
           u == Placed(ruleStored, i, q.row)
           free == ~excused /\ ~(q.row = 1 /\ R!Stale(q)) /\ ~ \E r \in reqs \ {q} : R!HalfWay(r)
<1>0. /\ SendSound(q) /\ q.op = "reorder" /\ q.state = "sent" /\ Ordering(q)
      /\ q.typed \in BOOLEAN /\ excused \in BOOLEAN /\ IsTable(ruleStored)
  <2>1. SendSound(q) /\ q.op = "reorder" /\ q.state = "sent" /\ excused \in BOOLEAN /\ IsTable(ruleStored)
    BY DEF TieInv, RulesSound, R!ReorderRow
  <2> QED
    BY <2>1 DEF SendSound
<1>1. /\ ruleStored' = u /\ reqs' = (reqs \ {q}) \cup {p} /\ UNCHANGED <<cache, fetch, form>>
      /\ excused' = (excused \/ q.typed \/ (q.row = 1 /\ R!Stale(q))
                     \/ \E r \in reqs \ {q} : R!HalfWay(r))
  BY DEF R!ReorderRow, R!Update, R!reads, Placed
<1>2. q.row \in 1..Len(q.ids) /\ Len(q.ids) \in Nat /\ IsOrder(q.ids) /\ n \in Nat
  BY <1>0 DEF Ordering, IsOrder
<1>3. /\ IsTable(u)
      /\ OrderedUpTo(ruleStored, q.ids, q.row) => OrderedUpTo(u, q.ids, n)
  BY <1>0, <1>2, RowPlaced
<1>4. /\ SendSound(last) /\ ~R!HalfWay(last)
      /\ n \in 1..Len(q.ids) => SendSound(next)
      /\ next.ids = q.ids /\ next.row = n
  BY <1>0, <1>2, SendMoves
<1> HIDE DEF last, next, u
<1>5. SendSound(p)
  <2>1. q.row < Len(q.ids) => n \in 1..Len(q.ids)
    BY <1>2
  <2> QED
    BY <1>4, <2>1
<1>6. excused' \in BOOLEAN /\ (excused' \/ free)
  BY <1>0, <1>1
<1>7. RulesSound'
  <2>1. \A r \in reqs' : SendSound(r)
    BY <1>1, <1>5 DEF TieInv, RulesSound
  <2>2. IsTable(ruleStored')
    BY <1>1, <1>3
  <2> HIDE DEF p
  <2> QED
    BY <1>1, <1>6, <2>1, <2>2 DEF TieInv, RulesSound, IsQuery, Known
<1>8. ASSUME free PROVE OrderedUpTo(ruleStored, q.ids, q.row)
  <2>1. CASE q.row = 1
    <3>1. \A j \in DOMAIN q.basis : q.basis[j] = R!Prio(ruleStored)[j]
      BY <1>8, <2>1 DEF R!Stale
    <3>2. ASSUME NEW j \in Rules, ruleStored[j].there PROVE Shows(q.ids, j)
      <4>1. R!Prio(ruleStored)[j] = ruleStored[j].prio
        BY <1>0, <3>2, RuleSizes DEF R!Prio, R!In
      <4>2. q.basis[j] > 0 /\ q.basis[j] \in Nat
        BY <1>0, <3>1, <3>2, <4>1 DEF Ordering, IsTable
      <4>3. q.basis[j] # 0
        BY <4>2
      <4> QED
        BY <1>0, <4>3 DEF Ordering
    <3>3. ASSUME NEW j \in Rules, ruleStored[j].there
          PROVE  \E k \in 1..Len(q.ids) : q.ids[k] = j /\ (k < q.row => ruleStored[j].prio = k)
      <4>1. PICK k \in 1..Len(q.ids) : q.ids[k] = j
        BY <3>2, <3>3 DEF Shows
      <4>2. ~(k < q.row)
        BY <1>2, <2>1
      <4> QED
        BY <4>1, <4>2
    <3> QED
      BY <3>3 DEF OrderedUpTo
  <2>2. CASE q.row # 1
    <3>1. R!HalfWay(q)
      BY <1>0, <1>2, <2>2 DEF R!HalfWay
    <3> QED
      BY <1>8, <3>1 DEF TieInv, HalfWayIsOrdered
  <2> QED
    BY <2>1, <2>2
<1>9. HalfWayIsOrdered'
  <2> SUFFICES ASSUME free, NEW r \in reqs', R!HalfWay(r)
               PROVE  OrderedUpTo(u, r.ids, r.row)
    BY <1>1, <1>6 DEF HalfWayIsOrdered, OrderedUpTo
  <2>1. r = p
    BY <1>1
  <2>2. r = next
    BY <1>4, <2>1
  <2> QED
    BY <1>3, <1>4, <1>8, <2>2
<1>10. R!TiesAreExplained'
  <2>1. CASE q.row < Len(q.ids)
    <3>1. R!HalfWay(p)
      <4>1. next.state = q.state
        BY <1>0 DEF next, SendSound
      <4>2. next.row > 1
        BY <1>2, <1>4
      <4> QED
        BY <1>0, <2>1, <4>1, <4>2 DEF R!HalfWay
    <3>2. p \in reqs'
      BY <1>1
    <3> QED
      BY <3>1, <3>2 DEF R!TiesAreExplained, R!HalfWay
  <2>2. CASE ~(q.row < Len(q.ids))
    <3>1. n = Len(q.ids) + 1
      BY <1>2, <2>2
    <3>2. free => NoTies(u)
      BY <1>2, <1>3, <1>8, <3>1, AllPlaced
    <3>3. free => NoTies(ruleStored')
      BY <1>1, <3>2
    <3> QED
      BY <1>6, <3>3 DEF R!TiesAreExplained, NoTies
  <2> QED
    BY <2>1, <2>2
<1> QED
  BY <1>7, <1>9, <1>10 DEF TieInv

\* A request is refused or lost (RequestFails), or answered (Succeeded, Failed).
LEMMA TieFails ==
    ASSUME TieInv, NEW q \in reqs, R!RequestFails(q)
    PROVE  TieInv'
<1> DEFINE failed == [q EXCEPT !.state = "failed"]
<1>1. /\ UNCHANGED <<ruleStored, cache, fetch, form>> /\ reqs' = (reqs \ {q}) \cup {failed}
      /\ excused' = (excused \/ R!HalfWay(q))
  BY DEF R!RequestFails, R!Update, R!server, R!reads
<1>2. SendSound(failed) /\ ~R!HalfWay(failed) /\ excused \in BOOLEAN
  BY SendMoves DEF TieInv, RulesSound
<1> HIDE DEF failed
<1>3. \A p \in reqs' : SendSound(p) /\ (R!HalfWay(p) => p \in reqs)
  BY <1>1, <1>2 DEF TieInv, RulesSound
<1>4. RulesSound'
  BY <1>1, <1>2, <1>3 DEF TieInv, RulesSound, IsTable, IsQuery, Known
<1>5. CASE R!HalfWay(q)
  <2>1. excused'
    BY <1>1, <1>5
  <2> QED
    BY <1>4, <2>1 DEF TieInv, HalfWayIsOrdered, R!TiesAreExplained
<1>6. CASE ~R!HalfWay(q)
  <2>1. excused' = excused
    BY <1>1, <1>2, <1>6
  <2>2. \A r \in reqs : R!HalfWay(r) => r \in reqs'
    BY <1>1, <1>6
  <2>3. HalfWayIsOrdered' /\ R!TiesAreExplained'
    BY <1>1, <1>3, <2>1, <2>2, TiesStay
  <2> QED
    BY <1>4, <2>3 DEF TieInv
<1> QED
  BY <1>5, <1>6

LEMMA TieAnswers ==
    ASSUME TieInv, NEW q \in reqs, R!Succeeded(q) \/ R!Failed(q)
    PROVE  TieInv'
<1>1. /\ UNCHANGED <<ruleStored, excused>> /\ reqs' = reqs \ {q} /\ ~R!HalfWay(q)
      /\ form' \in {form, None}
  BY DEF R!Succeeded, R!Failed, R!server, R!HalfWay, R!Closed
<1>2. IsQuery(cache') /\ Known(fetch'.data)
  <2>1. cache' = cache \/ (q.op = "reorder" /\ cache' = q.before.cache)
    BY DEF R!Succeeded, R!Failed
  <2>2. IsQuery(cache) /\ (q.op = "reorder" => IsQuery(q.before.cache))
    BY DEF TieInv, RulesSound, SendSound, Ordering
  <2>3. \/ fetch' = fetch
        \/ \E c : fetch' = R!Refetched(TRUE, c, fetch)
    BY DEF R!Succeeded, R!Failed
  <2>4. Known(fetch.data)
    BY DEF TieInv, RulesSound
  <2>5. Known(fetch'.data)
    BY <2>3, <2>4 DEF R!Refetched, R!Sent, R!Idle, Known
  <2> QED
    BY <2>1, <2>2, <2>5
<1>3. RulesSound'
  BY <1>1, <1>2 DEF TieInv, RulesSound, IsTable
<1>4. HalfWayIsOrdered' /\ R!TiesAreExplained'
  BY <1>1, TiesStay
<1> QED
  BY <1>3, <1>4 DEF TieInv

\* Another administrator deletes a rule (Elsewhere): no tie comes of that.
LEMMA TieElsewhere ==
    ASSUME TieInv, R!Elsewhere
    PROVE  TieInv'
<1>1. PICK i : ruleStored' = [ruleStored EXCEPT ![i] = R!Absent]
  BY DEF R!Elsewhere
<1>2. UNCHANGED <<excused, cache, fetch, form, reqs>>
  BY DEF R!Elsewhere, R!reads
<1>3. IsTable(ruleStored) /\ ruleStored # None
  BY RuleSizes DEF TieInv, RulesSound
<1>4. \A j \in Rules : ruleStored'[j] = IF j = i THEN R!Absent ELSE ruleStored[j]
  BY <1>1, <1>3 DEF IsTable
<1>5. R!Absent \in R!Rule /\ ~R!Absent.there
  BY DEF R!Absent, R!Rule
<1>6. IsTable(ruleStored') /\ \A j \in Rules : ruleStored'[j].there => ruleStored'[j] = ruleStored[j]
  BY <1>1, <1>3, <1>4, <1>5 DEF IsTable
<1>7. RulesSound'
  BY <1>2, <1>6 DEF TieInv, RulesSound, IsQuery, Known
<1>8. HalfWayIsOrdered'
  BY <1>2, <1>6 DEF TieInv, HalfWayIsOrdered, OrderedUpTo
<1>9. R!TiesAreExplained'
  BY <1>2, <1>3, <1>6 DEF TieInv, R!TiesAreExplained, R!In
<1> QED
  BY <1>7, <1>8, <1>9 DEF TieInv

\* Every step of the rule pages keeps the invariant.
LEMMA TieStep == TieInv /\ R!Next => TieInv'
<1> SUFFICES ASSUME TieInv, R!Next PROVE TieInv'
  OBVIOUS
<1>1. CASE R!ServerReads \/ R!Deliver \/ R!FetchFails
  BY <1>1, TieReads
<1>2. CASE R!Reopen
  BY <1>2, TieReopen
<1>3. CASE R!OpenForm \/ R!CloseForm \/ R!EditForm
  BY <1>3, TieForms
<1>4. CASE R!Toggle \/ R!ConfirmDelete \/ R!Submit \/ R!Drag
  BY <1>4, TieToggle, TieDelete, TieSubmit, TieDrag
<1>5. CASE R!Elsewhere
  BY <1>5, TieElsewhere
<1>6. ASSUME NEW q \in reqs, R!ServerStores(q) \/ R!ReorderRow(q) \/ R!RequestFails(q)
      PROVE  TieInv'
  BY <1>6, TieStores, TieReorderRow, TieFails
<1>7. ASSUME NEW q \in reqs, R!Succeeded(q) \/ R!Failed(q)
      PROVE  TieInv'
  BY <1>7, TieAnswers
<1> QED
  BY <1>1, <1>2, <1>3, <1>4, <1>5, <1>6, <1>7 DEF R!Next

LEMMA TieUntouched ==
    ASSUME TieInv, UNCHANGED <<ruleStored, excused, cache, fetch, form, reqs>>
    PROVE  TieInv'
<1>1. HalfWayIsOrdered' /\ R!TiesAreExplained'
  BY TiesStay
<1>2. RulesSound'
  BY DEF TieInv, RulesSound, IsTable, IsQuery, Known
<1> QED
  BY <1>1, <1>2 DEF TieInv

\* Rules of equal priority come from a priority somebody typed, a page that was not up to
\* date, or a reordering that stopped half way or met another change (ReorderRules writes
\* row by row, without a transaction): nextPriority and handleDragEnd make none.
THEOREM TiesHaveAReason == ConsoleSpec => []TiesAreExplained
<1> DEFINE Inv == part = "rules" => TieInv
<1>1. ConsoleInit => Inv
  BY TieInit DEF ConsoleInit
<1>2. Inv /\ [ConsoleNext]_consoleVars => Inv'
  <2> SUFFICES ASSUME Inv, [ConsoleNext]_consoleVars, part' = "rules" PROVE TieInv'
    OBVIOUS
  <2>1. part = "rules" /\ TieInv
    BY DEF ConsoleNext, consoleVars
  <2>2. CASE R!Next
    BY <2>1, <2>2, TieStep
  <2>3. CASE UNCHANGED consoleVars
    BY <2>1, <2>3, TieUntouched DEF consoleVars, both, ofRules
  <2> QED
    BY <2>1, <2>2, <2>3 DEF ConsoleNext
<1>3. Inv => TiesAreExplained
  BY DEF TieInv, TiesAreExplained
<1> QED
  BY <1>1, <1>2, <1>3, PTL DEF ConsoleSpec
=============================================================================
