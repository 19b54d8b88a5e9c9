-------------------------- MODULE RuleServiceProofs --------------------------
(***************************************************************************)
(* Theorems about RuleService, for any number of applications, rules,      *)
(* administrators and loads.                                               *)
(***************************************************************************)
EXTENDS RuleService, TLAPS

-----------------------------------------------------------------------------
(* The inductive invariant *)

Lists == SUBSET (Ids \X Rows)
Entries == [rules : Lists, age : 0..TTL, behind : BOOLEAN]
Jobs == [pc : {"idle", "invalidate", "delete", "reorder", "rewrite"}, id : Ids \cup {0},
         app : Apps \cup {NoApp}, row : Rows, order : Seq(Ids), place : Nat]
Loads == [pc : {"idle", "app", "store"}, app : Apps \cup {NoApp}, rules : Lists]

Types ==
    /\ DOMAIN db \subseteq Ids /\ db \in [DOMAIN db -> Rows]
    /\ DOMAIN cache \subseteq Apps /\ cache \in [DOMAIN cache -> Entries]
    /\ admin \in [Admins -> Jobs]
    /\ load \in [Loaders -> Loads]
    /\ \A l \in Loaders : load[l].pc # "idle" => load[l].app \in Apps
    /\ requests \in 0..MaxRequests

\* A managed rule has no application.
ManagedIsGlobal(row) == row.scope = "managed" => row.app = NoApp
RowsInScope == \A i \in DOMAIN db : ManagedIsGlobal(db[i])

\* The application a delete or a reorder has read is still that of the row, if there is one.
JobKnowsRow(w) ==
    admin[w].pc \in {"delete", "rewrite"} =>
        /\ admin[w].id \in DOMAIN db \cup gone
        /\ admin[w].id \in DOMAIN db => db[admin[w].id].app = admin[w].app
        /\ admin[w].pc = "rewrite" => (admin[w].row.scope = "managed" => admin[w].app = NoApp)
JobsKnowRows == \A w \in Admins : JobKnowsRow(w)

IInv == Types /\ RowsInScope /\ JobsKnowRows /\ DeletedStaysDeleted /\ StaleIsExplained

-----------------------------------------------------------------------------
(* What the steps are, whatever handler they come from *)

Create == \E w \in Admins, i \in Ids, row \in Rows : ManagedIsGlobal(row) /\ CreateRule(w, i, row)
Edit == \E w \in Admins, i \in Ids, row \in Rows :
            /\ i \in DOMAIN db /\ row.app = db[i].app /\ ManagedIsGlobal(row)
            /\ UpdateRule(w, i, row)
Steps ==
    \/ Create \/ Edit
    \/ \E w \in Admins : Continue(w) \/ HandleReorder(w) \/ \E i \in Ids : DeleteRead(w, i)
    \/ \E l \in Loaders :
        LoadApp(l) \/ LoadFail(l) \/ LoadStore(l) \/ \E a \in Apps : LoadManaged(l, a)
    \/ Tick

\* A form and an application make a row.
LEMMA RowType ==
    ASSUME NEW app \in Apps \cup {NoApp}, NEW form \in Forms
    PROVE  /\ Row(app, form) \in Rows
           /\ [form EXCEPT !.scope = "app"] \in Forms
           /\ Row(app, [form EXCEPT !.scope = "app"]) \in Rows
  BY RuleServiceAssumption DEF Row, Rows, Forms

\* Every handler creates or updates a rule with the application of the row, and gives no
\* application to a managed rule.
LEMMA NextIsSteps == RowsInScope /\ Types /\ Next => Steps
<1> SUFFICES ASSUME RowsInScope, Types, Next PROVE Steps
  OBVIOUS
<1>1. ASSUME NEW w \in Admins, NEW i \in Ids, NEW form \in Forms, HandleCreateRule(w, i, form)
      PROVE  Create
  <2>1. Row(NoApp, form) \in Rows /\ ManagedIsGlobal(Row(NoApp, form))
    BY RowType DEF ManagedIsGlobal, Row
  <2> QED
    BY <1>1, <2>1 DEF Create, HandleCreateRule
<1>2. ASSUME NEW w \in Admins, NEW i \in Ids, NEW form \in Forms, NEW a \in Apps, CreateForApp(w, a, i, form)
      PROVE  Create
  <2> DEFINE row == Row(a, [form EXCEPT !.scope = "app"])
  <2>1. row \in Rows /\ ManagedIsGlobal(row)
    BY RowType DEF ManagedIsGlobal, Row, Forms
  <2> QED
    BY <1>2, <2>1 DEF Create, CreateForApp
<1>3. ASSUME NEW w \in Admins, NEW i \in Ids, NEW form \in Forms, HandleUpdateRule(w, i, form)
      PROVE  Edit
  <2> DEFINE row == Row(db[i].app, [form EXCEPT !.scope = db[i].scope])
  <2>1. i \in DOMAIN db /\ db[i] \in Rows /\ ManagedIsGlobal(db[i])
    BY <1>3 DEF HandleUpdateRule, Types, RowsInScope
  <2>2. row \in Rows /\ row.app = db[i].app /\ ManagedIsGlobal(row)
    BY <2>1, RuleServiceAssumption DEF Row, Rows, Forms, ManagedIsGlobal
  <2>3. UpdateRule(w, i, row)
    BY <1>3 DEF HandleUpdateRule
  <2> QED
    BY <2>1, <2>2, <2>3 DEF Edit
<1>4. ASSUME NEW w \in Admins, NEW i \in Ids, NEW form \in Forms, NEW a \in Apps, UpdateForApp(w, a, i, form)
      PROVE  Edit
  <2> DEFINE row == Row(a, [form EXCEPT !.scope = "app"])
  <2>1. i \in DOMAIN db /\ db[i].app = a /\ UpdateRule(w, i, row)
    BY <1>4 DEF UpdateForApp
  <2>2. row \in Rows /\ row.app = a /\ ManagedIsGlobal(row)
    BY RowType DEF ManagedIsGlobal, Row, Forms
  <2> QED
    BY <2>1, <2>2 DEF Edit
<1>5. ASSUME NEW w \in Admins, NEW i \in Ids, HandleDeleteRule(w, i) \/ \E a \in Apps : DeleteForApp(w, a, i)
      PROVE  DeleteRead(w, i)
  BY <1>5 DEF HandleDeleteRule, DeleteForApp
<1> QED
  BY <1>1, <1>2, <1>3, <1>4, <1>5 DEF Next, Steps

-----------------------------------------------------------------------------
(* What an edit can make stale *)

\* Only row i changes; before and after it is a row of application p, if it is there.
ChangesRow(i, p) ==
    /\ \A k : k # i => (k \in DOMAIN db' <=> k \in DOMAIN db) /\ (k \in DOMAIN db => db'[k] = db[k])
    /\ i \in DOMAIN db => db[i].app = p /\ ManagedIsGlobal(db[i])
    /\ i \in DOMAIN db' => db'[i].app = p /\ ManagedIsGlobal(db'[i])

\* A rule of one application is not among the merged rules of another.
LEMMA OtherAppsKeepTheirRules ==
    ASSUME NEW i, NEW p, ChangesRow(i, p), NEW a \in Apps, a # p, p # NoApp
    PROVE  Merged(a)' = Merged(a)
<1>1. ASSUME NEW k PROVE
        (k \in DOMAIN db' /\ db'[k].scope = "managed" /\ db'[k].enabled)
          <=> (k \in DOMAIN db /\ db[k].scope = "managed" /\ db[k].enabled)
  BY DEF ChangesRow, ManagedIsGlobal
<1>2. ASSUME NEW k PROVE
        (k \in DOMAIN db' /\ db'[k].scope = "app" /\ db'[k].app = a /\ db'[k].enabled)
          <=> (k \in DOMAIN db /\ db[k].scope = "app" /\ db[k].app = a /\ db[k].enabled)
  BY DEF ChangesRow
<1>3. ASSUME NEW k, k # i, k \in DOMAIN db PROVE db'[k] = db[k]
  BY <1>3 DEF ChangesRow
<1>4. ListManaged' = ListManaged
  <2>1. ~(i \in DOMAIN db /\ db[i].scope = "managed")
    BY DEF ChangesRow, ManagedIsGlobal
  <2> QED
    BY <1>1, <1>3, <2>1 DEF ListManaged
<1>5. ListByApp(a)' = ListByApp(a)
  BY <1>2, <1>3 DEF ListByApp, ChangesRow
<1> QED
  BY <1>4, <1>5 DEF Merged

\* An edit of a row of application p that goes on to invalidate p explains what it makes
\* stale, and leaves the other requests' explanations alone.
LEMMA EditIsExplained ==
    ASSUME StaleIsExplained, NEW w \in Admins, admin \in [Admins -> Jobs], admin[w].pc # "invalidate",
           NEW i, NEW p, ChangesRow(i, p), NEW j, j.pc = "invalidate", j.app = p,
           admin' = [admin EXCEPT ![w] = j], cache' = cache
    PROVE  StaleIsExplained'
<1> SUFFICES ASSUME NEW a \in Apps, Usable(a)', cache'[a].rules # Merged(a)'
             PROVE  \/ cache'[a].behind
                    \/ \E u \in Admins : admin'[u].pc = "invalidate" /\ admin'[u].app \in {a, NoApp}
  BY DEF StaleIsExplained
<1>1. admin'[w].pc = "invalidate" /\ admin'[w].app = p
  OBVIOUS
<1>2. CASE p \in {a, NoApp}
  BY <1>1, <1>2
<1>3. CASE p \notin {a, NoApp}
  <2>1. Usable(a) /\ cache[a].rules # Merged(a)
    BY <1>3, OtherAppsKeepTheirRules DEF Usable
  <2>2. CASE cache[a].behind
    BY <2>2
  <2>3. CASE ~cache[a].behind
    <3>1. PICK u \in Admins : admin[u].pc = "invalidate" /\ admin[u].app \in {a, NoApp}
      BY <2>1, <2>3 DEF StaleIsExplained
    <3>2. admin'[u] = admin[u]
      BY <3>1
    <3> QED
      BY <3>1, <3>2
  <2> QED
    BY <2>2, <2>3
<1> QED
  BY <1>2, <1>3

\* A step that touches neither the table nor the cache and leaves the requests about to
\* invalidate where they are keeps every explanation.
LEMMA ExplanationsStay ==
    ASSUME StaleIsExplained, db' = db, cache' = cache,
           \A w \in Admins : admin[w].pc = "invalidate" => admin'[w] = admin[w]
    PROVE  StaleIsExplained'
<1> SUFFICES ASSUME NEW a \in Apps, Usable(a)', cache'[a].rules # Merged(a)'
             PROVE  \/ cache'[a].behind
                    \/ \E u \in Admins : admin'[u].pc = "invalidate" /\ admin'[u].app \in {a, NoApp}
  BY DEF StaleIsExplained
<1>1. Usable(a) /\ cache[a].rules # Merged(a)
  BY DEF Usable, Merged, ListManaged, ListByApp
<1>2. CASE cache[a].behind
  BY <1>2
<1>3. CASE ~cache[a].behind
  BY <1>1, <1>3 DEF StaleIsExplained
<1> QED
  BY <1>2, <1>3

-----------------------------------------------------------------------------
(* The steps of the administrators *)

\* Idle and a request about to invalidate are jobs.
LEMMA JobTypes ==
    /\ Idle \in Jobs
    /\ \A app \in Apps \cup {NoApp} : [Idle EXCEPT !.pc = "invalidate", !.app = app] \in Jobs
    /\ \A i \in Ids, app \in Apps \cup {NoApp} :
            [Idle EXCEPT !.pc = "delete", !.id = i, !.app = app] \in Jobs
<1>1. NoRow \in Rows /\ <<>> \in Seq(Ids)
  BY DEF NoRow, Rows
<1> QED
  BY <1>1 DEF Idle, Jobs

\* CreateRule: the identifier is new, so no request under way means this row.
LEMMA CreateKeeps == IInv /\ Create => IInv'
<1> SUFFICES ASSUME IInv, NEW w \in Admins, NEW i \in Ids, NEW row \in Rows,
                    ManagedIsGlobal(row), CreateRule(w, i, row)
             PROVE  IInv'
  BY DEF Create
<1> DEFINE j == [Idle EXCEPT !.pc = "invalidate", !.app = row.app]
<1>1. /\ i \notin DOMAIN db \cup gone /\ admin[w].pc = "idle"
      /\ db' = [k \in DOMAIN db \cup {i} |-> IF k = i THEN row ELSE db[k]]
      /\ admin' = [admin EXCEPT ![w] = j] /\ requests < MaxRequests /\ requests' = requests + 1
      /\ cache' = cache /\ load' = load /\ gone' = gone
  BY DEF CreateRule, Insert
<1>2. j \in Jobs /\ j.pc = "invalidate" /\ j.app = row.app
  BY JobTypes DEF Rows, Idle
<1> HIDE DEF j
<1>3. Types'
  BY <1>1, <1>2, RuleServiceAssumption DEF IInv, Types
<1>4. RowsInScope' /\ DeletedStaysDeleted'
  BY <1>1 DEF IInv, RowsInScope, DeletedStaysDeleted
<1>5. JobsKnowRows'
  <2> SUFFICES ASSUME NEW u \in Admins PROVE JobKnowsRow(u)'
    BY DEF JobsKnowRows
  <2>1. CASE u = w
    BY <1>1, <1>2, <2>1 DEF JobKnowsRow, IInv, Types
  <2>2. CASE u # w
    BY <1>1, <2>2 DEF JobKnowsRow, JobsKnowRows, IInv, Types
  <2> QED
    BY <2>1, <2>2
<1>6. ChangesRow(i, row.app)
  BY <1>1 DEF ChangesRow
<1>7. StaleIsExplained'
  BY <1>1, <1>2, <1>6, EditIsExplained DEF IInv, Types
<1> QED
  BY <1>3, <1>4, <1>5, <1>7 DEF IInv

\* UpdateRule: the row keeps its application.
LEMMA EditKeeps == IInv /\ Edit => IInv'
<1> SUFFICES ASSUME IInv, NEW w \in Admins, NEW i \in Ids, NEW row \in Rows,
                    i \in DOMAIN db, row.app = db[i].app, ManagedIsGlobal(row), UpdateRule(w, i, row)
             PROVE  IInv'
  BY DEF Edit
<1> DEFINE j == [Idle EXCEPT !.pc = "invalidate", !.app = row.app]
<1>1. /\ admin[w].pc = "idle"
      /\ admin' = [admin EXCEPT ![w] = j] /\ requests < MaxRequests /\ requests' = requests + 1
      /\ cache' = cache /\ load' = load /\ gone' = gone
  BY DEF UpdateRule
<1>2. db' = [db EXCEPT ![i] = row]
  <2>1. [row EXCEPT !.app = db[i].app] = row
    BY DEF Rows
  <2> QED
    BY <2>1 DEF UpdateRule, Update
<1>3. j \in Jobs /\ j.pc = "invalidate" /\ j.app = row.app
  BY JobTypes DEF Rows, Idle
<1> HIDE DEF j
<1>4. Types'
  BY <1>1, <1>2, <1>3, RuleServiceAssumption DEF IInv, Types
<1>5. RowsInScope' /\ DeletedStaysDeleted'
  BY <1>1, <1>2 DEF IInv, Types, RowsInScope, DeletedStaysDeleted
<1>6. JobsKnowRows'
  <2> SUFFICES ASSUME NEW u \in Admins PROVE JobKnowsRow(u)'
    BY DEF JobsKnowRows
  <2>1. CASE u = w
    BY <1>1, <1>3, <2>1 DEF JobKnowsRow, IInv, Types
  <2>2. CASE u # w
    BY <1>1, <1>2, <2>2 DEF JobKnowsRow, JobsKnowRows, IInv, Types
  <2> QED
    BY <2>1, <2>2
<1>7. ChangesRow(i, row.app)
  BY <1>2 DEF ChangesRow, IInv, Types, RowsInScope
<1>8. StaleIsExplained'
  BY <1>1, <1>3, <1>7, EditIsExplained DEF IInv, Types
<1> QED
  BY <1>4, <1>5, <1>6, <1>8 DEF IInv

\* A request moves on without touching the table or the cache.
LEMMA MoveKeeps ==
    ASSUME IInv, NEW w \in Admins, NEW j \in Jobs, admin[w].pc # "invalidate",
           admin' = [admin EXCEPT ![w] = j], requests' \in 0..MaxRequests,
           UNCHANGED <<db, cache, load, gone>>,
           j.pc \in {"delete", "rewrite"} =>
              /\ j.id \in DOMAIN db \cup gone
              /\ j.id \in DOMAIN db => db[j.id].app = j.app
              /\ j.pc = "rewrite" => (j.row.scope = "managed" => j.app = NoApp)
    PROVE  IInv'
<1>1. Types'
  BY DEF IInv, Types
<1>2. RowsInScope' /\ DeletedStaysDeleted'
  BY DEF IInv, RowsInScope, DeletedStaysDeleted
<1>3. JobsKnowRows'
  <2> SUFFICES ASSUME NEW u \in Admins PROVE JobKnowsRow(u)'
    BY DEF JobsKnowRows
  <2>1. CASE u = w
    BY <2>1 DEF JobKnowsRow, IInv, Types
  <2>2. CASE u # w
    BY <2>2 DEF JobKnowsRow, JobsKnowRows, IInv, Types
  <2> QED
    BY <2>1, <2>2
<1>4. StaleIsExplained'
  BY ExplanationsStay DEF IInv, Types
<1> QED
  BY <1>1, <1>2, <1>3, <1>4 DEF IInv

\* DeleteRule reads the row.
LEMMA DeleteReadKeeps ==
    ASSUME IInv, NEW w \in Admins, NEW i \in Ids, DeleteRead(w, i)
    PROVE  IInv'
<1> DEFINE j == [Idle EXCEPT !.pc = "delete", !.id = i, !.app = db[i].app]
<1>1. /\ i \in DOMAIN db /\ admin[w].pc = "idle" /\ admin' = [admin EXCEPT ![w] = j]
      /\ requests < MaxRequests /\ requests' = requests + 1 /\ UNCHANGED <<db, cache, load, gone>>
  BY DEF DeleteRead
<1>2. db[i].app \in Apps \cup {NoApp}
  BY <1>1 DEF IInv, Types, Rows
<1>3. j \in Jobs /\ j.pc = "delete" /\ j.id = i /\ j.app = db[i].app
  BY <1>2, JobTypes DEF Idle
<1>4. requests' \in 0..MaxRequests
  BY <1>1, RuleServiceAssumption DEF IInv, Types
<1> HIDE DEF j
<1> QED
  BY <1>1, <1>3, <1>4, MoveKeeps

\* DeleteRule deletes it: the row is of the application that was read.
LEMMA DeleteRowKeeps ==
    ASSUME IInv, NEW w \in Admins, DeleteRow(w)
    PROVE  IInv'
<1> DEFINE i == admin[w].id
           j == [admin[w] EXCEPT !.pc = "invalidate"]
<1>1. admin[w] \in Jobs /\ admin[w].pc = "delete"
  BY DEF DeleteRow, IInv, Types
<1>2. CASE i \notin DOMAIN db
  <2>1. admin' = [admin EXCEPT ![w] = Idle] /\ UNCHANGED <<db, cache, load, gone, requests>>
    BY <1>2 DEF DeleteRow
  <2>2. Idle \in Jobs /\ Idle.pc = "idle" /\ requests' \in 0..MaxRequests
    BY <2>1, JobTypes DEF Idle, IInv, Types
  <2> QED
    BY <1>1, <2>1, <2>2, MoveKeeps
<1>3. CASE i \in DOMAIN db
  <2>1. /\ db' = [k \in DOMAIN db \ {i} |-> db[k]] /\ gone' = gone \cup {i}
        /\ admin' = [admin EXCEPT ![w] = j]
        /\ cache' = cache /\ load' = load /\ requests' = requests
    BY <1>1, <1>3 DEF DeleteRow, IInv, Types
  <2>2. j \in Jobs /\ j.pc = "invalidate" /\ j.app = admin[w].app
    BY <1>1 DEF Jobs
  <2>3. db[i].app = admin[w].app
    BY <1>1, <1>3 DEF IInv, JobsKnowRows, JobKnowsRow
  <2> HIDE DEF i, j
  <2>4. Types'
    BY <2>1, <2>2 DEF IInv, Types
  <2>5. RowsInScope' /\ DeletedStaysDeleted'
    BY <2>1 DEF IInv, RowsInScope, DeletedStaysDeleted
  <2>6. JobsKnowRows'
    <3> SUFFICES ASSUME NEW u \in Admins PROVE JobKnowsRow(u)'
      BY DEF JobsKnowRows
    <3>1. CASE u = w
      BY <2>1, <2>2, <3>1 DEF JobKnowsRow, IInv, Types
    <3>2. CASE u # w
      BY <2>1, <3>2 DEF JobKnowsRow, JobsKnowRows, IInv, Types
    <3> QED
      BY <3>1, <3>2
  <2>7. ChangesRow(i, admin[w].app)
    BY <1>3, <2>1, <2>3 DEF ChangesRow, IInv, RowsInScope
  <2>8. StaleIsExplained'
    BY <1>1, <2>1, <2>2, <2>7, EditIsExplained DEF IInv, Types
  <2> QED
    BY <2>4, <2>5, <2>6, <2>8 DEF IInv
<1> QED
  BY <1>2, <1>3

\* A reorder begins,
LEMMA ReorderKeeps ==
    ASSUME IInv, NEW w \in Admins, HandleReorder(w)
    PROVE  IInv'
<1>1. PICK order \in Orders : ReorderRules(w, order)
  BY DEF HandleReorder
<1> DEFINE j == [Idle EXCEPT !.pc = "reorder", !.order = order, !.place = 1]
<1>2. /\ admin[w].pc = "idle" /\ admin' = [admin EXCEPT ![w] = j]
      /\ requests < MaxRequests /\ requests' = requests + 1 /\ UNCHANGED <<db, cache, load, gone>>
  BY <1>1 DEF ReorderRules
<1>3. j \in Jobs /\ j.pc = "reorder"
  <2>1. order \in Seq(Ids) /\ NoRow \in Rows
    BY RuleServiceAssumption DEF NoRow, Rows
  <2> QED
    BY <2>1 DEF Idle, Jobs
<1>4. requests' \in 0..MaxRequests
  BY <1>2, RuleServiceAssumption DEF IInv, Types
<1> HIDE DEF j
<1> QED
  BY <1>2, <1>3, <1>4, MoveKeeps

\* reads a row
LEMMA ReorderReadKeeps ==
    ASSUME IInv, NEW w \in Admins, ReorderRead(w)
    PROVE  IInv'
<1> DEFINE job == admin[w]
           i == job.order[job.place]
           new == [db[i] EXCEPT !.priority = job.place * 10]
           next == [job EXCEPT !.place = job.place + 1]
           read == [job EXCEPT !.pc = "rewrite", !.id = i, !.app = db[i].app, !.row = new]
<1>1. /\ job \in Jobs /\ job.pc = "reorder" /\ UNCHANGED <<db, cache, load, requests, gone>>
      /\ requests' \in 0..MaxRequests
  BY DEF ReorderRead, IInv, Types
<1>2. \/ admin' = [admin EXCEPT ![w] = Idle]
      \/ admin' = [admin EXCEPT ![w] = next]
      \/ i \in DOMAIN db /\ admin' = [admin EXCEPT ![w] = read]
  BY DEF ReorderRead
<1>3. CASE admin' = [admin EXCEPT ![w] = Idle]
  <2>1. Idle \in Jobs /\ Idle.pc = "idle"
    BY JobTypes DEF Idle
  <2> QED
    BY <1>1, <1>3, <2>1, MoveKeeps
<1>4. CASE admin' = [admin EXCEPT ![w] = next]
  <2>1. next \in Jobs /\ next.pc = "reorder"
    BY <1>1 DEF Jobs
  <2> HIDE DEF next
  <2> QED
    BY <1>1, <1>4, <2>1, MoveKeeps
<1>5. CASE i \in DOMAIN db /\ admin' = [admin EXCEPT ![w] = read]
  <2>1. db[i] \in Rows /\ ManagedIsGlobal(db[i]) /\ i \in Ids
    BY <1>5 DEF IInv, Types, RowsInScope
  <2>2. job.place * 10 \in Nat
    BY <1>1 DEF Jobs
  <2>3. new \in Rows /\ new.scope = db[i].scope
    BY <2>1, <2>2 DEF Rows
  <2>4. db[i].app \in Apps \cup {NoApp}
    BY <2>1 DEF Rows
  <2> HIDE DEF new, i
  <2>5. read \in Jobs /\ read.pc = "rewrite" /\ read.id = i /\ read.app = db[i].app /\ read.row = new
    BY <1>1, <2>1, <2>3, <2>4 DEF Jobs
  <2> HIDE DEF read
  <2> QED
    BY <1>1, <1>5, <2>1, <2>3, <2>5, MoveKeeps DEF ManagedIsGlobal
<1> QED
  BY <1>2, <1>3, <1>4, <1>5

\* and writes it back: the row is still of the application that was read.
LEMMA ReorderWriteKeeps ==
    ASSUME IInv, NEW w \in Admins, ReorderWrite(w)
    PROVE  IInv'
<1> DEFINE job == admin[w]
           i == job.id
           row == [job.row EXCEPT !.app = db[i].app]
           j == [job EXCEPT !.pc = "invalidate", !.row = NoRow]
<1>1. /\ job \in Jobs /\ job.pc = "rewrite" /\ UNCHANGED <<cache, load, requests, gone>>
      /\ requests' \in 0..MaxRequests
  BY DEF ReorderWrite, IInv, Types
<1>2. CASE i \notin DOMAIN db /\ UNCHANGED db /\ admin' = [admin EXCEPT ![w] = Idle]
  <2>1. Idle \in Jobs /\ Idle.pc = "idle"
    BY JobTypes DEF Idle
  <2> QED
    BY <1>1, <1>2, <2>1, MoveKeeps
<1>3. CASE i \in DOMAIN db /\ db' = [db EXCEPT ![i] = row] /\ admin' = [admin EXCEPT ![w] = j]
  <2>1. /\ db[i].app = job.app /\ (job.row.scope = "managed" => job.app = NoApp)
        /\ db[i].app \in Apps \cup {NoApp} /\ job.row \in Rows
    BY <1>1, <1>3 DEF IInv, Types, JobsKnowRows, JobKnowsRow, Jobs
  <2>2. row \in Rows /\ row.app = job.app /\ ManagedIsGlobal(row)
    BY <2>1 DEF Rows, ManagedIsGlobal
  <2>3. j \in Jobs /\ j.pc = "invalidate" /\ j.app = job.app
    <3>1. NoRow \in Rows
      BY DEF NoRow, Rows
    <3> QED
      BY <1>1, <3>1 DEF Jobs
  <2> HIDE DEF j, row, i
  <2>4. Types'
    BY <1>1, <1>3, <2>2, <2>3 DEF IInv, Types
  <2>5. RowsInScope' /\ DeletedStaysDeleted'
    BY <1>1, <1>3, <2>2 DEF IInv, Types, RowsInScope, DeletedStaysDeleted
  <2>6. JobsKnowRows'
    <3> SUFFICES ASSUME NEW u \in Admins PROVE JobKnowsRow(u)'
      BY DEF JobsKnowRows
    <3>1. CASE u = w
      BY <1>1, <1>3, <2>3, <3>1 DEF JobKnowsRow, IInv, Types
    <3>2. CASE u # w
      BY <1>1, <1>3, <2>1, <2>2, <3>2 DEF JobKnowsRow, JobsKnowRows, IInv, Types
    <3> QED
      BY <3>1, <3>2
  <2>7. ChangesRow(i, job.app)
    BY <1>3, <2>1, <2>2 DEF ChangesRow, IInv, Types, RowsInScope
  <2>8. StaleIsExplained'
    BY <1>1, <1>3, <2>3, <2>7, EditIsExplained DEF IInv, Types
  <2> QED
    BY <2>4, <2>5, <2>6, <2>8 DEF IInv
<1> QED
  BY <1>2, <1>3 DEF ReorderWrite, Update

\* InvalidateCache: an entry that stays was not this request's to explain.
LEMMA InvalidateKeeps ==
    ASSUME IInv, NEW w \in Admins, InvalidateCache(w)
    PROVE  IInv'
<1> DEFINE next == [admin[w] EXCEPT !.pc = "reorder", !.place = admin[w].place + 1]
           p == admin[w].app
<1>1. /\ admin[w] \in Jobs /\ admin[w].pc = "invalidate"
      /\ db' = db /\ load' = load /\ requests' = requests /\ gone' = gone
  BY DEF InvalidateCache, IInv, Types
<1>2. next \in Jobs /\ next.pc = "reorder"
  <2>1. admin[w].place + 1 \in Nat
    BY <1>1 DEF Jobs
  <2> QED
    BY <1>1, <2>1 DEF Jobs
<1>3. PICK j \in Jobs : j.pc \in {"idle", "reorder"} /\ admin' = [admin EXCEPT ![w] = j]
  <2>1. CASE admin[w].order = <<>>
    BY <2>1, JobTypes DEF InvalidateCache, AfterInvalidate, Idle
  <2>2. CASE admin[w].order # <<>>
    <3>1. admin' = [admin EXCEPT ![w] = next]
      BY <2>2 DEF InvalidateCache, AfterInvalidate
    <3> HIDE DEF next
    <3> QED
      BY <1>2, <3>1
  <2> QED
    BY <2>1, <2>2
<1>4. /\ \A a \in DOMAIN cache' : a \in DOMAIN cache /\ cache'[a] = cache[a] /\ p \notin {a, NoApp}
      /\ cache' \in [DOMAIN cache' -> Entries]
  <2>1. CASE p = NoApp
    BY <2>1 DEF InvalidateCache, NoRules
  <2>2. CASE p # NoApp
    BY <2>2 DEF InvalidateCache, IInv, Types
  <2> QED
    BY <2>1, <2>2
<1> HIDE DEF next
<1>5. Types'
  BY <1>1, <1>3, <1>4 DEF IInv, Types
<1>6. RowsInScope' /\ DeletedStaysDeleted'
  BY <1>1 DEF IInv, RowsInScope, DeletedStaysDeleted
<1>7. JobsKnowRows'
  BY <1>1, <1>3 DEF IInv, Types, JobsKnowRows, JobKnowsRow
<1>8. StaleIsExplained'
  <2> SUFFICES ASSUME NEW a \in Apps, Usable(a)', cache'[a].rules # Merged(a)', ~cache'[a].behind
               PROVE  \E u \in Admins : admin'[u].pc = "invalidate" /\ admin'[u].app \in {a, NoApp}
    BY DEF StaleIsExplained
  <2>1. a \in DOMAIN cache' /\ Usable(a) /\ cache[a].rules # Merged(a) /\ ~cache[a].behind
    BY <1>1, <1>4 DEF Usable, Merged, ListManaged, ListByApp
  <2>2. PICK u \in Admins : admin[u].pc = "invalidate" /\ admin[u].app \in {a, NoApp}
    BY <2>1 DEF IInv, StaleIsExplained
  <2>3. u # w
    BY <1>4, <2>1, <2>2
  <2> QED
    BY <1>3, <2>2, <2>3 DEF IInv, Types
<1> QED
  BY <1>5, <1>6, <1>7, <1>8 DEF IInv

-----------------------------------------------------------------------------
(* The steps of the loads, and time *)

\* The lists a load asks for.
LEMMA ListTypes ==
    ASSUME Types
    PROVE  ListManaged \in Lists /\ \A a \in Apps : ListByApp(a) \in Lists
  BY DEF Types, Lists, ListManaged, ListByApp

\* A load asks the database or gives up.
LEMMA LoadKeeps ==
    ASSUME IInv, NEW l \in Loaders,
           LoadApp(l) \/ LoadFail(l) \/ \E a \in Apps : LoadManaged(l, a)
    PROVE  IInv'
<1>1. UNCHANGED <<db, cache, admin, requests, gone>>
  BY DEF LoadApp, LoadFail, LoadManaged
<1>2. ListManaged \in Lists /\ \A a \in Apps : ListByApp(a) \in Lists
  BY ListTypes DEF IInv
<1>3. PICK t \in Loads : load' = [load EXCEPT ![l] = t] /\ (t.pc # "idle" => t.app \in Apps)
  <2>1. CASE LoadApp(l)
    <3> DEFINE t == [load[l] EXCEPT !.pc = "store", !.rules = @ \cup ListByApp(load[l].app)]
    <3>1. load[l] \in Loads /\ load[l].app \in Apps
      BY <2>1 DEF LoadApp, IInv, Types
    <3>2. load[l].rules \cup ListByApp(load[l].app) \in Lists
      BY <1>2, <3>1 DEF Loads, Lists
    <3>3. t \in Loads /\ t.pc = "store" /\ t.app \in Apps
      BY <3>1, <3>2 DEF Loads
    <3>4. load' = [load EXCEPT ![l] = t]
      BY <2>1 DEF LoadApp, IInv, Types
    <3> QED
      BY <3>3, <3>4
  <2>2. CASE LoadFail(l)
    <3>1. Resting \in Loads /\ Resting.pc = "idle"
      BY DEF Resting, Loads, Lists
    <3> QED
      BY <2>2, <3>1 DEF LoadFail
  <2>3. ASSUME NEW a \in Apps, LoadManaged(l, a)
        PROVE  \E t \in Loads : load' = [load EXCEPT ![l] = t] /\ (t.pc # "idle" => t.app \in Apps)
    <3> DEFINE t == [pc |-> "app", app |-> a, rules |-> ListManaged]
    <3>1. t \in Loads /\ t.app \in Apps
      BY <1>2 DEF Loads
    <3> QED
      BY <2>3, <3>1 DEF LoadManaged
  <2> QED
    BY <2>1, <2>2, <2>3
<1>4. Types'
  BY <1>1, <1>3 DEF IInv, Types
<1>5. RowsInScope' /\ JobsKnowRows' /\ DeletedStaysDeleted'
  BY <1>1 DEF IInv, RowsInScope, JobsKnowRows, JobKnowsRow, DeletedStaysDeleted
<1>6. StaleIsExplained'
  BY <1>1, ExplanationsStay DEF IInv
<1> QED
  BY <1>4, <1>5, <1>6 DEF IInv

\* A load stores its list, and says whether it is behind.
LEMMA LoadStoreKeeps ==
    ASSUME IInv, NEW l \in Loaders, LoadStore(l)
    PROVE  IInv'
<1> DEFINE a == load[l].app
           entry == [rules |-> load[l].rules, age |-> 0, behind |-> load[l].rules # Merged(a)]
<1>1. /\ a \in Apps /\ load[l].rules \in Lists
      /\ db' = db /\ admin' = admin /\ requests' = requests /\ gone' = gone
      /\ cache' = [b \in DOMAIN cache \cup {a} |-> IF b = a THEN entry ELSE cache[b]]
      /\ load' = [load EXCEPT ![l] = Resting]
  BY DEF LoadStore, IInv, Types, Loads
<1>2. entry \in Entries /\ entry.rules = load[l].rules /\ (entry.behind <=> load[l].rules # Merged(a))
  <2> DEFINE late == load[l].rules # Merged(a)
  <2>1. late \in BOOLEAN /\ 0 \in 0..TTL
    <3>1. 0 \in 0..TTL
      BY RuleServiceAssumption
    <3> QED
      BY <3>1, Zenon
  <2>2. entry = [rules |-> load[l].rules, age |-> 0, behind |-> late]
    OBVIOUS
  <2> HIDE DEF late, entry, a
  <2>3. entry \in Entries /\ entry.rules = load[l].rules /\ entry.behind = late
    BY <1>1, <2>1, <2>2 DEF Entries
  <2> QED
    BY <2>3 DEF late
<1>3. Resting \in Loads /\ Resting.pc = "idle"
  BY DEF Resting, Loads, Lists
<1> HIDE DEF entry
<1>4. Types'
  BY <1>1, <1>2, <1>3 DEF IInv, Types
<1>5. RowsInScope' /\ JobsKnowRows' /\ DeletedStaysDeleted'
  BY <1>1 DEF IInv, RowsInScope, JobsKnowRows, JobKnowsRow, DeletedStaysDeleted
<1>6. StaleIsExplained'
  <2> SUFFICES ASSUME NEW b \in Apps, Usable(b)', cache'[b].rules # Merged(b)'
               PROVE  \/ cache'[b].behind
                      \/ \E u \in Admins : admin'[u].pc = "invalidate" /\ admin'[u].app \in {b, NoApp}
    BY DEF StaleIsExplained
  <2>1. Merged(b)' = Merged(b)
    BY <1>1 DEF Merged, ListManaged, ListByApp
  <2>2. CASE b = a
    BY <1>1, <1>2, <2>1, <2>2
  <2>3. CASE b # a
    <3>1. b \in DOMAIN cache /\ cache'[b] = cache[b]
      BY <1>1, <2>3 DEF Usable
    <3>2. Usable(b) /\ cache[b].rules # Merged(b)
      BY <2>1, <3>1 DEF Usable
    <3> QED
      BY <1>1, <3>1, <3>2 DEF IInv, StaleIsExplained
  <2> QED
    BY <2>2, <2>3
<1> QED
  BY <1>4, <1>5, <1>6 DEF IInv

\* Time makes entries older, never usable again.
LEMMA TickKeeps == IInv /\ Tick => IInv'
<1> SUFFICES ASSUME IInv, Tick PROVE IInv'
  OBVIOUS
<1> DEFINE old(a) == [cache[a] EXCEPT !.age = IF @ < TTL THEN @ + 1 ELSE @]
<1>1. UNCHANGED <<db, admin, load, requests, gone>> /\ cache' = [a \in DOMAIN cache |-> old(a)]
  BY DEF Tick
<1>2. ASSUME NEW a \in DOMAIN cache
      PROVE  /\ old(a) \in Entries /\ old(a).rules = cache[a].rules /\ old(a).behind = cache[a].behind
             /\ old(a).age < TTL => cache[a].age < TTL
  <2>1. cache[a] \in Entries
    BY DEF IInv, Types
  <2> QED
    BY <2>1, RuleServiceAssumption DEF Entries
<1> HIDE DEF old
<1>3. Types'
  BY <1>1, <1>2 DEF IInv, Types
<1>4. RowsInScope' /\ JobsKnowRows' /\ DeletedStaysDeleted'
  BY <1>1 DEF IInv, RowsInScope, JobsKnowRows, JobKnowsRow, DeletedStaysDeleted
<1>5. StaleIsExplained'
  <2> SUFFICES ASSUME NEW b \in Apps, Usable(b)', cache'[b].rules # Merged(b)'
               PROVE  \/ cache'[b].behind
                      \/ \E u \in Admins : admin'[u].pc = "invalidate" /\ admin'[u].app \in {b, NoApp}
    BY DEF StaleIsExplained
  <2>1. Merged(b)' = Merged(b)
    BY <1>1 DEF Merged, ListManaged, ListByApp
  <2>2. b \in DOMAIN cache /\ cache'[b] = old(b)
    BY <1>1 DEF Usable
  <2>3. Usable(b) /\ cache[b].rules # Merged(b) /\ cache'[b].behind = cache[b].behind
    BY <1>2, <2>1, <2>2 DEF Usable
  <2> QED
    BY <1>1, <2>3 DEF IInv, StaleIsExplained
<1> QED
  BY <1>3, <1>4, <1>5 DEF IInv

-----------------------------------------------------------------------------
(* The theorems *)

\* The invariant holds at the start.
LEMMA InitKeeps == Init => IInv
<1> SUFFICES ASSUME Init PROVE IInv
  OBVIOUS
<1>1. Types
  <2>1. Resting \in Loads /\ Resting.pc = "idle"
    BY DEF Resting, Loads, Lists
  <2>2. DOMAIN NoRules = {} /\ NoRules \in [{} -> Rows] /\ NoRules \in [{} -> Entries]
    BY DEF NoRules
  <2>3. DOMAIN db \subseteq Ids /\ db \in [DOMAIN db -> Rows]
    BY <2>2 DEF Init
  <2>4. DOMAIN cache \subseteq Apps /\ cache \in [DOMAIN cache -> Entries]
    BY <2>2 DEF Init
  <2>5. admin \in [Admins -> Jobs]
    BY JobTypes DEF Init
  <2>6. load \in [Loaders -> Loads] /\ \A l \in Loaders : load[l].pc # "idle" => load[l].app \in Apps
    BY <2>1 DEF Init
  <2>7. requests \in 0..MaxRequests
    BY RuleServiceAssumption DEF Init
  <2> QED
    BY <2>3, <2>4, <2>5, <2>6, <2>7 DEF Types
<1>2. RowsInScope /\ DeletedStaysDeleted /\ StaleIsExplained
  BY DEF Init, NoRules, RowsInScope, DeletedStaysDeleted, StaleIsExplained, Usable
<1>3. JobsKnowRows
  BY DEF Init, Idle, JobsKnowRows, JobKnowsRow
<1> QED
  BY <1>1, <1>2, <1>3 DEF IInv

\* Every step keeps it.
LEMMA StepKeeps == IInv /\ [Next]_vars => IInv'
<1> SUFFICES ASSUME IInv, [Next]_vars PROVE IInv'
  OBVIOUS
<1>1. CASE Next
  <2>1. Steps
    BY <1>1, NextIsSteps DEF IInv
  <2>2. ASSUME NEW w \in Admins, Continue(w) PROVE IInv'
    BY <2>2, DeleteRowKeeps, ReorderReadKeeps, ReorderWriteKeeps, InvalidateKeeps DEF Continue
  <2> QED
    BY <2>1, <2>2, CreateKeeps, EditKeeps, ReorderKeeps, DeleteReadKeeps, LoadKeeps, LoadStoreKeeps,
       TickKeeps DEF Steps
<1>2. CASE UNCHANGED vars
  <2>1. Types' /\ RowsInScope' /\ JobsKnowRows' /\ DeletedStaysDeleted'
    BY <1>2 DEF vars, IInv, Types, RowsInScope, JobsKnowRows, JobKnowsRow, DeletedStaysDeleted
  <2>2. StaleIsExplained'
    BY <1>2, ExplanationsStay DEF vars, IInv
  <2> QED
    BY <2>1, <2>2 DEF IInv
<1> QED
  BY <1>1, <1>2

\* The inductive invariant: types, the scope of rows, what requests under way know of
\* their rows, and the two properties.
THEOREM Invariance == Spec => []IInv
<1> QED
  BY InitKeeps, StepKeeps, PTL DEF Spec

\* Rows and cached lists keep their types.
THEOREM TypesHold == Spec => []TypeOK
<1>1. IInv => TypeOK
  BY DEF IInv, Types, TypeOK, Entries, Lists
<1> QED
  BY <1>1, Invariance, PTL

\* However many administrators edit, delete and reorder the rules of however many
\* applications, a cached list that is behind the table is one that a load stored late or
\* one about to be invalidated (LoadMergedRules, InvalidateCache).
THEOREM StaleListsAreExplained == Spec => []StaleIsExplained
<1>1. IInv => StaleIsExplained
  BY DEF IInv
<1> QED
  BY <1>1, Invariance, PTL

\* No update or reorder brings a deleted rule back (DeleteRule, ReorderRules).
THEOREM DeletedRulesStayDeleted == Spec => []DeletedStaysDeleted
<1>1. IInv => DeletedStaysDeleted
  BY DEF IInv
<1> QED
  BY <1>1, Invariance, PTL

-----------------------------------------------------------------------------
(* Edits take effect *)

AtRest == \A w \in Admins : admin[w].pc = "idle"

\* An application is served what the table says, unless its list has expired.
Right(a) == Usable(a) => cache[a].rules = Merged(a)

\* Loads for an application that read the table before it was what it is.
Stale(l, a) ==
    /\ load[l].app = a
    /\ \/ load[l].pc = "app" /\ load[l].rules # ListManaged
       \/ load[l].pc = "store" /\ load[l].rules # Merged(a)
StaleLoads(a) == {l \in Loaders : Stale(l, a)}

\* What a step makes of the list of an application while administrators rest: no load
\* becomes stale, and unless one that was ends, a right list stays right and a wrong one
\* only gets older.
Catches(a) ==
    /\ StaleLoads(a)' \subseteq StaleLoads(a)
    /\ StaleLoads(a)' = StaleLoads(a) =>
        /\ Right(a) => Right(a)'
        /\ ~Right(a)' => cache'[a].age >= cache[a].age /\ (Tick => cache'[a].age > cache[a].age)
CatchesUp == AtRest /\ AtRest' => \A a \in Apps : Catches(a)

\* The lists in the table are those of the table.
LEMMA SameTable ==
    ASSUME UNCHANGED db
    PROVE  ListManaged' = ListManaged /\ \A a : Merged(a)' = Merged(a) /\ ListByApp(a)' = ListByApp(a)
BY DEF ListManaged, ListByApp, Merged

\* A load that reads nothing stale does not become so, and a step that moves one load.
LEMMA NoLoadTurnsStale ==
    ASSUME Types, UNCHANGED db, NEW a, NEW l \in Loaders, NEW j,
           load' = [load EXCEPT ![l] = j], Stale(l, a)' => Stale(l, a)
    PROVE  StaleLoads(a)' \subseteq StaleLoads(a)
<1>1. \A k \in Loaders : k # l => load'[k] = load[k]
  BY DEF Types
<1>2. \A k \in Loaders : k # l => (Stale(k, a)' <=> Stale(k, a))
  BY <1>1, SameTable DEF Stale
<1> QED
  BY <1>2 DEF StaleLoads

\* The cache as it was.
LEMMA CacheUntouched ==
    ASSUME Types, UNCHANGED <<db, cache>>, NEW a \in Apps, ~Tick, StaleLoads(a)' \subseteq StaleLoads(a)
    PROVE  Catches(a)
<1>1. Right(a)' <=> Right(a)
  BY SameTable DEF Right, Usable
<1>2. ~Right(a) => cache[a].age \in Int
  BY DEF Right, Usable, Types, Entries
<1> QED
  BY <1>1, <1>2 DEF Catches

\* LoadMergedRules asks for the managed rules, then for those of the application.
LEMMA LoadsCatchUp ==
    ASSUME Types, NEW l \in Loaders, NEW a \in Apps,
           LoadApp(l) \/ LoadFail(l) \/ \E b \in Apps : LoadManaged(l, b), ~Tick
    PROVE  Catches(a)
<1>1. UNCHANGED <<db, cache>>
  BY DEF LoadApp, LoadFail, LoadManaged
<1>2. CASE LoadApp(l)
  <2> DEFINE j == [load[l] EXCEPT !.pc = "store", !.rules = load[l].rules \cup ListByApp(load[l].app)]
  <2>1. load' = [load EXCEPT ![l] = j]
    BY <1>2 DEF LoadApp, Types
  <2>2. load[l].pc = "app" /\ load[l] \in Loads
    BY <1>2 DEF LoadApp, Types
  <2>3. j.pc = "store" /\ j.app = load[l].app /\ j.rules = load[l].rules \cup ListByApp(load[l].app)
    BY <2>2 DEF Loads
  <2> HIDE DEF j
  <2>4. load'[l] = j
    BY <2>1 DEF Types
  <2>5. Stale(l, a)' => Stale(l, a)
    BY <1>1, <2>2, <2>3, <2>4, SameTable DEF Stale, Merged
  <2> QED
    BY <1>1, <2>1, <2>5, NoLoadTurnsStale, CacheUntouched
<1>3. CASE LoadFail(l)
  <2>1. load' = [load EXCEPT ![l] = Resting] /\ load'[l] = Resting
    BY <1>3 DEF LoadFail, Types
  <2>2. ~Stale(l, a)'
    BY <2>1 DEF Stale, Resting
  <2> QED
    BY <1>1, <2>1, <2>2, NoLoadTurnsStale, CacheUntouched
<1>4. ASSUME NEW b \in Apps, LoadManaged(l, b)
      PROVE  Catches(a)
  <2> DEFINE j == [pc |-> "app", app |-> b, rules |-> ListManaged]
  <2>1. load' = [load EXCEPT ![l] = j] /\ load'[l] = j
    BY <1>4 DEF LoadManaged, Types
  <2>2. ~Stale(l, a)'
    BY <1>1, <2>1, SameTable DEF Stale
  <2> HIDE DEF j
  <2> QED
    BY <1>1, <2>1, <2>2, NoLoadTurnsStale, CacheUntouched
<1> QED
  BY <1>2, <1>3, <1>4

\* What a load stores is right, or it was a stale one and is so no more.
LEMMA StoreCatchesUp ==
    ASSUME Types, NEW l \in Loaders, NEW a \in Apps, LoadStore(l), ~Tick
    PROVE  Catches(a)
<1> DEFINE b == load[l].app
           entry == [rules |-> load[l].rules, age |-> 0, behind |-> load[l].rules # Merged(b)]
<1>1. /\ load[l].pc = "store" /\ UNCHANGED db
      /\ load' = [load EXCEPT ![l] = Resting] /\ load'[l] = Resting
      /\ cache' = [c \in DOMAIN cache \cup {b} |-> IF c = b THEN entry ELSE cache[c]]
  BY DEF LoadStore, Types
<1>2. ~Stale(l, a)'
  BY <1>1 DEF Stale, Resting
<1>3. StaleLoads(a)' \subseteq StaleLoads(a)
  BY <1>1, <1>2, NoLoadTurnsStale
<1>4. CASE Stale(l, a)
  <2>1. l \in StaleLoads(a) /\ l \notin StaleLoads(a)'
    BY <1>2, <1>4 DEF StaleLoads
  <2> QED
    BY <1>3, <2>1 DEF Catches
<1>5. CASE ~Stale(l, a) /\ a = b
  <2>1. load[l].rules = Merged(a)
    BY <1>1, <1>5 DEF Stale
  <2>2. cache'[a].rules = Merged(a)'
    BY <1>1, <1>5, <2>1, SameTable
  <2> QED
    BY <1>3, <2>2 DEF Catches, Right
<1>6. CASE a # b
  <2>1. (a \in DOMAIN cache' <=> a \in DOMAIN cache) /\ (a \in DOMAIN cache => cache'[a] = cache[a])
    BY <1>1, <1>6
  <2>2. Right(a)' <=> Right(a)
    BY <1>1, <2>1, SameTable DEF Right, Usable
  <2>3. ~Right(a) => a \in DOMAIN cache /\ cache[a].age \in Int
    BY DEF Right, Usable, Types, Entries
  <2> QED
    BY <1>3, <2>1, <2>2, <2>3 DEF Catches
<1> QED
  BY <1>4, <1>5, <1>6

\* Time takes a wrong list nearer to its end.
LEMMA TickCatchesUp ==
    ASSUME Types, NEW a \in Apps, Tick
    PROVE  Catches(a)
<1> DEFINE older(c) == [cache[c] EXCEPT !.age = IF cache[c].age < TTL THEN cache[c].age + 1 ELSE cache[c].age]
<1>1. UNCHANGED <<db, load>> /\ cache' = [c \in DOMAIN cache |-> older(c)]
  BY DEF Tick
<1>2. \A c \in DOMAIN cache : cache[c] \in Entries
  BY DEF Types
<1>3. \A c \in DOMAIN cache : /\ older(c).rules = cache[c].rules
                              /\ cache[c].age < TTL => older(c).age = cache[c].age + 1
                              /\ ~(cache[c].age < TTL) => older(c).age = cache[c].age
  BY <1>2 DEF Entries
<1> HIDE DEF older
<1>4. StaleLoads(a)' = StaleLoads(a)
  BY <1>1, SameTable DEF StaleLoads, Stale
<1>5. TTL \in Nat /\ \A c \in DOMAIN cache : cache[c].age \in Nat
  BY <1>2, RuleServiceAssumption DEF Entries
<1>6. Right(a) => Right(a)'
  BY <1>1, <1>3, <1>5, SameTable DEF Right, Usable
<1>7. ~Right(a)' => cache'[a].age > cache[a].age /\ cache'[a].age >= cache[a].age
  BY <1>1, <1>3, <1>5 DEF Right, Usable
<1> QED
  BY <1>4, <1>6, <1>7 DEF Catches

\* Every step, while administrators rest before and after it.
LEMMA StepCatchesUp ==
    ASSUME IInv, [Next]_vars, AtRest, AtRest', NEW a \in Apps
    PROVE  Catches(a)
<1>1. Types
  BY DEF IInv
<1>2. ASSUME NEW w \in Admins, Continue(w)
      PROVE  FALSE
  BY <1>2 DEF AtRest, Continue, DeleteRow, ReorderRead, ReorderWrite, InvalidateCache
<1>3. ASSUME NEW w \in Admins, admin'[w].pc # "idle"
      PROVE  FALSE
  BY <1>3 DEF AtRest
<1>4. ASSUME NEW w \in Admins, NEW i, NEW row, CreateRule(w, i, row) \/ UpdateRule(w, i, row)
      PROVE  FALSE
  <2>1. admin'[w].pc = "invalidate"
    BY <1>1, <1>4 DEF CreateRule, UpdateRule, Idle, Types
  <2> QED
    BY <1>3, <2>1
<1>5. ASSUME NEW w \in Admins, HandleReorder(w) \/ \E i \in Ids : DeleteRead(w, i)
      PROVE  FALSE
  <2>1. admin'[w].pc \in {"reorder", "delete"}
    BY <1>1, <1>5 DEF HandleReorder, ReorderRules, DeleteRead, Idle, Types
  <2> QED
    BY <1>3, <2>1
<1>6. CASE Tick
  BY <1>1, <1>6, TickCatchesUp
<1>7. CASE ~Tick /\ \E l \in Loaders : LoadApp(l) \/ LoadFail(l) \/ LoadStore(l) \/ \E b \in Apps : LoadManaged(l, b)
  BY <1>1, <1>7, LoadsCatchUp, StoreCatchesUp
<1>8. CASE ~Tick /\ UNCHANGED vars
  <2>1. StaleLoads(a)' = StaleLoads(a)
    BY <1>8, SameTable DEF vars, StaleLoads, Stale
  <2> QED
    BY <1>1, <1>8, <2>1, CacheUntouched DEF vars
<1>9. Steps \/ UNCHANGED vars
  BY NextIsSteps DEF IInv
<1> QED
  BY <1>2, <1>4, <1>5, <1>6, <1>7, <1>8, <1>9 DEF Steps, Create, Edit

\* While administrators rest, each load that was overtaken can put back a list of before
\* the last edit once at most, and such a list only ages until it expires: what they have
\* edited is served in the end, for any number of applications, rules and loads
\* (LoadMergedRules, InvalidateCache, cacheTTL).  This is what EditsTakeEffect rests on.
THEOREM ListsCatchUp == Spec => [][CatchesUp]_vars
<1>1. IInv /\ [Next]_vars => [CatchesUp]_vars
  BY StepCatchesUp DEF CatchesUp
<1> QED
  BY <1>1, Invariance, PTL DEF Spec
=============================================================================
