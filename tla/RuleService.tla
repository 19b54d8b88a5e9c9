----------------------------- MODULE RuleService -----------------------------
(***************************************************************************)
(* The custom rules of the applications: the security_rules table, the     *)
(* administration handlers that edit it, and RuleService, which keeps the  *)
(* merged rules of an application in memory for a time.                    *)
(*                                                                         *)
(* A handler talks to the database and then invalidates the cache; a load  *)
(* asks the database twice and then fills the cache.  These are separate   *)
(* steps, so edits and loads interleave between them.                      *)
(***************************************************************************)
EXTENDS Integers, FiniteSets, Sequences

CONSTANTS
    Apps,        \* application identifiers
    Ids,         \* rule_id values, used once each
    Admins,      \* administration requests under way at once
    Loaders,     \* proxied requests that load rules at once
    Priorities,
    Orders,      \* rule_ids a reorder request may send
    TTL,         \* cacheTTL, in ticks
    MaxRequests  \* bound: administration requests

NoApp == "none"  \* the empty app_id

ASSUME RuleServiceAssumption ==
    /\ TTL \in Nat /\ MaxRequests \in Nat /\ NoApp \notin Apps /\ Priorities \subseteq Nat
    /\ Orders \subseteq Seq(Ids)

VARIABLES
    db,      \* security_rules: rule_id -> row
    cache,   \* app -> merged rules, their age and (history) whether they were behind when stored
    admin,   \* what each administration request does next
    load,    \* what each load does next
    requests, \* administration requests so far
    gone     \* history: rule_ids that have been deleted

vars == <<db, cache, admin, load, requests, gone>>

Rows == [app : Apps \cup {NoApp}, scope : {"managed", "app"}, priority : Nat, enabled : BOOLEAN]

\* What a form can set of a rule.
Forms == [scope : {"managed", "app"}, priority : Priorities, enabled : BOOLEAN]
NoRow == [app |-> NoApp, scope |-> "app", priority |-> 0, enabled |-> FALSE]

-----------------------------------------------------------------------------
(* The repository *)

\* ListByScope("managed", ...) and ListByScope("app", a): enabled rules only.
ListManaged == {<<i, db[i]>> : i \in {k \in DOMAIN db : db[k].scope = "managed" /\ db[k].enabled}}
ListByApp(a) == {<<i, db[i]>> : i \in {k \in DOMAIN db : db[k].scope = "app" /\ db[k].app = a /\ db[k].enabled}}
Merged(a) == ListManaged \cup ListByApp(a)

Insert(i, row) == db' = [k \in DOMAIN db \cup {i} |-> IF k = i THEN row ELSE db[k]]

\* Mutant: the row is written whether it exists or not.
UpdateOrInsert(i, row) ==
    db' = [k \in DOMAIN db \cup {i} |-> IF k = i THEN row ELSE db[k]]
\* Update sets every column but app_id, and fails when no row has the identifier.
Update(i, row) ==
    i \in DOMAIN db /\ db' = [db EXCEPT ![i] = [row EXCEPT !.app = db[i].app]]

-----------------------------------------------------------------------------
(* The service *)

Idle == [pc |-> "idle", id |-> 0, app |-> NoApp, row |-> NoRow, order |-> <<>>, place |-> 0]
Resting == [pc |-> "idle", app |-> NoApp, rules |-> {}]
NoRules == [i \in {} |-> 0]

Init ==
    /\ db = NoRules /\ cache = NoRules
    /\ admin = [w \in Admins |-> Idle] /\ load = [l \in Loaders |-> Resting]
    /\ requests = 0 /\ gone = {}

\* CreateRule compiles the expression, saves the rule and goes on to invalidate.
CreateRule(w, i, row) ==
    /\ admin[w].pc = "idle" /\ requests < MaxRequests
    /\ i \notin DOMAIN db \cup gone
    /\ Insert(i, row)
    /\ admin' = [admin EXCEPT ![w] = [Idle EXCEPT !.pc = "invalidate", !.app = row.app]]
    /\ requests' = requests + 1
    /\ UNCHANGED <<cache, load, gone>>

\* UpdateRule: the app_id of the request, not of the row, says what to invalidate.
UpdateRule(w, i, row) ==
    /\ admin[w].pc = "idle" /\ requests < MaxRequests
    /\ Update(i, row)
    /\ admin' = [admin EXCEPT ![w] = [Idle EXCEPT !.pc = "invalidate", !.app = row.app]]
    /\ requests' = requests + 1
    /\ UNCHANGED <<cache, load, gone>>

\* DeleteRule reads the rule for its app_id, then deletes it.
DeleteRead(w, i) ==
    /\ admin[w].pc = "idle" /\ requests < MaxRequests
    /\ i \in DOMAIN db
    /\ admin' = [admin EXCEPT ![w] = [Idle EXCEPT !.pc = "delete", !.id = i, !.app = db[i].app]]
    /\ requests' = requests + 1
    /\ UNCHANGED <<db, cache, load, gone>>

DeleteRow(w) ==
    LET i == admin[w].id IN
    /\ admin[w].pc = "delete"
    /\ IF i \in DOMAIN db
       THEN /\ db' = [k \in DOMAIN db \ {i} |-> db[k]]
            /\ gone' = gone \cup {i}
            /\ admin' = [admin EXCEPT ![w].pc = "invalidate"]
       ELSE admin' = [admin EXCEPT ![w] = Idle] /\ UNCHANGED <<db, gone>>
    /\ UNCHANGED <<cache, load, requests>>

\* ReorderRules: one rule after the other is read,
ReorderRules(w, order) ==
    /\ admin[w].pc = "idle" /\ requests < MaxRequests
    /\ admin' = [admin EXCEPT ![w] = [Idle EXCEPT !.pc = "reorder", !.order = order, !.place = 1]]
    /\ requests' = requests + 1
    /\ UNCHANGED <<db, cache, load, gone>>

ReorderRead(w) ==
    LET job == admin[w] IN
    /\ job.pc = "reorder"
    /\ admin' = [admin EXCEPT ![w] =
         IF job.place > Len(job.order) THEN Idle
         ELSE LET i == job.order[job.place] IN
              IF i \notin DOMAIN db THEN [job EXCEPT !.place = job.place + 1]
              ELSE [job EXCEPT !.pc = "rewrite", !.id = i, !.app = db[i].app,
                               !.row = [db[i] EXCEPT !.priority = job.place * 10]]]
    /\ UNCHANGED <<db, cache, load, requests, gone>>

\* written back whole with its new priority, and its application invalidated; a rule that
\* is gone by then ends the reorder.
ReorderWrite(w) ==
    LET job == admin[w] IN
    /\ job.pc = "rewrite"
    /\ \/ /\ Update(job.id, job.row)
          /\ admin' = [admin EXCEPT ![w] = [job EXCEPT !.pc = "invalidate", !.row = NoRow]]
       \/ /\ job.id \notin DOMAIN db /\ UNCHANGED db
          /\ admin' = [admin EXCEPT ![w] = Idle]
    /\ UNCHANGED <<cache, load, requests, gone>>

\* A reorder goes on to its next rule, another request has ended.
AfterInvalidate(job) ==
    IF job.order = <<>> THEN Idle ELSE [job EXCEPT !.pc = "reorder", !.place = job.place + 1]

\* Mutant: the merged rules of the other applications stay.
InvalidateOne(w) ==
    /\ admin[w].pc = "invalidate"
    /\ cache' = [a \in DOMAIN cache \ {admin[w].app} |-> cache[a]]
    /\ admin' = [admin EXCEPT ![w] = AfterInvalidate(admin[w])]
    /\ UNCHANGED <<db, load, requests, gone>>
\* InvalidateCache: one application's merged rules, or everyone's for a rule without one.
InvalidateCache(w) ==
    /\ admin[w].pc = "invalidate"
    /\ cache' = IF admin[w].app = NoApp THEN NoRules
                ELSE [a \in DOMAIN cache \ {admin[w].app} |-> cache[a]]
    /\ admin' = [admin EXCEPT ![w] = AfterInvalidate(admin[w])]
    /\ UNCHANGED <<db, load, requests, gone>>

\* Mutant: an entry is used however old it is.
UsableForever(a) == a \in DOMAIN cache
Usable(a) == a \in DOMAIN cache /\ cache[a].age < TTL

\* LoadMergedRules: without a usable entry the managed rules are asked for,
LoadManaged(l, a) ==
    /\ load[l].pc = "idle" /\ ~Usable(a)
    /\ load' = [load EXCEPT ![l] = [pc |-> "app", app |-> a, rules |-> ListManaged]]
    /\ UNCHANGED <<db, cache, admin, requests, gone>>

\* then the application's,
LoadApp(l) ==
    /\ load[l].pc = "app"
    /\ load' = [load EXCEPT ![l].pc = "store", ![l].rules = @ \cup ListByApp(load[l].app)]
    /\ UNCHANGED <<db, cache, admin, requests, gone>>

\* a query that fails ends the load with nothing stored,
LoadFail(l) ==
    /\ load[l].pc = "app"
    /\ load' = [load EXCEPT ![l] = Resting]
    /\ UNCHANGED <<db, cache, admin, requests, gone>>

\* and both together become the application's entry.
LoadStore(l) ==
    LET a == load[l].app
        entry == [rules |-> load[l].rules, age |-> 0, behind |-> load[l].rules # Merged(a)]
    IN /\ load[l].pc = "store"
       /\ cache' = [b \in DOMAIN cache \cup {a} |-> IF b = a THEN entry ELSE cache[b]]
       /\ load' = [load EXCEPT ![l] = Resting]
       /\ UNCHANGED <<db, admin, requests, gone>>

\* Time, as far as the age of an entry is concerned: past the TTL it no longer matters.
Tick ==
    /\ \E a \in DOMAIN cache : cache[a].age < TTL
    /\ cache' = [a \in DOMAIN cache |-> [cache[a] EXCEPT !.age = IF @ < TTL THEN @ + 1 ELSE @]]
    /\ UNCHANGED <<db, admin, load, requests, gone>>

-----------------------------------------------------------------------------
(* The handlers, with what the front end sends them *)

Row(app, form) == [app |-> app, scope |-> form.scope, priority |-> form.priority, enabled |-> form.enabled]

\* The rule form, which App.tsx no longer routes to, creates rules without an application,
\* an application's page its own.
HandleCreateRule(w, i, form) == CreateRule(w, i, Row(NoApp, form))
CreateForApp(w, a, i, form) == CreateRule(w, i, Row(a, [form EXCEPT !.scope = "app"]))

\* Both send a rule back with the scope and the app_id they were given; the application's
\* page is refused a rule of another application.
HandleUpdateRule(w, i, form) ==
    i \in DOMAIN db /\ UpdateRule(w, i, Row(db[i].app, [form EXCEPT !.scope = db[i].scope]))
UpdateForApp(w, a, i, form) ==
    i \in DOMAIN db /\ db[i].app = a /\ UpdateRule(w, i, Row(a, [form EXCEPT !.scope = "app"]))

HandleDeleteRule(w, i) == DeleteRead(w, i)
DeleteForApp(w, a, i) == i \in DOMAIN db /\ db[i].app = a /\ DeleteRead(w, i)

\* The handlers differ in the page they serve and take any identifiers.
HandleReorder(w) == \E order \in Orders : ReorderRules(w, order)

Continue(w) == DeleteRow(w) \/ ReorderRead(w) \/ ReorderWrite(w) \/ InvalidateCache(w)

Next ==
    \/ \E w \in Admins :
        \/ Continue(w)
        \/ HandleReorder(w)
        \/ \E i \in Ids :
            \/ HandleDeleteRule(w, i)
            \/ \E a \in Apps : DeleteForApp(w, a, i)
            \/ \E form \in Forms :
                \/ HandleCreateRule(w, i, form) \/ HandleUpdateRule(w, i, form)
                \/ \E a \in Apps : CreateForApp(w, a, i, form) \/ UpdateForApp(w, a, i, form)
    \/ \E l \in Loaders :
        \/ LoadApp(l) \/ LoadFail(l) \/ LoadStore(l)
        \/ \E a \in Apps : LoadManaged(l, a)
    \/ Tick

\* A handler that has begun runs on and time passes; a load may hang for ever.
Spec ==
    /\ Init /\ [][Next]_vars
    /\ \A w \in Admins : WF_vars(Continue(w))
    /\ WF_vars(Tick)

-----------------------------------------------------------------------------
(* Properties *)

\* Rows and cached lists have their types.
TypeOK ==
    /\ DOMAIN db \subseteq Ids /\ \A i \in DOMAIN db : db[i] \in Rows
    /\ DOMAIN cache \subseteq Apps
    /\ \A a \in DOMAIN cache : cache[a].age \in 0..TTL /\ cache[a].rules \subseteq Ids \X Rows
    /\ requests \in 0..MaxRequests

\* A usable entry that differs from the table is about to be invalidated by the request
\* that made it differ, or a load that was under way meanwhile stored it: in no other way
\* does an edit miss an application's merged rules.
StaleIsExplained ==
    \A a \in Apps :
        Usable(a) /\ cache[a].rules # Merged(a) =>
            \/ cache[a].behind
            \/ \E w \in Admins : admin[w].pc = "invalidate" /\ admin[w].app \in {a, NoApp}

\* A deleted rule stays deleted, although a reorder or an update read it before.
DeletedStaysDeleted == gone \cap DOMAIN db = {}

\* Once the edits have ended, the rules an application is served with are those of the
\* table, for good: a list stored by a load that was overtaken lives for the TTL at most.
EditsTakeEffect == <>[](\A a \in Apps : Usable(a) => cache[a].rules = Merged(a))
=============================================================================
