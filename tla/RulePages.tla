------------------------------ MODULE RulePages ------------------------------
(***************************************************************************)
(* The rules of one application, ordered by priority (AppRulesSection).  A *)
(* drag is shown at once: the cached list is replaced by the order that    *)
(* was sent, restored if the server refuses it, and read again in either   *)
(* case.                                                                   *)
(*                                                                         *)
(* Priorities are counted in steps of ten.  A form has a name and an       *)
(* expression or it has not.  One browser is followed; a step elsewhere    *)
(* stands for any other administrator.                                     *)
(***************************************************************************)
EXTENDS QueryCache, SequencesExt

CONSTANTS Ids,          \* rule identifiers, each given to one rule only
          Opened,       \* bound: the rules that are opened, switched or deleted
          MaxClicks,    \* bound: forms and dialogs opened, closed and edited
          MaxSends,     \* bound: requests that change rules
          MaxUpsets     \* bound: steps elsewhere, requests that fail, page left

Rule == [there : BOOLEAN, prio : Nat, on : BOOLEAN]

RulesAssumption == /\ IsFiniteSet(Ids) /\ Ids = 1..Cardinality(Ids)
                   /\ None \notin [Ids -> Rule]

VARIABLES stored,       \* the rules of the server
          version,      \* how many changes have been stored
          cache, fetch, \* the query of the list
          form,         \* the rule form or the delete dialog, None on the list
          reqs,         \* changes under way
          optimistic,   \* the cached list is not an answer of the server
          shown,        \* the change the list must come to show
          gaveUp,       \* the last read of the list failed
          excused,      \* something explains rules of equal priority
          clicks, sends, upsets

server == <<stored, version>>
reads == <<cache, fetch, optimistic, gaveUp>>
counts == <<clicks, sends, upsets>>
vars == <<server, reads, form, reqs, shown, excused, counts>>

Absent == [there |-> FALSE, prio |-> 0, on |-> FALSE]
New == Cardinality(Ids)      \* the identifier the one new rule of a behaviour gets
Rules0 == [i \in Ids |-> IF i # New THEN [there |-> TRUE, prio |-> i, on |-> i # 1] ELSE Absent]

In(d) == IF d = None THEN {} ELSE {i \in Ids : d[i].there}
Prio(d) == [i \in Ids |-> IF i \in In(d) THEN d[i].prio ELSE 0]

-----------------------------------------------------------------------------
(***************************************************************************)
(* The list                                                                *)
(***************************************************************************)
\* By priority, and rules of equal priority by identifier: the k-th has k - 1 before it.
sortedRules(d) ==
    LET before(i) == {j \in In(d) : d[j].prio < d[i].prio \/ (d[j].prio = d[i].prio /\ j < i)}
    IN  [k \in 1..Cardinality(In(d)) |-> CHOOSE i \in In(d) : Cardinality(before(i)) = k - 1]

Latest(op) == {q \in reqs : q.op = op /\ q.latest}
\* A rule that is being moved has a spinner in place of its handle.
Handles(s) == {k \in DOMAIN s : \A q \in Latest("reorder") : s[k] \notin Range(q.ids)}
arrayMove(s, from, to) == InsertAt(RemoveAt(s, from), to, s[from])

\* The identifiers of the rules shown, in their new order.
handleDragEnd(d) ==
    LET s == sortedRules(d)
    IN {arrayMove(s, from, to) : from \in Handles(s), to \in DOMAIN s} \ {s}

\* onMutate: only the rules that are sent stay in the cached list.
Optimistic(d, ids) ==
    [i \in Ids |-> IF i \in In(d) \cap Range(ids)
                   THEN [d[i] EXCEPT !.prio = CHOOSE k \in DOMAIN ids : ids[k] = i] ELSE Absent]

-----------------------------------------------------------------------------
(***************************************************************************)
(* The forms.  The basis is what the priority was taken from.              *)
(***************************************************************************)
Form(mode, id, rule, named, basis) ==
    [mode |-> mode, id |-> id, prio |-> rule.prio, on |-> rule.on, named |-> named,
     typed |-> FALSE, basis |-> basis]

Highest(d) == CHOOSE p \in {d[i].prio : i \in In(d)} : \A i \in In(d) : d[i].prio <= p
\* Mutant: as many steps of ten as there are rules.
nextPriorityByCount(d) == Cardinality(In(d)) + 1
nextPriority(d) == IF In(d) = {} THEN 1 ELSE Highest(d) + 1
openCreate(d) == Form("create", 0, [prio |-> nextPriority(d), on |-> TRUE], FALSE, Prio(d))
openEdit(d, i) == Form("edit", i, d[i], TRUE, [j \in {i} |-> d[i].prio])

DeleteDialog(i) == Form("delete", i, Absent, TRUE, [j \in {} |-> 0])

NameAndExpression(g) == {[g EXCEPT !.named = TRUE]}
\* A priority may be typed that another rule has.
PriorityAndSwitch(g) == {[g EXCEPT !.prio = 1, !.typed = TRUE], [g EXCEPT !.on = ~@]}
RuleFields(g) == IF g.mode = "delete" THEN {} ELSE NameAndExpression(g) \cup PriorityAndSwitch(g)

Openable(d) == Opened \cap Range(sortedRules(d))
RuleActions(d) == {DeleteDialog(i) : i \in Openable(d)} \cup {openEdit(d, i) : i \in Openable(d)}
ListView(d) == RuleActions(d) \cup {openCreate(d)}

-----------------------------------------------------------------------------
Init == /\ stored = Rules0 /\ version = 0
        /\ cache = Unloaded /\ fetch = Sent
        /\ form = None /\ reqs = {}
        /\ optimistic = FALSE /\ gaveUp = FALSE /\ shown = 0 /\ excused = FALSE
        /\ clicks = 0 /\ sends = 0 /\ upsets = 0

Upset == upsets < MaxUpsets /\ upsets' = upsets + 1
Clicks == clicks < MaxClicks /\ clicks' = clicks + 1

\* The skeleton is in the place of the list, not of the form.
Loading == form = None /\ LoadingNow(cache, fetch)

ServerReads == /\ fetch.phase = "sent"
               /\ fetch' = AnsweredWith(stored, version)
               /\ UNCHANGED <<server, cache, optimistic, gaveUp, form, reqs, shown, excused, counts>>

Deliver == /\ fetch.phase = "answered"
           /\ cache' = Received(fetch) /\ fetch' = Idle
           /\ optimistic' = FALSE /\ gaveUp' = FALSE
           /\ UNCHANGED <<server, form, reqs, shown, excused, counts>>

FetchFails == /\ Upset /\ fetch.phase # "idle"
              /\ fetch' = Idle /\ gaveUp' = TRUE
              /\ UNCHANGED <<server, cache, optimistic, form, reqs, shown, excused, clicks, sends>>

\* The tab is left and opened again: answers no longer close the section's forms.
Reopen ==
    /\ Upset
    /\ form' = None /\ fetch' = Mounted(fetch)
    /\ reqs' = {[q EXCEPT !.latest = FALSE, !.mounted = FALSE] : q \in reqs}
    /\ UNCHANGED <<server, cache, optimistic, gaveUp, shown, excused, clicks, sends>>

OpenForm == /\ form = None /\ ~Loading /\ Clicks
            /\ form' \in ListView(cache.data)
            /\ UNCHANGED <<server, reads, reqs, shown, excused, sends, upsets>>

CloseForm == /\ form # None /\ Clicks
             /\ form' = None
             /\ UNCHANGED <<server, reads, reqs, shown, excused, sends, upsets>>

EditForm == /\ form # None /\ Clicks
            /\ form' \in RuleFields(form) \ {form}
            /\ UNCHANGED <<server, reads, reqs, shown, excused, sends, upsets>>

-----------------------------------------------------------------------------
(***************************************************************************)
(* Requests                                                                *)
(***************************************************************************)
Sending(op, ids, rule, basis, typed, closes, before) ==
    /\ sends < MaxSends /\ sends' = sends + 1
    /\ reqs' = {[q EXCEPT !.latest = @ /\ q.op # op] : q \in reqs}
               \cup {[nr |-> sends, op |-> op, ids |-> ids, row |-> 1, rule |-> rule, basis |-> basis,
                      typed |-> typed, closes |-> closes, before |-> before,
                      state |-> "sent", ver |-> 0, latest |-> TRUE, mounted |-> TRUE]}
    /\ UNCHANGED <<server, form, shown, excused, clicks, upsets>>

Listing == form = None /\ ~Loading

\* The cached row is written back with its switch turned.
handleToggle(i) ==
    LET r == cache.data[i] IN
    Sending("update", <<i>>, [r EXCEPT !.on = ~@], [j \in {i} |-> r.prio], FALSE, FALSE, None)
Toggle == /\ Listing
          /\ \E i \in Openable(cache.data) : handleToggle(i)
          /\ UNCHANGED reads

handleDeleteConfirm == Sending("delete", <<form.id>>, Absent, form.basis, FALSE, TRUE, None)
ConfirmDelete == /\ form # None /\ form.mode = "delete"
                 /\ handleDeleteConfirm /\ UNCHANGED reads

handleSubmit ==
    LET rule == [there |-> TRUE, prio |-> form.prio, on |-> form.on] IN
    IF form.mode = "edit"
    THEN Sending("update", <<form.id>>, rule, form.basis, form.typed, TRUE, None)
    ELSE Sending("create", <<>>, rule, form.basis, form.typed, TRUE, None)
Submit == /\ form # None /\ form.mode # "delete" /\ form.named
          /\ Latest("create") \cup Latest("update") = {}
          /\ handleSubmit /\ UNCHANGED reads

\* The read under way is cancelled and the list rearranged before the server answers.
Drag ==
    /\ Listing
    /\ \E ids \in handleDragEnd(cache.data) :
         /\ Sending("reorder", ids, Absent, Prio(cache.data), FALSE, FALSE,
                    [cache |-> cache, optimistic |-> optimistic])
         /\ cache' = [cache EXCEPT !.data = Optimistic(cache.data, ids)]
    /\ fetch' = Idle /\ optimistic' = TRUE
    /\ UNCHANGED gaveUp

Stale(q) == \E i \in DOMAIN q.basis : q.basis[i] # Prio(stored)[i]
HalfWay(q) == q.state = "sent" /\ q.row > 1
Update(q, q2) == reqs' = (reqs \ {q}) \cup {q2}

\* A rule that is not there is an error of an update and of a delete.
ServerStores(q) ==
    /\ q.state = "sent" /\ q.op # "reorder" /\ (q.op = "create" => stored[New] = Absent)
    /\ IF q.op = "create" \/ stored[q.ids[1]].there
       THEN /\ stored' = [stored EXCEPT ![IF q.op = "create" THEN New ELSE q.ids[1]] = q.rule]
            /\ version' = version + 1
            /\ excused' = (excused \/ q.typed \/ Stale(q) \/ \E r \in reqs : HalfWay(r))
            /\ Update(q, [q EXCEPT !.state = "ok", !.ver = version + 1])
       ELSE Update(q, [q EXCEPT !.state = "failed"]) /\ UNCHANGED <<server, excused>>
    /\ UNCHANGED <<reads, form, shown, counts>>

\* ReorderRules: one row after the other, without a transaction.
ReorderRow(q) ==
    /\ q.state = "sent" /\ q.op = "reorder"
    /\ stored' = [stored EXCEPT ![q.ids[q.row]] = IF @.there THEN [@ EXCEPT !.prio = q.row] ELSE @]
    /\ version' = version + 1
    /\ excused' = (excused \/ q.typed \/ (q.row = 1 /\ Stale(q)) \/ \E r \in reqs \ {q} : HalfWay(r))
    /\ Update(q, IF q.row < Len(q.ids) THEN [q EXCEPT !.row = @ + 1] ELSE [q EXCEPT !.state = "ok", !.ver = version + 1])
    /\ UNCHANGED <<reads, form, shown, counts>>

\* Refused, lost on the way, or its answer lost; a reordering stops where it is.
RequestFails(q) ==
    /\ Upset /\ q.state # "failed"
    /\ Update(q, [q EXCEPT !.state = "failed"])
    /\ excused' = (excused \/ HalfWay(q))
    /\ UNCHANGED <<server, reads, form, shown, clicks, sends>>

\* Another administrator deletes a rule.
Elsewhere ==
    /\ Upset
    /\ \E i \in Opened : stored[i].there /\ stored' = [stored EXCEPT ![i] = Absent]
    /\ version' = version + 1
    /\ UNCHANGED <<reads, form, reqs, shown, excused, clicks, sends>>

\* A saved form shows the list, even a form that was opened since; an answered
\* deletion closes the dialog.
Closed(q) == IF q.closes /\ q.mounted /\ form # None /\ ((q.op = "delete") = (form.mode = "delete"))
             THEN None ELSE form

Succeeded(q) ==
    /\ q.state = "ok" /\ reqs' = reqs \ {q}
    /\ form' = Closed(q)
    /\ fetch' = Refetched(TRUE, cache, fetch)
    /\ shown' = IF LoadingNow(cache, fetch) \/ q.ver < shown THEN shown ELSE q.ver
    /\ UNCHANGED <<server, cache, optimistic, gaveUp, excused, counts>>

\* Mutant: a refused reordering restores the list and does not read it again.
FailedRestoring(q) ==
    /\ q.state = "failed" /\ reqs' = reqs \ {q}
    /\ IF q.op = "reorder" THEN cache' = q.before.cache /\ optimistic' = q.before.optimistic
       ELSE UNCHANGED <<cache, optimistic>>
    /\ UNCHANGED <<server, fetch, gaveUp, form, shown, excused, counts>>
\* A refused reordering restores the list it replaced, and reads it again.
Failed(q) ==
    /\ q.state = "failed" /\ reqs' = reqs \ {q}
    /\ IF q.op = "reorder"
       THEN /\ cache' = q.before.cache /\ optimistic' = q.before.optimistic
            /\ fetch' = Refetched(TRUE, cache', fetch)
       ELSE UNCHANGED <<cache, fetch, optimistic>>
    /\ UNCHANGED <<server, gaveUp, form, shown, excused, counts>>

Next == \/ ServerReads \/ Deliver \/ FetchFails \/ Reopen
        \/ OpenForm \/ CloseForm \/ EditForm
        \/ Toggle \/ ConfirmDelete \/ Submit \/ Drag \/ Elsewhere
        \/ \E q \in reqs : \/ ServerStores(q) \/ ReorderRow(q) \/ RequestFails(q)
                           \/ Succeeded(q) \/ Failed(q)

Spec == Init /\ [][Next]_vars

-----------------------------------------------------------------------------
(***************************************************************************)
(* Properties                                                              *)
(***************************************************************************)

\* What a drag shows ahead of the server does not stay, and the read it cancels is made
\* up for: with no reordering under way and no read to come, the list is one the server
\* sent after the last change that was answered here, or its read failed.
OptimismSettles ==
    /\ fetch.phase = "idle" /\ \A q \in reqs : q.op # "reorder"
    => gaveUp \/ (~optimistic /\ cache.ver >= shown)

\* Rules of equal priority come from a typed priority, a page that was not up to
\* date, or a reordering that stopped half way or met another change; never from the
\* suggested priority or from a drag.
TiesAreExplained ==
    excused \/ (\E q \in reqs : HalfWay(q))
    \/ \A i, j \in In(stored) : stored[i].prio = stored[j].prio => i = j
=============================================================================
