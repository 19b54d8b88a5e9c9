-------------------------- MODULE CertificatePage ---------------------------
(***************************************************************************)
(* The page of the certificates (SSLManager with its table, its dialogs    *)
(* and the wizard for wildcard certificates).  It has no query client: its *)
(* reads overlap and are shown in the order in which they are answered,    *)
(* and an interval repeats them while a row that was read is pending.  A   *)
(* change is followed by a read, or by an edit of the rows shown.  Opening *)
(* a dialog is part of the click that sends its request.                   *)
(*                                                                         *)
(* Of a row the page tells apart whether it is there, whether its status   *)
(* and its last renewal are pending, and how its wildcard set-up stands.   *)
(* What the requests do to rows, files and the queue step by step is in    *)
(* Certificates; here a request is one step, and a job ends or is lost.    *)
(***************************************************************************)
EXTENDS Naturals, Sequences, FiniteSets, SequencesExt

CONSTANTS Names,        \* host names with a certificate, or to be given one
          Zone,         \* the domain of the wildcard certificate
          Pages,        \* 1..n; bound: how often the page is opened
          Slots,        \* 1..n; bound: reads under way at once
          Changes,      \* bound: changes under way at once
          MaxEvents     \* bound: clicks, requests, failures, jobs lost, page left

PageAssumption == 1 \in Pages

VARIABLES stored, jobs, \* the table, and the names with a job under way
          open,         \* which opening of the page this is
          face,         \* what is shown: "away", "skeleton", "error" or "table"
          certs,        \* certificates
          marked,       \* history: rows the page itself has set to pending
          poll,         \* per opening: pollRef.current is set
          reads,        \* per slot: the list request under way
          busy,         \* the useSSLActions with loading set
          sel,          \* selectedDomains
          wizard,       \* wizardStep and wizardDomain
          reqs,         \* changes under way
          events        \* how many there have been

server == <<stored, jobs>>
list == <<face, certs, marked>>
table == <<busy, sel>>
pageVars == <<server, open, list, poll, reads, table, wizard, reqs, events>>

Domains == Names \cup {Zone}
None == "none"
Row(there, status, last, wild) == [there |-> there, status |-> status, last |-> last, wild |-> wild]
Absent == Row(FALSE, FALSE, FALSE, None)
Issued == Row(TRUE, FALSE, FALSE, None)

hasPending(rows) == \E d \in Domains : rows[d].status \/ rows[d].last
Shown(rows) == {d \in Domains : rows[d].there}

-----------------------------------------------------------------------------
(***************************************************************************)
(* useSSLCertificates                                                      *)
(***************************************************************************)
NoRead == [phase |-> None]
Read(i) == [phase |-> "sent", of |-> i]
Free == {k \in Slots : reads[k] = NoRead}
Mounted(i) == i = open /\ face # "away"

\* fetchCertificates forgets the last error before it asks.
Fetching(i) == /\ Free # {}
               /\ LET k == CHOOSE s \in Free : TRUE IN reads' = [reads EXCEPT ![k] = Read(i)]
               /\ face' = IF Mounted(i) /\ face = "error" THEN "table" ELSE face

ServerLists(k) ==
    /\ reads[k].phase = "sent"
    /\ reads' = [reads EXCEPT ![k] = [phase |-> "answered", of |-> reads[k].of, rows |-> stored]]
    /\ UNCHANGED <<server, open, list, poll, table, wizard, reqs, events>>

\* Mutant: the interval that was set runs on until the page is left.
PollsOn(i, rows) == poll[i] \/ hasPending(rows)
\* The interval is set by an answer with a pending row and cleared by one without.
Polls(i, rows) == hasPending(rows)

\* An answer may set the interval of a page that has been left.  It does not take an
\* error away that another read has left meanwhile.
fetchCertificates(k) ==
    LET i == reads[k].of IN
    /\ reads[k].phase = "answered"
    /\ reads' = [reads EXCEPT ![k] = NoRead]
    /\ poll' = [poll EXCEPT ![i] = Polls(i, reads[k].rows)]
    /\ IF Mounted(i)
       THEN /\ certs' = reads[k].rows /\ marked' = {}
            /\ face' = IF face = "error" THEN "error" ELSE "table"
       ELSE UNCHANGED list
    /\ UNCHANGED <<server, open, table, wizard, reqs, events>>

setInterval(i) == /\ poll[i] /\ Fetching(i)
                  /\ UNCHANGED <<server, open, certs, marked, poll, table, wizard, reqs, events>>

Event == events < MaxEvents /\ events' = events + 1

TableGone == busy' = busy \ {"table", "details"} /\ sel' = {}
Orphaned(hooks) == reqs' = {IF q.hook \in hooks THEN [q EXCEPT !.live = FALSE] ELSE q : q \in reqs}

\* The error takes the place of the table; the interval stays as it is.
FetchFails(k) ==
    /\ Event /\ reads[k] # NoRead
    /\ reads' = [reads EXCEPT ![k] = NoRead]
    /\ IF Mounted(reads[k].of)
       THEN face' = "error" /\ TableGone /\ Orphaned({"table", "details"})
       ELSE UNCHANGED <<face, table, reqs>>
    /\ UNCHANGED <<server, open, certs, marked, poll, wizard>>

removeCertificates(i, names) ==
    IF Mounted(i) THEN certs' = [d \in Domains |-> IF d \in names THEN Absent ELSE certs[d]]
                       /\ marked' = marked \ names
    ELSE UNCHANGED <<certs, marked>>
updateCertificate(i, d) ==
    IF Mounted(i) /\ certs[d].there
    THEN certs' = [certs EXCEPT ![d].last = TRUE] /\ marked' = marked \cup {d}
    ELSE UNCHANGED <<certs, marked>>

-----------------------------------------------------------------------------
(***************************************************************************)
(* The page, the table, the dialogs and the wizard                         *)
(***************************************************************************)
NoWizard == [step |-> 0, domain |-> None]

Leave ==
    /\ Event /\ face # "away" /\ face' = "away"
    /\ poll' = [poll EXCEPT ![open] = FALSE]
    /\ certs' = [d \in Domains |-> Absent] /\ marked' = {}
    /\ busy' = {} /\ sel' = {} /\ wizard' = NoWizard
    /\ Orphaned({"page", "table", "details"})
    /\ UNCHANGED <<server, open, reads>>

Return ==
    /\ face = "away" /\ open + 1 \in Pages /\ Free # {}
    /\ open' = open + 1 /\ face' = "skeleton"
    /\ LET k == CHOOSE s \in Free : TRUE IN reads' = [reads EXCEPT ![k] = Read(open + 1)]
    /\ UNCHANGED <<server, certs, marked, poll, table, wizard, reqs, events>>

\* Refresh, and Retry of the error.
Refresh == /\ face \in {"table", "error"} /\ Event /\ Fetching(open)
           /\ UNCHANGED <<server, open, certs, marked, poll, table, wizard, reqs>>

toggleSelect == \E d \in Shown(certs) : sel' = IF d \in sel THEN sel \ {d} ELSE sel \cup {d}
toggleSelectAll == sel' = IF Cardinality(sel) = Cardinality(Shown(certs)) THEN {} ELSE Shown(certs)
Select == /\ face = "table" /\ Event /\ (toggleSelect \/ toggleSelectAll)
          /\ UNCHANGED <<server, open, list, poll, reads, busy, wizard, reqs>>

handleCloseWizard == wizard' = NoWizard
CloseWizard == /\ face = "table" /\ wizard # NoWizard /\ Event /\ handleCloseWizard
               /\ UNCHANGED <<server, open, list, poll, reads, table, reqs>>

-----------------------------------------------------------------------------
(***************************************************************************)
(* Requests.  loading is set by a call and cleared by the end of any call  *)
(* of the same useSSLActions.                                              *)
(***************************************************************************)
Call(hook, op, names) ==
    /\ Event /\ Cardinality(reqs) < Changes
    /\ busy' = busy \cup {hook}
    /\ reqs' = reqs \cup {[nr |-> events, hook |-> hook, op |-> op, names |-> names, of |-> open,
                           live |-> TRUE, state |-> "sent"]}
    /\ UNCHANGED <<server, open, list, poll, reads, sel, wizard>>

Underway(op) == \E q \in reqs : q.op = op /\ q.live

\* The wildcard buttons are there for a set-up that failed or that waits for its record.
RowButtons ==
    \E d \in Shown(certs) :
        \/ Call("table", "renew", <<d>>)
        \/ Call("table", "toggle", <<d>>)
        \/ Call("table", "delete", <<d>>)
        \/ certs[d].wild \in {"failed", "txt_pending"} /\ Call("table", "retry", <<d>>)
\* handleBulkRenew renews one after the other.
BulkButtons == sel # {} /\ \E op \in {"bulkRenew", "bulkDelete"} : Call("table", op, SetToSeq(sel))
TableButtons == face = "table" /\ "table" \notin busy /\ (RowButtons \/ BulkButtons)

\* isBusy
DetailsButtons == /\ face = "table" /\ "details" \notin busy
                  /\ \E d \in Shown(certs), op \in {"validate", "renewRead"} : Call("details", op, <<d>>)

\* handleAddDomain, handleVerifyDNS, handleIssueWildcard
handleAddDomain ==
    /\ wizard.step = 0 /\ "page" \notin busy
    /\ \/ \E n \in Names : Call("page", "issue", <<n>>)
       \/ \E op \in {"persist", "dns"} : Call("page", op, <<Zone>>)
handleVerifyDNS == wizard.step = 1 /\ ~Underway("verify") /\ Call("page", "verify", <<wizard.domain>>)
handleIssueWildcard ==
    wizard.step = 2 /\ ~Underway("issueWild") /\ Call("page", "issueWild", <<wizard.domain>>)
WizardButtons == /\ face = "table"
                 /\ handleAddDomain \/ handleVerifyDNS \/ handleIssueWildcard

handleSyncFilesystem == face = "table" /\ "page" \notin busy /\ Call("page", "sync", <<>>)

-----------------------------------------------------------------------------
(***************************************************************************)
(* The server                                                              *)
(***************************************************************************)
Become(q, state) == reqs' = (reqs \ {q}) \cup {[q EXCEPT !.state = state]}
Stores(q, rows, queued) == stored' = rows /\ jobs' = jobs \cup queued /\ Become(q, "ok")
Refuses(q) == Become(q, "failed") /\ UNCHANGED server

Head1(q) == Head(q.names)
There(q) == q.names # <<>> /\ Head1(q) \in Domains /\ stored[Head1(q)].there

ServesRow(q) ==
    LET d == Head1(q) IN
    \/ ~There(q) /\ Refuses(q)
    \/ There(q) /\ q.op \in {"renew", "bulkRenew", "renewRead"}
       /\ Stores(q, [stored EXCEPT ![d].last = TRUE], {d})
    \/ There(q) /\ q.op = "toggle" /\ Stores(q, stored, {})
    \/ There(q) /\ q.op = "validate" /\ (Refuses(q) \/ Stores(q, [stored EXCEPT ![d].status = FALSE], {}))
    \/ There(q) /\ q.op = "delete" /\ Stores(q, [stored EXCEPT ![d] = Absent], {})

\* A set-up with a record waits for it; when acme.sh makes none it stays issuing.
Enabled(wild) == [stored EXCEPT ![Zone] = IF @.there THEN [@ EXCEPT !.wild = wild] ELSE Row(TRUE, TRUE, TRUE, wild)]
ServesWildcard(q) ==
    \/ q.op \in {"persist", "dns"} /\ stored[Zone].wild = "active" /\ Refuses(q)
    \/ /\ q.op = "persist" /\ stored[Zone].wild # "active"
       /\ \/ Stores(q, Enabled("txt_pending"), {})
          \/ stored' = Enabled("issuing") /\ Become(q, "failed") /\ UNCHANGED jobs
    \/ q.op = "dns" /\ stored[Zone].wild # "active" /\ Stores(q, Enabled("issuing"), {Zone})
    \/ /\ q.op = "verify"
       /\ \/ Become(q, "notYet") /\ UNCHANGED server
          \/ Stores(q, [stored EXCEPT ![Zone].wild = IF @ = "txt_pending" THEN "dns_verified" ELSE @], {})
    \/ /\ q.op \in {"issueWild", "retry"}
       /\ IF There(q) /\ stored[Zone].wild \in {"dns_verified", "failed"}
          THEN Stores(q, Enabled("issuing"), {Zone}) ELSE Refuses(q)

ServesOthers(q) ==
    \/ /\ q.op = "issue"
       /\ IF There(q) THEN Refuses(q)
          ELSE Stores(q, [stored EXCEPT ![Head1(q)] = Row(TRUE, TRUE, TRUE, None)], {Head1(q)})
    \/ q.op = "bulkDelete" /\ Stores(q, [d \in Domains |-> IF d \in ToSet(q.names) THEN Absent ELSE stored[d]], {})
    \* The names whose files are there get a row, or a status.
    \/ q.op = "sync" /\ \E found \in SUBSET Names :
         Stores(q, [d \in Domains |-> IF d \in found
                                      THEN [stored[d] EXCEPT !.there = TRUE, !.status = FALSE] ELSE stored[d]], {})

OnRow == {"renew", "bulkRenew", "renewRead", "toggle", "validate", "delete"}
ServerActs(q) ==
    /\ q.state = "sent"
    /\ (q.op \in OnRow /\ ServesRow(q)) \/ ServesWildcard(q) \/ ServesOthers(q)
    /\ UNCHANGED <<open, list, poll, reads, table, wizard, events>>

RequestFails(q) ==
    /\ Event /\ q.state # "failed" /\ Become(q, "failed")
    /\ UNCHANGED <<server, open, list, poll, reads, table, wizard>>

\* A failed wildcard job leaves the status as it was.
Ended(row, ok) ==
    [row EXCEPT !.last = FALSE,
                !.status = IF row.wild = None \/ ok THEN FALSE ELSE @,
                !.wild = IF @ = "issuing" THEN IF ok THEN "active" ELSE "failed" ELSE @]
JobEnds(d) ==
    /\ d \in jobs /\ jobs' = jobs \ {d}
    /\ \E ok \in BOOLEAN : stored' = IF stored[d].there THEN [stored EXCEPT ![d] = Ended(@, ok)] ELSE stored
    /\ UNCHANGED <<open, list, poll, reads, table, wizard, reqs, events>>
JobLost(d) ==
    /\ Event /\ d \in jobs /\ jobs' = jobs \ {d}
    /\ UNCHANGED <<stored, open, list, poll, reads, table, wizard, reqs>>

-----------------------------------------------------------------------------
(***************************************************************************)
(* Answers                                                                 *)
(***************************************************************************)
Done(q) == /\ reqs' = reqs \ {q}
           /\ busy' = IF q.live THEN busy \ {q.hook} ELSE busy
NoRefetch == UNCHANGED <<reads, face>>

\* handleRenew: the row is set to pending here, and not read.
RenewAnswered(q) ==
    /\ q.op = "renew" /\ Done(q) /\ NoRefetch
    /\ IF q.state = "ok" THEN updateCertificate(q.of, Head1(q)) ELSE UNCHANGED <<certs, marked>>
    /\ UNCHANGED <<sel, wizard>>

\* handleBulkRenew goes on after a renewal that failed, and reads the list at the end.
BulkRenewAnswered(q) ==
    /\ q.op = "bulkRenew"
    /\ IF q.state = "ok" THEN updateCertificate(q.of, Head1(q)) ELSE UNCHANGED <<certs, marked>>
    /\ IF Len(q.names) > 1
       THEN /\ reqs' = (reqs \ {q}) \cup {[q EXCEPT !.names = Tail(@), !.state = "sent"]}
            /\ UNCHANGED busy /\ NoRefetch
       ELSE Done(q) /\ Fetching(q.of)
    /\ UNCHANGED <<sel, wizard>>

\* handleToggleAutoRenew; the switch itself is left out.
ToggleAnswered(q) ==
    /\ q.op = "toggle" /\ Done(q) /\ NoRefetch
    /\ UNCHANGED <<certs, marked, sel, wizard>>

\* handleDeleteConfirm, handleBulkDeleteConfirm: the rows are taken away here.
DeleteAnswered(q) ==
    /\ q.op \in {"delete", "bulkDelete"} /\ Done(q) /\ NoRefetch
    /\ IF q.state = "ok" THEN removeCertificates(q.of, ToSet(q.names)) ELSE UNCHANGED <<certs, marked>>
    /\ sel' = IF q.live /\ q.op = "bulkDelete" /\ q.state = "ok" THEN {} ELSE sel
    /\ UNCHANGED wizard

\* handleRetryWildcard, handleValidate, the handleRenew of the details, handleSyncFilesystem
ReadAnswered(q) ==
    /\ q.op \in {"retry", "validate", "renewRead", "sync"} /\ Done(q)
    /\ IF q.state = "ok" THEN Fetching(q.of) ELSE NoRefetch
    /\ UNCHANGED <<certs, marked, sel, wizard>>

\* The wizard moves on, also one that was closed or opened anew meanwhile.
Moved(q) == CASE ~q.live \/ q.state # "ok" -> wizard
              [] q.op \in {"issue", "dns"} -> NoWizard
              [] q.op = "persist" -> [wizard EXCEPT !.step = 1, !.domain = Zone]
              [] q.op = "verify" -> [wizard EXCEPT !.step = 2]
              [] OTHER -> [wizard EXCEPT !.step = 3]
WizardAnswered(q) ==
    /\ q.op \in {"issue", "dns", "persist", "verify", "issueWild"} /\ Done(q)
    /\ wizard' = Moved(q)
    /\ IF q.state = "ok" /\ q.op \notin {"persist", "verify"} THEN Fetching(q.of) ELSE NoRefetch
    /\ UNCHANGED <<certs, marked, sel>>

Answered(q) ==
    /\ q.state # "sent"
    /\ \/ RenewAnswered(q) \/ BulkRenewAnswered(q) \/ ToggleAnswered(q) \/ DeleteAnswered(q)
       \/ ReadAnswered(q) \/ WizardAnswered(q)
    /\ UNCHANGED <<server, open, poll, events>>

-----------------------------------------------------------------------------
Init ==
    /\ stored = [d \in Domains |-> IF d = Zone THEN Absent ELSE Issued]
    /\ jobs = {} /\ open = 1 /\ face = "skeleton"
    /\ certs = [d \in Domains |-> Absent] /\ marked = {}
    /\ poll = [i \in Pages |-> FALSE]
    /\ reads = [k \in Slots |-> IF k = 1 THEN Read(1) ELSE NoRead]
    /\ busy = {} /\ sel = {} /\ wizard = NoWizard
    /\ reqs = {} /\ events = 0

Clicks == Refresh \/ Select \/ CloseWizard \/ TableButtons \/ DetailsButtons
          \/ WizardButtons \/ handleSyncFilesystem

Next == \/ Leave \/ Return \/ Clicks
        \/ \E k \in Slots : ServerLists(k) \/ fetchCertificates(k) \/ FetchFails(k)
        \/ \E i \in Pages : setInterval(i)
        \/ \E d \in Domains : JobEnds(d) \/ JobLost(d)
        \/ \E q \in reqs : ServerActs(q) \/ RequestFails(q) \/ Answered(q)

\* Intervals fire, reads are answered, jobs end.
Spec == /\ Init /\ [][Next]_pageVars
        /\ \A k \in Slots : WF_pageVars(ServerLists(k) \/ fetchCertificates(k))
        /\ \A i \in Pages : WF_pageVars(setInterval(i))
        /\ \A d \in Domains : WF_pageVars(JobEnds(d))

-----------------------------------------------------------------------------
(***************************************************************************)
(* Properties                                                              *)
(***************************************************************************)

\* Once no stored row is pending any more, every interval ends, also that of a page that
\* was left and set by a late answer, and no open page goes on showing as pending a row
\* it read as pending: overlapping reads, old answers and failures do not stop the
\* interval before (fetchCertificates).  Rows the page has set to pending itself may stay.
PageComesToRest ==
    <>[]~hasPending(stored) =>
        <>[](/\ \A i \in Pages : ~poll[i]
             /\ face = "table" => \A d \in Domains : certs[d].status \/ certs[d].last => d \in marked)
=============================================================================
