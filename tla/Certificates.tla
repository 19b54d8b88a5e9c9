---------------------------- MODULE Certificates ----------------------------
(***************************************************************************)
(* TLS certificates: the certificates table, the directory of certificate  *)
(* files, the queue of acme.Service with its one worker, and the requests  *)
(* of CertificateService.                                                  *)
(*                                                                         *)
(* A request reads a row, works on its copy and writes the whole copy      *)
(* back; the worker's callback does the same.  These are separate steps.   *)
(* Of a row the model keeps who it is for and how its last request stands; *)
(* dates, issuer and the auto-renew flag are left out, so a request that   *)
(* changes only those writes its copy back as it was.                      *)
(***************************************************************************)
EXTENDS Integers, FiniteSets, Sequences, SequencesExt

CONSTANTS
    Hosts,       \* domains certificates are issued for
    Zones,       \* domains wildcard certificates are issued for
    Parent,      \* host -> the domain after its first dot
    Admins,      \* administration requests under way at once
    MaxRequests, \* bound: administration requests and restarts
    MaxCerts     \* bound: rows ever created

ASSUME CertificatesAssumption ==
    DOMAIN Parent = Hosts /\ MaxRequests \in Nat /\ MaxCerts \in Nat

VARIABLES
    rows,     \* certificates: cert_id -> row
    serial,   \* cert_id values used
    files,    \* directories of certDir that hold a certificate and its key
    queue,    \* Service.queue
    worker,   \* Service.workerBusy; where the worker goroutine is, its job and its callback's copy
    admin,    \* what each request does next
    requests, \* requests so far
    loose     \* history: <<id, why>>, rows left waiting with nothing under way for them

vars == <<rows, serial, files, queue, worker, admin, requests, loose>>

\* The names rows and jobs go by: a host, "*.zone", and "wildcard.zone", which is the
\* directory of the zone's certificate and becomes a name when the directory is read.
Host(h) == <<"host", h>>
Wild(z) == <<"wild", z>>
DirName(z) == <<"dir", z>>
Names == {Host(h) : h \in Hosts} \cup {Wild(z) : z \in Zones} \cup {DirName(z) : z \in Zones}

\* certDir/<domain>, and certDir/wildcard.<zone> for a zone.
HostDir(h) == <<"host", h>>
ZoneDir(z) == <<"dir", z>>
HasCertificate(h) == HostDir(h) \in files
HasWildcardCertificate(z) == ZoneDir(z) \in files

NewRow(name, last) == [name |-> name, last |-> last, enabled |-> FALSE, wildcard |-> "none"]
NoCopy == [id |-> 0, row |-> NewRow(<<"host", "">>, "none")]
Idle == [pc |-> "idle", name |-> <<"host", "">>, method |-> "", copy |-> NoCopy]
NoJob == [name |-> <<"host", "">>, callback |-> ""]
Resting == [busy |-> FALSE, pc |-> "none", job |-> NoJob, ok |-> FALSE, copy |-> NoCopy]

-----------------------------------------------------------------------------
(* The repository *)

Found(name) == {i \in DOMAIN rows : rows[i].name = name}
\* GetByDomain: some row of that name, since nothing makes names unique.
Copies(name) == {[id |-> i, row |-> rows[i]] : i \in Found(name)}
CopyOrNone(name) == IF Found(name) = {} THEN {NoCopy} ELSE Copies(name)

Create(row) ==
    /\ serial < MaxCerts
    /\ serial' = serial + 1
    /\ rows' = [i \in DOMAIN rows \cup {serial + 1} |-> IF i = serial + 1 THEN row ELSE rows[i]]

\* Update writes every column of the copy; without a row of that id it fails.
Update(id, row) ==
    id \in DOMAIN rows /\ rows' = [rows EXCEPT ![id] = row]
UpdateFails(id) == id \notin DOMAIN rows /\ UNCHANGED rows
DeleteNamed(names) == rows' = [i \in {k \in DOMAIN rows : rows[k].name \notin names} |-> rows[i]]

\* What the row says of its certificate: it is on the way.
Waiting(row) == IF row.name[1] = "wild" THEN row.wildcard = "issuing" ELSE row.last = "pending"

\* History: a row is not left waiting once it is told, or is asked for again.
Forgotten(id) == {x \in loose : x[1] # id}

-----------------------------------------------------------------------------
(* acme.Service *)

Queued(name) == {j \in ToSet(queue) : j.name = name}
\* A job is under way whose callback will tell this row.
Served(id, row) ==
    \E j \in ToSet(queue) \cup {worker.job} :
        /\ j.name = row.name /\ (row.name[1] = "wild" => j.callback = "wild")
        /\ \/ j \in ToSet(queue)
           \/ worker.pc \in {"run", "complete"}
           \/ worker.pc = "save" /\ worker.copy.id = id

\* Mutant: a job is a duplicate only of one that calls back the same way.
enqueueByCallback(job) ==
    \/ job \in ToSet(queue) /\ UNCHANGED <<queue, worker>>
    \/ /\ job \notin ToSet(queue)
       /\ queue' = Append(queue, job)
       /\ worker' = IF worker.busy THEN worker ELSE [worker EXCEPT !.busy = TRUE, !.pc = "idle"]
\* enqueue: a name is queued once; the worker is started when there is none.
enqueue(job) ==
    \/ Queued(job.name) # {} /\ UNCHANGED <<queue, worker>>
    \/ /\ Queued(job.name) = {}
       /\ queue' = Append(queue, job)
       /\ worker' = IF worker.busy THEN worker ELSE [worker EXCEPT !.busy = TRUE, !.pc = "idle"]

\* Mutant: the worker ends and does not say so.
WorkerTakeSilent ==
    /\ worker.pc = "idle"
    /\ \/ queue = <<>> /\ worker' = [Resting EXCEPT !.busy = TRUE] /\ UNCHANGED queue
       \/ /\ queue # <<>>
          /\ worker' = [worker EXCEPT !.pc = "run", !.job = Head(queue)]
          /\ queue' = Tail(queue)
    /\ UNCHANGED <<rows, serial, files, admin, requests, loose>>
\* The worker takes the next job or ends,
WorkerTake ==
    /\ worker.pc = "idle"
    /\ \/ queue = <<>> /\ worker' = Resting /\ UNCHANGED queue
       \/ /\ queue # <<>>
          /\ worker' = [worker EXCEPT !.pc = "run", !.job = Head(queue)]
          /\ queue' = Tail(queue)
    /\ UNCHANGED <<rows, serial, files, admin, requests, loose>>

\* runs acme.sh, which installs the files or fails,
WorkerRun ==
    /\ worker.pc = "run"
    /\ \/ /\ files' = files \cup {IF worker.job.name[1] = "host" THEN worker.job.name
                                  ELSE ZoneDir(worker.job.name[2])}
          /\ worker' = [worker EXCEPT !.pc = "complete", !.ok = TRUE]
       \/ worker' = [worker EXCEPT !.pc = "complete", !.ok = FALSE] /\ UNCHANGED files
    /\ UNCHANGED <<rows, serial, queue, admin, requests, loose>>

NextRound == [Resting EXCEPT !.busy = TRUE, !.pc = "idle"]

\* and calls back: the callback reads the row
CompleteRead ==
    /\ worker.pc = "complete"
    /\ \E copy \in CopyOrNone(worker.job.name) :
        worker' = IF copy = NoCopy THEN NextRound
                  ELSE [worker EXCEPT !.pc = "save", !.copy = copy]
    /\ UNCHANGED <<rows, serial, files, queue, admin, requests, loose>>

\* Mutant: a failure is logged and not stored.
OutcomeUnlessFailed(row, job, ok) ==
    IF ~ok THEN row
    ELSE [row EXCEPT !.last = "success", !.wildcard = IF job.callback = "wild" THEN "active" ELSE @]
\* updateCertStatusAfterIssue, updateCertStatusAfterRenew, updateWildcardStatusAfterIssue
Outcome(row, job, ok) ==
    [row EXCEPT !.last = IF ok THEN "success" ELSE "failed",
                !.wildcard = IF job.callback = "wild" THEN IF ok THEN "active" ELSE "failed" ELSE @]

\* and writes it back.
CompleteSave ==
    /\ worker.pc = "save"
    /\ \/ LET id == worker.copy.id  row == Outcome(worker.copy.row, worker.job, worker.ok) IN
          /\ Update(id, row)
          /\ loose' = IF ~Waiting(row) THEN Forgotten(id)
                      ELSE loose \cup {x \in {<<id, "overwritten">>} : rows[id] # worker.copy.row}
       \/ UpdateFails(worker.copy.id) /\ UNCHANGED loose
    /\ worker' = NextRound
    /\ UNCHANGED <<serial, files, queue, admin, requests>>

-----------------------------------------------------------------------------
(* CertificateService *)

\* History: a copy is written back with the row left waiting although no job is under
\* way for it, because the job ended after the copy was read.
NoteOverwrite(id, row) ==
    loose' = Forgotten(id) \cup {x \in {<<id, "overwritten">>} : Waiting(row) /\ ~Served(id, row)}
\* History: a job of that name was queued already, and its callback does not tell what
\* this one's would.
NoteSwallowed(id, job) ==
    loose' = loose \cup {x \in {<<id, "swallowed">>} : \E j \in Queued(job.name) : j.callback # job.callback}

Begin(w, pc, name, method, copy) ==
    /\ admin[w].pc = "idle" /\ requests < MaxRequests
    /\ requests' = requests + 1
    /\ admin' = [admin EXCEPT ![w] = [pc |-> pc, name |-> name, method |-> method, copy |-> copy]]
Goto(w, pc, copy) == admin' = [admin EXCEPT ![w].pc = pc, ![w].copy = copy]
End(w) == admin' = [admin EXCEPT ![w] = Idle]

\* A request's copy is written back; the request ends.
SaveCopy(w, row) ==
    /\ \/ Update(admin[w].copy.id, row) /\ NoteOverwrite(admin[w].copy.id, row)
       \/ UpdateFails(admin[w].copy.id) /\ UNCHANGED loose
    /\ End(w)
    /\ UNCHANGED <<serial, files, queue, worker, requests>>

\* IssueDomain: no row and no wildcard certificate of the name,
IssueDomain(w, h) ==
    /\ Found(Host(h)) = {} /\ ~HasWildcardCertificate(h)
    /\ Begin(w, "create", Host(h), "", NoCopy)
    /\ UNCHANGED <<rows, serial, files, queue, worker, loose>>

\* a pending row,
IssueCreate(w) ==
    LET row == NewRow(admin[w].name, "pending") IN
    /\ admin[w].pc = "create"
    /\ Create(row)
    /\ Goto(w, "issue", [id |-> serial + 1, row |-> row])
    /\ UNCHANGED <<files, queue, worker, requests, loose>>

\* and IssueAsync, which queues nothing for a name that has files.
IssueAsync(w) ==
    LET h == admin[w].name[2] IN
    /\ admin[w].pc = "issue"
    /\ \/ /\ HasCertificate(h) \/ HasWildcardCertificate(h)
          /\ loose' = loose \cup {<<admin[w].copy.id, "has files">>} /\ UNCHANGED <<queue, worker>>
       \/ /\ ~HasCertificate(h) /\ ~HasWildcardCertificate(h)
          /\ enqueue([name |-> admin[w].name, callback |-> "row"]) /\ UNCHANGED loose
    /\ End(w)
    /\ UNCHANGED <<rows, serial, files, requests>>

\* RenewCertificate reads the row,
RenewCertificate(w, name) ==
    /\ \E copy \in Copies(name) : Begin(w, "renew", name, "", copy)
    /\ UNCHANGED <<rows, serial, files, queue, worker, loose>>

\* queues the job
RenewAsync(w) ==
    /\ admin[w].pc = "renew"
    /\ enqueue([name |-> admin[w].name, callback |-> "row"])
    /\ Goto(w, "renewed", admin[w].copy)
    /\ UNCHANGED <<rows, serial, files, requests, loose>>

\* and only then writes "pending".
RenewSave(w) ==
    admin[w].pc = "renewed" /\ SaveCopy(w, [admin[w].copy.row EXCEPT !.last = "pending"])

\* ValidateCertificate needs the files and the row, and writes dates into the copy.
ValidateCertificate(w, name) ==
    /\ name[1] # "wild" /\ name \in files
    /\ \E copy \in Copies(name) : Begin(w, "save", name, "", copy)
    /\ UNCHANGED <<rows, serial, files, queue, worker, loose>>

\* SyncFromACME: the files of the host, or those of its parent's wildcard certificate,
\* become a row or refresh one.
SyncName(h) == IF HasCertificate(h) THEN Host(h) ELSE Wild(Parent[h])
Synced(name, row) ==
    IF name[1] = "wild" THEN [row EXCEPT !.enabled = TRUE, !.wildcard = "active"] ELSE row
SyncRead(w, name) ==
    /\ \E copy \in CopyOrNone(name) :
        Begin(w, IF copy = NoCopy THEN "sync" ELSE "save", name, "",
              [copy EXCEPT !.row = Synced(name, @)])
    /\ UNCHANGED <<rows, serial, files, queue, worker, loose>>
SyncFromACME(w, h) ==
    /\ HasCertificate(h) \/ HasWildcardCertificate(Parent[h])
    /\ SyncRead(w, SyncName(h))
SyncCreate(w) ==
    /\ admin[w].pc = "sync"
    /\ Create(Synced(admin[w].name, NewRow(admin[w].name, "success")))
    /\ End(w)
    /\ UNCHANGED <<files, queue, worker, requests, loose>>

\* SyncAllFromFilesystem takes every directory name for a domain, one after the other.
SyncAllFromFilesystem(w) == \E d \in files : SyncRead(w, d)

\* Validation and synchronisation end by writing the copy back.
Save(w) == admin[w].pc = "save" /\ SaveCopy(w, admin[w].copy.row)

\* CreateApp: the certificate on disk, or a new one.
CreateApp(w, h) ==
    \/ SyncFromACME(w, h)
    \/ ~HasCertificate(h) /\ ~HasWildcardCertificate(Parent[h]) /\ IssueDomain(w, h)

\* DeleteCertificate removes the files the row stands for,
DeleteCertificate(w, name) ==
    /\ \E copy \in Copies(name) :
        /\ Begin(w, "delete", name, "", NoCopy)
        /\ files' = files \ {IF copy.row.enabled THEN ZoneDir(name[2]) ELSE name}
    /\ UNCHANGED <<rows, serial, queue, worker, loose>>
\* then every row of the name.
DeleteByDomain(w) ==
    /\ admin[w].pc = "delete"
    /\ DeleteNamed({admin[w].name})
    /\ End(w)
    /\ UNCHANGED <<serial, files, queue, worker, requests, loose>>

\* BulkDeleteCertificates leaves the files.
BulkDeleteCertificates(w, names) ==
    /\ admin[w].pc = "idle" /\ requests < MaxRequests
    /\ \E name \in names : Found(name) # {}
    /\ DeleteNamed(names)
    /\ requests' = requests + 1
    /\ UNCHANGED <<serial, files, queue, worker, admin, loose>>

-----------------------------------------------------------------------------
(* Wildcard certificates *)

\* EnableWildcard: unless the zone's certificate is active, its row is read,
EnableWildcard(w, z, method) ==
    /\ \E copy \in CopyOrNone(Wild(z)) :
        /\ copy.row.wildcard # "active"
        /\ Begin(w, "enable", Wild(z), method, copy)
    /\ UNCHANGED <<rows, serial, files, queue, worker, loose>>

\* created or updated as "issuing",
EnableSave(w) ==
    LET copy == admin[w].copy
        row  == [(IF copy = NoCopy THEN NewRow(admin[w].name, "pending") ELSE copy.row)
                    EXCEPT !.enabled = TRUE, !.wildcard = "issuing"]
    IN /\ admin[w].pc = "enable"
       /\ \/ /\ copy = NoCopy /\ Create(row) /\ UNCHANGED loose
             /\ Goto(w, admin[w].method, [id |-> serial + 1, row |-> row])
          \/ /\ copy # NoCopy /\ Update(copy.id, row) /\ UNCHANGED serial
             /\ Goto(w, admin[w].method, [copy EXCEPT !.row = row]) /\ loose' = Forgotten(copy.id)
          \/ copy # NoCopy /\ UpdateFails(copy.id) /\ End(w) /\ UNCHANGED <<serial, loose>>
       /\ UNCHANGED <<files, queue, worker, requests>>

\* and then, with the "persist" method, waits for a DNS record; when acme.sh does not
\* produce one the row stays "issuing".
MakePersistValue(w) ==
    /\ admin[w].pc = "persist"
    /\ \/ SaveCopy(w, [admin[w].copy.row EXCEPT !.wildcard = "txt_pending"])
       \/ /\ loose' = loose \cup {<<admin[w].copy.id, "no value">>} /\ End(w)
          /\ UNCHANGED <<rows, serial, files, queue, worker, requests>>

\* With the "dns" method, and after IssueWildcardCert, the job is queued.
IssueWildcardAsync(w) ==
    LET job == [name |-> admin[w].name, callback |-> "wild"] IN
    /\ admin[w].pc = "dns"
    /\ enqueue(job) /\ NoteSwallowed(admin[w].copy.id, job)
    /\ End(w)
    /\ UNCHANGED <<rows, serial, files, requests>>

\* VerifyWildcardDNS finds the record and moves the row on.
VerifyWildcardDNS(w, z) ==
    /\ \E copy \in Copies(Wild(z)) :
        /\ copy.row.wildcard = "txt_pending"
        /\ Begin(w, "save", Wild(z), "", [copy EXCEPT !.row.wildcard = "dns_verified"])
    /\ UNCHANGED <<rows, serial, files, queue, worker, loose>>

\* IssueWildcardCert: only after the verification or a failure, which clears the files,
IssueWildcardCert(w, z) ==
    /\ \E copy \in Copies(Wild(z)) :
        /\ copy.row.wildcard \in {"dns_verified", "failed"}
        /\ files' = IF copy.row.wildcard = "failed" THEN files \ {ZoneDir(z)} ELSE files
        /\ Begin(w, "reissue", Wild(z), "dns", [copy EXCEPT !.row.wildcard = "issuing"])
    /\ UNCHANGED <<rows, serial, queue, worker, loose>>
\* the row is written back as "issuing" before the job is queued.
IssueWildcardSave(w) ==
    /\ admin[w].pc = "reissue"
    /\ \/ /\ Update(admin[w].copy.id, admin[w].copy.row) /\ Goto(w, "dns", admin[w].copy)
          /\ loose' = Forgotten(admin[w].copy.id)
       \/ UpdateFails(admin[w].copy.id) /\ End(w) /\ UNCHANGED loose
    /\ UNCHANGED <<serial, files, queue, worker, requests>>

DisableWildcard(w, z) ==
    /\ \E copy \in Copies(Wild(z)) :
        Begin(w, "save", Wild(z), "", [copy EXCEPT !.row.enabled = FALSE, !.row.wildcard = "none"])
    /\ UNCHANGED <<rows, serial, files, queue, worker, loose>>

-----------------------------------------------------------------------------
(* The process *)

\* The service ends and starts again: rows and files are kept, jobs and requests are not,
\* and NewCertificateService and NewService look for nothing left over.
Restart ==
    /\ requests < MaxRequests
    /\ queue' = <<>> /\ worker' = Resting /\ admin' = [w \in Admins |-> Idle]
    /\ requests' = requests + 1
    /\ loose' = loose \cup {<<i, "restart">> : i \in {k \in DOMAIN rows : Waiting(rows[k])}}
    /\ UNCHANGED <<rows, serial, files>>

Init ==
    /\ rows = [i \in {} |-> NoCopy] /\ serial = 0 /\ files = {} /\ queue = <<>> /\ worker = Resting
    /\ admin = [w \in Admins |-> Idle] /\ requests = 0 /\ loose = {}

Worker == WorkerTake \/ WorkerRun \/ CompleteRead \/ CompleteSave

Continue(w) ==
    \/ IssueCreate(w) \/ IssueAsync(w) \/ RenewAsync(w) \/ RenewSave(w) \/ SyncCreate(w) \/ Save(w)
    \/ DeleteByDomain(w) \/ EnableSave(w) \/ MakePersistValue(w) \/ IssueWildcardAsync(w)
    \/ IssueWildcardSave(w)

Next ==
    \/ Worker \/ Restart
    \/ \E w \in Admins :
        \/ Continue(w)
        \/ SyncAllFromFilesystem(w)
        \/ \E h \in Hosts : CreateApp(w, h) \/ IssueDomain(w, h)
        \/ \E name \in Names :
            \/ RenewCertificate(w, name) \/ ValidateCertificate(w, name) \/ DeleteCertificate(w, name)
            \/ BulkDeleteCertificates(w, {name})
        \/ \E z \in Zones :
            \/ \E method \in {"persist", "dns"} : EnableWildcard(w, z, method)
            \/ VerifyWildcardDNS(w, z) \/ IssueWildcardCert(w, z) \/ DisableWildcard(w, z)

\* The worker and the handlers run on; acme.sh ends.
Spec == Init /\ [][Next]_vars /\ WF_vars(Worker) /\ \A w \in Admins : WF_vars(Continue(w))

-----------------------------------------------------------------------------
(* Properties *)

\* A job in the queue has a worker that will take it, whatever jobs were queued while the
\* worker was about to end, and no name is queued twice.
QueueIsServed ==
    /\ queue # <<>> => worker.pc # "none"
    /\ \A k, l \in 1..Len(queue) : queue[k].name = queue[l].name => k = l

\* The five ways the code leaves a row waiting for nothing: a copy read before the job
\* ended and written back after it, IssueAsync for a name that has files already, a DNS
\* value that acme.sh did not produce, a wildcard job for which a renewal was queued
\* before, a restart.
Reasons == {"overwritten", "has files", "no value", "swallowed", "restart"}
LeftWaiting(i) == \E why \in Reasons : <<i, why>> \in loose

\* A row that says its certificate is being issued (or a host's that it is being renewed)
\* has a job or a request under way, or one of the five reasons has left it waiting since
\* it was last told or asked for; there is no sixth.  Besides, of two rows of one name one
\* is told.
PendingIsExplained ==
    \A i \in DOMAIN rows :
        Waiting(rows[i]) =>
            \/ Served(i, rows[i])
            \/ \E w \in Admins : admin[w].name = rows[i].name /\ admin[w].pc \in {"issue", "persist", "dns"}
            \/ LeftWaiting(i)
            \/ Cardinality(Found(rows[i].name)) > 1

\* Every row that waits is told in the end, or is one of those: the queue does not stop
\* while jobs arrive, and a failed job is reported like one that succeeded.
RowsSettle ==
    \A i \in 1..MaxCerts :
        (i \in DOMAIN rows /\ Waiting(rows[i])) ~>
            (i \notin DOMAIN rows \/ ~Waiting(rows[i]) \/ LeftWaiting(i) \/ Cardinality(Found(rows[i].name)) > 1)
=============================================================================
