-------------------------- MODULE CertificatesProofs --------------------------
(***************************************************************************)
(* The queue of Certificates never stops with jobs in it, and a row that   *)
(* waits for a certificate waits for one of the known reasons: for every   *)
(* number of hosts, zones, administrators, requests and rows.  The page    *)
(* of the certificates asks about every row it has read as pending, and    *)
(* stops asking when none is: for any number of reads, changes and events. *)
(***************************************************************************)
EXTENDS MCCertificates, SequenceTheorems, FiniteSetTheorems, TLAPS

-----------------------------------------------------------------------------
(* Types *)

Labels == Hosts \cup Zones \cup {Parent[h] : h \in Hosts} \cup {""}
AnyName == {"host", "wild", "dir"} \X Labels
Row == [name : AnyName, last : {"none", "pending", "success", "failed"}, enabled : BOOLEAN,
        wildcard : {"none", "issuing", "txt_pending", "dns_verified", "active", "failed"}]
Copy == [id : Nat, row : Row]
Job == [name : AnyName, callback : {"", "row", "wild"}]
Steps == {"idle", "create", "issue", "renew", "renewed", "save", "sync", "delete", "enable",
          "persist", "dns", "reissue"}
Request == [pc : Steps, name : AnyName, method : {"", "persist", "dns"}, copy : Copy]
WorkerState == [busy : BOOLEAN, pc : {"none", "idle", "run", "complete", "save"}, job : Job,
                ok : BOOLEAN, copy : Copy]

RowsTyped == /\ serial \in Nat /\ DOMAIN rows \subseteq 1..serial
             /\ rows \in [DOMAIN rows -> Row]
QueueTyped == queue \in Seq(Job) /\ worker \in WorkerState
TypeOK == RowsTyped /\ QueueTyped /\ admin \in [Admins -> Request] /\ files \subseteq AnyName

\* The names a request can be about.
LEMMA NamesTyped ==
    /\ \A h \in Hosts : Host(h) \in AnyName /\ Wild(Parent[h]) \in AnyName /\ SyncName(h) \in AnyName
    /\ \A z \in Zones : Wild(z) \in AnyName /\ ZoneDir(z) \in AnyName
    /\ Names \subseteq AnyName
    /\ \A n \in AnyName : ZoneDir(n[2]) \in AnyName
<1>1. \A a \in {"host", "wild", "dir"}, b \in Labels : <<a, b>> \in AnyName
  BY DEF AnyName
<1>2. (\A h \in Hosts : h \in Labels /\ Parent[h] \in Labels) /\ (\A z \in Zones : z \in Labels)
  BY DEF Labels
<1>3. \A h \in Hosts : Host(h) \in AnyName /\ Wild(Parent[h]) \in AnyName
  BY <1>1, <1>2 DEF Host, Wild
<1>4. \A h \in Hosts : SyncName(h) \in AnyName
  BY <1>3 DEF SyncName
<1>5. \A z \in Zones : Wild(z) \in AnyName /\ ZoneDir(z) \in AnyName /\ DirName(z) \in AnyName
  BY <1>1, <1>2 DEF Wild, ZoneDir, DirName
<1>6. Names \subseteq AnyName
  BY <1>3, <1>5 DEF Names
<1>7. \A n \in AnyName : ZoneDir(n[2]) \in AnyName
  BY <1>1 DEF ZoneDir, AnyName
<1> QED
  BY <1>3, <1>4, <1>5, <1>6, <1>7

\* What stands for "no row", "no job" and "no request".
LEMMA NothingTyped ==
    /\ NoCopy \in Copy /\ NoCopy.id = 0 /\ NoJob \in Job
    /\ Idle \in Request /\ Idle.pc = "idle" /\ Idle.copy = NoCopy
    /\ Resting \in WorkerState /\ Resting.pc = "none" /\ Resting.busy = FALSE
    /\ NextRound \in WorkerState /\ NextRound.pc = "idle" /\ NextRound.busy = TRUE
<1>1. <<"host", "">> \in AnyName
  BY DEF AnyName, Labels
<1>2. NoCopy \in Copy /\ NoCopy.id = 0 /\ NoJob \in Job
  BY <1>1 DEF NoCopy, NewRow, NoJob, Copy, Row, Job
<1>3. Idle \in Request /\ Idle.pc = "idle" /\ Idle.copy = NoCopy
  BY <1>1, <1>2 DEF Idle, Request, Steps
<1>4. Resting \in WorkerState /\ Resting.pc = "none" /\ Resting.busy = FALSE
  BY <1>2 DEF Resting, WorkerState
<1>5. NextRound \in WorkerState /\ NextRound.pc = "idle" /\ NextRound.busy = TRUE
  BY <1>4 DEF NextRound, WorkerState
<1> QED
  BY <1>2, <1>3, <1>4, <1>5

\* A row as a request or the worker's callback writes it is a row of the same name.
LEMMA WrittenRows ==
    ASSUME NEW row \in Row
    PROVE  /\ \A job \in Job, ok \in BOOLEAN :
                Outcome(row, job, ok) \in Row /\ Outcome(row, job, ok).name = row.name
           /\ [row EXCEPT !.last = "pending"] \in Row /\ [row EXCEPT !.last = "pending"].name = row.name
           /\ \A name : Synced(name, row) \in Row /\ Synced(name, row).name = row.name
           /\ [row EXCEPT !.enabled = TRUE, !.wildcard = "issuing"] \in Row
           /\ [row EXCEPT !.enabled = TRUE, !.wildcard = "issuing"].name = row.name
           /\ [row EXCEPT !.enabled = FALSE, !.wildcard = "none"] \in Row
           /\ [row EXCEPT !.enabled = FALSE, !.wildcard = "none"].name = row.name
           /\ \A w \in {"txt_pending", "dns_verified", "issuing"} :
                [row EXCEPT !.wildcard = w] \in Row /\ [row EXCEPT !.wildcard = w].name = row.name
BY DEF Row, Outcome, Synced

\* A new row is of its name.
LEMMA NewRows ==
    ASSUME NEW name \in AnyName, NEW last \in {"none", "pending", "success"}
    PROVE  NewRow(name, last) \in Row /\ NewRow(name, last).name = name
BY DEF NewRow, Row

\* GetByDomain returns rows of the name it was given, with their number.
LEMMA CopiesAreRows ==
    ASSUME RowsTyped, NEW name, NEW copy \in Copies(name)
    PROVE  /\ copy \in Copy /\ copy.id \in DOMAIN rows /\ copy # NoCopy
           /\ copy.row = rows[copy.id] /\ copy.row.name = name
BY NothingTyped DEF RowsTyped, Copies, Found, Copy

\* Create inserts one row with the next number.
LEMMA Created ==
    ASSUME RowsTyped, NEW row \in Row, Create(row)
    PROVE  /\ RowsTyped' /\ serial' = serial + 1 /\ serial + 1 \notin DOMAIN rows
           /\ DOMAIN rows' = DOMAIN rows \cup {serial + 1} /\ rows'[serial + 1] = row
           /\ \A i \in DOMAIN rows : rows'[i] = rows[i]
BY DEF RowsTyped, Create

\* Update writes one row.
LEMMA Updated ==
    ASSUME RowsTyped, NEW id, NEW row \in Row, Update(id, row), UNCHANGED serial
    PROVE  /\ RowsTyped' /\ id \in DOMAIN rows /\ DOMAIN rows' = DOMAIN rows /\ rows'[id] = row
           /\ \A i \in DOMAIN rows : i # id => rows'[i] = rows[i]
BY DEF RowsTyped, Update

\* DeleteNamed removes the rows of some names and leaves the others.
LEMMA Deleted ==
    ASSUME RowsTyped, NEW names, DeleteNamed(names), UNCHANGED serial
    PROVE  /\ RowsTyped' /\ DOMAIN rows' = {i \in DOMAIN rows : rows[i].name \notin names}
           /\ \A i \in DOMAIN rows' : rows'[i] = rows[i]
BY DEF RowsTyped, DeleteNamed

\* The jobs of a queue to which one is added, and from which one is taken.
LEMMA JobsOfQueue ==
    ASSUME NEW q \in Seq(Job)
    PROVE  /\ \A job \in Job : ToSet(Append(q, job)) = ToSet(q) \cup {job}
           /\ q # <<>> => ToSet(q) = {Head(q)} \cup ToSet(Tail(q))
           /\ ToSet(q) \subseteq Job
<1>1. ASSUME NEW job \in Job
      PROVE  ToSet(Append(q, job)) = ToSet(q) \cup {job}
  <2>1. /\ Len(q) \in Nat /\ DOMAIN q = 1..Len(q) /\ DOMAIN Append(q, job) = 1..(Len(q) + 1)
        /\ \A k \in 1..Len(q) : Append(q, job)[k] = q[k]
        /\ Append(q, job)[Len(q) + 1] = job
    BY LenProperties, AppendProperties
  <2>2. \A k \in 1..(Len(q) + 1) : k \in 1..Len(q) \/ k = Len(q) + 1
    BY <2>1
  <2>3. Len(q) + 1 \in 1..(Len(q) + 1) /\ \A k \in 1..Len(q) : k \in 1..(Len(q) + 1)
    BY <2>1
  <2>4. ASSUME NEW x \in ToSet(q) \cup {job} PROVE x \in ToSet(Append(q, job))
    <3>1. CASE x = job
      <4>1. Len(q) + 1 \in DOMAIN Append(q, job) /\ x = Append(q, job)[Len(q) + 1]
        BY <3>1, <2>1, <2>3
      <4> QED
        BY ONLY <4>1, Zenon DEF ToSet
    <3>2. CASE x \in ToSet(q)
      <4>1. PICK k \in 1..Len(q) : x = q[k]
        BY <3>2, <2>1 DEF ToSet
      <4>2. k \in DOMAIN Append(q, job) /\ x = Append(q, job)[k]
        BY <4>1, <2>1, <2>3
      <4> QED
        BY ONLY <4>2, Zenon DEF ToSet
    <3> QED
      BY <2>4, <3>1, <3>2
  <2>5. ASSUME NEW x \in ToSet(Append(q, job)) PROVE x \in ToSet(q) \cup {job}
    <3>1. PICK k \in 1..(Len(q) + 1) : x = Append(q, job)[k]
      BY <2>1, <2>5, Zenon DEF ToSet
    <3>2. x = job \/ \E l \in DOMAIN q : x = q[l]
      BY <3>1, <2>1, <2>2, Zenon
    <3> QED
      BY <3>2, Zenon DEF ToSet
  <2> QED
    BY <2>4, <2>5
<1>2. ASSUME q # <<>>
      PROVE  ToSet(q) = {Head(q)} \cup ToSet(Tail(q))
  <2>1. /\ Len(q) \in Nat /\ Len(q) > 0 /\ DOMAIN q = 1..Len(q) /\ Head(q) = q[1]
        /\ DOMAIN Tail(q) = 1..(Len(q) - 1) /\ \A k \in 1..(Len(q) - 1) : Tail(q)[k] = q[k + 1]
    BY <1>2, HeadTailProperties, LenProperties, EmptySeq
  <2>2. \A k \in 1..Len(q) : q[k] = Head(q) \/ (k - 1 \in 1..(Len(q) - 1) /\ Tail(q)[k - 1] = q[k])
    BY <2>1
  <2>3. \A k \in 1..(Len(q) - 1) : k + 1 \in 1..Len(q)
    BY <2>1
  <2>4. ASSUME NEW x \in ToSet(q) PROVE x \in {Head(q)} \cup ToSet(Tail(q))
    <3>1. PICK k \in 1..Len(q) : x = q[k]
      BY <2>1, <2>4, Zenon DEF ToSet
    <3>2. x = Head(q) \/ \E l \in DOMAIN Tail(q) : x = Tail(q)[l]
      BY <3>1, <2>1, <2>2
    <3> QED
      BY <3>2, Zenon DEF ToSet
  <2>5. ASSUME NEW x \in {Head(q)} \cup ToSet(Tail(q)) PROVE x \in ToSet(q)
    <3>1. x = Head(q) \/ \E l \in 1..(Len(q) - 1) : x = Tail(q)[l]
      BY <2>1, <2>5, Zenon DEF ToSet
    <3>2. \E k \in DOMAIN q : x = q[k]
      BY <3>1, <2>1, <2>3
    <3> QED
      BY <3>2, Zenon DEF ToSet
  <2> QED
    BY <2>4, <2>5
<1>3. ToSet(q) \subseteq Job
  BY LenProperties DEF ToSet
<1> QED
  BY <1>1, <1>2, <1>3

-----------------------------------------------------------------------------
(* What a request or the worker knows of the row it works on *)

\* A copy was read from, or created as, a row of the name that is asked for; as long as
\* that row is there it has this name.
CopySound(copy, name, r, s) ==
    /\ copy.id <= s
    /\ copy.id # 0 => copy.row.name = name
    /\ copy.id \in DOMAIN r => r[copy.id].name = name

\* Hosts are issued, zones are made wildcards, and a request has the copy it works on.
RequestSound(q, r, s) ==
    /\ CopySound(q.copy, q.name, r, s)
    /\ q.pc \in {"create", "issue"} => q.name[1] = "host"
    /\ q.pc \in {"enable", "persist", "dns", "reissue"} => q.name[1] = "wild"
    /\ q.pc = "enable" => q.method \in {"persist", "dns"}

Base == /\ TypeOK
        /\ \A w \in Admins : RequestSound(admin[w], rows, serial)
        /\ worker.pc = "save" => CopySound(worker.copy, worker.job.name, rows, serial)

\* Rows keep their names, and numbers are not used again.
NamesKept == /\ serial <= serial'
             /\ \A i \in DOMAIN rows' :
                  i > serial \/ (i \in DOMAIN rows /\ rows'[i].name = rows[i].name)

\* Such a step leaves what is known of a row true.
LEMMA StillSound ==
    ASSUME RowsTyped, RowsTyped', NamesKept
    PROVE  /\ \A copy \in Copy : \A name : CopySound(copy, name, rows, serial) => CopySound(copy, name, rows', serial')
           /\ \A q \in Request : RequestSound(q, rows, serial) => RequestSound(q, rows', serial')
<1>1. ASSUME NEW copy \in Copy, NEW name, CopySound(copy, name, rows, serial)
      PROVE  CopySound(copy, name, rows', serial')
  BY <1>1 DEF RowsTyped, NamesKept, CopySound, Copy
<1>2. \A q \in Request : q.copy \in Copy
  BY DEF Request
<1> QED
  BY <1>1, <1>2 DEF RequestSound

\* Nothing happens to the rows.
LEMMA RowsUntouched ==
    ASSUME RowsTyped, UNCHANGED <<rows, serial>>
    PROVE  RowsTyped' /\ NamesKept
BY DEF RowsTyped, NamesKept

\* No copy is sound for any name.
LEMMA NoCopySound ==
    ASSUME RowsTyped
    PROVE  \A name : CopySound(NoCopy, name, rows, serial)
BY NothingTyped DEF RowsTyped, CopySound

\* A copy just read is sound.
LEMMA ReadSound ==
    ASSUME RowsTyped, NEW name, NEW copy \in CopyOrNone(name)
    PROVE  copy \in Copy /\ CopySound(copy, name, rows, serial)
<1>1. CASE copy = NoCopy
  BY <1>1, NoCopySound, NothingTyped
<1>2. CASE copy \in Copies(name)
  BY <1>2, CopiesAreRows DEF CopySound, RowsTyped
<1> QED
  BY <1>1, <1>2 DEF CopyOrNone

\* A step of one request that leaves the others and the worker's copy alone.
LEMMA BaseByParts ==
    ASSUME Base, RowsTyped', NamesKept, QueueTyped', files' \subseteq AnyName, NEW w \in Admins,
           admin' \in [Admins -> Request], \A v \in Admins : v # w => admin'[v] = admin[v],
           RequestSound(admin'[w], rows', serial'),
           worker'.pc = "save" => worker.pc = "save" /\ worker'.copy = worker.copy /\ worker'.job = worker.job
    PROVE  Base'
<1>1. ASSUME NEW v \in Admins PROVE RequestSound(admin'[v], rows', serial')
  <2>1. CASE v = w
    BY <2>1
  <2>2. CASE v # w
    <3>1. admin[v] \in Request /\ RequestSound(admin[v], rows, serial) /\ admin'[v] = admin[v]
      BY <2>2 DEF Base, TypeOK
    <3> QED
      BY <3>1, StillSound DEF Base, TypeOK
  <2> QED
    BY <2>1, <2>2
<1>2. worker'.pc = "save" => CopySound(worker'.copy, worker'.job.name, rows', serial')
  <2>1. worker.copy \in Copy
    BY DEF Base, TypeOK, QueueTyped, WorkerState
  <2> QED
    BY <2>1, StillSound DEF Base, TypeOK
<1>3. TypeOK'
  BY DEF TypeOK
<1> QED
  BY <1>1, <1>2, <1>3 DEF Base

\* A request goes on and ends.
LEMMA Went ==
    ASSUME admin \in [Admins -> Request], NEW w \in Admins, NEW pc \in Steps, NEW copy \in Copy,
           Goto(w, pc, copy)
    PROVE  /\ admin' \in [Admins -> Request]
           /\ \A v \in Admins : v # w => admin'[v] = admin[v]
           /\ admin'[w].pc = pc /\ admin'[w].name = admin[w].name
           /\ admin'[w].method = admin[w].method /\ admin'[w].copy = copy
BY DEF Goto, Request

\* A request is over.
LEMMA Ended ==
    ASSUME admin \in [Admins -> Request], NEW w \in Admins, End(w)
    PROVE  /\ admin' \in [Admins -> Request]
           /\ \A v \in Admins : v # w => admin'[v] = admin[v]
           /\ admin'[w] = Idle
BY NothingTyped DEF End

\* enqueue adds the job unless one of its name is queued, and wakes the worker.
LEMMA Enqueued ==
    ASSUME QueueTyped, NEW job \in Job, enqueue(job)
    PROVE  /\ QueueTyped' /\ ToSet(queue) \subseteq ToSet(queue')
           /\ \E j \in ToSet(queue') : j.name = job.name /\ (j = job \/ j \in ToSet(queue))
           /\ worker'.job = worker.job /\ worker'.copy = worker.copy /\ worker'.ok = worker.ok
           /\ worker'.pc = worker.pc \/ (~worker.busy /\ worker'.pc = "idle")
<1>1. CASE Queued(job.name) # {} /\ UNCHANGED <<queue, worker>>
  BY <1>1 DEF Queued, QueueTyped
<1>2. CASE Queued(job.name) = {} /\ queue' = Append(queue, job)
           /\ worker' = IF worker.busy THEN worker ELSE [worker EXCEPT !.busy = TRUE, !.pc = "idle"]
  <2>1. queue' \in Seq(Job) /\ ToSet(queue') = ToSet(queue) \cup {job}
    BY <1>2, JobsOfQueue, AppendProperties DEF QueueTyped
  <2>2. /\ worker' \in WorkerState
        /\ worker'.job = worker.job /\ worker'.copy = worker.copy /\ worker'.ok = worker.ok
        /\ worker'.pc = worker.pc \/ (~worker.busy /\ worker'.pc = "idle")
    BY <1>2 DEF WorkerState, QueueTyped
  <2> QED
    BY <2>1, <2>2 DEF QueueTyped
<1> QED
  BY <1>1, <1>2 DEF enqueue

\* A request that is over knows nothing.
LEMMA IdleSound ==
    ASSUME RowsTyped
    PROVE  RequestSound(Idle, rows, serial)
BY NothingTyped, NoCopySound DEF RequestSound

\* A request writes its copy, changed in anything but the name, and ends.
LEMMA SaveCopyBase ==
    ASSUME Base, NEW w \in Admins, NEW row \in Row, row.name = admin[w].copy.row.name, SaveCopy(w, row)
    PROVE  Base'
<1>1. RowsTyped' /\ NamesKept
  <2>1. CASE Update(admin[w].copy.id, row)
    <3>1. CopySound(admin[w].copy, admin[w].name, rows, serial) /\ admin[w].copy.id \in DOMAIN rows
      BY <2>1 DEF Base, RequestSound, Update
    <3>2. rows[admin[w].copy.id].name = row.name
      BY <3>1 DEF CopySound, Base, TypeOK, RowsTyped
    <3>3. RowsTyped' /\ DOMAIN rows' = DOMAIN rows /\ rows'[admin[w].copy.id] = row
          /\ serial' = serial /\ \A i \in DOMAIN rows : i # admin[w].copy.id => rows'[i] = rows[i]
      BY <2>1, Updated DEF SaveCopy, Base, TypeOK
    <3> QED
      BY <3>2, <3>3 DEF NamesKept, RowsTyped
  <2>2. CASE UNCHANGED rows
    BY <2>2, RowsUntouched DEF SaveCopy, Base, TypeOK
  <2> QED
    BY <2>1, <2>2 DEF SaveCopy, UpdateFails
<1>2. /\ admin' \in [Admins -> Request] /\ \A v \in Admins : v # w => admin'[v] = admin[v]
      /\ RequestSound(admin'[w], rows', serial')
  <2>1. RequestSound(Idle, rows', serial')
    BY <1>1, NothingTyped DEF RequestSound, CopySound, RowsTyped
  <2> QED
    BY <2>1, Ended DEF SaveCopy, Base, TypeOK
<1>3. UNCHANGED <<files, queue, worker>>
  BY DEF SaveCopy
<1>4. QueueTyped' /\ files' \subseteq AnyName
  BY <1>3 DEF QueueTyped, Base, TypeOK
<1> QED
  BY <1>1, <1>2, <1>3, <1>4, BaseByParts

\* Every request that starts from one of CertificateService's operations.
Start(w) ==
    \/ SyncAllFromFilesystem(w)
    \/ \E h \in Hosts : CreateApp(w, h) \/ IssueDomain(w, h)
    \/ \E name \in Names :
        RenewCertificate(w, name) \/ ValidateCertificate(w, name) \/ DeleteCertificate(w, name)
    \/ \E z \in Zones :
        \/ \E method \in {"persist", "dns"} : EnableWildcard(w, z, method)
        \/ VerifyWildcardDNS(w, z) \/ IssueWildcardCert(w, z) \/ DisableWildcard(w, z)

\* Of a start the invariants need only this.
Started(w) ==
    \E pc \in {"create", "renew", "save", "sync", "delete", "enable", "reissue"}, name \in AnyName,
       method \in {"", "persist", "dns"}, copy \in Copy :
        /\ Begin(w, pc, name, method, copy)
        /\ CopySound(copy, name, rows, serial)
        /\ pc = "create" => name[1] = "host"
        /\ pc \in {"enable", "reissue"} => name[1] = "wild"
        /\ pc = "enable" => method \in {"persist", "dns"}
        /\ files' \subseteq AnyName /\ UNCHANGED <<rows, serial, queue, worker, loose>>

\* IssueDomain
LEMMA IssueDomainStarts ==
    ASSUME Base, NEW w \in Admins, NEW h \in Hosts, IssueDomain(w, h)
    PROVE  Started(w)
<1>1. Begin(w, "create", Host(h), "", NoCopy) /\ UNCHANGED <<rows, serial, files, queue, worker, loose>>
  BY DEF IssueDomain
<1>2. Host(h) \in AnyName /\ Host(h)[1] = "host" /\ NoCopy \in Copy
  BY NamesTyped, NothingTyped DEF Host
<1>3. CopySound(NoCopy, Host(h), rows, serial) /\ files' \subseteq AnyName
  BY <1>1, NoCopySound DEF Base, TypeOK
<1> QED
  BY <1>1, <1>2, <1>3 DEF Started

\* SyncFromACME and each round of SyncAllFromFilesystem
LEMMA SyncStarts ==
    ASSUME Base, NEW w \in Admins, NEW name \in AnyName, SyncRead(w, name)
    PROVE  Started(w)
<1>1. PICK copy \in CopyOrNone(name) :
        Begin(w, IF copy = NoCopy THEN "sync" ELSE "save", name, "", [copy EXCEPT !.row = Synced(name, @)])
  BY DEF SyncRead
<1>2. UNCHANGED <<rows, serial, files, queue, worker, loose>>
  BY DEF SyncRead
<1>3. copy \in Copy /\ CopySound(copy, name, rows, serial)
  BY ReadSound DEF Base, TypeOK
<1> DEFINE synced == [copy EXCEPT !.row = Synced(name, @)]
<1>4. synced \in Copy /\ synced.id = copy.id /\ synced.row.name = copy.row.name
  BY <1>3, WrittenRows DEF Copy
<1>5. CopySound(synced, name, rows, serial)
  BY <1>3, <1>4 DEF CopySound
<1>6. files' \subseteq AnyName
  BY <1>2 DEF Base, TypeOK
<1> HIDE DEF synced
<1>7. Begin(w, IF copy = NoCopy THEN "sync" ELSE "save", name, "", synced)
  BY <1>1 DEF synced
<1>8. CASE copy = NoCopy
  <2>1. Begin(w, "sync", name, "", synced)
    BY <1>7, <1>8
  <2> QED
    BY <2>1, <1>2, <1>4, <1>5, <1>6 DEF Started
<1>9. CASE copy # NoCopy
  <2>1. Begin(w, "save", name, "", synced)
    BY <1>7, <1>9
  <2> QED
    BY <2>1, <1>2, <1>4, <1>5, <1>6 DEF Started
<1> QED
  BY <1>8, <1>9

\* A copy just read in which anything but the name is changed.
LEMMA ChangedSound ==
    ASSUME RowsTyped, NEW name, NEW copy \in CopyOrNone(name), NEW row \in Row, row.name = copy.row.name
    PROVE  [copy EXCEPT !.row = row] \in Copy /\ CopySound([copy EXCEPT !.row = row], name, rows, serial)
<1>1. copy \in Copy /\ CopySound(copy, name, rows, serial)
  BY ReadSound
<1> DEFINE changed == [copy EXCEPT !.row = row]
<1>2. changed \in Copy /\ changed.id = copy.id /\ changed.row = row
  BY <1>1 DEF Copy
<1>3. CopySound(changed, name, rows, serial)
  BY <1>1, <1>2 DEF CopySound
<1> QED
  BY <1>2, <1>3

\* RenewCertificate, ValidateCertificate and DeleteCertificate
LEMMA NamedStarts ==
    ASSUME Base, NEW w \in Admins, NEW name \in Names,
           RenewCertificate(w, name) \/ ValidateCertificate(w, name) \/ DeleteCertificate(w, name)
    PROVE  Started(w)
<1>1. name \in AnyName /\ files \subseteq AnyName /\ RowsTyped
  BY NamesTyped DEF Base, TypeOK
<1>2. ASSUME RenewCertificate(w, name) \/ ValidateCertificate(w, name)
      PROVE  Started(w)
  <2>1. PICK pc \in {"renew", "save"}, copy \in Copies(name) : Begin(w, pc, name, "", copy)
    BY <1>2 DEF RenewCertificate, ValidateCertificate
  <2>2. UNCHANGED <<rows, serial, files, queue, worker, loose>>
    BY <1>2 DEF RenewCertificate, ValidateCertificate
  <2>3. copy \in Copy /\ CopySound(copy, name, rows, serial)
    BY <1>1, ReadSound DEF CopyOrNone, Copies
  <2>4. pc \in {"create", "renew", "save", "sync", "delete", "enable", "reissue"} /\ files' \subseteq AnyName
    BY <1>1, <2>2
  <2> QED
    BY <2>1, <2>2, <2>3, <2>4, <1>1 DEF Started
<1>3. CASE DeleteCertificate(w, name)
  <2>1. PICK copy \in Copies(name) :
          /\ Begin(w, "delete", name, "", NoCopy)
          /\ files' = files \ {IF copy.row.enabled THEN ZoneDir(name[2]) ELSE name}
    BY <1>3 DEF DeleteCertificate
  <2>2. UNCHANGED <<rows, serial, queue, worker, loose>>
    BY <1>3 DEF DeleteCertificate
  <2> QED
    BY <2>1, <2>2, <1>1, NoCopySound, NothingTyped DEF Started
<1> QED
  BY <1>2, <1>3

\* EnableWildcard, VerifyWildcardDNS, IssueWildcardCert and DisableWildcard
LEMMA ZoneStarts ==
    ASSUME Base, NEW w \in Admins, NEW z \in Zones,
           \/ \E method \in {"persist", "dns"} : EnableWildcard(w, z, method)
           \/ VerifyWildcardDNS(w, z) \/ IssueWildcardCert(w, z) \/ DisableWildcard(w, z)
    PROVE  Started(w)
<1>1. Wild(z) \in AnyName /\ Wild(z)[1] = "wild" /\ files \subseteq AnyName /\ RowsTyped
  BY NamesTyped DEF Base, TypeOK, Wild
<1>2. ASSUME NEW method \in {"persist", "dns"}, EnableWildcard(w, z, method)
      PROVE  Started(w)
  <2>1. PICK copy \in CopyOrNone(Wild(z)) : Begin(w, "enable", Wild(z), method, copy)
    BY <1>2 DEF EnableWildcard
  <2>2. UNCHANGED <<rows, serial, files, queue, worker, loose>>
    BY <1>2 DEF EnableWildcard
  <2>3. copy \in Copy /\ CopySound(copy, Wild(z), rows, serial)
    BY <1>1, ReadSound
  <2> QED
    BY <2>1, <2>2, <2>3, <1>1 DEF Started
<1>3. \A copy \in CopyOrNone(Wild(z)) : copy \in Copy /\ copy.row \in Row
  BY <1>1, ReadSound DEF Copy
<1>4. CASE VerifyWildcardDNS(w, z)
  <2>1. PICK copy \in Copies(Wild(z)) : Begin(w, "save", Wild(z), "", [copy EXCEPT !.row.wildcard = "dns_verified"])
    BY <1>4 DEF VerifyWildcardDNS
  <2>2. UNCHANGED <<rows, serial, files, queue, worker, loose>>
    BY <1>4 DEF VerifyWildcardDNS
  <2>3. copy \in CopyOrNone(Wild(z))
    BY DEF CopyOrNone, Copies
  <2> DEFINE row == [copy.row EXCEPT !.wildcard = "dns_verified"]
  <2>4. row \in Row /\ row.name = copy.row.name /\ [copy EXCEPT !.row.wildcard = "dns_verified"] = [copy EXCEPT !.row = row]
    BY <1>3, <2>3, WrittenRows DEF Copy
  <2> DEFINE changed == [copy EXCEPT !.row = row]
  <2>5. Begin(w, "save", Wild(z), "", changed)
    BY <2>1, <2>4
  <2>6. files' \subseteq AnyName
    BY <1>1, <2>2
  <2> HIDE DEF row
  <2>7. changed \in Copy /\ CopySound(changed, Wild(z), rows, serial)
    BY <1>1, <2>3, <2>4, ChangedSound
  <2> HIDE DEF changed
  <2> QED
    BY <1>1, <2>2, <2>5, <2>6, <2>7 DEF Started
<1>5. CASE IssueWildcardCert(w, z)
  <2>1. PICK copy \in Copies(Wild(z)) :
          /\ files' = IF copy.row.wildcard = "failed" THEN files \ {ZoneDir(z)} ELSE files
          /\ Begin(w, "reissue", Wild(z), "dns", [copy EXCEPT !.row.wildcard = "issuing"])
    BY <1>5 DEF IssueWildcardCert
  <2>2. UNCHANGED <<rows, serial, queue, worker, loose>>
    BY <1>5 DEF IssueWildcardCert
  <2>3. copy \in CopyOrNone(Wild(z))
    BY DEF CopyOrNone, Copies
  <2> DEFINE row == [copy.row EXCEPT !.wildcard = "issuing"]
  <2>4. row \in Row /\ row.name = copy.row.name /\ [copy EXCEPT !.row.wildcard = "issuing"] = [copy EXCEPT !.row = row]
    BY <1>3, <2>3, WrittenRows DEF Copy
  <2> DEFINE changed == [copy EXCEPT !.row = row]
  <2>5. Begin(w, "reissue", Wild(z), "dns", changed)
    BY <2>1, <2>4
  <2>6. files' \subseteq AnyName
    BY <1>1, <2>1
  <2> HIDE DEF row
  <2>7. changed \in Copy /\ CopySound(changed, Wild(z), rows, serial)
    BY <1>1, <2>3, <2>4, ChangedSound
  <2> HIDE DEF changed
  <2> QED
    BY <1>1, <2>2, <2>5, <2>6, <2>7 DEF Started
<1>6. CASE DisableWildcard(w, z)
  <2>1. PICK copy \in Copies(Wild(z)) :
          Begin(w, "save", Wild(z), "", [copy EXCEPT !.row.enabled = FALSE, !.row.wildcard = "none"])
    BY <1>6 DEF DisableWildcard
  <2>2. UNCHANGED <<rows, serial, files, queue, worker, loose>>
    BY <1>6 DEF DisableWildcard
  <2>3. copy \in CopyOrNone(Wild(z))
    BY DEF CopyOrNone, Copies
  <2> DEFINE row == [copy.row EXCEPT !.enabled = FALSE, !.wildcard = "none"]
  <2>4. row \in Row /\ row.name = copy.row.name
        /\ [copy EXCEPT !.row.enabled = FALSE, !.row.wildcard = "none"] = [copy EXCEPT !.row = row]
    BY <1>3, <2>3, WrittenRows DEF Copy
  <2> DEFINE changed == [copy EXCEPT !.row = row]
  <2>5. Begin(w, "save", Wild(z), "", changed)
    BY <2>1, <2>4
  <2>6. files' \subseteq AnyName
    BY <1>1, <2>2
  <2> HIDE DEF row
  <2>7. changed \in Copy /\ CopySound(changed, Wild(z), rows, serial)
    BY <1>1, <2>3, <2>4, ChangedSound
  <2> HIDE DEF changed
  <2> QED
    BY <1>1, <2>2, <2>5, <2>6, <2>7 DEF Started
<1> QED
  BY <1>2, <1>4, <1>5, <1>6

\* A start is one of these.
LEMMA StartStarts ==
    ASSUME Base, NEW w \in Admins, Start(w)
    PROVE  Started(w)
<1>1. ASSUME NEW h \in Hosts, CreateApp(w, h) PROVE Started(w)
  BY <1>1, NamesTyped, SyncStarts, IssueDomainStarts DEF CreateApp, SyncFromACME
<1>2. CASE SyncAllFromFilesystem(w)
  BY <1>2, SyncStarts DEF SyncAllFromFilesystem, Base, TypeOK
<1> QED
  BY <1>1, <1>2, IssueDomainStarts, NamedStarts, ZoneStarts DEF Start

\* A start leaves what is known of rows true.
LEMMA StartedBase ==
    ASSUME Base, NEW w \in Admins, Started(w)
    PROVE  Base'
<1>1. PICK pc \in {"create", "renew", "save", "sync", "delete", "enable", "reissue"}, name \in AnyName,
           method \in {"", "persist", "dns"}, copy \in Copy :
        /\ Begin(w, pc, name, method, copy)
        /\ CopySound(copy, name, rows, serial)
        /\ pc = "create" => name[1] = "host"
        /\ pc \in {"enable", "reissue"} => name[1] = "wild"
        /\ pc = "enable" => method \in {"persist", "dns"}
        /\ files' \subseteq AnyName /\ UNCHANGED <<rows, serial, queue, worker, loose>>
  BY DEF Started
<1>2. /\ admin' \in [Admins -> Request] /\ \A v \in Admins : v # w => admin'[v] = admin[v]
      /\ admin'[w].pc = pc /\ admin'[w].name = name /\ admin'[w].method = method
      /\ admin'[w].copy = copy
  <2>1. admin \in [Admins -> Request] /\ pc \in Steps
    BY DEF Base, TypeOK, Steps
  <2> QED
    BY <2>1, <1>1 DEF Begin, Request
<1>3. RowsTyped' /\ NamesKept
  BY <1>1, RowsUntouched DEF Base, TypeOK
<1>4. CopySound(copy, name, rows', serial')
  BY <1>1, <1>3, StillSound DEF Base, TypeOK
<1>5. RequestSound(admin'[w], rows', serial')
  BY <1>1, <1>2, <1>4 DEF RequestSound
<1>6. QueueTyped'
  BY <1>1 DEF Base, TypeOK, QueueTyped
<1> QED
  BY <1>1, <1>2, <1>3, <1>5, <1>6, BaseByParts

\* A job queued by a request that goes on with its copy, or ends.
LEMMA QueueBase ==
    ASSUME Base, NEW w \in Admins, NEW job \in Job, enqueue(job) \/ UNCHANGED <<queue, worker>>,
           UNCHANGED <<rows, serial, files>>, admin' \in [Admins -> Request],
           \A v \in Admins : v # w => admin'[v] = admin[v],
           RequestSound(admin'[w], rows, serial)
    PROVE  Base'
<1>1. RowsTyped' /\ NamesKept
  BY RowsUntouched DEF Base, TypeOK
<1>2. QueueTyped /\ files' \subseteq AnyName
  BY DEF Base, TypeOK
<1>3. QueueTyped'
      /\ (worker'.pc = "save" => worker.pc = "save" /\ worker'.copy = worker.copy /\ worker'.job = worker.job)
  <2>1. CASE enqueue(job)
    BY <1>2, <2>1, Enqueued
  <2>2. CASE UNCHANGED <<queue, worker>>
    BY <1>2, <2>2 DEF QueueTyped
  <2> QED
    BY <2>1, <2>2
<1>4. RequestSound(admin'[w], rows', serial')
  OBVIOUS
<1> QED
  BY <1>1, <1>2, <1>3, <1>4, BaseByParts

\* The job a request queues.
LEMMA JobTyped ==
    ASSUME Base, NEW w \in Admins
    PROVE  /\ admin[w] \in Request /\ RequestSound(admin[w], rows, serial)
           /\ \A callback \in {"row", "wild"} :
                [name |-> admin[w].name, callback |-> callback] \in Job
BY DEF Base, TypeOK, Request, Job

\* IssueCreate, SyncCreate, EnableSave: a new row, and a request that ends or goes on with it.
LEMMA CreateBase ==
    ASSUME Base, NEW w \in Admins, NEW row \in Row, Create(row), UNCHANGED <<files, queue, worker>>,
           row.name = admin[w].name, NEW pc \in {"issue", "persist", "dns"},
           \/ End(w)
           \/ /\ Goto(w, pc, [id |-> serial + 1, row |-> row])
              /\ admin[w].name[1] = IF pc = "issue" THEN "host" ELSE "wild"
    PROVE  Base'
<1>1. RowsTyped /\ admin \in [Admins -> Request] /\ serial \in Nat
  BY DEF Base, TypeOK, RowsTyped
<1>2. /\ RowsTyped' /\ serial' = serial + 1 /\ DOMAIN rows' = DOMAIN rows \cup {serial + 1}
      /\ rows'[serial + 1] = row /\ \A i \in DOMAIN rows : rows'[i] = rows[i]
  BY <1>1, Created
<1>3. NamesKept
  BY <1>1, <1>2 DEF NamesKept
<1>4. /\ admin' \in [Admins -> Request] /\ \A v \in Admins : v # w => admin'[v] = admin[v]
      /\ RequestSound(admin'[w], rows', serial')
  <2>1. CASE End(w)
    <3>1. RequestSound(Idle, rows', serial')
      BY <1>2, NothingTyped DEF RequestSound, CopySound, RowsTyped
    <3> QED
      BY <1>1, <2>1, <3>1, Ended
  <2>2. CASE Goto(w, pc, [id |-> serial + 1, row |-> row])
             /\ admin[w].name[1] = IF pc = "issue" THEN "host" ELSE "wild"
    <3> DEFINE copy == [id |-> serial + 1, row |-> row]
    <3>1. copy \in Copy /\ copy.id = serial + 1 /\ copy.row = row /\ pc \in Steps
      BY <1>1 DEF Copy, Steps
    <3>2. CopySound(copy, admin[w].name, rows', serial')
      BY <1>1, <1>2, <3>1 DEF CopySound
    <3>3. Goto(w, pc, copy)
      BY <2>2
    <3> HIDE DEF copy
    <3>4. /\ admin' \in [Admins -> Request] /\ \A v \in Admins : v # w => admin'[v] = admin[v]
          /\ admin'[w].pc = pc /\ admin'[w].name = admin[w].name /\ admin'[w].copy = copy
      BY <1>1, <3>1, <3>3, Went
    <3> QED
      BY <2>2, <3>2, <3>4 DEF RequestSound
  <2> QED
    BY <2>1, <2>2
<1>5. QueueTyped' /\ files' \subseteq AnyName
  BY DEF Base, TypeOK, QueueTyped
<1> QED
  BY <1>2, <1>3, <1>4, <1>5, BaseByParts

\* EnableSave, IssueWildcardSave: the copy is written and the request goes on with it, or
\* ends when its row is gone.
LEMMA UpdateBase ==
    ASSUME Base, NEW w \in Admins, NEW row \in Row, row.name = admin[w].copy.row.name,
           NEW pc \in {"persist", "dns"}, NEW copy \in Copy, copy.id = admin[w].copy.id, copy.row = row,
           admin[w].name[1] = "wild", UNCHANGED <<serial, files, queue, worker>>,
           \/ Update(admin[w].copy.id, row) /\ Goto(w, pc, copy)
           \/ UpdateFails(admin[w].copy.id) /\ End(w)
    PROVE  Base'
<1>1. RowsTyped /\ admin \in [Admins -> Request] /\ serial \in Nat
  BY DEF Base, TypeOK, RowsTyped
<1>2. CASE Update(admin[w].copy.id, row) /\ Goto(w, pc, copy)
  <2>1. /\ RowsTyped' /\ DOMAIN rows' = DOMAIN rows /\ rows'[copy.id] = row
        /\ copy.id \in DOMAIN rows /\ \A i \in DOMAIN rows : i # copy.id => rows'[i] = rows[i]
    BY <1>1, <1>2, Updated
  <2>2. CopySound(admin[w].copy, admin[w].name, rows, serial)
    BY DEF Base, RequestSound
  <2>3. row.name = admin[w].name /\ rows[copy.id].name = row.name /\ copy.id <= serial
    BY <1>1, <2>1, <2>2 DEF CopySound, RowsTyped
  <2>4. NamesKept
    BY <1>1, <2>1, <2>3 DEF NamesKept
  <2>5. CopySound(copy, admin[w].name, rows', serial')
    BY <2>1, <2>3 DEF CopySound
  <2>6. /\ admin' \in [Admins -> Request] /\ \A v \in Admins : v # w => admin'[v] = admin[v]
        /\ admin'[w].pc = pc /\ admin'[w].name = admin[w].name /\ admin'[w].copy = copy
    BY <1>1, <1>2, Went DEF Steps
  <2>7. RequestSound(admin'[w], rows', serial')
    BY <2>5, <2>6 DEF RequestSound
  <2>8. QueueTyped' /\ files' \subseteq AnyName
    BY DEF Base, TypeOK, QueueTyped
  <2> QED
    BY <2>1, <2>4, <2>6, <2>7, <2>8, BaseByParts
<1>3. CASE UpdateFails(admin[w].copy.id) /\ End(w)
  <2>1. /\ admin' \in [Admins -> Request] /\ \A v \in Admins : v # w => admin'[v] = admin[v]
        /\ RequestSound(admin'[w], rows, serial)
    BY <1>1, <1>3, Ended, IdleSound
  <2> QED
    BY <1>3, <2>1, QueueBase, NothingTyped DEF UpdateFails
<1> QED
  BY <1>2, <1>3

\* A request goes on: one step per continuation of the operations.
LEMMA ContinueBase ==
    ASSUME Base, NEW w \in Admins, Continue(w)
    PROVE  Base'
<1>1. /\ admin[w] \in Request /\ admin[w].copy \in Copy /\ admin[w].copy.row \in Row
      /\ admin[w].name \in AnyName /\ admin \in [Admins -> Request] /\ RowsTyped
      /\ RequestSound(admin[w], rows, serial) /\ RequestSound(Idle, rows, serial)
  BY IdleSound DEF Base, TypeOK, Request, Copy
<1>2. CASE IssueCreate(w)
  <2> DEFINE row == NewRow(admin[w].name, "pending")
  <2>1. row \in Row /\ row.name = admin[w].name
    BY <1>1, NewRows
  <2>2. Create(row) /\ Goto(w, "issue", [id |-> serial + 1, row |-> row]) /\ admin[w].pc = "create"
        /\ UNCHANGED <<files, queue, worker>>
    BY <1>2 DEF IssueCreate
  <2>3. admin[w].name[1] = "host"
    BY <1>1, <2>2 DEF RequestSound
  <2> HIDE DEF row
  <2> QED
    BY <2>1, <2>2, <2>3, CreateBase
<1>3. CASE IssueAsync(w)
  <2>1. enqueue([name |-> admin[w].name, callback |-> "row"]) \/ UNCHANGED <<queue, worker>>
    BY <1>3 DEF IssueAsync
  <2>2. End(w) /\ UNCHANGED <<rows, serial, files>>
    BY <1>3 DEF IssueAsync
  <2> QED
    BY <1>1, <2>1, <2>2, JobTyped, Ended, QueueBase
<1>4. CASE RenewAsync(w)
  <2>1. enqueue([name |-> admin[w].name, callback |-> "row"]) /\ Goto(w, "renewed", admin[w].copy)
        /\ UNCHANGED <<rows, serial, files>>
    BY <1>4 DEF RenewAsync
  <2>2. /\ admin' \in [Admins -> Request] /\ \A v \in Admins : v # w => admin'[v] = admin[v]
        /\ admin'[w].pc = "renewed" /\ admin'[w].name = admin[w].name /\ admin'[w].copy = admin[w].copy
    BY <1>1, <2>1, Went DEF Steps
  <2>3. RequestSound(admin'[w], rows, serial)
    BY <1>1, <2>2 DEF RequestSound
  <2> QED
    BY <2>1, <2>2, <2>3, JobTyped, QueueBase
<1>5. CASE RenewSave(w)
  BY <1>1, <1>5, WrittenRows, SaveCopyBase DEF RenewSave
<1>6. CASE SyncCreate(w)
  <2> DEFINE new == NewRow(admin[w].name, "success")
             row == Synced(admin[w].name, new)
  <2>1. row \in Row /\ row.name = admin[w].name
    <3>1. new \in Row /\ new.name = admin[w].name
      BY <1>1, NewRows
    <3> HIDE DEF new
    <3> QED
      BY <3>1, WrittenRows
  <2>2. Create(row) /\ End(w) /\ UNCHANGED <<files, queue, worker>>
    BY <1>6 DEF SyncCreate
  <2> HIDE DEF row
  <2> QED
    BY <2>1, <2>2, CreateBase
<1>7. CASE Save(w)
  BY <1>1, <1>7, SaveCopyBase DEF Save
<1>8. CASE DeleteByDomain(w)
  <2>1. DeleteNamed({admin[w].name}) /\ End(w) /\ UNCHANGED <<serial, files, queue, worker>>
    BY <1>8 DEF DeleteByDomain
  <2>2. /\ RowsTyped' /\ DOMAIN rows' \subseteq DOMAIN rows
        /\ \A i \in DOMAIN rows' : rows'[i] = rows[i]
    BY <1>1, <2>1, Deleted
  <2>3. NamesKept
    BY <1>1, <2>1, <2>2 DEF NamesKept, RowsTyped
  <2>4. /\ admin' \in [Admins -> Request] /\ \A v \in Admins : v # w => admin'[v] = admin[v]
        /\ RequestSound(admin'[w], rows', serial')
    BY <1>1, <2>1, <2>2, <2>3, Ended, StillSound, NothingTyped
  <2>5. QueueTyped' /\ files' \subseteq AnyName
    BY <2>1 DEF Base, TypeOK, QueueTyped
  <2> QED
    BY <2>1, <2>2, <2>3, <2>4, <2>5, BaseByParts
<1>9. CASE EnableSave(w)
  <2> DEFINE old == IF admin[w].copy = NoCopy THEN NewRow(admin[w].name, "pending") ELSE admin[w].copy.row
             row == [old EXCEPT !.enabled = TRUE, !.wildcard = "issuing"]
  <2>1. admin[w].name[1] = "wild" /\ admin[w].method \in {"persist", "dns"} /\ admin[w].pc = "enable"
    BY <1>1, <1>9 DEF RequestSound, EnableSave
  <2>2. old \in Row /\ (admin[w].copy = NoCopy => old.name = admin[w].name)
        /\ (admin[w].copy # NoCopy => old.name = admin[w].copy.row.name)
    BY <1>1, NewRows
  <2>3. row \in Row /\ (admin[w].copy = NoCopy => row.name = admin[w].name)
        /\ (admin[w].copy # NoCopy => row.name = admin[w].copy.row.name)
    <3> HIDE DEF old
    <3> QED
      BY <2>2, WrittenRows
  <2>4. /\ \/ /\ admin[w].copy = NoCopy /\ Create(row)
              /\ Goto(w, admin[w].method, [id |-> serial + 1, row |-> row])
           \/ /\ admin[w].copy # NoCopy /\ Update(admin[w].copy.id, row) /\ UNCHANGED serial
              /\ Goto(w, admin[w].method, [admin[w].copy EXCEPT !.row = row])
           \/ admin[w].copy # NoCopy /\ UpdateFails(admin[w].copy.id) /\ End(w) /\ UNCHANGED serial
        /\ UNCHANGED <<files, queue, worker>>
    BY <1>9 DEF EnableSave
  <2> HIDE DEF row, old
  <2> DEFINE changed == [admin[w].copy EXCEPT !.row = row]
  <2>5. changed \in Copy /\ changed.id = admin[w].copy.id /\ changed.row = row
    BY <1>1, <2>3 DEF Copy
  <2>6. CASE admin[w].copy = NoCopy
    BY <2>1, <2>3, <2>4, <2>6, CreateBase
  <2>7. CASE admin[w].copy # NoCopy
    <3>1. \/ Update(admin[w].copy.id, row) /\ Goto(w, admin[w].method, changed)
          \/ UpdateFails(admin[w].copy.id) /\ End(w)
      BY <2>4, <2>7
    <3>2. UNCHANGED <<serial, files, queue, worker>>
      BY <2>4, <2>7
    <3> HIDE DEF changed
    <3> QED
      BY <2>1, <2>3, <2>5, <2>7, <3>1, <3>2, UpdateBase
  <2> QED
    BY <2>6, <2>7
<1>10. CASE MakePersistValue(w)
  <2>1. CASE SaveCopy(w, [admin[w].copy.row EXCEPT !.wildcard = "txt_pending"])
    BY <1>1, <2>1, WrittenRows, SaveCopyBase
  <2>2. CASE End(w) /\ UNCHANGED <<rows, serial, files, queue, worker>>
    BY <1>1, <2>2, Ended, QueueBase, NothingTyped
  <2> QED
    BY <1>10, <2>1, <2>2 DEF MakePersistValue
<1>11. CASE IssueWildcardAsync(w)
  <2>1. enqueue([name |-> admin[w].name, callback |-> "wild"]) /\ End(w) /\ UNCHANGED <<rows, serial, files>>
    BY <1>11 DEF IssueWildcardAsync
  <2> QED
    BY <1>1, <2>1, JobTyped, Ended, QueueBase
<1>12. CASE IssueWildcardSave(w)
  <2>1. /\ \/ Update(admin[w].copy.id, admin[w].copy.row) /\ Goto(w, "dns", admin[w].copy)
           \/ UpdateFails(admin[w].copy.id) /\ End(w)
        /\ UNCHANGED <<serial, files, queue, worker>>
    BY <1>12 DEF IssueWildcardSave
  <2>2. admin[w].name[1] = "wild"
    BY <1>1, <1>12 DEF RequestSound, IssueWildcardSave
  <2> QED
    BY <1>1, <2>1, <2>2, UpdateBase
<1> QED
  BY <1>2, <1>3, <1>4, <1>5, <1>6, <1>7, <1>8, <1>9, <1>10, <1>11, <1>12 DEF Continue

\* The worker takes a job, runs it, reads the row and writes the outcome.
LEMMA WorkerBase ==
    ASSUME Base, Worker
    PROVE  Base'
<1>1. /\ RowsTyped /\ queue \in Seq(Job) /\ worker \in WorkerState /\ files \subseteq AnyName
      /\ worker.job \in Job /\ worker.copy \in Copy /\ worker.copy.row \in Row /\ worker.ok \in BOOLEAN
  BY DEF Base, TypeOK, QueueTyped, WorkerState, Copy
<1>2. ASSUME RowsTyped', NamesKept, QueueTyped', files' \subseteq AnyName, UNCHANGED admin,
             worker'.pc = "save" => CopySound(worker'.copy, worker'.job.name, rows', serial')
      PROVE  Base'
  <2>1. \A w \in Admins : admin[w] \in Request /\ RequestSound(admin[w], rows, serial)
    BY DEF Base, TypeOK
  <2>2. \A w \in Admins : RequestSound(admin'[w], rows', serial')
    BY <1>1, <1>2, <2>1, StillSound
  <2>3. TypeOK'
    BY <1>2 DEF Base, TypeOK
  <2> QED
    BY <1>2, <2>2, <2>3 DEF Base
<1>3. UNCHANGED <<rows, serial>> => RowsTyped' /\ NamesKept
  BY <1>1, RowsUntouched
<1>4. CASE WorkerTake
  <2>1. QueueTyped' /\ worker'.pc # "save"
    <3>1. CASE queue = <<>> /\ worker' = Resting /\ UNCHANGED queue
      BY <1>1, <3>1, NothingTyped DEF QueueTyped
    <3>2. CASE queue # <<>> /\ worker' = [worker EXCEPT !.pc = "run", !.job = Head(queue)]
               /\ queue' = Tail(queue)
      <4>1. Head(queue) \in Job /\ Tail(queue) \in Seq(Job)
        BY <1>1, <3>2, HeadTailProperties
      <4> QED
        BY <1>1, <3>2, <4>1 DEF QueueTyped, WorkerState
    <3> QED
      BY <1>4, <3>1, <3>2 DEF WorkerTake
  <2> QED
    BY <1>1, <1>2, <1>3, <1>4, <2>1 DEF WorkerTake
<1>5. CASE WorkerRun
  <2>1. worker' \in WorkerState /\ worker'.pc = "complete"
    BY <1>1, <1>5 DEF WorkerRun, WorkerState
  <2>2. files' \subseteq AnyName
    <3>1. worker.job.name \in AnyName /\ ZoneDir(worker.job.name[2]) \in AnyName
      BY <1>1, NamesTyped DEF Job
    <3> QED
      BY <1>1, <1>5, <3>1 DEF WorkerRun
  <2> QED
    BY <1>1, <1>2, <1>3, <1>5, <2>1, <2>2 DEF WorkerRun, QueueTyped
<1>6. CASE CompleteRead
  <2>1. PICK copy \in CopyOrNone(worker.job.name) :
          worker' = IF copy = NoCopy THEN NextRound ELSE [worker EXCEPT !.pc = "save", !.copy = copy]
    BY <1>6 DEF CompleteRead
  <2>2. copy \in Copy /\ CopySound(copy, worker.job.name, rows, serial)
    BY <1>1, ReadSound
  <2>3. /\ worker' \in WorkerState
        /\ worker'.pc = "save" => worker'.copy = copy /\ worker'.job = worker.job
    BY <1>1, <2>1, <2>2, NothingTyped DEF WorkerState
  <2> QED
    BY <1>1, <1>2, <1>3, <1>6, <2>2, <2>3 DEF CompleteRead, QueueTyped
<1>7. CASE CompleteSave
  <2> DEFINE row == Outcome(worker.copy.row, worker.job, worker.ok)
  <2>1. row \in Row /\ row.name = worker.copy.row.name
    BY <1>1, WrittenRows
  <2>2. (Update(worker.copy.id, row) \/ UpdateFails(worker.copy.id)) /\ worker' = NextRound
        /\ UNCHANGED <<serial, files, queue, admin>> /\ worker.pc = "save"
    BY <1>7 DEF CompleteSave
  <2> HIDE DEF row
  <2>3. RowsTyped' /\ NamesKept
    <3>1. CASE Update(worker.copy.id, row)
      <4>1. /\ RowsTyped' /\ DOMAIN rows' = DOMAIN rows /\ rows'[worker.copy.id] = row
            /\ worker.copy.id \in DOMAIN rows
            /\ \A i \in DOMAIN rows : i # worker.copy.id => rows'[i] = rows[i]
        BY <1>1, <2>1, <2>2, <3>1, Updated
      <4>2. CopySound(worker.copy, worker.job.name, rows, serial)
        BY <2>2 DEF Base
      <4>3. rows[worker.copy.id].name = row.name
        BY <1>1, <2>1, <4>1, <4>2 DEF CopySound, RowsTyped
      <4> QED
        BY <1>1, <2>2, <4>1, <4>3 DEF NamesKept, RowsTyped
    <3>2. CASE UpdateFails(worker.copy.id)
      BY <1>3, <2>2, <3>2 DEF UpdateFails
    <3> QED
      BY <2>2, <3>1, <3>2
  <2>4. QueueTyped' /\ worker'.pc # "save"
    BY <1>1, <2>2, NothingTyped DEF QueueTyped
  <2> QED
    BY <1>1, <1>2, <2>2, <2>3, <2>4
<1> QED
  BY <1>4, <1>5, <1>6, <1>7 DEF Worker

\* Rows deleted in bulk, and a restart of the service.
LEMMA OtherBase ==
    ASSUME Base, Restart \/ \E w \in Admins, names \in SUBSET Names : BulkDeleteCertificates(w, names)
    PROVE  Base'
<1>1. CASE Restart
  <2>1. /\ queue' = <<>> /\ worker' = Resting /\ admin' = [w \in Admins |-> Idle]
        /\ UNCHANGED <<rows, serial, files>>
    BY <1>1 DEF Restart
  <2>2. TypeOK'
    BY <2>1, NothingTyped, EmptySeq DEF Base, TypeOK, RowsTyped, QueueTyped
  <2>3. RequestSound(Idle, rows', serial')
    BY <2>1, IdleSound DEF Base, TypeOK
  <2> QED
    BY <2>1, <2>2, <2>3, NothingTyped DEF Base
<1>2. ASSUME NEW w \in Admins, NEW names \in SUBSET Names, BulkDeleteCertificates(w, names)
      PROVE  Base'
  <2>1. DeleteNamed(names) /\ UNCHANGED <<serial, files, queue, worker, admin>>
    BY <1>2 DEF BulkDeleteCertificates
  <2>2. /\ RowsTyped' /\ DOMAIN rows' \subseteq DOMAIN rows
        /\ \A i \in DOMAIN rows' : rows'[i] = rows[i]
    BY <2>1, Deleted DEF Base, TypeOK
  <2>3. NamesKept
    BY <2>1, <2>2 DEF NamesKept, RowsTyped, Base, TypeOK
  <2>4. admin[w] \in Request /\ RequestSound(admin[w], rows, serial) /\ admin' \in [Admins -> Request]
    BY <2>1 DEF Base, TypeOK
  <2>5. RequestSound(admin'[w], rows', serial')
    BY <2>1, <2>2, <2>3, <2>4, StillSound DEF Base, TypeOK
  <2>6. QueueTyped' /\ files' \subseteq AnyName
    BY <2>1 DEF Base, TypeOK, QueueTyped
  <2> QED
    BY <2>1, <2>2, <2>3, <2>4, <2>5, <2>6, BaseByParts
<1> QED
  BY <1>1, <1>2

\* A step of Certificates is a step of the worker, a start or a continuation of a request,
\* a bulk deletion or a restart.
LEMMA StepsOfNext ==
    ASSUME Next
    PROVE  \/ Worker \/ Restart
           \/ \E w \in Admins : Start(w) \/ Continue(w)
           \/ \E w \in Admins, names \in SUBSET Names : BulkDeleteCertificates(w, names)
<1>1. \A name \in Names : {name} \in SUBSET Names
  OBVIOUS
<1> QED
  BY <1>1 DEF Next, Start

\* Types, and what is known of rows, hold throughout.
LEMMA BaseHolds == Spec => []Base
<1>1. Init => Base
  <2> SUFFICES ASSUME Init PROVE Base
    OBVIOUS
  <2>1. TypeOK
    BY NothingTyped, EmptySeq DEF Init, TypeOK, RowsTyped, QueueTyped
  <2>2. \A w \in Admins : admin[w] = Idle
    BY DEF Init
  <2>3. RequestSound(Idle, rows, serial) /\ worker.pc # "save"
    BY <2>1, IdleSound, NothingTyped DEF Init, TypeOK
  <2> QED
    BY <2>1, <2>2, <2>3 DEF Base
<1>2. Base /\ [Next]_vars => Base'
  <2> SUFFICES ASSUME Base, [Next]_vars PROVE Base'
    OBVIOUS
  <2>1. CASE UNCHANGED vars
    BY <2>1 DEF vars, Base, TypeOK, RowsTyped, QueueTyped, RequestSound, CopySound
  <2>2. CASE Next
    BY <2>2, StepsOfNext, WorkerBase, OtherBase, StartStarts, StartedBase, ContinueBase
  <2> QED
    BY <2>1, <2>2
<1> QED
  BY <1>1, <1>2, PTL DEF Spec

-----------------------------------------------------------------------------
(* The queue *)

\* workerBusy says whether there is a worker; without this a job could be appended to a
\* queue whose worker has ended and looks busy.
BusyIsTrue == worker.busy <=> worker.pc # "none"
QueueInv == BusyIsTrue /\ QueueIsServed

\* What a request does to the queue: nothing, or enqueue a job.
LEMMA RequestsEnqueue ==
    ASSUME NEW w \in Admins, Continue(w)
    PROVE  \/ UNCHANGED <<queue, worker>>
           \/ \E callback \in {"row", "wild"} : enqueue([name |-> admin[w].name, callback |-> callback])
<1>1. CASE IssueCreate(w) \/ RenewSave(w) \/ SyncCreate(w) \/ Save(w) \/ DeleteByDomain(w)
           \/ EnableSave(w) \/ MakePersistValue(w) \/ IssueWildcardSave(w)
  BY <1>1 DEF IssueCreate, RenewSave, SyncCreate, Save, DeleteByDomain, EnableSave, MakePersistValue,
              IssueWildcardSave, SaveCopy
<1>2. CASE IssueAsync(w) \/ RenewAsync(w)
  BY <1>2 DEF IssueAsync, RenewAsync
<1>3. CASE IssueWildcardAsync(w)
  BY <1>3 DEF IssueWildcardAsync
<1> QED
  BY <1>1, <1>2, <1>3 DEF Continue

\* enqueue wakes the worker when there is none, and a name is queued once.
LEMMA EnqueueServed ==
    ASSUME QueueTyped, QueueInv, NEW job \in Job, enqueue(job)
    PROVE  QueueInv'
<1>1. CASE UNCHANGED <<queue, worker>>
  BY <1>1 DEF QueueInv, BusyIsTrue, QueueIsServed
<1>2. CASE Queued(job.name) = {} /\ queue' = Append(queue, job)
           /\ worker' = IF worker.busy THEN worker ELSE [worker EXCEPT !.busy = TRUE, !.pc = "idle"]
  <2>1. BusyIsTrue' /\ worker'.pc # "none"
    BY <1>2 DEF QueueInv, BusyIsTrue, QueueTyped, WorkerState
  <2>2. /\ Len(queue) \in Nat /\ DOMAIN queue = 1..Len(queue) /\ Len(queue') = Len(queue) + 1
        /\ \A k \in 1..Len(queue) : queue'[k] = queue[k]
        /\ queue'[Len(queue) + 1] = job
    BY <1>2, LenProperties, AppendProperties DEF QueueTyped
  <2>3. \A k \in 1..Len(queue) : queue[k].name # job.name
    BY <1>2, <2>2, Zenon DEF Queued, ToSet
  <2>4. ASSUME NEW k \in 1..Len(queue'), NEW l \in 1..Len(queue'), queue'[k].name = queue'[l].name
        PROVE  k = l
    <3>1. (k \in 1..Len(queue) \/ k = Len(queue) + 1) /\ (l \in 1..Len(queue) \/ l = Len(queue) + 1)
      BY <2>2
    <3>2. \A m, n \in 1..Len(queue) : queue[m].name = queue[n].name => m = n
      BY DEF QueueInv, QueueIsServed
    <3>3. k \in 1..Len(queue) => queue'[k].name = queue[k].name /\ queue[k].name # job.name
      BY <2>2, <2>3
    <3>4. l \in 1..Len(queue) => queue'[l].name = queue[l].name /\ queue[l].name # job.name
      BY <2>2, <2>3
    <3> QED
      BY <2>2, <2>4, <3>1, <3>2, <3>3, <3>4, Zenon
  <2> QED
    BY <2>1, <2>4 DEF QueueInv, QueueIsServed
<1> QED
  BY <1>1, <1>2 DEF enqueue

\* The worker ends only with nothing queued.
LEMMA WorkerServed ==
    ASSUME QueueTyped, QueueInv, Worker
    PROVE  QueueInv'
<1>1. CASE WorkerTake
  <2>1. CASE queue = <<>> /\ worker' = Resting /\ UNCHANGED queue
    <3>1. Len(queue) = 0
      BY <2>1
    <3> QED
      BY <2>1, <3>1, NothingTyped DEF QueueInv, BusyIsTrue, QueueIsServed
  <2>2. CASE queue # <<>> /\ worker' = [worker EXCEPT !.pc = "run", !.job = Head(queue)]
             /\ queue' = Tail(queue)
    <3>1. BusyIsTrue' /\ worker'.pc # "none"
      BY <1>1, <2>2 DEF WorkerTake, QueueInv, BusyIsTrue, QueueTyped, WorkerState
    <3>2. /\ Len(queue) \in Nat /\ Len(queue') = Len(queue) - 1
          /\ \A k \in 1..Len(queue') : queue'[k] = queue[k + 1]
      BY <2>2, LenProperties, HeadTailProperties DEF QueueTyped
    <3>3. \A m, n \in 1..Len(queue) : queue[m].name = queue[n].name => m = n
      BY DEF QueueInv, QueueIsServed
    <3>4. ASSUME NEW k \in 1..Len(queue'), NEW l \in 1..Len(queue'), queue'[k].name = queue'[l].name
          PROVE  k = l
      <4>1. k + 1 \in 1..Len(queue) /\ l + 1 \in 1..Len(queue)
        BY <3>2
      <4>2. k + 1 = l + 1
        BY <3>2, <3>3, <3>4, <4>1
      <4> QED
        BY <4>2
    <3> QED
      BY <3>1, <3>4 DEF QueueInv, QueueIsServed
  <2> QED
    BY <1>1, <2>1, <2>2 DEF WorkerTake
<1>2. CASE WorkerRun \/ CompleteRead \/ CompleteSave
  <2>1. UNCHANGED queue /\ worker.pc # "none"
    BY <1>2 DEF WorkerRun, CompleteRead, CompleteSave
  <2>2. worker.pc \in {"run", "complete", "save"} /\ (\/ worker' = [worker EXCEPT !.pc = "complete", !.ok = TRUE]
                        \/ worker' = [worker EXCEPT !.pc = "complete", !.ok = FALSE]
                        \/ worker' = NextRound
                        \/ \E copy : worker' = [worker EXCEPT !.pc = "save", !.copy = copy])
    BY <1>2 DEF WorkerRun, CompleteRead, CompleteSave
  <2>3. BusyIsTrue' /\ worker'.pc # "none"
    BY <2>2, NothingTyped DEF QueueInv, BusyIsTrue, QueueTyped, WorkerState
  <2> QED
    BY <2>1, <2>3 DEF QueueInv, QueueIsServed
<1> QED
  BY <1>1, <1>2 DEF Worker

\* The worker flag and the queue agree throughout.
LEMMA QueueInvHolds == Spec => []QueueInv
<1>1. Init => QueueInv
  <2> SUFFICES ASSUME Init PROVE QueueInv
    OBVIOUS
  <2>1. queue = <<>> /\ Len(queue) = 0 /\ worker = Resting
    BY DEF Init
  <2> QED
    BY <2>1, NothingTyped DEF QueueInv, BusyIsTrue, QueueIsServed
<1>2. Base /\ QueueInv /\ [Next]_vars => QueueInv'
  <2> SUFFICES ASSUME Base, QueueInv, [Next]_vars PROVE QueueInv'
    OBVIOUS
  <2>1. QueueTyped
    BY DEF Base, TypeOK
  <2>2. ASSUME UNCHANGED <<queue, worker>> PROVE QueueInv'
    BY <2>2 DEF QueueInv, BusyIsTrue, QueueIsServed
  <2>3. CASE UNCHANGED vars
    BY <2>2, <2>3 DEF vars
  <2>4. CASE Worker
    BY <2>1, <2>4, WorkerServed
  <2>5. CASE Restart
    <3>1. queue' = <<>> /\ Len(queue') = 0 /\ worker' = Resting
      BY <2>5 DEF Restart
    <3> QED
      BY <3>1, NothingTyped DEF QueueInv, BusyIsTrue, QueueIsServed
  <2>6. ASSUME NEW w \in Admins, Start(w) PROVE QueueInv'
    BY <2>2, <2>6, StartStarts DEF Started
  <2>7. ASSUME NEW w \in Admins, Continue(w) PROVE QueueInv'
    BY <2>1, <2>2, <2>7, RequestsEnqueue, JobTyped, EnqueueServed
  <2>8. ASSUME NEW w \in Admins, NEW names \in SUBSET Names, BulkDeleteCertificates(w, names) PROVE QueueInv'
    BY <2>2, <2>8 DEF BulkDeleteCertificates
  <2> QED
    BY <2>3, <2>4, <2>5, <2>6, <2>7, <2>8, StepsOfNext
<1> QED
  BY <1>1, <1>2, BaseHolds, PTL DEF Spec

\* A job in the queue of acme.Service has a worker that will take it, and no name is
\* queued twice, whatever is queued while the worker ends.
THEOREM QueuedJobsAreTaken == Spec => []QueueIsServed
<1>1. QueueInv => QueueIsServed
  BY DEF QueueInv
<1> QED
  BY <1>1, QueueInvHolds, PTL

-----------------------------------------------------------------------------
(* Rows that wait *)

\* Served of Certificates for a row of this name, with its variables as parameters.
ServedBy(i, name, q, wk) ==
    \E j \in ToSet(q) \cup {wk.job} :
        /\ j.name = name /\ (name[1] = "wild" => j.callback = "wild")
        /\ \/ j \in ToSet(q)
           \/ wk.pc \in {"run", "complete"}
           \/ wk.pc = "save" /\ wk.copy.id = i
\* A request is about to queue a job for the row it created or updated: PendingIsExplained
\* asks for a request of that name; the proof needs the row the request works on.
Asks(q, i, name) == q.copy.id = i /\ q.name = name /\ q.pc \in {"issue", "persist", "dns"}
AskedBy(i, name, adm) == \E w \in Admins : Asks(adm[w], i, name)
Twin(i, r) == \E k \in DOMAIN r : r[k].name = r[i].name /\ k # i
\* LeftWaiting of Certificates, with its history as a parameter.
Lost(i, ls) == \E why \in Reasons : <<i, why>> \in ls
KnownBy(i, r, q, wk, adm, ls) ==
    ServedBy(i, r[i].name, q, wk) \/ AskedBy(i, r[i].name, adm) \/ Lost(i, ls) \/ Twin(i, r)

PendingInv ==
    \A i \in DOMAIN rows : Waiting(rows[i]) => KnownBy(i, rows, queue, worker, admin, loose)

\* A reason noted is one; it lasts while nothing is forgotten, and of other rows always.
LEMMA LostFacts ==
    /\ \A i, ls : \A why \in Reasons : <<i, why>> \in ls => Lost(i, ls)
    /\ loose \subseteq loose' => \A i : Lost(i, loose) => Lost(i, loose')
    /\ \A id, i : i # id /\ Lost(i, loose) => Lost(i, Forgotten(id))
    /\ \A id : Forgotten(id) \subseteq loose
<1>1. \A id, i, why : i # id /\ <<i, why>> \in loose => <<i, why>> \in Forgotten(id)
  BY DEF Forgotten
<1>2. \A id : Forgotten(id) \subseteq loose
  BY DEF Forgotten
<1> QED
  BY <1>1, <1>2 DEF Lost

\* What a step must do to leave PendingInv true: a row that begins to wait has a reason,
\* the rows of one name stay or go together, and a reason is replaced by another.
LEMMA PendingStep ==
    ASSUME PendingInv,
           \A i \in DOMAIN rows' :
               i \in DOMAIN rows /\ Waiting(rows'[i]) /\ Lost(i, loose)
               => KnownBy(i, rows', queue', worker', admin', loose'),
           \A i \in DOMAIN rows' : Waiting(rows'[i]) =>
               \/ KnownBy(i, rows', queue', worker', admin', loose')
               \/ i \in DOMAIN rows /\ Waiting(rows[i]) /\ rows'[i].name = rows[i].name,
           \A i, k \in DOMAIN rows : rows[i].name = rows[k].name /\ i \in DOMAIN rows' =>
               k \in DOMAIN rows' /\ rows'[k].name = rows[k].name,
           \A i \in DOMAIN rows : 
               /\ i \in DOMAIN rows' /\ Waiting(rows[i]) /\ Waiting(rows'[i])
               /\ ServedBy(i, rows[i].name, queue, worker) \/ AskedBy(i, rows[i].name, admin)
               => KnownBy(i, rows', queue', worker', admin', loose') \/ Twin(i, rows)
    PROVE  PendingInv'
<1> SUFFICES ASSUME NEW i \in DOMAIN rows', Waiting(rows'[i])
             PROVE  KnownBy(i, rows', queue', worker', admin', loose')
  BY DEF PendingInv
<1>1. CASE i \in DOMAIN rows /\ Waiting(rows[i]) /\ rows'[i].name = rows[i].name
  <2>1. KnownBy(i, rows, queue, worker, admin, loose)
    BY <1>1 DEF PendingInv
  <2>2. Twin(i, rows) => Twin(i, rows')
    BY <1>1 DEF Twin
  <2> QED
    BY <1>1, <2>1, <2>2 DEF KnownBy
<1> QED
  BY <1>1

\* A step that leaves the rows alone.
LEMMA PendingSameRows ==
    ASSUME PendingInv, loose \subseteq loose', UNCHANGED rows,
           \A i \in DOMAIN rows :
               ServedBy(i, rows[i].name, queue, worker) \/ AskedBy(i, rows[i].name, admin)
               => \/ ServedBy(i, rows[i].name, queue', worker') \/ AskedBy(i, rows[i].name, admin')
                  \/ Lost(i, loose') \/ Twin(i, rows)
    PROVE  PendingInv'
<1>1. \A i \in DOMAIN rows : 
          /\ i \in DOMAIN rows' /\ Waiting(rows[i]) /\ Waiting(rows'[i])
          /\ ServedBy(i, rows[i].name, queue, worker) \/ AskedBy(i, rows[i].name, admin)
          => KnownBy(i, rows', queue', worker', admin', loose') \/ Twin(i, rows)
  BY DEF KnownBy
<1>2. \A i : Lost(i, loose) => Lost(i, loose')
  BY LostFacts
<1>3. \A i \in DOMAIN rows' : Lost(i, loose) => KnownBy(i, rows', queue', worker', admin', loose')
  BY <1>2 DEF KnownBy
<1> QED
  BY <1>1, <1>3, PendingStep

\* A request that is not about to queue a job leaves those that are.
LEMMA StillAsked ==
    ASSUME NEW w \in Admins, \A v \in Admins : v # w => admin'[v] = admin[v]
    PROVE  /\ \A i, name : AskedBy(i, name, admin) => AskedBy(i, name, admin') \/ Asks(admin[w], i, name)
           /\ admin[w].pc \notin {"issue", "persist", "dns"} =>
                \A i, name : AskedBy(i, name, admin) => AskedBy(i, name, admin')
BY DEF AskedBy, Asks

\* A job queued serves every row of its name that it tells, and takes no job from others.
LEMMA EnqueueServes ==
    ASSUME QueueTyped, BusyIsTrue, NEW job \in Job, enqueue(job)
    PROVE  /\ \A i, name : ServedBy(i, name, queue, worker) => ServedBy(i, name, queue', worker')
           /\ \A i : (job.name[1] = "wild" => job.callback = "wild" /\ \A j \in Queued(job.name) : j.callback = "wild")
                => ServedBy(i, job.name, queue', worker')
<1>1. /\ QueueTyped' /\ ToSet(queue) \subseteq ToSet(queue')
      /\ worker'.job = worker.job /\ worker'.copy = worker.copy
      /\ worker'.pc = worker.pc \/ (~worker.busy /\ worker'.pc = "idle")
  BY Enqueued
<1>2. PICK j \in ToSet(queue') : j.name = job.name /\ (j = job \/ j \in ToSet(queue))
  BY Enqueued
<1>3. ~worker.busy => worker.pc = "none"
  BY DEF BusyIsTrue
<1>4. ASSUME NEW i, NEW name, ServedBy(i, name, queue, worker)
      PROVE  ServedBy(i, name, queue', worker')
  BY <1>1, <1>3, <1>4 DEF ServedBy
<1>5. ASSUME NEW i, job.name[1] = "wild" => job.callback = "wild" /\ \A k \in Queued(job.name) : k.callback = "wild"
      PROVE  ServedBy(i, job.name, queue', worker')
  BY <1>2, <1>5 DEF ServedBy, Queued
<1> QED
  BY <1>4, <1>5

\* A step of a request that only writes a row of its own name.
LEMMA PendingUpdate ==
    ASSUME RowsTyped, PendingInv, NEW id, NEW row \in Row, Update(id, row), UNCHANGED <<serial, queue, worker>>,
           rows[id].name = row.name, \A i : i # id /\ Lost(i, loose) => Lost(i, loose'),
           \A i, name : i # id /\ AskedBy(i, name, admin) => AskedBy(i, name, admin'),
           Waiting(row) => \/ ServedBy(id, row.name, queue, worker) \/ Lost(id, loose')
                           \/ AskedBy(id, row.name, admin')
    PROVE  PendingInv'
<1>1. /\ DOMAIN rows' = DOMAIN rows /\ rows'[id] = row /\ id \in DOMAIN rows
      /\ \A i \in DOMAIN rows : i # id => rows'[i] = rows[i]
  BY Updated
<1>2. \A i \in DOMAIN rows : rows'[i].name = rows[i].name
  BY <1>1
<1>3. Waiting(row) => KnownBy(id, rows', queue', worker', admin', loose')
  BY <1>1 DEF KnownBy
<1>4. \A i \in DOMAIN rows' : Waiting(rows'[i]) =>
          \/ KnownBy(i, rows', queue', worker', admin', loose')
          \/ i \in DOMAIN rows /\ Waiting(rows[i]) /\ rows'[i].name = rows[i].name
  BY <1>1, <1>3
<1>5. \A i \in DOMAIN rows : 
          /\ i \in DOMAIN rows' /\ Waiting(rows[i]) /\ Waiting(rows'[i])
          /\ ServedBy(i, rows[i].name, queue, worker) \/ AskedBy(i, rows[i].name, admin)
          => KnownBy(i, rows', queue', worker', admin', loose') \/ Twin(i, rows)
  BY <1>1, <1>2, <1>3 DEF KnownBy
<1>6. \A i \in DOMAIN rows' :
          Waiting(rows'[i]) /\ Lost(i, loose) => KnownBy(i, rows', queue', worker', admin', loose')
  BY <1>1, <1>3 DEF KnownBy
<1> QED
  BY <1>1, <1>2, <1>4, <1>5, <1>6, PendingStep

\* A row created as waiting is the one its request is about to queue a job for, and one
\* created otherwise waits for nothing.
LEMMA PendingCreate ==
    ASSUME RowsTyped, PendingInv, NEW row \in Row, Create(row), UNCHANGED <<queue, worker, loose>>,
           \A i, name : AskedBy(i, name, admin) => AskedBy(i, name, admin'),
           Waiting(row) => AskedBy(serial + 1, row.name, admin')
    PROVE  PendingInv'
<1>1. /\ serial + 1 \notin DOMAIN rows /\ DOMAIN rows' = DOMAIN rows \cup {serial + 1}
      /\ rows'[serial + 1] = row /\ \A i \in DOMAIN rows : rows'[i] = rows[i]
  BY Created
<1>2. \A i \in DOMAIN rows' : Waiting(rows'[i]) =>
          \/ KnownBy(i, rows', queue', worker', admin', loose')
          \/ i \in DOMAIN rows /\ Waiting(rows[i]) /\ rows'[i].name = rows[i].name
  BY <1>1 DEF KnownBy
<1>3. \A i \in DOMAIN rows : 
          /\ i \in DOMAIN rows' /\ Waiting(rows[i]) /\ Waiting(rows'[i])
          /\ ServedBy(i, rows[i].name, queue, worker) \/ AskedBy(i, rows[i].name, admin)
          => KnownBy(i, rows', queue', worker', admin', loose') \/ Twin(i, rows)
  BY <1>1 DEF KnownBy
<1>4. \A i, k \in DOMAIN rows : rows[i].name = rows[k].name /\ i \in DOMAIN rows' =>
          k \in DOMAIN rows' /\ rows'[k].name = rows[k].name
  BY <1>1
<1>5. \A i \in DOMAIN rows' : Lost(i, loose) => KnownBy(i, rows', queue', worker', admin', loose')
  BY DEF KnownBy
<1> QED
  BY <1>2, <1>3, <1>4, <1>5, PendingStep

\* All rows of a name are deleted together (DeleteByDomain, BulkDeleteCertificates).
LEMMA PendingDelete ==
    ASSUME RowsTyped, PendingInv, NEW names, DeleteNamed(names), UNCHANGED <<serial, queue, worker, loose>>,
           \A i, name : AskedBy(i, name, admin) => AskedBy(i, name, admin')
    PROVE  PendingInv'
<1>1. /\ DOMAIN rows' = {i \in DOMAIN rows : rows[i].name \notin names}
      /\ \A i \in DOMAIN rows' : rows'[i] = rows[i]
  BY Deleted
<1>2. \A i \in DOMAIN rows' : Waiting(rows'[i]) =>
          \/ KnownBy(i, rows', queue', worker', admin', loose')
          \/ i \in DOMAIN rows /\ Waiting(rows[i]) /\ rows'[i].name = rows[i].name
  BY <1>1
<1>3. \A i \in DOMAIN rows : 
          /\ i \in DOMAIN rows' /\ Waiting(rows[i]) /\ Waiting(rows'[i])
          /\ ServedBy(i, rows[i].name, queue, worker) \/ AskedBy(i, rows[i].name, admin)
          => KnownBy(i, rows', queue', worker', admin', loose') \/ Twin(i, rows)
  BY <1>1 DEF KnownBy
<1>4. \A i, k \in DOMAIN rows : rows[i].name = rows[k].name /\ i \in DOMAIN rows' =>
          k \in DOMAIN rows' /\ rows'[k].name = rows[k].name
  BY <1>1
<1>5. \A i \in DOMAIN rows' : Lost(i, loose) => KnownBy(i, rows', queue', worker', admin', loose')
  BY DEF KnownBy
<1> QED
  BY <1>2, <1>3, <1>4, <1>5, PendingStep

\* A request that writes its copy notes the row when no job will tell it.
LEMMA PendingSaveCopy ==
    ASSUME Base, PendingInv, NEW w \in Admins, NEW row \in Row, row.name = admin[w].copy.row.name,
           SaveCopy(w, row), admin[w].pc \in {"issue", "persist", "dns"} => ~Waiting(row)
    PROVE  PendingInv'
<1> DEFINE id == admin[w].copy.id
<1>1. /\ RowsTyped /\ admin \in [Admins -> Request] /\ CopySound(admin[w].copy, admin[w].name, rows, serial)
      /\ UNCHANGED <<serial, queue, worker>> /\ 0 \notin DOMAIN rows
  BY DEF Base, TypeOK, RequestSound, SaveCopy, RowsTyped
<1>2. \A v \in Admins : v # w => admin'[v] = admin[v]
  BY <1>1, Ended DEF SaveCopy
<1>3. CASE Update(id, row) /\ NoteOverwrite(id, row)
  <2>1. /\ \A i : i # id /\ Lost(i, loose) => Lost(i, loose')
        /\ Waiting(row) => Served(id, row) \/ Lost(id, loose')
    <3>1. /\ Forgotten(id) \subseteq loose'
          /\ Waiting(row) /\ ~Served(id, row) => <<id, "overwritten">> \in loose'
      BY <1>3 DEF NoteOverwrite
    <3>2. \A i : i # id /\ Lost(i, loose) => Lost(i, loose')
      BY <3>1, LostFacts DEF Lost
    <3>3. "overwritten" \in Reasons
      BY DEF Reasons
    <3> QED
      BY <3>1, <3>2, <3>3, LostFacts
  <2>2. Served(id, row) => ServedBy(id, row.name, queue, worker)
    BY DEF Served, ServedBy
  <2>3. rows[id].name = row.name
    BY <1>1, <1>3 DEF CopySound, Update
  <2>4. \A i, name : i # id /\ AskedBy(i, name, admin) => AskedBy(i, name, admin')
    BY <1>2, StillAsked DEF Asks
  <2> HIDE DEF id
  <2> QED
    BY <1>1, <1>3, <2>1, <2>2, <2>3, <2>4, PendingUpdate
<1>4. CASE UpdateFails(id) /\ UNCHANGED loose
  <2>1. UNCHANGED rows /\ id \notin DOMAIN rows
    BY <1>4 DEF UpdateFails
  <2>2. \A i \in DOMAIN rows : \A name : AskedBy(i, name, admin) => AskedBy(i, name, admin')
    BY <1>2, <2>1, StillAsked DEF Asks
  <2> QED
    BY <1>1, <1>4, <2>1, <2>2, PendingSameRows
<1> QED
  BY <1>3, <1>4 DEF SaveCopy

\* A request goes on: one step per continuation.
LEMMA PendingContinue ==
    ASSUME Base, QueueInv, PendingInv, NEW w \in Admins, Continue(w)
    PROVE  PendingInv'
<1> DEFINE id == admin[w].copy.id
           name == admin[w].name
<1>1. /\ admin[w] \in Request /\ admin[w].copy \in Copy /\ admin[w].copy.row \in Row /\ id \in Nat
      /\ name \in AnyName /\ admin \in [Admins -> Request] /\ RowsTyped /\ QueueTyped
      /\ RequestSound(admin[w], rows, serial) /\ CopySound(admin[w].copy, name, rows, serial)
      /\ BusyIsTrue /\ serial \in Nat
  BY DEF Base, TypeOK, Request, Copy, RequestSound, QueueInv, RowsTyped
<1>2. CASE IssueCreate(w)
  <2> DEFINE row == NewRow(name, "pending")
             copy == [id |-> serial + 1, row |-> row]
  <2>1. row \in Row /\ row.name = name /\ copy.id = serial + 1 /\ copy \in Copy
    BY <1>1, NewRows DEF Copy
  <2>2. Create(row) /\ Goto(w, "issue", copy) /\ admin[w].pc = "create" /\ UNCHANGED <<queue, worker, loose>>
    BY <1>2 DEF IssueCreate
  <2> HIDE DEF row, copy
  <2>3. /\ \A v \in Admins : v # w => admin'[v] = admin[v]
        /\ admin'[w].pc = "issue" /\ admin'[w].name = name /\ admin'[w].copy = copy
    BY <1>1, <2>1, <2>2, Went DEF Steps
  <2>4. AskedBy(serial + 1, row.name, admin')
    BY <2>1, <2>3 DEF AskedBy, Asks
  <2>5. \A i, n : AskedBy(i, n, admin) => AskedBy(i, n, admin')
    BY <2>2, <2>3, StillAsked
  <2> QED
    BY <1>1, <2>1, <2>2, <2>4, <2>5, PendingCreate
<1>3. CASE IssueAsync(w)
  <2> DEFINE job == [name |-> name, callback |-> "row"]
  <2>1. job \in Job /\ job.name = name /\ job.callback = "row"
    BY <1>1 DEF Job
  <2>2. admin[w].pc = "issue" /\ End(w) /\ UNCHANGED <<rows, serial, files>>
        /\ \/ loose' = loose \cup {<<id, "has files">>} /\ UNCHANGED <<queue, worker>>
           \/ enqueue(job) /\ UNCHANGED loose
    BY <1>3 DEF IssueAsync
  <2>3. name[1] = "host" /\ \A v \in Admins : v # w => admin'[v] = admin[v]
    BY <1>1, <2>2, Ended DEF RequestSound
  <2>4. \A i, n : AskedBy(i, n, admin) => AskedBy(i, n, admin') \/ (i = id /\ n = name)
    BY <2>3, StillAsked DEF Asks
  <2> HIDE DEF job, id, name
  <2>5. CASE loose' = loose \cup {<<id, "has files">>} /\ UNCHANGED <<queue, worker>>
    <3>1. Lost(id, loose')
      BY <2>5, LostFacts DEF Reasons
    <3> QED
      BY <1>1, <2>2, <2>4, <2>5, <3>1, PendingSameRows
  <2>6. CASE enqueue(job) /\ UNCHANGED loose
    <3>1. /\ \A i, n : ServedBy(i, n, queue, worker) => ServedBy(i, n, queue', worker')
          /\ \A i : ServedBy(i, name, queue', worker')
      BY <1>1, <2>1, <2>3, <2>6, EnqueueServes
    <3> QED
      BY <1>1, <2>2, <2>4, <2>6, <3>1, PendingSameRows
  <2> QED
    BY <2>2, <2>5, <2>6
<1>4. CASE RenewAsync(w)
  <2> DEFINE job == [name |-> name, callback |-> "row"]
  <2>1. job \in Job /\ enqueue(job) /\ Goto(w, "renewed", admin[w].copy) /\ UNCHANGED <<rows, loose>>
        /\ admin[w].pc = "renew"
    BY <1>1, <1>4 DEF RenewAsync, Job
  <2>2. \A v \in Admins : v # w => admin'[v] = admin[v]
    BY <1>1, <2>1, Went DEF Steps
  <2>3. \A i, n : AskedBy(i, n, admin) => AskedBy(i, n, admin')
    BY <2>1, <2>2, StillAsked
  <2> HIDE DEF job
  <2>4. \A i, n : ServedBy(i, n, queue, worker) => ServedBy(i, n, queue', worker')
    BY <1>1, <2>1, EnqueueServes
  <2> QED
    BY <2>1, <2>3, <2>4, PendingSameRows
<1>5. CASE RenewSave(w)
  <2> DEFINE row == [admin[w].copy.row EXCEPT !.last = "pending"]
  <2>1. row \in Row /\ row.name = admin[w].copy.row.name
    BY <1>1, WrittenRows
  <2>2. SaveCopy(w, row) /\ admin[w].pc = "renewed"
    BY <1>5 DEF RenewSave
  <2> HIDE DEF row
  <2> QED
    BY <2>1, <2>2, PendingSaveCopy
<1>6. CASE SyncCreate(w)
  <2> DEFINE new == NewRow(name, "success")
             row == Synced(name, new)
  <2>1. new \in Row /\ new.name = name /\ new.last = "success"
    BY <1>1, NewRows DEF NewRow
  <2>2. Create(row) /\ End(w) /\ admin[w].pc = "sync" /\ UNCHANGED <<queue, worker, loose>>
    BY <1>6 DEF SyncCreate
  <2>3. row \in Row /\ row.name = name /\ ~Waiting(row)
    <3> HIDE DEF new
    <3>1. row \in Row /\ row.name = name
      BY <2>1, WrittenRows
    <3>2. ~Waiting(row)
      BY <2>1 DEF Waiting, Synced, Row
    <3> QED
      BY <3>1, <3>2
  <2>4. \A v \in Admins : v # w => admin'[v] = admin[v]
    BY <1>1, <2>2, Ended
  <2>5. \A i, n : AskedBy(i, n, admin) => AskedBy(i, n, admin')
    BY <2>2, <2>4, StillAsked
  <2> HIDE DEF row
  <2> QED
    BY <1>1, <2>2, <2>3, <2>5, PendingCreate
<1>7. CASE Save(w)
  BY <1>1, <1>7, PendingSaveCopy DEF Save
<1>8. CASE DeleteByDomain(w)
  <2>1. DeleteNamed({name}) /\ End(w) /\ UNCHANGED <<serial, queue, worker, loose>> /\ admin[w].pc = "delete"
    BY <1>8 DEF DeleteByDomain
  <2>2. \A v \in Admins : v # w => admin'[v] = admin[v]
    BY <1>1, <2>1, Ended
  <2>3. \A i, n : AskedBy(i, n, admin) => AskedBy(i, n, admin')
    BY <2>1, <2>2, StillAsked
  <2> QED
    BY <1>1, <2>1, <2>3, PendingDelete
<1>9. CASE EnableSave(w)
  <2> DEFINE old == IF admin[w].copy = NoCopy THEN NewRow(name, "pending") ELSE admin[w].copy.row
             row == [old EXCEPT !.enabled = TRUE, !.wildcard = "issuing"]
             changed == [admin[w].copy EXCEPT !.row = row]
             new == [id |-> serial + 1, row |-> row]
  <2>1. name[1] = "wild" /\ admin[w].method \in {"persist", "dns"} /\ admin[w].pc = "enable"
    BY <1>1, <1>9 DEF RequestSound, EnableSave
  <2>2. old \in Row /\ (admin[w].copy = NoCopy => old.name = name)
        /\ (admin[w].copy # NoCopy => old.name = admin[w].copy.row.name)
    BY <1>1, NewRows
  <2>3. row \in Row /\ (admin[w].copy = NoCopy => row.name = name)
        /\ (admin[w].copy # NoCopy => row.name = admin[w].copy.row.name)
    <3> HIDE DEF old
    <3> QED
      BY <2>2, WrittenRows
  <2>4. /\ \/ admin[w].copy = NoCopy /\ Create(row) /\ Goto(w, admin[w].method, new) /\ UNCHANGED loose
           \/ /\ admin[w].copy # NoCopy /\ Update(admin[w].copy.id, row) /\ UNCHANGED serial
              /\ Goto(w, admin[w].method, changed) /\ loose' = Forgotten(admin[w].copy.id)
           \/ /\ admin[w].copy # NoCopy /\ UpdateFails(admin[w].copy.id) /\ End(w)
              /\ UNCHANGED <<serial, loose>>
        /\ UNCHANGED <<queue, worker>>
    BY <1>9 DEF EnableSave
  <2> HIDE DEF old, row
  <2>5. /\ changed \in Copy /\ changed.id = admin[w].copy.id /\ changed.row = row
        /\ new \in Copy /\ new.id = serial + 1
    BY <1>1, <2>3 DEF Copy
  <2> HIDE DEF changed, new
  <2>6. CASE admin[w].copy = NoCopy /\ Create(row) /\ Goto(w, admin[w].method, new) /\ UNCHANGED loose
    <3>1. /\ \A v \in Admins : v # w => admin'[v] = admin[v]
          /\ admin'[w].pc \in {"persist", "dns"} /\ admin'[w].name = name /\ admin'[w].copy = new
      BY <1>1, <2>1, <2>5, <2>6, Went DEF Steps
    <3>2. AskedBy(serial + 1, row.name, admin')
      BY <2>3, <2>5, <2>6, <3>1 DEF AskedBy, Asks
    <3>3. \A i, n : AskedBy(i, n, admin) => AskedBy(i, n, admin')
      BY <2>1, <3>1, StillAsked
    <3> QED
      BY <1>1, <2>3, <2>4, <2>6, <3>2, <3>3, PendingCreate
  <2>7. CASE /\ admin[w].copy # NoCopy /\ Update(admin[w].copy.id, row) /\ UNCHANGED serial
             /\ Goto(w, admin[w].method, changed) /\ loose' = Forgotten(admin[w].copy.id)
    <3>1. /\ \A v \in Admins : v # w => admin'[v] = admin[v]
          /\ admin'[w].pc \in {"persist", "dns"} /\ admin'[w].name = name /\ admin'[w].copy = changed
      BY <1>1, <2>1, <2>5, <2>7, Went DEF Steps
    <3>2. row.name = name /\ rows[admin[w].copy.id].name = row.name
      BY <1>1, <2>3, <2>7 DEF CopySound, RowsTyped, Update
    <3>3. AskedBy(id, row.name, admin')
      BY <2>5, <3>1, <3>2 DEF AskedBy, Asks
    <3>4. \A i, n : AskedBy(i, n, admin) => AskedBy(i, n, admin')
      BY <2>1, <3>1, StillAsked
    <3>5. \A i : i # id /\ Lost(i, loose) => Lost(i, loose')
      BY <2>7, LostFacts
    <3> QED
      BY <1>1, <2>3, <2>4, <2>7, <3>2, <3>3, <3>4, <3>5, PendingUpdate
  <2>8. CASE UpdateFails(admin[w].copy.id) /\ End(w) /\ UNCHANGED <<serial, loose>>
    <3>1. \A v \in Admins : v # w => admin'[v] = admin[v]
      BY <1>1, <2>8, Ended
    <3>2. \A i, n : AskedBy(i, n, admin) => AskedBy(i, n, admin')
      BY <2>1, <3>1, StillAsked
    <3> QED
      BY <2>4, <2>8, <3>2, PendingSameRows DEF UpdateFails
  <2> QED
    BY <2>4, <2>6, <2>7, <2>8
<1>10. CASE MakePersistValue(w)
  <2>1. name[1] = "wild"
    BY <1>1, <1>10 DEF RequestSound, MakePersistValue
  <2>2. ASSUME SaveCopy(w, [admin[w].copy.row EXCEPT !.wildcard = "txt_pending"])
        PROVE  PendingInv'
    <3> DEFINE row == [admin[w].copy.row EXCEPT !.wildcard = "txt_pending"]
    <3>1. row \in Row /\ row.name = admin[w].copy.row.name /\ row.wildcard = "txt_pending"
      <4>1. row \in Row /\ row.name = admin[w].copy.row.name
        BY <1>1, WrittenRows
      <4>2. row.wildcard = "txt_pending"
        BY <1>1 DEF Row
      <4> QED
        BY <4>1, <4>2
    <3>2. SaveCopy(w, row)
      BY <2>2
    <3> HIDE DEF row
    <3>3. CASE admin[w].copy.id = 0
      <4>1. admin[w].copy.id \notin DOMAIN rows
        BY <1>1, <3>3 DEF RowsTyped
      <4>2. UNCHANGED <<rows, loose, queue, worker>> /\ End(w)
        BY <3>2, <4>1 DEF SaveCopy, Update, UpdateFails
      <4>3. \A v \in Admins : v # w => admin'[v] = admin[v]
        BY <1>1, <4>2, Ended
      <4>4. \A i \in DOMAIN rows : \A n : AskedBy(i, n, admin) => AskedBy(i, n, admin')
        BY <4>1, <4>3, StillAsked DEF Asks
      <4> QED
        BY <4>2, <4>4, PendingSameRows
    <3>4. CASE admin[w].copy.id # 0
      <4>1. row.name[1] = "wild"
        BY <1>1, <2>1, <3>1, <3>4 DEF CopySound
      <4>2. ~Waiting(row)
        BY <3>1, <4>1 DEF Waiting
      <4> QED
        BY <3>1, <3>2, <4>2, PendingSaveCopy
    <3> QED
      BY <3>3, <3>4
  <2>3. CASE loose' = loose \cup {<<id, "no value">>} /\ End(w) /\ UNCHANGED <<rows, serial, files, queue, worker, requests>>
    <3>1. \A v \in Admins : v # w => admin'[v] = admin[v]
      BY <1>1, <2>3, Ended
    <3>2. \A i, n : AskedBy(i, n, admin) => AskedBy(i, n, admin') \/ i = id
      BY <3>1, StillAsked DEF Asks
    <3> HIDE DEF id
    <3>3. Lost(id, loose')
      BY <2>3, LostFacts DEF Reasons
    <3> QED
      BY <2>3, <3>2, <3>3, PendingSameRows
  <2> QED
    BY <1>10, <2>2, <2>3 DEF MakePersistValue
<1>11. CASE IssueWildcardAsync(w)
  <2> DEFINE job == [name |-> name, callback |-> "wild"]
  <2>1. job \in Job /\ job.name = name /\ job.callback = "wild"
    BY <1>1 DEF Job
  <2>2. admin[w].pc = "dns" /\ End(w) /\ UNCHANGED rows /\ enqueue(job) /\ NoteSwallowed(id, job)
    BY <1>11 DEF IssueWildcardAsync
  <2> HIDE DEF job
  <2>3. \A v \in Admins : v # w => admin'[v] = admin[v]
    BY <1>1, <2>2, Ended
  <2>4. \A i, n : AskedBy(i, n, admin) => AskedBy(i, n, admin') \/ (i = id /\ n = name)
    BY <2>3, StillAsked DEF Asks
  <2>5. loose \subseteq loose' /\ (Lost(id, loose') \/ \A j \in Queued(job.name) : j.callback = "wild")
    <3>1. /\ loose \subseteq loose'
          /\ <<id, "swallowed">> \in loose' \/ \A j \in Queued(job.name) : j.callback = "wild"
      BY <2>1, <2>2 DEF NoteSwallowed
    <3> QED
      BY <3>1, LostFacts DEF Reasons
  <2>6. /\ \A i, n : ServedBy(i, n, queue, worker) => ServedBy(i, n, queue', worker')
        /\ Lost(id, loose') \/ \A i : ServedBy(i, name, queue', worker')
    BY <1>1, <2>1, <2>2, <2>5, EnqueueServes
  <2> HIDE DEF id, name
  <2> QED
    BY <2>2, <2>4, <2>5, <2>6, PendingSameRows
<1>12. CASE IssueWildcardSave(w)
  <2>1. /\ \/ /\ Update(id, admin[w].copy.row) /\ Goto(w, "dns", admin[w].copy)
              /\ loose' = Forgotten(id)
           \/ UpdateFails(id) /\ End(w) /\ UNCHANGED loose
        /\ UNCHANGED <<serial, queue, worker>> /\ admin[w].pc = "reissue"
    BY <1>12 DEF IssueWildcardSave
  <2>2. CASE Update(id, admin[w].copy.row) /\ Goto(w, "dns", admin[w].copy) /\ loose' = Forgotten(id)
    <3>1. /\ \A v \in Admins : v # w => admin'[v] = admin[v]
          /\ admin'[w].pc = "dns" /\ admin'[w].name = name /\ admin'[w].copy = admin[w].copy
      BY <1>1, <2>2, Went DEF Steps
    <3>2. admin[w].copy.row.name = name /\ rows[id].name = name
      BY <1>1, <2>2 DEF CopySound, RowsTyped, Update
    <3>3. AskedBy(id, name, admin')
      BY <3>1 DEF AskedBy, Asks
    <3>4. \A i, n : AskedBy(i, n, admin) => AskedBy(i, n, admin')
      BY <2>1, <3>1, StillAsked
    <3>5. \A i : i # id /\ Lost(i, loose) => Lost(i, loose')
      BY <2>2, LostFacts
    <3> HIDE DEF id, name
    <3> QED
      BY <1>1, <2>1, <2>2, <3>2, <3>3, <3>4, <3>5, PendingUpdate
  <2>3. CASE UpdateFails(id) /\ End(w) /\ UNCHANGED loose
    <3>1. \A v \in Admins : v # w => admin'[v] = admin[v]
      BY <1>1, <2>3, Ended
    <3>2. \A i, n : AskedBy(i, n, admin) => AskedBy(i, n, admin')
      BY <2>1, <3>1, StillAsked
    <3> QED
      BY <2>1, <2>3, <3>2, PendingSameRows DEF UpdateFails
  <2> QED
    BY <2>1, <2>2, <2>3
<1> QED
  BY <1>2, <1>3, <1>4, <1>5, <1>6, <1>7, <1>8, <1>9, <1>10, <1>11, <1>12 DEF Continue

\* The outcome of a job ends the waiting of the row it tells.
LEMMA OutcomeTells ==
    ASSUME NEW row \in Row, NEW job \in Job, NEW ok \in BOOLEAN, Waiting(Outcome(row, job, ok))
    PROVE  row.name[1] = "wild" /\ job.callback # "wild" /\ Waiting(row)
BY DEF Waiting, Outcome, Row

\* The worker: a job taken, run and called back.
LEMMA PendingWorker ==
    ASSUME Base, QueueInv, PendingInv, Worker
    PROVE  PendingInv'
<1>1. /\ RowsTyped /\ queue \in Seq(Job) /\ worker \in WorkerState
      /\ worker.job \in Job /\ worker.copy \in Copy /\ worker.copy.row \in Row /\ worker.ok \in BOOLEAN
  BY DEF Base, TypeOK, QueueTyped, WorkerState, Copy
<1>2. CASE WorkerTake
  <2>1. worker.pc = "idle" /\ UNCHANGED <<rows, admin, loose>>
    BY <1>2 DEF WorkerTake
  <2>2. ASSUME NEW i, NEW n, ServedBy(i, n, queue, worker)
        PROVE  ServedBy(i, n, queue', worker')
    <3>1. PICK j \in ToSet(queue) : j.name = n /\ (n[1] = "wild" => j.callback = "wild")
      BY <2>1, <2>2 DEF ServedBy
    <3>2. queue # <<>>
      BY <3>1 DEF ToSet
    <3>3. worker' = [worker EXCEPT !.pc = "run", !.job = Head(queue)] /\ queue' = Tail(queue)
      BY <1>2, <3>2 DEF WorkerTake
    <3>4. worker'.pc = "run" /\ worker'.job = Head(queue)
      BY <1>1, <3>3 DEF WorkerState
    <3>5. ToSet(queue) = {Head(queue)} \cup ToSet(queue')
      BY <1>1, <3>2, <3>3, JobsOfQueue
    <3> QED
      BY <3>1, <3>4, <3>5 DEF ServedBy
  <2> QED
    BY <2>1, <2>2, PendingSameRows
<1>3. CASE WorkerRun
  <2>1. UNCHANGED <<rows, admin, loose, queue>>
    BY <1>3 DEF WorkerRun
  <2>2. worker'.pc = "complete" /\ worker'.job = worker.job
    BY <1>1, <1>3 DEF WorkerRun, WorkerState
  <2>3. \A i, n : ServedBy(i, n, queue, worker) => ServedBy(i, n, queue', worker')
    BY <2>1, <2>2 DEF ServedBy
  <2> QED
    BY <2>1, <2>3, PendingSameRows
<1>4. CASE CompleteRead
  <2>1. PICK copy \in CopyOrNone(worker.job.name) :
          worker' = IF copy = NoCopy THEN NextRound ELSE [worker EXCEPT !.pc = "save", !.copy = copy]
    BY <1>4 DEF CompleteRead
  <2>2. UNCHANGED <<rows, admin, loose, queue>> /\ worker.pc = "complete"
    BY <1>4 DEF CompleteRead
  <2>3. ASSUME NEW i \in DOMAIN rows, ServedBy(i, rows[i].name, queue, worker)
        PROVE  ServedBy(i, rows[i].name, queue', worker') \/ Twin(i, rows)
    <3>1. PICK j \in ToSet(queue) \cup {worker.job} :
            j.name = rows[i].name /\ (rows[i].name[1] = "wild" => j.callback = "wild")
      BY <2>3 DEF ServedBy
    <3>2. CASE j \in ToSet(queue)
      BY <2>2, <3>1, <3>2 DEF ServedBy
    <3>3. CASE j = worker.job
      <4>1. i \in Found(worker.job.name)
        BY <3>1, <3>3 DEF Found
      <4>2. copy \in Copies(worker.job.name)
        BY <2>1, <4>1 DEF CopyOrNone
      <4>3. copy \in Copy /\ copy # NoCopy /\ copy.id \in DOMAIN rows /\ rows[copy.id].name = rows[i].name
        BY <1>1, <3>1, <3>3, <4>2, CopiesAreRows
      <4>4. worker'.pc = "save" /\ worker'.copy = copy /\ worker'.job = worker.job
        BY <1>1, <2>1, <4>3 DEF WorkerState
      <4>5. CASE copy.id = i
        BY <3>1, <3>3, <4>4, <4>5 DEF ServedBy
      <4>6. CASE copy.id # i
        BY <4>3, <4>6 DEF Twin
      <4> QED
        BY <4>5, <4>6
    <3> QED
      BY <3>1, <3>2, <3>3
  <2> QED
    BY <2>2, <2>3, PendingSameRows
<1>5. CASE CompleteSave
  <2> DEFINE id == worker.copy.id
             row == Outcome(worker.copy.row, worker.job, worker.ok)
  <2>1. /\ \/ /\ Update(id, row)
              /\ loose' = IF ~Waiting(row) THEN Forgotten(id)
                          ELSE loose \cup {x \in {<<id, "overwritten">>} : rows[id] # worker.copy.row}
           \/ UpdateFails(id) /\ UNCHANGED loose
        /\ worker.pc = "save" /\ worker' = NextRound /\ UNCHANGED <<serial, queue, admin>>
    BY <1>5 DEF CompleteSave
  <2>2. row \in Row /\ row.name = worker.copy.row.name
    BY <1>1, WrittenRows
  <2>3. CopySound(worker.copy, worker.job.name, rows, serial)
    BY <2>1 DEF Base
  <2>4. Waiting(row) => /\ row.name[1] = "wild" /\ worker.job.callback # "wild"
                        /\ Waiting(worker.copy.row)
    BY <1>1, <2>2, OutcomeTells
  <2>5. \A i, n : ServedBy(i, n, queue, worker) =>
            \/ ServedBy(i, n, queue', worker')
            \/ i = id /\ worker.job.name = n /\ (n[1] = "wild" => worker.job.callback = "wild")
    BY <2>1 DEF ServedBy
  <2> HIDE DEF row, id
  <2>6. CASE /\ Update(id, row)
             /\ loose' = IF ~Waiting(row) THEN Forgotten(id)
                         ELSE loose \cup {x \in {<<id, "overwritten">>} : rows[id] # worker.copy.row}
    <3>1. /\ DOMAIN rows' = DOMAIN rows /\ rows'[id] = row /\ id \in DOMAIN rows
          /\ \A i \in DOMAIN rows : i # id => rows'[i] = rows[i]
      BY <1>1, <2>1, <2>2, <2>6, Updated
    <3>2. rows[id].name = row.name /\ rows[id].name = worker.job.name
      BY <1>1, <2>2, <2>3, <3>1 DEF CopySound, RowsTyped, id
    <3>3. \A i \in DOMAIN rows : rows'[i].name = rows[i].name
      BY <3>1, <3>2
    <3>4. Waiting(row) /\ ~Waiting(rows[id]) => Lost(id, loose')
      <4>1. Waiting(row) /\ ~Waiting(rows[id]) => <<id, "overwritten">> \in loose'
        BY <2>4, <2>6
      <4> QED
        BY <4>1, LostFacts DEF Reasons
    <3>5. \A i \in DOMAIN rows' : Waiting(rows'[i]) =>
              \/ KnownBy(i, rows', queue', worker', admin', loose')
              \/ i \in DOMAIN rows /\ Waiting(rows[i]) /\ rows'[i].name = rows[i].name
      BY <3>1, <3>3, <3>4 DEF KnownBy
    <3>6. \A i \in DOMAIN rows : 
              /\ i \in DOMAIN rows' /\ Waiting(rows[i]) /\ Waiting(rows'[i])
              /\ ServedBy(i, rows[i].name, queue, worker) \/ AskedBy(i, rows[i].name, admin)
              => KnownBy(i, rows', queue', worker', admin', loose') \/ Twin(i, rows)
      BY <2>1, <2>4, <2>5, <3>1, <3>2, <3>3 DEF KnownBy
    <3>7. \A i : Lost(i, loose) => Lost(i, loose') \/ (i = id /\ ~Waiting(row))
      <4>1. CASE Waiting(row)
        BY <2>6, <4>1, LostFacts
      <4>2. CASE ~Waiting(row)
        BY <2>6, <4>2, LostFacts
      <4> QED
        BY <4>1, <4>2
    <3>8. \A i \in DOMAIN rows' :
              Waiting(rows'[i]) /\ Lost(i, loose) => KnownBy(i, rows', queue', worker', admin', loose')
      BY <3>1, <3>7 DEF KnownBy
    <3> QED
      BY <3>1, <3>3, <3>5, <3>6, <3>8, PendingStep
  <2>7. CASE UpdateFails(id) /\ UNCHANGED loose
    BY <2>1, <2>5, <2>7, PendingSameRows DEF UpdateFails
  <2> QED
    BY <2>1, <2>6, <2>7
<1> QED
  BY <1>2, <1>3, <1>4, <1>5 DEF Worker

\* A row that another row shares its name with is one of two in Found.
LEMMA TwinsAreTwo ==
    ASSUME RowsTyped, NEW i \in DOMAIN rows, Twin(i, rows)
    PROVE  Cardinality(Found(rows[i].name)) > 1
<1>1. PICK k \in DOMAIN rows : rows[k].name = rows[i].name /\ k # i
  BY DEF Twin
<1>2. IsFiniteSet(Found(rows[i].name)) /\ Cardinality(Found(rows[i].name)) \in Nat
  <2>1. IsFiniteSet(1..serial)
    BY FS_Interval DEF RowsTyped
  <2>2. Found(rows[i].name) \in SUBSET (1..serial)
    BY DEF RowsTyped, Found
  <2> QED
    BY <2>1, <2>2, FS_Subset, FS_CardinalityType
<1>3. {i} \cup {k} \in SUBSET Found(rows[i].name)
  BY <1>1 DEF Found
<1>4. IsFiniteSet({i}) /\ Cardinality({i}) = 1
  BY FS_Singleton
<1>5. Cardinality({i} \cup {k}) = 2
  BY <1>1, <1>4, FS_AddElement
<1>6. Cardinality({i} \cup {k}) <= Cardinality(Found(rows[i].name))
  BY <1>2, <1>3, FS_Subset
<1> QED
  BY <1>2, <1>5, <1>6

\* A row that says its certificate is on the way has a job that will tell it or a request
\* about to queue one, or shares its name with another row, or is left waiting by one of the
\* five Reasons, met since it was last told or asked for: a copy read before the job ended
\* was written back, the name had files, acme.sh produced no DNS value, a renewal queued
\* before swallowed the job, or the service started again.
THEOREM WaitingRowsAreExplained == Spec => []PendingIsExplained
<1>1. Init => PendingInv
  <2> SUFFICES ASSUME Init PROVE PendingInv
    OBVIOUS
  <2>1. DOMAIN rows = {}
    BY DEF Init
  <2> QED
    BY <2>1 DEF PendingInv
<1>2. Base /\ QueueInv /\ PendingInv /\ [Next]_vars => PendingInv'
  <2> SUFFICES ASSUME Base, QueueInv, PendingInv, [Next]_vars PROVE PendingInv'
    OBVIOUS
  <2>1. ASSUME UNCHANGED <<rows, queue, worker, loose>>,
               \A i, n : AskedBy(i, n, admin) => AskedBy(i, n, admin')
        PROVE  PendingInv'
    BY <2>1, PendingSameRows
  <2>2. CASE UNCHANGED vars
    BY <2>1, <2>2 DEF vars
  <2>3. CASE Worker
    BY <2>3, PendingWorker
  <2>4. CASE Restart
    <3>1. UNCHANGED rows /\ \A i \in DOMAIN rows : Waiting(rows[i]) => <<i, "restart">> \in loose'
      BY <2>4 DEF Restart
    <3>2. \A i \in DOMAIN rows : Waiting(rows[i]) => Lost(i, loose')
      BY <3>1, LostFacts DEF Reasons
    <3> QED
      BY <3>1, <3>2 DEF PendingInv, KnownBy
  <2>5. ASSUME NEW w \in Admins, Start(w) PROVE PendingInv'
    <3>1. UNCHANGED <<rows, queue, worker, loose>> /\ admin[w].pc = "idle"
          /\ \A v \in Admins : v # w => admin'[v] = admin[v]
      BY <2>5, StartStarts DEF Started, Begin, Base, TypeOK
    <3> QED
      BY <2>1, <3>1, StillAsked
  <2>6. ASSUME NEW w \in Admins, Continue(w) PROVE PendingInv'
    BY <2>6, PendingContinue
  <2>7. ASSUME NEW w \in Admins, NEW names \in SUBSET Names, BulkDeleteCertificates(w, names) PROVE PendingInv'
    BY <2>7, PendingDelete DEF BulkDeleteCertificates, Base, TypeOK
  <2> QED
    BY <2>2, <2>3, <2>4, <2>5, <2>6, <2>7, StepsOfNext
<1>3. Base /\ PendingInv => PendingIsExplained
  <2> SUFFICES ASSUME Base, PendingInv, NEW i \in DOMAIN rows, Waiting(rows[i])
               PROVE  \/ Served(i, rows[i])
                      \/ \E w \in Admins : admin[w].name = rows[i].name /\ admin[w].pc \in {"issue", "persist", "dns"}
                      \/ LeftWaiting(i)
                      \/ Cardinality(Found(rows[i].name)) > 1
    BY DEF PendingIsExplained
  <2>1. KnownBy(i, rows, queue, worker, admin, loose)
    BY DEF PendingInv
  <2>2. ServedBy(i, rows[i].name, queue, worker) => Served(i, rows[i])
    BY DEF Served, ServedBy
  <2>3. Twin(i, rows) => Cardinality(Found(rows[i].name)) > 1
    BY TwinsAreTwo DEF Base, TypeOK
  <2> QED
    BY <2>1, <2>2, <2>3 DEF KnownBy, AskedBy, Asks, Lost, LeftWaiting
<1> QED
  BY <1>1, <1>2, <1>3, BaseHolds, QueueInvHolds, PTL DEF Spec

-----------------------------------------------------------------------------
(* The worker gets to every job *)

\* How many steps of the worker, at most, until it takes the job at a place of the queue:
\* what is left of the job it has (acme.sh, reading the row, writing it), one to take the
\* next, and four for each job before that place.
Rest(pc) == CASE pc = "idle" -> 1 [] pc = "save" -> 2 [] pc = "complete" -> 3 [] pc = "run" -> 4
Left(k, pc) == 4 * (k - 1) + Rest(pc)

\* What a step makes of a queued job: it is taken, or stays queued as near to its turn as
\* it was, and nearer after a step of the worker.
Taken(k) == k = 1 /\ worker'.pc = "run" /\ worker'.job = queue[1]
Nearer(k) == \E l \in 1..Len(queue') : /\ queue'[l] = queue[k]
                                       /\ Left(l, worker'.pc) <= Left(k, worker.pc)
                                       /\ Worker => Left(l, worker'.pc) < Left(k, worker.pc)
ComesUp(k) == Taken(k) \/ Nearer(k)
JobsComeUp == ~Restart => \A k \in 1..Len(queue) : ComesUp(k)

\* With a job queued the worker is somewhere in its loop.
LEMMA WorkerIsThere ==
    ASSUME QueueTyped, QueueInv, NEW k \in 1..Len(queue)
    PROVE  worker.pc \in {"idle", "run", "complete", "save"} /\ Len(queue) \in Nat /\ queue # <<>>
<1>1. Len(queue) \in Nat /\ (queue = <<>> => Len(queue) = 0)
  BY LenProperties DEF QueueTyped
<1>2. queue # <<>>
  BY <1>1
<1> QED
  BY <1>1, <1>2 DEF QueueTyped, QueueInv, QueueIsServed, WorkerState

\* A job that is queued comes behind those that are, and the worker goes on.
LEMMA EnqueueComesUp ==
    ASSUME QueueTyped, QueueInv, NEW job \in Job, enqueue(job), ~Worker, NEW k \in 1..Len(queue)
    PROVE  ComesUp(k)
<1>1. worker.pc \in {"idle", "run", "complete", "save"} /\ Len(queue) \in Nat /\ worker.busy
  BY WorkerIsThere DEF QueueInv, BusyIsTrue
<1>2. worker' = worker
  BY <1>1 DEF enqueue
<1>3. k \in 1..Len(queue') /\ queue'[k] = queue[k]
  BY <1>1, AppendProperties DEF enqueue, QueueTyped
<1>4. Left(k, worker.pc) \in Int
  BY <1>1 DEF Left, Rest
<1> QED
  BY <1>2, <1>3, <1>4 DEF ComesUp, Nearer

\* A step that leaves queue and worker alone.
LEMMA WaitingComesUp ==
    ASSUME QueueTyped, QueueInv, UNCHANGED <<queue, worker>>, ~Worker, NEW k \in 1..Len(queue)
    PROVE  ComesUp(k)
<1>1. worker.pc \in {"idle", "run", "complete", "save"} /\ Len(queue) \in Nat
  BY WorkerIsThere
<1>2. Left(k, worker.pc) \in Int
  BY <1>1 DEF Left, Rest
<1> QED
  BY <1>2 DEF ComesUp, Nearer

\* The worker takes the first job, or goes on with the one it has.
LEMMA WorkerComesUp ==
    ASSUME QueueTyped, QueueInv, Worker, NEW k \in 1..Len(queue)
    PROVE  ComesUp(k)
<1>1. Len(queue) \in Nat /\ queue # <<>>
  BY WorkerIsThere
<1>2. CASE WorkerTake
  <2>1. /\ worker.pc = "idle" /\ worker' = [worker EXCEPT !.pc = "run", !.job = Head(queue)]
        /\ queue' = Tail(queue)
    BY <1>1, <1>2 DEF WorkerTake
  <2>2. worker'.pc = "run" /\ worker'.job = queue[1]
    BY <2>1, <1>1, HeadTailProperties DEF QueueTyped, WorkerState
  <2>3. CASE k = 1
    BY <2>2, <2>3 DEF ComesUp, Taken
  <2>4. CASE k # 1
    <3>1. k - 1 \in 1..Len(queue') /\ queue'[k - 1] = queue[k]
      <4>1. /\ Len(queue') = Len(queue) - 1
            /\ \A l \in 1..Len(queue') : queue'[l] = queue[l + 1]
        BY <1>1, <2>1, HeadTailProperties DEF QueueTyped
      <4>2. k - 1 \in 1..Len(queue')
        BY <1>1, <2>4, <4>1
      <4> QED
        BY <4>1, <4>2
    <3>2. Left(k - 1, worker'.pc) < Left(k, worker.pc) /\ Left(k - 1, worker'.pc) <= Left(k, worker.pc)
      BY <1>1, <2>1, <2>2 DEF Left, Rest
    <3> QED
      BY <3>1, <3>2 DEF ComesUp, Nearer
  <2> QED
    BY <2>3, <2>4
<1>3. CASE WorkerRun \/ CompleteRead \/ CompleteSave
  <2>1. queue' = queue
    BY <1>3 DEF WorkerRun, CompleteRead, CompleteSave
  <2>2. \/ worker.pc = "run" /\ worker'.pc = "complete"
        \/ worker.pc = "complete" /\ worker'.pc \in {"idle", "save"}
        \/ worker.pc = "save" /\ worker'.pc = "idle"
    BY <1>3 DEF WorkerRun, CompleteRead, CompleteSave, NextRound, Resting, QueueTyped, WorkerState
  <2>3. Left(k, worker'.pc) < Left(k, worker.pc) /\ Left(k, worker'.pc) <= Left(k, worker.pc)
    BY <1>1, <2>2 DEF Left, Rest
  <2> QED
    BY <2>1, <2>3 DEF ComesUp, Nearer
<1> QED
  BY <1>2, <1>3 DEF Worker

\* Every step but a restart.
LEMMA StepComesUp == Base /\ QueueInv /\ [Next]_vars => JobsComeUp
<1> SUFFICES ASSUME Base, QueueInv, [Next]_vars, ~Restart, NEW k \in 1..Len(queue)
             PROVE  ComesUp(k)
  BY DEF JobsComeUp
<1>1. QueueTyped
  BY DEF Base, TypeOK
<1>2. CASE Worker
  BY <1>1, <1>2, WorkerComesUp
<1>3. ASSUME UNCHANGED <<queue, worker>>, ~Worker PROVE ComesUp(k)
  BY <1>1, <1>3, WaitingComesUp
<1>4. ASSUME UNCHANGED vars, ~Worker PROVE ComesUp(k)
  BY <1>3, <1>4 DEF vars
<1>5. ASSUME NEW w \in Admins, Start(w), ~Worker PROVE ComesUp(k)
  BY <1>3, <1>5, StartStarts DEF Started
<1>6. ASSUME NEW w \in Admins, Continue(w), ~Worker PROVE ComesUp(k)
  BY <1>1, <1>3, <1>6, RequestsEnqueue, JobTyped, EnqueueComesUp
<1>7. ASSUME NEW w \in Admins, NEW names \in SUBSET Names, BulkDeleteCertificates(w, names), ~Worker
      PROVE ComesUp(k)
  BY <1>3, <1>7 DEF BulkDeleteCertificates
<1> QED
  BY <1>2, <1>4, <1>5, <1>6, <1>7, StepsOfNext

\* Jobs are taken in the order in which they were queued, none is dropped but by a restart,
\* and with each step of the worker every queued job is nearer to its turn, whatever is
\* queued meanwhile (enqueue, the worker's loop).  This is what RowsSettle rests on.
THEOREM QueuedJobsComeUp == Spec => [][JobsComeUp]_vars
<1>1. Base /\ QueueInv /\ [Next]_vars => [JobsComeUp]_vars
  BY StepComesUp
<1> QED
  BY <1>1, BaseHolds, QueueInvHolds, PTL DEF Spec

-----------------------------------------------------------------------------
(* CertificatePage: what is shown as pending is asked about *)

Unsettled(row) == row.status \/ row.last

\* Tables are functions of the names, in the database, on the screen and in answers.
IsTable(t) == t = [d \in Page!Domains |-> t[d]]
ReadsHoldTables == /\ reads = [k \in Slots |-> reads[k]]
                   /\ \A k \in Slots : reads[k].phase = "answered" => IsTable(reads[k].rows)
PageTypes == /\ IsTable(stored) /\ IsTable(certs) /\ ReadsHoldTables
             /\ poll \in [Pages -> BOOLEAN] /\ open \in Pages

\* A page that is away has left its rows behind, so that none is pending when it returns.
AwayIsClean == face = "away" => \A d \in Page!Domains : ~Unsettled(certs[d])

\* A row that is shown as pending is asked about by the interval of the page, unless the
\* page itself has set it to pending.
PendingIsAskedAbout ==
    \A d \in Page!Domains : Unsettled(certs[d]) => d \in marked \/ poll[open]

PageInv == PageTypes /\ AwayIsClean /\ PendingIsAskedAbout

\* Answers on their way that tell of a pending row.
Outdated == {k \in Slots : reads[k].phase = "answered" /\ Page!hasPending(reads[k].rows)}

\* Once no stored row is pending no answer says so but those on their way, each of which
\* sets the interval of its page once at most; any other answer clears it.
StopsAsking ==
    ~Page!hasPending(stored) =>
        /\ Outdated' \subseteq Outdated
        /\ \A i \in Pages : poll'[i] =>
             \/ \E k \in Outdated \ Outdated' : reads[k].of = i
             \/ poll[i] /\ \A k \in Slots : Page!fetchCertificates(k) => reads[k].of # i

\* A read that is sent holds no table, and takes an error away but nothing else.
LEMMA RefetchKeeps ==
    ASSUME ReadsHoldTables, UNCHANGED <<reads, face>> \/ \E i : Page!Fetching(i)
    PROVE  /\ ReadsHoldTables' /\ Outdated' \subseteq Outdated
           /\ face' = "away" <=> face = "away"
<1>1. CASE UNCHANGED <<reads, face>>
  BY <1>1 DEF ReadsHoldTables, Outdated, IsTable, Page!hasPending
<1>2. ASSUME NEW i, Page!Fetching(i)
      PROVE  /\ ReadsHoldTables' /\ Outdated' \subseteq Outdated
             /\ face' = "away" <=> face = "away"
    <2>1. PICK s \in Page!Free : reads' = [reads EXCEPT ![s] = Page!Read(i)]
    BY <1>2 DEF Page!Fetching
  <2>2. s \in Slots /\ reads[s] = Page!NoRead
    BY <2>1 DEF Page!Free
  <2>3. \A k \in Slots : reads'[k] = IF k = s THEN Page!Read(i) ELSE reads[k]
    BY <2>1 DEF ReadsHoldTables
  <2>4. reads' = [k \in Slots |-> reads'[k]]
    BY <2>1 DEF ReadsHoldTables
  <2>5. Page!Read(i).phase = "sent" /\ Page!NoRead.phase = "none"
    BY DEF Page!Read, Page!NoRead, Page!None
  <2>6. \A k \in Slots : reads'[k].phase = "answered" => reads'[k] = reads[k]
    BY <2>3, <2>5
  <2>7. ReadsHoldTables'
    BY <2>4, <2>6 DEF ReadsHoldTables, IsTable
  <2>8. Outdated' \subseteq Outdated
    BY <2>6 DEF Outdated, Page!hasPending
  <2>9. face' = "away" <=> face = "away"
    BY <1>2 DEF Page!Fetching
  <2> QED
    BY <2>7, <2>8, <2>9
<1> QED
  BY <1>1, <1>2

\* The page edits the rows it shows: what it sets to pending it marks.
LEMMA EditsAreMarked ==
    ASSUME PageTypes,
           \/ UNCHANGED <<certs, marked>>
           \/ \E i, d : Page!updateCertificate(i, d)
           \/ \E i, names : Page!removeCertificates(i, names)
    PROVE  /\ IsTable(certs)'
           /\ face = "away" => certs' = certs
           /\ \A d \in Page!Domains : Unsettled(certs'[d]) =>
                d \in marked' \/ (Unsettled(certs[d]) /\ d \notin marked)
<1>1. CASE UNCHANGED <<certs, marked>>
  BY <1>1 DEF PageTypes, IsTable
<1>2. ASSUME NEW i, NEW e, Page!updateCertificate(i, e), ~UNCHANGED <<certs, marked>>
      PROVE  /\ IsTable(certs)'
             /\ face = "away" => certs' = certs
             /\ \A d \in Page!Domains : Unsettled(certs'[d]) =>
                  d \in marked' \/ (Unsettled(certs[d]) /\ d \notin marked)
  <2>1. /\ certs' = [certs EXCEPT ![e].last = TRUE] /\ marked' = marked \cup {e}
        /\ face # "away"
    BY <1>2 DEF Page!updateCertificate, Page!Mounted
  <2>2. \A d \in Page!Domains : d # e => certs'[d] = certs[d]
    BY <2>1 DEF PageTypes, IsTable
  <2>3. IsTable(certs)'
    BY <2>1 DEF PageTypes, IsTable
  <2> QED
    BY <2>1, <2>2, <2>3
<1>3. ASSUME NEW i, NEW names, Page!removeCertificates(i, names), ~UNCHANGED <<certs, marked>>
      PROVE  /\ IsTable(certs)'
             /\ face = "away" => certs' = certs
             /\ \A d \in Page!Domains : Unsettled(certs'[d]) =>
                  d \in marked' \/ (Unsettled(certs[d]) /\ d \notin marked)
  <2>1. /\ certs' = [d \in Page!Domains |-> IF d \in names THEN Page!Absent ELSE certs[d]]
        /\ marked' = marked \ names /\ face # "away"
    BY <1>3 DEF Page!removeCertificates, Page!Mounted
  <2>2. ~Unsettled(Page!Absent)
    BY DEF Unsettled, Page!Absent, Page!Row
  <2>3. IsTable(certs)'
    BY <2>1 DEF IsTable
  <2> QED
    BY <2>1, <2>2, <2>3
<1> QED
  BY <1>1, <1>2, <1>3

\* No answer that tells of a pending row, and no interval, that was not there.
NoneNew == /\ Outdated' \subseteq Outdated
           /\ \A i \in Pages : poll'[i] => poll[i]

\* Steps of the server, and clicks: the page shows and asks what it did.
LEMMA PageUntouched ==
    ASSUME PageInv, UNCHANGED <<open, face, certs, marked, poll, reads>>, IsTable(stored)'
    PROVE  PageInv' /\ NoneNew
BY DEF PageInv, PageTypes, AwayIsClean, PendingIsAskedAbout, ReadsHoldTables, NoneNew, Outdated,
       IsTable, Unsettled, Page!hasPending

\* Steps of an open page that edit its rows or send a read.
LEMMA PageEdits ==
    ASSUME PageInv, UNCHANGED <<stored, open, poll>>,
           UNCHANGED <<reads, face>> \/ \E i : Page!Fetching(i),
           \/ UNCHANGED <<certs, marked>>
           \/ \E i, d : Page!updateCertificate(i, d)
           \/ \E i, names : Page!removeCertificates(i, names)
    PROVE  PageInv' /\ NoneNew
<1>1. PageTypes
  BY DEF PageInv
<1>2. ReadsHoldTables' /\ Outdated' \subseteq Outdated /\ (face' = "away" <=> face = "away")
  BY <1>1, RefetchKeeps DEF PageTypes
<1>3. /\ IsTable(certs)' /\ (face = "away" => certs' = certs)
      /\ \A d \in Page!Domains : Unsettled(certs'[d]) =>
           d \in marked' \/ (Unsettled(certs[d]) /\ d \notin marked)
  BY <1>1, EditsAreMarked
<1>4. PageTypes'
  BY <1>1, <1>2, <1>3 DEF PageTypes, IsTable
<1>5. AwayIsClean'
  BY <1>2, <1>3 DEF PageInv, AwayIsClean, Unsettled
<1>6. PendingIsAskedAbout'
  BY <1>3 DEF PageInv, PendingIsAskedAbout, Unsettled
<1> QED
  BY <1>1, <1>2, <1>4, <1>5, <1>6 DEF PageInv, NoneNew, PageTypes

\* An answer is shown by the page that asked, if it is there, and sets its interval.
LEMMA AnswerIsShown ==
    ASSUME PageInv, NEW k \in Slots, Page!fetchCertificates(k)
    PROVE  PageInv' /\ StopsAsking
<1> DEFINE i == reads[k].of
           rows_k == reads[k].rows
<1>1. /\ reads[k].phase = "answered" /\ IsTable(rows_k)
      /\ reads' = [reads EXCEPT ![k] = Page!NoRead]
      /\ poll' = [poll EXCEPT ![i] = Page!hasPending(rows_k)]
      /\ UNCHANGED <<stored, open>>
  BY DEF Page!fetchCertificates, Page!Polls, PageInv, PageTypes, ReadsHoldTables, Page!server
<1>2. \/ /\ i = open /\ face # "away" /\ certs' = rows_k /\ marked' = {} /\ face' # "away"
      \/ ~(i = open /\ face # "away") /\ UNCHANGED <<certs, marked, face>>
  BY DEF Page!fetchCertificates, Page!Mounted, Page!list
<1>3. Page!hasPending(rows_k) \in BOOLEAN
      /\ (Page!hasPending(rows_k) <=> \E d \in Page!Domains : Unsettled(rows_k[d]))
  BY DEF Page!hasPending, Unsettled
<1>4. /\ poll' \in [Pages -> BOOLEAN]
      /\ \A p \in Pages : poll'[p] = IF p = i THEN Page!hasPending(rows_k) ELSE poll[p]
  BY <1>1, <1>3 DEF PageInv, PageTypes
<1>5. /\ reads' = [l \in Slots |-> reads'[l]]
      /\ \A l \in Slots : reads'[l] = IF l = k THEN Page!NoRead ELSE reads[l]
  BY <1>1 DEF PageInv, PageTypes, ReadsHoldTables
<1>6. \A l \in Slots : reads'[l].phase = "answered" => l # k /\ reads'[l] = reads[l]
  BY <1>5 DEF Page!NoRead, Page!None
<1>7. ReadsHoldTables'
  BY <1>5, <1>6 DEF PageInv, PageTypes, ReadsHoldTables, IsTable
<1> HIDE DEF i, rows_k
<1>8. IsTable(certs)' /\ IsTable(stored)' /\ open' \in Pages
  BY <1>1, <1>2 DEF PageInv, PageTypes, IsTable
<1>9. PageTypes'
  BY <1>4, <1>7, <1>8 DEF PageTypes
<1>10. AwayIsClean'
  BY <1>2 DEF PageInv, AwayIsClean, Unsettled
<1>11. PendingIsAskedAbout'
  <2>1. CASE i = open /\ face # "away" /\ certs' = rows_k
    BY <1>1, <1>3, <1>4, <2>1 DEF PageInv, PageTypes, PendingIsAskedAbout, Unsettled
  <2>2. CASE ~(i = open /\ face # "away") /\ UNCHANGED <<certs, marked, face>>
    <3>1. CASE i # open
      BY <1>1, <1>4, <2>2, <3>1 DEF PageInv, PageTypes, PendingIsAskedAbout, Unsettled
    <3>2. CASE face = "away"
      BY <2>2, <3>2 DEF PageInv, AwayIsClean, PendingIsAskedAbout, Unsettled
    <3> QED
      BY <2>2, <3>1, <3>2
  <2> QED
    BY <1>2, <2>1, <2>2
<1>12. Outdated' \subseteq Outdated /\ k \notin Outdated'
  BY <1>6 DEF Outdated, Page!hasPending
<1>13. ASSUME NEW p \in Pages, poll'[p]
       PROVE  \/ \E l \in Outdated \ Outdated' : reads[l].of = p
              \/ poll[p] /\ \A l \in Slots : Page!fetchCertificates(l) => reads[l].of # p
  <2>1. CASE p = i
    <3>1. k \in Outdated /\ reads[k].of = p
      BY <1>1, <1>4, <1>13, <2>1 DEF Outdated, i, rows_k
    <3> QED
      BY <1>12, <3>1
  <2>2. CASE p # i
    <3>1. poll[p]
      BY <1>4, <1>13, <2>2
    <3>2. ASSUME NEW l \in Slots, Page!fetchCertificates(l) PROVE l = k
      <4>1. reads[l].phase = "answered" /\ reads' = [reads EXCEPT ![l] = Page!NoRead]
        BY <3>2 DEF Page!fetchCertificates
      <4>2. reads'[l] = Page!NoRead
        BY <4>1 DEF PageInv, PageTypes, ReadsHoldTables
      <4> QED
        BY <1>5, <4>1, <4>2 DEF Page!NoRead, Page!None
    <3> QED
      BY <2>2, <3>1, <3>2 DEF i
  <2> QED
    BY <2>1, <2>2
<1> QED
  BY <1>9, <1>10, <1>11, <1>12, <1>13 DEF PageInv, StopsAsking

\* The server answers a read with the table as it is.
LEMMA ServerAnswers ==
    ASSUME PageInv, NEW k \in Slots, Page!ServerLists(k)
    PROVE  PageInv' /\ (~Page!hasPending(stored) => NoneNew)
<1> DEFINE a == [phase |-> "answered", of |-> reads[k].of, rows |-> stored]
<1>1. reads' = [reads EXCEPT ![k] = a] /\ UNCHANGED <<stored, open, face, certs, marked, poll>>
  BY DEF Page!ServerLists, Page!server, Page!list
<1>2. a.rows = stored
  OBVIOUS
<1> HIDE DEF a
<1>3. /\ reads' = [l \in Slots |-> reads'[l]]
      /\ \A l \in Slots : reads'[l] = IF l = k THEN a ELSE reads[l]
  BY <1>1 DEF PageInv, PageTypes, ReadsHoldTables
<1>4. ReadsHoldTables'
  BY <1>2, <1>3 DEF PageInv, PageTypes, ReadsHoldTables, IsTable
<1>5. PageInv'
  BY <1>1, <1>4 DEF PageInv, PageTypes, AwayIsClean, PendingIsAskedAbout, IsTable, Unsettled
<1>6. ~Page!hasPending(stored) => Outdated' \subseteq Outdated
  BY <1>2, <1>3 DEF Outdated, Page!hasPending
<1> QED
  BY <1>1, <1>5, <1>6 DEF NoneNew

\* A read that fails puts an error in the place of an open table.
LEMMA FailureIsShown ==
    ASSUME PageInv, NEW k \in Slots, Page!FetchFails(k)
    PROVE  PageInv' /\ NoneNew
<1>1. /\ reads' = [reads EXCEPT ![k] = Page!NoRead]
      /\ UNCHANGED <<stored, open, certs, marked, poll>> /\ (face' = "away" => face = "away")
  BY DEF Page!FetchFails, Page!server, Page!Mounted
<1>2. /\ reads' = [l \in Slots |-> reads'[l]]
      /\ \A l \in Slots : reads'[l] = IF l = k THEN Page!NoRead ELSE reads[l]
  BY <1>1 DEF PageInv, PageTypes, ReadsHoldTables
<1>3. \A l \in Slots : reads'[l].phase = "answered" => reads'[l] = reads[l]
  BY <1>2 DEF Page!NoRead, Page!None
<1>4. ReadsHoldTables'
  BY <1>2, <1>3 DEF PageInv, PageTypes, ReadsHoldTables, IsTable
<1>5. PageInv'
  BY <1>1, <1>4 DEF PageInv, PageTypes, AwayIsClean, PendingIsAskedAbout, IsTable, Unsettled
<1>6. Outdated' \subseteq Outdated
  BY <1>3 DEF Outdated, Page!hasPending
<1> QED
  BY <1>1, <1>5, <1>6 DEF NoneNew

\* A page that is left forgets its rows and clears its interval.
LEMMA LeftClean ==
    ASSUME PageInv, Page!Leave
    PROVE  PageInv' /\ NoneNew
<1>1. /\ certs' = [d \in Page!Domains |-> Page!Absent]
      /\ poll' = [poll EXCEPT ![open] = FALSE] /\ UNCHANGED <<stored, open, reads>>
  BY DEF Page!Leave, Page!server
<1>2. \A d \in Page!Domains : ~Unsettled(certs'[d])
  BY <1>1 DEF Unsettled, Page!Absent, Page!Row
<1>3. PageTypes'
  BY <1>1 DEF PageInv, PageTypes, ReadsHoldTables, IsTable
<1>4. AwayIsClean' /\ PendingIsAskedAbout'
  BY <1>2 DEF AwayIsClean, PendingIsAskedAbout, Unsettled
<1>5. NoneNew
  BY <1>1 DEF PageInv, PageTypes, NoneNew, Outdated, Page!hasPending
<1> QED
  BY <1>3, <1>4, <1>5 DEF PageInv

\* A page that is opened again shows no rows and asks for them.
LEMMA OpenedClean ==
    ASSUME PageInv, Page!Return
    PROVE  PageInv' /\ NoneNew
<1>1. /\ face = "away" /\ face' = "skeleton" /\ open' = open + 1 /\ open + 1 \in Pages
      /\ UNCHANGED <<stored, certs, marked, poll>>
  BY DEF Page!Return, Page!server
<1>2. PICK s \in Page!Free : reads' = [reads EXCEPT ![s] = Page!Read(open + 1)]
  BY DEF Page!Return
<1>3. /\ reads' = [l \in Slots |-> reads'[l]]
      /\ \A l \in Slots : reads'[l] = IF l = s THEN Page!Read(open + 1) ELSE reads[l]
  BY <1>2 DEF PageInv, PageTypes, ReadsHoldTables
<1>4. \A l \in Slots : reads'[l].phase = "answered" => reads'[l] = reads[l]
  BY <1>3 DEF Page!Read
<1>5. ReadsHoldTables'
  BY <1>3, <1>4 DEF PageInv, PageTypes, ReadsHoldTables, IsTable
<1>6. PageTypes'
  BY <1>1, <1>5 DEF PageInv, PageTypes, IsTable
<1>7. AwayIsClean' /\ PendingIsAskedAbout'
  BY <1>1 DEF PageInv, AwayIsClean, PendingIsAskedAbout, Unsettled
<1>8. Outdated' \subseteq Outdated
  BY <1>4 DEF Outdated, Page!hasPending
<1> QED
  BY <1>1, <1>6, <1>7, <1>8 DEF PageInv, NoneNew
\* Whatever a request or a job does to the rows, they stay a table.
LEMMA RowsStayTable ==
    ASSUME IsTable(stored),
           \/ \E q \in reqs : Page!ServerActs(q)
           \/ \E d \in Page!Domains : Page!JobEnds(d)
    PROVE  IsTable(stored)'
<1>1. ASSUME NEW d \in Page!Domains, Page!JobEnds(d) PROVE IsTable(stored)'
  BY <1>1 DEF Page!JobEnds, IsTable
<1>2. ASSUME NEW q \in reqs, Page!ServesRow(q) PROVE IsTable(stored)'
  BY <1>2 DEF Page!ServesRow, Page!Stores, Page!Refuses, Page!server, IsTable
<1>3. \A wild : IsTable(Page!Enabled(wild))
  <2>1. \A d, row : IsTable([stored EXCEPT ![d] = row])
    BY DEF IsTable
  <2> QED
    BY <2>1, Zenon DEF Page!Enabled
<1>4. ASSUME NEW q \in reqs, Page!ServesWildcard(q) PROVE IsTable(stored)'
  <2>1. CASE stored' = stored
    BY <2>1 DEF IsTable
  <2>2. CASE \E wild : stored' = Page!Enabled(wild)
    BY <1>3, <2>2 DEF IsTable
  <2>3. CASE \E wild : stored' = [stored EXCEPT ![CHOOSE z \in Zones : TRUE].wild = wild]
    BY <2>3 DEF IsTable
  <2> QED
    BY <1>4, <2>1, <2>2, <2>3 DEF Page!ServesWildcard, Page!Stores, Page!Refuses, Page!server
<1>5. ASSUME NEW q \in reqs, Page!ServesOthers(q) PROVE IsTable(stored)'
  <2>1. CASE stored' = stored
    BY <2>1 DEF IsTable
  <2>2. CASE \E d, row : stored' = [stored EXCEPT ![d] = row]
    BY <2>2 DEF IsTable
  <2>3. CASE \E t : stored' = [d \in Page!Domains |-> t[d]]
    BY <2>3 DEF IsTable
  <2> QED
    BY <1>5, <2>1, <2>2, <2>3 DEF Page!ServesOthers, Page!Stores, Page!Refuses, Page!server
<1> QED
  BY <1>1, <1>2, <1>4, <1>5 DEF Page!ServerActs

\* An answer of a request edits the rows of its page, or has it read the table.
LEMMA AnswersKeep ==
    ASSUME PageInv, NEW q \in reqs, Page!Answered(q)
    PROVE  PageInv' /\ NoneNew
<1>1. UNCHANGED <<stored, open, poll>>
  BY DEF Page!Answered, Page!server
<1>2. UNCHANGED <<reads, face>> \/ \E i : Page!Fetching(i)
  BY DEF Page!Answered, Page!RenewAnswered, Page!BulkRenewAnswered, Page!ToggleAnswered,
         Page!DeleteAnswered, Page!ReadAnswered, Page!WizardAnswered, Page!NoRefetch
<1>3. \/ UNCHANGED <<certs, marked>>
      \/ \E i, d : Page!updateCertificate(i, d)
      \/ \E i, names : Page!removeCertificates(i, names)
  BY DEF Page!Answered, Page!RenewAnswered, Page!BulkRenewAnswered, Page!ToggleAnswered,
         Page!DeleteAnswered, Page!ReadAnswered, Page!WizardAnswered
<1> QED
  BY <1>1, <1>2, <1>3, PageEdits

\* A click sends a read or a request.
LEMMA ClicksKeep ==
    ASSUME PageInv, Page!Clicks
    PROVE  PageInv' /\ NoneNew
<1>1. CASE Page!Refresh
  <2>1. UNCHANGED <<stored, open, poll, certs, marked>> /\ Page!Fetching(open)
    BY <1>1 DEF Page!Refresh, Page!server
  <2> QED
    BY <2>1, PageEdits
<1>2. CASE Page!Select \/ Page!CloseWizard \/ \E hook, op, names : Page!Call(hook, op, names)
  <2>1. UNCHANGED <<stored, open, face, certs, marked, poll, reads>>
    BY <1>2 DEF Page!Select, Page!CloseWizard, Page!Call, Page!server, Page!list
  <2>2. IsTable(stored)'
    BY <2>1 DEF PageInv, PageTypes, IsTable
  <2> QED
    BY <2>1, <2>2, PageUntouched
<1>3. ASSUME Page!TableButtons \/ Page!DetailsButtons \/ Page!WizardButtons \/ Page!handleSyncFilesystem
      PROVE  \E hook, op, names : Page!Call(hook, op, names)
  BY <1>3 DEF Page!TableButtons, Page!RowButtons, Page!BulkButtons, Page!DetailsButtons,
              Page!WizardButtons, Page!handleAddDomain, Page!handleVerifyDNS,
              Page!handleIssueWildcard, Page!handleSyncFilesystem
<1> QED
  BY <1>1, <1>2, <1>3 DEF Page!Clicks

\* Every step keeps the invariant, and asks less once nothing is pending.
LEMMA PageStep ==
    ASSUME PageInv, [Page!Next]_(Page!pageVars)
    PROVE  PageInv' /\ [StopsAsking]_(Page!pageVars)
<1>1. ASSUME NEW k \in Slots, Page!fetchCertificates(k) PROVE PageInv' /\ StopsAsking
  BY <1>1, AnswerIsShown
<1>2. ASSUME PageInv' /\ (~Page!hasPending(stored) => NoneNew),
             \A k \in Slots : ~Page!fetchCertificates(k)
      PROVE  PageInv' /\ StopsAsking
  BY <1>2 DEF StopsAsking, NoneNew
<1>3. ASSUME NEW k \in Slots, Page!ServerLists(k) \/ Page!FetchFails(k)
      PROVE  PageInv' /\ (~Page!hasPending(stored) => NoneNew)
  BY <1>3, ServerAnswers, FailureIsShown
<1>4. ASSUME NEW i \in Pages, Page!setInterval(i) PROVE PageInv' /\ NoneNew
  <2>1. UNCHANGED <<stored, open, poll, certs, marked>> /\ Page!Fetching(i)
    BY <1>4 DEF Page!setInterval, Page!server
  <2> QED
    BY <2>1, PageEdits
<1>5. ASSUME \/ \E q \in reqs : Page!ServerActs(q) \/ Page!RequestFails(q)
             \/ \E d \in Page!Domains : Page!JobEnds(d) \/ Page!JobLost(d)
      PROVE  PageInv' /\ NoneNew
  <2>1. UNCHANGED <<open, face, certs, marked, poll, reads>>
    BY <1>5 DEF Page!ServerActs, Page!RequestFails, Page!JobEnds, Page!JobLost, Page!list
  <2>2. IsTable(stored)
    BY DEF PageInv, PageTypes
  <2>3. IsTable(stored)'
    <3>1. CASE stored' = stored
      BY <2>2, <3>1 DEF IsTable
    <3>2. CASE stored' # stored
      BY <1>5, <2>2, <3>2, RowsStayTable DEF Page!RequestFails, Page!JobLost, Page!server
    <3> QED
      BY <3>1, <3>2
  <2> QED
    BY <2>1, <2>3, PageUntouched
<1>6. ASSUME NEW q \in reqs, Page!Answered(q) PROVE PageInv' /\ NoneNew
  BY <1>6, AnswersKeep
<1>7. CASE UNCHANGED Page!pageVars
  BY <1>7, PageUntouched DEF Page!pageVars, Page!server, Page!list, PageInv, PageTypes, IsTable
<1> QED
  BY <1>1, <1>2, <1>3, <1>4, <1>5, <1>6, <1>7, LeftClean, OpenedClean, ClicksKeep DEF Page!Next

\* A page that has just been opened shows nothing and has asked.
LEMMA PageStarts ==
    ASSUME Page!PageAssumption
    PROVE  Page!Init => PageInv
<1> SUFFICES ASSUME Page!Init PROVE PageInv
  OBVIOUS
<1>1. ReadsHoldTables
  <2>1. reads = [k \in Slots |-> IF k = 1 THEN Page!Read(1) ELSE Page!NoRead]
    BY DEF Page!Init
  <2>2. \A k \in Slots : reads[k].phase # "answered"
    BY <2>1 DEF Page!Read, Page!NoRead, Page!None
  <2> QED
    BY <2>1, <2>2 DEF ReadsHoldTables
<1>2. IsTable(stored) /\ IsTable(certs) /\ \A d \in Page!Domains : certs[d] = Page!Absent
  BY DEF Page!Init, IsTable
<1>3. poll \in [Pages -> BOOLEAN] /\ open \in Pages
  BY DEF Page!Init, Page!PageAssumption
<1>4. \A d \in Page!Domains : ~Unsettled(certs[d])
  BY <1>2 DEF Unsettled, Page!Absent, Page!Row
<1> QED
  BY <1>1, <1>2, <1>3, <1>4 DEF PageInv, PageTypes, AwayIsClean, PendingIsAskedAbout

\* The invariant of the page holds throughout.
LEMMA PageInvHolds ==
    ASSUME Page!PageAssumption
    PROVE  Page!Spec => []PageInv
<1>1. Page!Init => PageInv
  BY PageStarts
<1>2. PageInv /\ [Page!Next]_(Page!pageVars) => PageInv'
  BY PageStep
<1> QED
  BY <1>1, <1>2, PTL DEF Page!Spec

\* However reads, clicks, answers and failures overlap, and however often the page is left
\* and opened again: a row that is shown as pending because it was read so is asked about
\* by a running interval (fetchCertificates, pollRef).
THEOREM PendingRowsAreAskedAbout ==
    ASSUME Page!PageAssumption
    PROVE  Page!Spec => []PendingIsAskedAbout
<1>1. PageInv => PendingIsAskedAbout
  BY DEF PageInv
<1> QED
  BY <1>1, PageInvHolds, PTL

\* Once no stored row is pending, each answer still on its way that says so can set the
\* interval of its page once at most, and every other answer clears it (fetchCertificates).
\* With PendingRowsAreAskedAbout this is what PageComesToRest rests on.
THEOREM PageAsksLess ==
    ASSUME Page!PageAssumption
    PROVE  Page!Spec => [][StopsAsking]_(Page!pageVars)
<1>1. PageInv /\ [Page!Next]_(Page!pageVars) => [StopsAsking]_(Page!pageVars)
  BY PageStep
<1> QED
  BY <1>1, PageInvHolds, PTL DEF Page!Spec
=============================================================================
