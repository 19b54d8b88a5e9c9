------------------------------- MODULE Hosting -------------------------------
(***************************************************************************)
(* The applications behind the gateway: the applications table, the        *)
(* snapshot AppService serves requests from, the sockets of the TCP and    *)
(* UDP proxy, the nginx configuration files, and the health checkers.      *)
(*                                                                         *)
(* A handler of the administration talks to the database, rebuilds the     *)
(* snapshot and then stops and starts what serves the application, without *)
(* a lock around it; the reload goroutine and the health checkers do the   *)
(* same on their own.  Each of these is a step.  What CreateApp, UpdateApp  *)
(* and setupStream ask of the certificates is in module Certificates, and   *)
(* the InvalidateCache an update ends with in module RateLimitService.      *)
(*                                                                         *)
(* Of an application the model keeps the kind of its first upstream, its   *)
(* two ports, whether it is health-checked and the under-attack flag.      *)
(* Whether a check changes the health of an upstream is an input.          *)
(***************************************************************************)
EXTENDS Integers, FiniteSets

CONSTANTS
    Apps,
    Admins,      \* administration requests under way at once
    Forms,       \* what an administrator may submit for an application
    Tables,      \* tables the program may find when it first starts
    Ports,       \* the range of listen ports, and that of backend ports
    MaxRequests  \* bound: administration requests and restarts

Schemes == {"http", "tcp", "udp"}
Rows == [scheme : Schemes, listen : {0} \cup Ports, backend : {0} \cup Ports,
         checked : BOOLEAN, attack : BOOLEAN]

ASSUME HostingAssumption ==
    /\ Ports \subseteq Nat \ {0} /\ MaxRequests \in Nat
    /\ Forms \subseteq Rows /\ \A f \in Forms : ~f.attack
    /\ \A t \in Tables : DOMAIN t \subseteq Apps /\ t \in [DOMAIN t -> Rows]
    \* Init has every stream application of the table it finds at its ports.
    /\ \A t \in Tables : \A a, b \in DOMAIN t :
         a # b /\ {t[a].scheme, t[b].scheme} \subseteq {"tcp", "udp"}
           => t[a].listen # t[b].listen /\ t[a].backend # t[b].backend

VARIABLES
    db,          \* applications: app -> row
    snapshot,    \* appSnapshot.byID
    auto,        \* the autoReload goroutine
    admin,       \* what each request does next
    open,        \* sockets that are open
    registered,  \* those of them Proxy.listeners and Proxy.udpConns know
    conf,        \* files of nginx's stream.d: app -> ports
    checkers,    \* goroutines of HealthCheckService
    requests,    \* requests and restarts so far
    \* history: applications that were switched between HTTP and stream (or deleted by a
    \* request that took them for the other kind, or created again while a checker still
    \* ran), also by a checker that wrote back what an old snapshot held, worked on by two
    \* requests at once, cut off by a restart or whose file could not be written or removed;
    \* those that were switched or worked on twice since the last start; those whose socket
    \* could not be had; pairs whose ports were chosen by requests at the same time; stream
    \* applications at ports a checker brought back, which no request has changed since
    disturbed, mixed, refused, raced, restored

vars == <<db, snapshot, auto, admin, open, registered, conf, checkers, requests,
          disturbed, mixed, refused, raced, restored>>

history == <<disturbed, mixed, refused, raced, restored>>

IsStream(row) == row.scheme \in {"tcp", "udp"}

Without(m, k) == [i \in DOMAIN m \ {k} |-> m[i]]
With(m, k, x) == [i \in DOMAIN m \cup {k} |-> IF i = k THEN x ELSE m[i]]

Empty == [i \in {} |-> 0]
NoRow == [scheme |-> "http", listen |-> 0, backend |-> 0,
          checked |-> FALSE, attack |-> FALSE]
Idle == [pc |-> "idle", kind |-> "none", app |-> "none", row |-> NoRow, list |-> Empty]
NoReload == [pc |-> "idle", list |-> Empty]

Socket(a, row) == [app |-> a, scheme |-> row.scheme, port |-> row.backend, attack |-> row.attack]
Checker(a) == [app |-> a, live |-> TRUE, pc |-> "wait", copy |-> NoRow]

\* StartStreamApps over a table: a socket for every stream application, unless another
\* one has taken its port, and a checker for every application that wants one.
Sockets(table, up) ==
    LET streams == {a \in DOMAIN table : IsStream(table[a])}
        port(a) == <<table[a].scheme, table[a].backend>>
    IN /\ up \subseteq streams
       /\ \A a \in streams : \E b \in up : port(a) = port(b)
       /\ \A a, b \in up : port(a) = port(b) => a = b
Checkers(table) == {Checker(a) : a \in {b \in DOMAIN table : ~IsStream(table[b]) /\ table[b].checked}}

StartUp(table, up) ==
    /\ Sockets(table, up)
    /\ open' = {Socket(a, table[a]) : a \in up}
    /\ registered' = open'
    /\ checkers' = Checkers(table)
    /\ refused' = {a \in DOMAIN table : IsStream(table[a])} \ up
    /\ snapshot' = table

Init ==
    /\ db \in Tables /\ snapshot = db
    /\ open = {Socket(a, db[a]) : a \in {b \in DOMAIN db : IsStream(db[b])}}
    /\ registered = open
    /\ conf = [a \in {b \in DOMAIN db : IsStream(db[b])} |->
                 [listen |-> db[a].listen, backend |-> db[a].backend]]
    /\ checkers = Checkers(db)
    /\ auto = NoReload /\ admin = [w \in Admins |-> Idle] /\ requests = 0
    /\ disturbed = {} /\ mixed = {} /\ refused = {} /\ raced = {} /\ restored = {}

\* The process ends at any point and starts again; files and table stay.
Restart ==
    LET cut == {admin[w].app : w \in {v \in Admins : admin[v].pc # "idle"}} IN
    /\ requests < MaxRequests /\ requests' = requests + 1
    /\ \E up \in SUBSET DOMAIN db : StartUp(db, up)
    /\ admin' = [w \in Admins |-> Idle] /\ auto' = NoReload
    /\ disturbed' = disturbed \cup cut /\ mixed' = {}
    /\ UNCHANGED <<db, conf, raced, restored>>

-----------------------------------------------------------------------------
(* Ports *)

Taken(a, port) == {db[b][port] : b \in {c \in DOMAIN db \ {a} : IsStream(db[c])}}
Free(taken) == CHOOSE p \in Ports \ taken : \A q \in Ports \ taken : p <= q

\* Mutant: a port that was asked for is not compared with the others'.
resolveUnchecked(asked, taken, found) ==
    IF asked = 0 THEN Ports \ taken # {} /\ found = Free(taken) ELSE found = asked
\* resolveStreamPort: the first free port of the range, or the one asked for if no other
\* stream application has it.  There is no result when there is none.
resolve(asked, taken, found) ==
    IF asked = 0 THEN Ports \ taken # {} /\ found = Free(taken)
    ELSE asked \notin taken /\ found = asked

-----------------------------------------------------------------------------
(* The first part of a request: the ports and the table.  Each statement may
   fail or be refused, and the request ends there.                         *)

Begin(w, a, job) ==
    /\ admin[w].pc = "idle" /\ requests < MaxRequests /\ requests' = requests + 1
    /\ admin' = [admin EXCEPT ![w] = job]
    /\ LET both == {a : v \in {u \in Admins \ {w} : admin[u].pc # "idle" /\ admin[u].app = a}}
       IN disturbed' = disturbed \cup both /\ mixed' = mixed \cup both
    /\ UNCHANGED <<db, snapshot, auto, open, registered, conf, checkers, refused, raced, restored>>

Job(pc, kind, a, row) == [pc |-> pc, kind |-> kind, app |-> a, row |-> row, list |-> Empty]

\* CreateApp and UpdateApp: the listen port of a stream application is chosen first.
SubmitApp(w, a, kind, form) ==
    IF IsStream(form)
    THEN \E p \in Ports :
            /\ resolve(form.listen, Taken(a, "listen"), p)
            /\ Begin(w, a, Job("backend", kind, a, [form EXCEPT !.listen = p]))
    ELSE Begin(w, a, Job("write", kind, a, form))

ResolveBackend(w) ==
    /\ admin[w].pc = "backend"
    /\ \/ \E p \in Ports :
            /\ resolve(admin[w].row.backend, Taken(admin[w].app, "backend"), p)
            /\ admin' = [admin EXCEPT ![w].pc = "write", ![w].row.backend = p]
       \/ admin' = [admin EXCEPT ![w] = Idle]
    /\ UNCHANGED <<db, snapshot, auto, open, registered, conf, checkers, requests, history>>

\* DeleteApp looks at the row before it deletes it; a lookup that fails is not an error,
\* and the application is then taken for an HTTP one.
DeleteApp(w, a) ==
    \E existing \in {NoRow} \cup {db[b] : b \in DOMAIN db \cap {a}} :
        Begin(w, a, Job("write", "delete", a, existing))

\* GetApp: the snapshot, or the table for an application the snapshot does not have.
Known(a) == a \in DOMAIN snapshot \cup DOMAIN db
GetApp(a) == IF a \in DOMAIN snapshot THEN snapshot[a] ELSE db[a]

\* ToggleUnderAttackMode is refused for stream applications when it is switched on.
ToggleUnderAttackMode(w, a, enabled) ==
    /\ enabled => Known(a) /\ ~IsStream(GetApp(a))
    /\ Begin(w, a, Job("write", "toggle", a, [NoRow EXCEPT !.attack = enabled]))

\* Applications whose ports another request has chosen and not yet stored.
Choosing(w) == {admin[v].app : v \in {u \in Admins \ {w} :
                  admin[u].pc \in {"backend", "write"} /\ IsStream(admin[u].row)
                  /\ admin[u].kind \in {"create", "update"}}}

\* The statement that changes the table: domain and config, never the flag.
Written(job) ==
    CASE job.kind = "create" -> With(db, job.app, job.row)
      [] job.kind = "update" -> [db EXCEPT ![job.app] = [job.row EXCEPT !.attack = db[job.app].attack]]
      [] job.kind = "delete" -> Without(db, job.app)
      [] OTHER -> IF job.app \in DOMAIN db THEN [db EXCEPT ![job.app].attack = job.row.attack] ELSE db

\* app_id is the primary key, and an update or delete of no row is an error.
Accepted(job) ==
    CASE job.kind = "create" -> job.app \notin DOMAIN db
      [] job.kind \in {"update", "delete"} -> job.app \in DOMAIN db
      [] OTHER -> TRUE

WriteRow(w) ==
    LET job == admin[w]
        a == job.app
        switch == IF \/ job.kind \in {"update", "delete"} /\ a \in DOMAIN db /\ IsStream(db[a]) # IsStream(job.row)
                     \/ job.kind = "create" /\ \E c \in checkers : c.app = a
                  THEN {a} ELSE {}
        race == IF job.kind \in {"create", "update"} /\ IsStream(job.row)
                THEN {{a, b} : b \in Choosing(w)} ELSE {}
    IN /\ job.pc = "write"
       /\ \/ /\ Accepted(job)
             /\ db' = Written(job)
             /\ admin' = [admin EXCEPT ![w].pc = "list"]
             /\ disturbed' = disturbed \cup switch /\ mixed' = mixed \cup switch
             /\ raced' = raced \cup race
             /\ restored' = IF job.kind = "toggle" THEN restored ELSE restored \ {a}
             /\ UNCHANGED refused
          \/ admin' = [admin EXCEPT ![w] = Idle] /\ UNCHANGED <<db, history>>
       /\ UNCHANGED <<snapshot, auto, open, registered, conf, checkers, requests>>

-----------------------------------------------------------------------------
(* reloadSnapshot, by a request or by the ticker: the table is read, then the
   pointer stored.  A failed read stores nothing.                           *)

AfterReload(job) ==
    IF job.kind = "toggle" THEN Idle
    ELSE LET stream == IsStream(job.row)
             next == IF ~stream THEN "health" ELSE IF job.kind = "create" THEN "conf" ELSE "stop"
         IN [job EXCEPT !.pc = next, !.list = Empty]

\* Mutant: the list is added to the snapshot.
StoreMerged(list) ==
    snapshot' = [a \in DOMAIN list \cup DOMAIN snapshot |->
                   IF a \in DOMAIN list THEN list[a] ELSE snapshot[a]]
Store(list) == snapshot' = list

ReloadList(w) ==
    /\ admin[w].pc = "list"
    /\ \/ admin' = [admin EXCEPT ![w].pc = "store", ![w].list = db]
       \/ admin' = [admin EXCEPT ![w] = AfterReload(@)]
    /\ UNCHANGED <<db, snapshot, auto, open, registered, conf, checkers, requests, history>>
ReloadStore(w) ==
    /\ admin[w].pc = "store"
    /\ Store(admin[w].list)
    /\ admin' = [admin EXCEPT ![w] = AfterReload(@)]
    /\ UNCHANGED <<db, auto, open, registered, conf, checkers, requests, history>>

autoReload ==
    /\ \/ auto.pc = "idle" /\ auto' = [pc |-> "store", list |-> db] /\ UNCHANGED snapshot
       \/ auto.pc = "store" /\ auto' = NoReload /\ Store(auto.list)
    /\ UNCHANGED <<db, admin, open, registered, conf, checkers, requests, history>>

-----------------------------------------------------------------------------
(* The second part of a request: what serves the application *)

\* Mutant: only the map of TCP listeners is looked at.
StopForAppTCP(a) == {s \in registered : s.app = a /\ s.scheme = "tcp"}
\* Proxy.StopForApp closes the sockets that are registered for the application.
StopForApp(a) == {s \in registered : s.app = a}

StopStream(w) ==
    LET a == admin[w].app IN
    /\ admin[w].pc = "stop"
    /\ open' = open \ StopForApp(a) /\ registered' = registered \ StopForApp(a)
    /\ admin' = [admin EXCEPT ![w].pc = IF admin[w].kind = "delete" THEN "unconf" ELSE "conf"]
    /\ UNCHANGED <<db, snapshot, auto, conf, checkers, requests, history>>

\* GenerateConf leaves a file that exists as it is; when it cannot write one, setupStream
\* ends there.  A failed reload of nginx is not an error.
GenerateConf(w) ==
    LET a == admin[w].app
        ports == [listen |-> admin[w].row.listen, backend |-> admin[w].row.backend]
    IN /\ admin[w].pc = "conf"
       /\ \/ /\ conf' = IF a \in DOMAIN conf THEN conf ELSE With(conf, a, ports)
             /\ admin' = [admin EXCEPT ![w].pc = "bind"] /\ UNCHANGED refused
             /\ UNCHANGED disturbed
          \/ /\ a \notin DOMAIN conf
             /\ refused' = refused \cup {a} /\ disturbed' = disturbed \cup {a}
             /\ admin' = [admin EXCEPT ![w] = Idle] /\ UNCHANGED conf
       /\ UNCHANGED <<db, snapshot, auto, open, registered, checkers, requests, mixed, raced, restored>>

\* net.Listen, which fails while another socket has the port.
Listen(w) ==
    LET a == admin[w].app
        s == Socket(a, admin[w].row)
    IN /\ admin[w].pc = "bind"
       /\ IF \E t \in open : t.scheme = s.scheme /\ t.port = s.port
          THEN /\ refused' = refused \cup {a} /\ admin' = [admin EXCEPT ![w] = Idle]
               /\ UNCHANGED open
          ELSE /\ refused' = refused \ {a} /\ admin' = [admin EXCEPT ![w].pc = "register"]
               /\ open' = open \cup {s}
       /\ UNCHANGED <<db, snapshot, auto, registered, conf, checkers, requests, disturbed, mixed, raced, restored>>

\* The map of the protocol forgets a socket it held for the application.
Register(w) ==
    LET s == Socket(admin[w].app, admin[w].row) IN
    /\ admin[w].pc = "register"
    /\ registered' = {t \in registered : t.app # s.app \/ t.scheme # s.scheme}
                       \cup {s}
    /\ admin' = [admin EXCEPT ![w] = Idle]
    /\ UNCHANGED <<db, snapshot, auto, open, conf, checkers, requests, history>>

\* Mutant: the file stays.
RemoveConfNothing(w) ==
    /\ admin[w].pc = "unconf"
    /\ admin' = [admin EXCEPT ![w] = Idle]
    /\ UNCHANGED <<db, snapshot, auto, open, registered, conf, checkers, requests, history>>
\* A file that cannot be removed stays without a word.
RemoveConf(w) ==
    LET a == admin[w].app IN
    /\ admin[w].pc = "unconf"
    /\ \/ conf' = Without(conf, a) /\ UNCHANGED disturbed
       \/ a \in DOMAIN conf /\ disturbed' = disturbed \cup {a} /\ UNCHANGED conf
    /\ admin' = [admin EXCEPT ![w] = Idle]
    /\ UNCHANGED <<db, snapshot, auto, open, registered, checkers, requests, mixed, refused, raced, restored>>

\* HealthCheckService.Stop: the context of the application's checker is cancelled.
Cancel(a) == {IF c.app = a THEN [c EXCEPT !.live = FALSE] ELSE c : c \in checkers}

\* Stop, and Start for an application that is not deleted and wants checks.  Start cancels
\* as well, so that nothing of another request matters between the two.
RestartHealth(w) ==
    LET a == admin[w].app
        start == admin[w].kind # "delete" /\ admin[w].row.checked
    IN /\ admin[w].pc = "health"
       /\ checkers' = IF admin[w].kind = "create" /\ ~start THEN checkers
                      ELSE Cancel(a) \cup (IF start THEN {Checker(a)} ELSE {})
       /\ admin' = [admin EXCEPT ![w] = Idle]
       /\ UNCHANGED <<db, snapshot, auto, open, registered, conf, requests, history>>

Continue(w) ==
    \/ ResolveBackend(w) \/ WriteRow(w) \/ ReloadList(w) \/ ReloadStore(w)
    \/ StopStream(w) \/ GenerateConf(w) \/ Listen(w) \/ Register(w) \/ RemoveConf(w)
    \/ RestartHealth(w)

-----------------------------------------------------------------------------
(* HealthCheckService.run *)

\* A tick: the application is looked up; an unknown one is tried again at the next tick,
\* one that is not checked any more ends the goroutine.  Of a cancelled context and a
\* tick that are both ready, select takes either.
CheckBegin(c) ==
    /\ c.pc = "wait" /\ Known(c.app)
    /\ checkers' = (checkers \ {c}) \cup
         IF GetApp(c.app).checked THEN {[c EXCEPT !.pc = "check", !.copy = GetApp(c.app)]} ELSE {}
    /\ UNCHANGED <<db, snapshot, auto, admin, open, registered, conf, requests, history>>

\* The upstreams have answered or not (with the context cancelled they have not).  When
\* the health of one changes, the whole configuration as it was looked up is written
\* back, if the application is still there.
CheckEnd(c, changed) ==
    LET a == c.app
        written == changed /\ a \in DOMAIN db
        switch == IF written /\ IsStream(db[a]) # IsStream(c.copy) THEN {a} ELSE {}
        ports(row) == <<IsStream(row), row.listen, row.backend>>
        back == IF written /\ IsStream(c.copy) /\ ports(c.copy) # ports(db[a]) THEN {a} ELSE {}
    IN /\ c.pc = "check"
       /\ db' = IF written THEN [db EXCEPT ![a] = [c.copy EXCEPT !.attack = db[a].attack]] ELSE db
       /\ checkers' = (checkers \ {c}) \cup {[c EXCEPT !.pc = "wait", !.copy = NoRow]}
       /\ disturbed' = disturbed \cup switch /\ mixed' = mixed \cup switch
       /\ restored' = restored \cup back
       /\ UNCHANGED <<snapshot, auto, admin, open, registered, conf, requests, refused, raced>>

CheckReturn(c) ==
    /\ c.pc = "wait" /\ ~c.live
    /\ checkers' = checkers \ {c}
    /\ UNCHANGED <<db, snapshot, auto, admin, open, registered, conf, requests, history>>

HealthCheck == \E c \in checkers : CheckBegin(c) \/ CheckReturn(c) \/ \E changed \in BOOLEAN : CheckEnd(c, changed)

Next ==
    \/ \E w \in Admins :
        \/ Continue(w)
        \/ \E a \in Apps :
            \/ \E kind \in {"create", "update"}, form \in Forms : SubmitApp(w, a, kind, form)
            \/ DeleteApp(w, a)
            \/ \E enabled \in BOOLEAN : ToggleUnderAttackMode(w, a, enabled)
    \/ autoReload \/ HealthCheck \/ Restart

\* Requests that have begun run on and the reload ticker fires.
Spec == Init /\ [][Next]_vars /\ WF_vars(autoReload) /\ \A w \in Admins : WF_vars(Continue(w))

-----------------------------------------------------------------------------
(* Properties *)

Quiet(a) == \A w \in Admins : admin[w].pc # "idle" => admin[w].app # a
Streams(a) == {s \in open : s.app = a}

\* An application that no request is working on, and that has been edited by one request
\* at a time and neither switched between HTTP and stream, by a request or by a checker,
\* nor mistaken by a delete since the start, is served as it is stored: a stream
\* application by one socket at its backend port, unless that could not be had, any other
\* by none, and only HTTP applications that exist are health-checked.
ServedAsStored ==
    \A a \in Apps : Quiet(a) /\ a \notin mixed =>
        /\ IF a \in DOMAIN db /\ IsStream(db[a])
           THEN \/ a \in refused /\ Streams(a) = {}
                \/ \E s \in registered : /\ Streams(a) = {s}
                                         /\ s.scheme = db[a].scheme /\ s.port = db[a].backend
           ELSE Streams(a) = {}
        /\ (\E c \in checkers : c.app = a /\ c.live) => a \in DOMAIN db /\ ~IsStream(db[a])

\* Two stream applications have a port in common only if requests of these two have looked
\* for ports at the same time, or if one of them is where a health checker put it, which
\* wrote back the ports it had looked up before, and no request has changed it since
\* (findAvailablePort, checkPortConflict, HealthCheckService.run).
ClashIsExplained ==
    \A a, b \in DOMAIN db :
        /\ a # b /\ IsStream(db[a]) /\ IsStream(db[b])
        /\ db[a].listen = db[b].listen \/ db[a].backend = db[b].backend
        => {a, b} \in raced \/ a \in restored \/ b \in restored

\* An nginx file stays behind, or is missing, only for an application that was switched (by
\* a request, or by a checker that wrote an old configuration back) or mistaken, edited
\* twice at once or cut off by a restart, or whose file could not be written or removed.
FilesFollowRows ==
    \A a \in Apps : Quiet(a) /\ a \notin disturbed =>
        (a \in DOMAIN conf <=> a \in DOMAIN db /\ IsStream(db[a]))

\* A reload that read the table early and stored its list late leaves requests with an old
\* application; once everybody rests, the snapshot is the table.
SnapshotCatchesUp ==
    <>[]((\A w \in Admins : admin[w].pc = "idle") /\ \A c \in checkers : c.pc = "wait")
        => <>[](snapshot = db)

-----------------------------------------------------------------------------
(* What the change log says of it and the code does not do.                  *)

\* CHANGELOG.md: "Backend rejects enabling Under Attack mode for TCP/UDP (stream)
\* applications".  A socket whose application has the mode refuses every connection.
StreamsNotUnderAttack == \A s \in open : ~s.attack
=============================================================================
