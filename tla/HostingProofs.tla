---------------------------- MODULE HostingProofs ----------------------------
(***************************************************************************)
(* Hosting for any number of applications, administrators, forms, ports    *)
(* and requests: an application that one request at a time has worked on   *)
(* is served as it is stored, its nginx file is there exactly while it is  *)
(* a stream application, and ports clash only where requests raced.        *)
(***************************************************************************)
EXTENDS Hosting, WellFoundedInduction, TLAPS

-----------------------------------------------------------------------------
(* Types *)

Lists == UNION {[D -> Rows] : D \in SUBSET Apps}
Steps == {"idle", "backend", "write", "list", "store", "stop", "conf", "bind", "register",
          "unconf", "health"}
Jobs == [pc : Steps, kind : {"none", "create", "update", "delete", "toggle"},
         app : Apps \cup {"none"}, row : Rows, list : Lists]
CheckerStates == [app : Apps, live : BOOLEAN, pc : {"wait", "check"}, copy : Rows]

\* What a request of some kind can be at: stream applications have sockets and files, the
\* others checkers, and a toggle ends with the snapshot.
Shaped(j) ==
    /\ j.pc # "idle" => j.app \in Apps /\ j.kind # "none"
    /\ j.pc = "backend" => IsStream(j.row) /\ j.kind \in {"create", "update"}
    /\ j.pc = "stop" => IsStream(j.row) /\ j.kind \in {"update", "delete"}
    /\ j.pc \in {"conf", "bind", "register"} => IsStream(j.row) /\ j.kind \in {"create", "update"}
    /\ j.pc = "unconf" => j.kind = "delete"
    /\ j.pc = "health" => ~IsStream(j.row) /\ j.kind # "toggle"

TypeOK ==
    /\ db \in Lists /\ snapshot \in Lists /\ auto.list \in Lists
    /\ admin \in [Admins -> Jobs] /\ \A w \in Admins : Shaped(admin[w])
    /\ checkers \subseteq CheckerStates
    /\ mixed \subseteq disturbed

\* A table is a function from some applications to rows.
LEMMA ListsAreTables ==
    /\ \A t \in Lists : DOMAIN t \subseteq Apps /\ t \in [DOMAIN t -> Rows]
    /\ \A D \in SUBSET Apps : [D -> Rows] \subseteq Lists
BY DEF Lists

\* What stands for nothing.
LEMMA NothingTyped ==
    NoRow \in Rows /\ ~IsStream(NoRow) /\ Empty \in Lists /\ Idle \in Jobs /\ Idle.pc = "idle" /\ Shaped(Idle)
<1>1. NoRow \in Rows /\ ~IsStream(NoRow)
  BY DEF NoRow, Rows, Schemes, IsStream
<1>2. Empty \in Lists
  BY ListsAreTables DEF Empty
<1>3. Idle \in Jobs /\ Idle.pc = "idle"
  BY <1>1, <1>2 DEF Idle, Jobs, Steps
<1> QED
  BY <1>1, <1>2, <1>3 DEF Shaped

\* Tables with a row put in, changed or taken out.
LEMMA TablesChanged ==
    ASSUME NEW t \in Lists, NEW a \in Apps, NEW row \in Rows
    PROVE  /\ With(t, a, row) \in Lists /\ Without(t, a) \in Lists
           /\ a \in DOMAIN t => [t EXCEPT ![a] = row] \in Lists
<1>1. DOMAIN t \subseteq Apps /\ t \in [DOMAIN t -> Rows]
  BY ListsAreTables
<1>2. With(t, a, row) \in [DOMAIN t \cup {a} -> Rows] /\ DOMAIN t \cup {a} \in SUBSET Apps
  BY <1>1 DEF With
<1>3. Without(t, a) \in [DOMAIN t \ {a} -> Rows] /\ DOMAIN t \ {a} \in SUBSET Apps
  BY <1>1 DEF Without
<1>4. a \in DOMAIN t => [t EXCEPT ![a] = row] \in [DOMAIN t -> Rows]
  BY <1>1
<1> QED
  BY <1>1, <1>2, <1>3, <1>4, ListsAreTables

\* A row whose flag, or one of whose ports, is replaced is a row of the same kind.
LEMMA RowsChanged ==
    ASSUME NEW row \in Rows
    PROVE  /\ \A x \in BOOLEAN : /\ [row EXCEPT !.attack = x] \in Rows
                                 /\ [row EXCEPT !.attack = x].scheme = row.scheme
                                 /\ [row EXCEPT !.attack = x].listen = row.listen
                                 /\ [row EXCEPT !.attack = x].backend = row.backend
           /\ \A p \in Ports : /\ [row EXCEPT !.listen = p] \in Rows /\ [row EXCEPT !.backend = p] \in Rows
                               /\ [row EXCEPT !.listen = p].scheme = row.scheme
                               /\ [row EXCEPT !.backend = p].scheme = row.scheme
                               /\ [row EXCEPT !.listen = p].listen = p
                               /\ [row EXCEPT !.backend = p].listen = row.listen
                               /\ [row EXCEPT !.backend = p].backend = p
           /\ row.attack \in BOOLEAN
BY DEF Rows

\* What a step of Continue does to its request, and only to it.
OnlyOf(w) == admin' \in [Admins -> Jobs] /\ \A v \in Admins : v # w => admin'[v] = admin[v]

\* A request goes to its next step, or ends.
LEMMA Goes ==
    ASSUME admin \in [Admins -> Jobs], NEW w \in Admins, NEW pc \in Steps, admin' = [admin EXCEPT ![w].pc = pc]
    PROVE  /\ OnlyOf(w) /\ admin'[w].pc = pc /\ admin'[w].kind = admin[w].kind
           /\ admin'[w].app = admin[w].app /\ admin'[w].row = admin[w].row
BY DEF OnlyOf, Jobs

\* A request is over.
LEMMA Ends ==
    ASSUME admin \in [Admins -> Jobs], NEW w \in Admins, admin' = [admin EXCEPT ![w] = Idle]
    PROVE  OnlyOf(w) /\ admin'[w] = Idle
BY NothingTyped DEF OnlyOf

\* AfterReload sends a request to what is left to do.
LEMMA Reloaded ==
    ASSUME TypeOK, NEW w \in Admins, admin[w].pc # "idle", admin' = [admin EXCEPT ![w] = AfterReload(@)]
    PROVE  /\ OnlyOf(w) /\ Shaped(admin'[w])
           /\ \/ admin[w].kind = "toggle" /\ admin'[w] = Idle
              \/ /\ admin[w].kind # "toggle" /\ admin'[w].kind = admin[w].kind
                 /\ admin'[w].app = admin[w].app /\ admin'[w].row = admin[w].row
                 /\ admin'[w].pc = IF ~IsStream(admin[w].row) THEN "health"
                                   ELSE IF admin[w].kind = "create" THEN "conf" ELSE "stop"
<1> DEFINE j == admin[w]
<1>1. j \in Jobs /\ Shaped(j) /\ admin \in [Admins -> Jobs] /\ Empty \in Lists
  BY NothingTyped DEF TypeOK
<1>2. admin'[w] = AfterReload(j) /\ \A v \in Admins : v # w => admin'[v] = admin[v]
  BY <1>1
<1>3. CASE j.kind = "toggle"
  <2>1. AfterReload(j) = Idle
    BY <1>3 DEF AfterReload
  <2> QED
    BY <1>1, <1>2, <1>3, <2>1, NothingTyped DEF OnlyOf
<1>4. CASE j.kind # "toggle"
  <2> DEFINE next == IF ~IsStream(j.row) THEN "health" ELSE IF j.kind = "create" THEN "conf" ELSE "stop"
             k == [j EXCEPT !.pc = next, !.list = Empty]
  <2>1. AfterReload(j) = k
    BY <1>4 DEF AfterReload
  <2>2. next \in Steps
    BY DEF Steps
  <2> HIDE DEF next
  <2>3. k \in Jobs /\ k.pc = next /\ k.kind = j.kind /\ k.app = j.app /\ k.row = j.row
    BY <1>1, <2>2 DEF Jobs
  <2> HIDE DEF k
  <2>4. OnlyOf(w)
    BY <1>1, <1>2, <2>1, <2>3 DEF OnlyOf
  <2>5. j.kind \in {"create", "update", "delete"} /\ j.app \in Apps
    BY <1>1, <1>4 DEF Jobs, Shaped
  <2>6. Shaped(k)
    BY <2>3, <2>5 DEF Shaped, next
  <2> QED
    BY <1>2, <1>4, <2>1, <2>3, <2>4, <2>6 DEF next
<1> QED
  BY <1>3, <1>4

-----------------------------------------------------------------------------
(* The invariants *)

Working(w, a) == admin[w].pc # "idle" /\ admin[w].app = a
Stream(a) == a \in DOMAIN db /\ IsStream(db[a])
\* The table has the stream application a request works for.
StoredAs(a, row) == Stream(a) /\ db[a].scheme = row.scheme /\ db[a].backend = row.backend
Served(a) ==
    IF Stream(a)
    THEN \/ a \in refused /\ Streams(a) = {}
         \/ \E s \in registered : /\ Streams(a) = {s}
                                  /\ s.scheme = db[a].scheme /\ s.port = db[a].backend
    ELSE Streams(a) = {}
Live(a) == \E c \in checkers : c.app = a /\ c.live

\* What the sockets of an application are while a request works on it: as stored until
\* the table is written, all known to the proxy until they are stopped, none from then to
\* the new one.
Serving(j, a) ==
    CASE j.pc \in {"backend", "write"} -> Served(a)
      [] j.pc \in {"list", "store"} ->
           CASE j.kind = "create" -> /\ Streams(a) = {}
                                     /\ IF IsStream(j.row) THEN StoredAs(a, j.row) ELSE ~Stream(a)
             [] j.kind = "update" -> IF IsStream(j.row)
                                     THEN StoredAs(a, j.row) /\ Streams(a) \subseteq registered
                                     ELSE ~Stream(a) /\ Streams(a) = {}
             [] j.kind = "delete" -> /\ ~Stream(a) /\ Streams(a) \subseteq registered
                                     /\ ~IsStream(j.row) => Streams(a) = {}
             [] OTHER -> Served(a)
      [] j.pc = "stop" -> /\ Streams(a) \subseteq registered
                          /\ IF j.kind = "update" THEN StoredAs(a, j.row) ELSE ~Stream(a)
      [] j.pc \in {"conf", "bind"} -> Streams(a) = {} /\ StoredAs(a, j.row)
      [] j.pc = "register" -> Streams(a) = {Socket(a, j.row)} /\ StoredAs(a, j.row)
      [] OTHER -> Streams(a) = {} /\ ~Stream(a)

\* What is created or updated is there.
Present(j, a) == j.kind \in {"create", "update"} /\ j.pc \in {"list", "store", "health"} => a \in DOMAIN db

\* A deletion is on its way to the checkers of an application whose row is gone.
Unchecking(j) == j.kind = "delete" /\ j.pc \in {"list", "store", "health"} /\ ~IsStream(j.row)

\* One application: one request at a time works on it, it is served as far as that request
\* has come, and checkers belong to what is no stream.
AppInv(a) ==
    /\ \A v, w \in Admins : Working(v, a) /\ Working(w, a) => v = w
    /\ \A c \in checkers : c.app = a => ~Stream(a)
    /\ Live(a) => a \in DOMAIN db \/ \E w \in Admins : Working(w, a) /\ Unchecking(admin[w])
    /\ (\A w \in Admins : ~Working(w, a)) => Served(a)
    /\ \A w \in Admins : Working(w, a) => Serving(admin[w], a) /\ Present(admin[w], a)

\* Its file in stream.d, likewise.
Filed(j, a) ==
    LET file == a \in DOMAIN conf IN
    CASE j.pc \in {"backend", "write"} -> file <=> Stream(a)
      [] j.pc \in {"list", "store"} /\ j.kind = "create" -> ~file
      [] j.pc \in {"list", "store"} /\ j.kind = "delete" -> file <=> IsStream(j.row)
      [] j.pc \in {"list", "store"} /\ j.kind \in {"update", "toggle"} -> file <=> Stream(a)
      [] j.pc = "stop" -> file
      [] j.pc = "conf" -> file <=> j.kind = "update"
      [] j.pc \in {"bind", "register", "unconf"} -> file
      [] OTHER -> ~file
FileInv(a) ==
    /\ (\A w \in Admins : ~Working(w, a)) => (a \in DOMAIN conf <=> Stream(a))
    /\ \A w \in Admins : Working(w, a) => Filed(admin[w], a)

\* A request that has chosen ports has some that no other application had, unless a request
\* of that one was choosing too or a checker has brought its ports back since.
Excused(a, b) == {a, b} \in raced \/ a \in restored \/ b \in restored
Overtaking(a, b) == {a, b} \in raced \/ b \in restored
Chosen(j) ==
    \A b \in DOMAIN db \ {j.app} : IsStream(db[b]) =>
        /\ db[b].listen = j.row.listen => Overtaking(j.app, b)
        /\ j.pc = "write" /\ db[b].backend = j.row.backend => Overtaking(j.app, b)
Chooses(j) == j.pc \in {"backend", "write"} /\ j.kind \in {"create", "update"} /\ IsStream(j.row)
PortsInv ==
    /\ ClashIsExplained
    /\ \A w \in Admins : Chooses(admin[w]) => Chosen(admin[w])

Inv ==
    /\ TypeOK
    /\ \A a \in Apps : a \notin mixed => AppInv(a)
    /\ \A a \in Apps : a \notin disturbed => FileInv(a)
    /\ PortsInv

-----------------------------------------------------------------------------
(* Every step keeps the types *)

\* A step of one request, if what it changes has its type.
LEMMA TypesOfStep ==
    ASSUME TypeOK, NEW w \in Admins, OnlyOf(w), Shaped(admin'[w]),
           db' \in Lists, snapshot' \in Lists, auto' = auto, checkers' \subseteq CheckerStates,
           mixed' \subseteq disturbed'
    PROVE  TypeOK'
<1>1. \A v \in Admins : Shaped(admin'[v])
  BY DEF TypeOK, OnlyOf
<1>2. \A v \in Admins : Shaped(admin[v])'
  BY <1>1 DEF Shaped
<1> QED
  BY <1>2 DEF TypeOK, OnlyOf

\* Cancelling contexts keeps the checkers checkers, and so does starting one.
LEMMA CheckersTyped ==
    /\ \A a \in Apps : Checker(a) \in CheckerStates /\ Checker(a).app = a /\ Checker(a).live
    /\ \A c \in CheckerStates : /\ [c EXCEPT !.live = FALSE] \in CheckerStates
                                /\ [c EXCEPT !.live = FALSE].app = c.app
                                /\ [c EXCEPT !.live = FALSE].live = FALSE
<1>1. NoRow \in Rows
  BY NothingTyped
<1> QED
  BY <1>1 DEF Checker, CheckerStates

\* The checkers of an application are those of the program with their contexts cancelled.
LEMMA Cancelled ==
    ASSUME checkers \subseteq CheckerStates, NEW a \in Apps
    PROVE  /\ Cancel(a) \subseteq CheckerStates
           /\ \A c \in Cancel(a) : IF c.app = a THEN ~c.live ELSE c \in checkers
           /\ \A c \in Cancel(a) : \E d \in checkers : d.app = c.app
           /\ \A c \in checkers : c.app # a => c \in Cancel(a)
<1> SUFFICES ASSUME TRUE
             PROVE  /\ \A c \in Cancel(a) : /\ c \in CheckerStates
                                            /\ IF c.app = a THEN ~c.live ELSE c \in checkers
                                            /\ \E d \in checkers : d.app = c.app
                    /\ \A c \in checkers : c.app # a => c \in Cancel(a)
  OBVIOUS
<1>1. ASSUME NEW c \in Cancel(a)
      PROVE  /\ c \in CheckerStates
             /\ IF c.app = a THEN ~c.live ELSE c \in checkers
             /\ \E d \in checkers : d.app = c.app
  <2>1. PICK d \in checkers : c = IF d.app = a THEN [d EXCEPT !.live = FALSE] ELSE d
    BY DEF Cancel
  <2>2. d \in CheckerStates
    OBVIOUS
  <2>3. CASE d.app = a
    BY <2>1, <2>2, <2>3, CheckersTyped, Zenon
  <2>4. CASE d.app # a
    BY <2>1, <2>2, <2>4
  <2> QED
    BY <2>3, <2>4
<1>2. ASSUME NEW c \in checkers, c.app # a PROVE c \in Cancel(a)
  BY <1>2 DEF Cancel
<1> QED
  BY <1>1, <1>2

\* A request starts.
LEMMA Begun ==
    ASSUME TypeOK, NEW w \in Admins, NEW a \in Apps, NEW pc \in {"backend", "write"},
           NEW kind \in {"create", "update", "delete", "toggle"}, NEW row \in Rows,
           pc = "backend" => IsStream(row) /\ kind \in {"create", "update"},
           Begin(w, a, Job(pc, kind, a, row))
    PROVE  /\ TypeOK' /\ admin[w].pc = "idle" /\ OnlyOf(w)
           /\ admin'[w].pc = pc /\ admin'[w].kind = kind /\ admin'[w].app = a /\ admin'[w].row = row
           /\ UNCHANGED <<db, snapshot, auto, open, registered, conf, checkers, refused, raced, restored>>
           /\ disturbed \subseteq disturbed' /\ mixed \subseteq mixed'
           /\ \A v \in Admins : v # w /\ Working(v, a) => a \in mixed' /\ a \in disturbed'
<1> DEFINE j == Job(pc, kind, a, row)
<1>1. j.pc = pc /\ j.kind = kind /\ j.app = a /\ j.row = row
  BY DEF Job
<1>2. j \in Jobs
  BY NothingTyped DEF Job, Jobs, Steps
<1>3. Shaped(j)
  BY <1>1 DEF Shaped
<1> HIDE DEF j
<1>4. admin' = [admin EXCEPT ![w] = j] /\ admin \in [Admins -> Jobs]
  BY DEF Begin, TypeOK, j
<1>5. OnlyOf(w) /\ admin'[w] = j
  BY <1>2, <1>4 DEF OnlyOf
<1> DEFINE both == {a : v \in {u \in Admins \ {w} : admin[u].pc # "idle" /\ admin[u].app = a}}
<1>6. disturbed' = disturbed \cup both /\ mixed' = mixed \cup both
  BY DEF Begin
<1>7. \A v \in Admins : v # w /\ Working(v, a) => a \in both
  BY DEF Working
<1> HIDE DEF both
<1>8. TypeOK'
  <2>1. mixed' \subseteq disturbed'
    BY <1>6 DEF TypeOK
  <2>2. db' \in Lists /\ snapshot' \in Lists /\ auto' = auto /\ checkers' \subseteq CheckerStates
    BY DEF Begin, TypeOK
  <2> QED
    BY <1>3, <1>5, <2>1, <2>2, TypesOfStep
<1> QED
  BY <1>1, <1>5, <1>6, <1>7, <1>8 DEF Begin

\* CreateApp and UpdateApp begin with a listen port for a stream application.
ChosePort(w, a, kind, form) ==
    \E p \in Ports : /\ resolve(form.listen, Taken(a, "listen"), p)
                     /\ IsStream([form EXCEPT !.listen = p])
                     /\ [form EXCEPT !.listen = p] \in Rows
                     /\ Begin(w, a, Job("backend", kind, a, [form EXCEPT !.listen = p]))
WentToTable(w, a, kind, form) == ~IsStream(form) /\ form \in Rows /\ Begin(w, a, Job("write", kind, a, form))

\* What CreateApp and UpdateApp begin with.
LEMMA Submitted ==
    ASSUME TypeOK, NEW w \in Admins, NEW a \in Apps
    PROVE  \A kind \in {"create", "update"}, form \in Forms :
             SubmitApp(w, a, kind, form) => ChosePort(w, a, kind, form) \/ WentToTable(w, a, kind, form)
<1> SUFFICES ASSUME NEW kind \in {"create", "update"}, NEW form \in Forms, SubmitApp(w, a, kind, form)
             PROVE  ChosePort(w, a, kind, form) \/ WentToTable(w, a, kind, form)
  OBVIOUS
<1>1. form \in Rows
  BY HostingAssumption
<1>2. CASE IsStream(form)
  <2>1. PICK p \in Ports : /\ resolve(form.listen, Taken(a, "listen"), p)
                           /\ Begin(w, a, Job("backend", kind, a, [form EXCEPT !.listen = p]))
    BY <1>2 DEF SubmitApp
  <2> DEFINE row == [form EXCEPT !.listen = p]
  <2>2. row \in Rows /\ row.scheme = form.scheme
    BY <1>1, RowsChanged
  <2> HIDE DEF row
  <2>3. IsStream(row)
    BY <1>2, <2>2 DEF IsStream
  <2> QED
    BY <2>1, <2>2, <2>3 DEF row, ChosePort
<1>3. CASE ~IsStream(form)
  BY <1>1, <1>3 DEF SubmitApp, WentToTable
<1> QED
  BY <1>2, <1>3

\* The row an application has is a row.
LEMMA RowsTyped ==
    ASSUME TypeOK
    PROVE  /\ \A a \in DOMAIN db : db[a] \in Rows
           /\ \A a \in Apps : Known(a) => GetApp(a) \in Rows
<1>1. db \in [DOMAIN db -> Rows] /\ snapshot \in [DOMAIN snapshot -> Rows]
  BY ListsAreTables DEF TypeOK
<1> QED
  BY <1>1 DEF Known, GetApp

\* A request of a kind other than these two starts at the table.
Started(w, a) ==
    \E pc \in {"backend", "write"}, kind \in {"create", "update", "delete", "toggle"}, row \in Rows :
        /\ pc = "backend" => IsStream(row) /\ kind \in {"create", "update"}
        /\ pc = "write" /\ kind \in {"create", "update"} => ~IsStream(row)
        /\ pc = "backend" => \E asked \in {0} \cup Ports : resolve(asked, Taken(a, "listen"), row.listen)
        /\ Begin(w, a, Job(pc, kind, a, row))

\* Every request of an administrator starts this way.
LEMMA StartsAre ==
    ASSUME TypeOK, NEW w \in Admins, NEW a \in Apps,
           \/ \E kind \in {"create", "update"}, form \in Forms : SubmitApp(w, a, kind, form)
           \/ DeleteApp(w, a)
           \/ \E enabled \in BOOLEAN : ToggleUnderAttackMode(w, a, enabled)
    PROVE  Started(w, a)
<1>1. ASSUME NEW kind \in {"create", "update"}, NEW form \in Forms, SubmitApp(w, a, kind, form)
      PROVE  Started(w, a)
  <2>1. form \in Rows /\ form.listen \in {0} \cup Ports
    BY HostingAssumption DEF Rows
  <2>2. CASE ChosePort(w, a, kind, form)
    <3>1. PICK p \in Ports : /\ resolve(form.listen, Taken(a, "listen"), p)
                             /\ IsStream([form EXCEPT !.listen = p])
                             /\ [form EXCEPT !.listen = p] \in Rows
                             /\ Begin(w, a, Job("backend", kind, a, [form EXCEPT !.listen = p]))
      BY <2>2 DEF ChosePort
    <3> DEFINE row == [form EXCEPT !.listen = p]
    <3>2. row.listen = p
      BY <2>1, RowsChanged
    <3>3. row \in Rows /\ IsStream(row) /\ Begin(w, a, Job("backend", kind, a, row))
      BY <3>1
    <3> HIDE DEF row
    <3>4. resolve(form.listen, Taken(a, "listen"), row.listen)
      BY <3>1, <3>2
    <3> QED
      BY <2>1, <3>3, <3>4 DEF Started
  <2>3. CASE WentToTable(w, a, kind, form)
    <3> form \in Rows /\ "write" # "backend"
      BY <2>3 DEF WentToTable
    <3> SUFFICES \E pc \in {"backend", "write"}, k \in {"create", "update", "delete", "toggle"}, row \in Rows :
                   /\ pc = "backend" => IsStream(row) /\ k \in {"create", "update"}
                   /\ pc = "write" /\ k \in {"create", "update"} => ~IsStream(row)
                   /\ pc = "backend" => \E asked \in {0} \cup Ports : resolve(asked, Taken(a, "listen"), row.listen)
                   /\ Begin(w, a, Job(pc, k, a, row))
      BY DEF Started
    <3> WITNESS "write" \in {"backend", "write"}, kind \in {"create", "update", "delete", "toggle"}, form \in Rows
    <3> QED
      BY <2>3, Zenon DEF WentToTable
  <2> QED
    BY <1>1, <2>2, <2>3, Submitted
<1>2. ASSUME DeleteApp(w, a) PROVE Started(w, a)
  <2>1. PICK existing \in {NoRow} \cup {db[b] : b \in DOMAIN db \cap {a}} :
               Begin(w, a, Job("write", "delete", a, existing))
    BY <1>2 DEF DeleteApp
  <2>2. existing \in Rows
    BY NothingTyped, RowsTyped
  <2> QED
    BY <2>1, <2>2 DEF Started
<1>3. ASSUME NEW enabled \in BOOLEAN, ToggleUnderAttackMode(w, a, enabled) PROVE Started(w, a)
  <2> DEFINE row == [NoRow EXCEPT !.attack = enabled]
  <2>1. row \in Rows
    BY NothingTyped, RowsChanged
  <2>2. Begin(w, a, Job("write", "toggle", a, row))
    BY <1>3 DEF ToggleUnderAttackMode
  <2> HIDE DEF row
  <2> QED
    BY <2>1, <2>2 DEF Started
<1> QED
  BY <1>1, <1>2, <1>3

\* The table a statement leaves is a table.
LEMMA WrittenIsTable ==
    ASSUME TypeOK, NEW w \in Admins, admin[w].pc = "write", Accepted(admin[w])
    PROVE  Written(admin[w]) \in Lists
<1> DEFINE j == admin[w]
<1>1. j \in Jobs /\ Shaped(j) /\ db \in Lists /\ j.app \in Apps /\ j.row \in Rows
      /\ j.kind \in {"create", "update", "delete", "toggle"}
  BY DEF TypeOK, Shaped, Jobs
<1> HIDE DEF j
<1>2. CASE j.kind = "create"
  BY <1>1, <1>2, TablesChanged DEF Written, j
<1>3. CASE j.kind = "update"
  <2>1. j.app \in DOMAIN db
    BY <1>3 DEF Accepted, j
  <2>2. db[j.app] \in Rows
    BY <2>1, RowsTyped
  <2> DEFINE row == [j.row EXCEPT !.attack = db[j.app].attack]
  <2>3. row \in Rows
    BY <1>1, <2>2, RowsChanged
  <2>4. Written(j) = [db EXCEPT ![j.app] = row]
    BY <1>3 DEF Written
  <2> HIDE DEF row
  <2> QED
    BY <1>1, <2>1, <2>3, <2>4, TablesChanged DEF j
<1>4. CASE j.kind = "delete"
  BY <1>1, <1>4, TablesChanged, NothingTyped DEF Written, j
<1>5. CASE j.kind = "toggle"
  <2>1. CASE j.app \in DOMAIN db
    <3>1. db[j.app] \in Rows
      BY <2>1, RowsTyped
    <3> DEFINE row == [db[j.app] EXCEPT !.attack = j.row.attack]
    <3>2. row \in Rows
      BY <1>1, <3>1, RowsChanged
    <3>3. Written(j) = [db EXCEPT ![j.app] = row]
      BY <1>5, <2>1 DEF Written
    <3> HIDE DEF row
    <3> QED
      BY <1>1, <2>1, <3>2, <3>3, TablesChanged DEF j
  <2>2. CASE j.app \notin DOMAIN db
    BY <1>1, <1>5, <2>2 DEF Written, j
  <2> QED
    BY <2>1, <2>2
<1> QED
  BY <1>1, <1>2, <1>3, <1>4, <1>5

-----------------------------------------------------------------------------
(* Applications a step does not work on *)

\* What the table, the proxy, nginx and the health checks have of an application.
SameRow(a) ==
    /\ a \in DOMAIN db' <=> a \in DOMAIN db
    /\ Stream(a)' <=> Stream(a)
    /\ Stream(a) => db'[a].scheme = db[a].scheme /\ db'[a].backend = db[a].backend
SameSockets(a) ==
    /\ Streams(a)' = Streams(a)
    /\ \A s \in Streams(a) : s \in registered' <=> s \in registered
    /\ a \in refused' <=> a \in refused
NoNewCheckers(a) == \A c \in checkers' : c.app = a => \E d \in checkers : d.app = a /\ (c.live => d.live)
SameFile(a) == a \in DOMAIN conf' <=> a \in DOMAIN conf
Same(a) == SameRow(a) /\ SameSockets(a) /\ NoNewCheckers(a) /\ SameFile(a)
SameJobs(a) == \A v \in Admins : /\ Working(v, a)' <=> Working(v, a)
                                 /\ Working(v, a) => admin'[v] = admin[v]

\* It is served as it was.
LEMMA ServedSame ==
    ASSUME NEW a \in Apps, SameRow(a), SameSockets(a)
    PROVE  /\ Served(a)' <=> Served(a)
           /\ (Streams(a) \subseteq registered)' <=> Streams(a) \subseteq registered
<1>1. (Streams(a) \subseteq registered)' <=> Streams(a) \subseteq registered
  BY DEF SameSockets
<1>2. \A x : Streams(a) = {x} => (x \in registered' <=> x \in registered)
  BY DEF SameSockets
<1>3. Streams(a)' = Streams(a) /\ (a \in refused' <=> a \in refused) /\ (Stream(a)' <=> Stream(a))
  BY DEF SameSockets, SameRow
<1>4. CASE Stream(a)
  <2>1. db'[a].scheme = db[a].scheme /\ db'[a].backend = db[a].backend
    BY <1>4 DEF SameRow
  <2>2. ASSUME NEW s, Streams(a) = {s}
        PROVE  /\ s \in registered' <=> s \in registered
               /\ s.scheme = db'[a].scheme /\ s.port = db'[a].backend <=> s.scheme = db[a].scheme /\ s.port = db[a].backend
    BY <1>2, <2>1, <2>2
  <2>3. (\E s \in registered' : Streams(a)' = {s} /\ s.scheme = db'[a].scheme /\ s.port = db'[a].backend)
          <=> (\E s \in registered : Streams(a) = {s} /\ s.scheme = db[a].scheme /\ s.port = db[a].backend)
    BY <1>3, <2>2
  <2> QED
    BY <1>1, <1>3, <1>4, <2>3 DEF Served
<1>5. CASE ~Stream(a)
  BY <1>1, <1>3, <1>5 DEF Served
<1> QED
  BY <1>1, <1>4, <1>5

\* And as far as a request that does not move has come.
LEMMA ServingSame ==
    ASSUME NEW a \in Apps, SameRow(a), SameSockets(a), NEW v \in Admins, admin'[v] = admin[v]
    PROVE  /\ Serving(admin[v], a)' <=> Serving(admin[v], a)
           /\ Present(admin[v], a)' <=> Present(admin[v], a)
           /\ Unchecking(admin[v])' <=> Unchecking(admin[v])
<1>1. /\ Served(a)' <=> Served(a)
      /\ (Streams(a) \subseteq registered)' <=> Streams(a) \subseteq registered
      /\ Streams(a)' = Streams(a) /\ (Stream(a)' <=> Stream(a))
  BY ServedSame DEF SameRow, SameSockets
<1>2. StoredAs(a, admin[v].row)' <=> StoredAs(a, admin[v].row)
  BY DEF StoredAs, SameRow
<1>3. Socket(a, admin[v].row)' = Socket(a, admin[v].row)
  BY DEF Socket
<1> QED
  BY <1>1, <1>2, <1>3 DEF Serving, Present, Unchecking, IsStream, SameRow

\* A step that has nothing to do with an application keeps what is true of it.
LEMMA Undisturbed ==
    ASSUME TypeOK, NEW a \in Apps, Same(a), SameJobs(a)
    PROVE  /\ AppInv(a) => AppInv(a)'
           /\ FileInv(a) => FileInv(a)'
<1>1. SameRow(a) /\ SameSockets(a) /\ NoNewCheckers(a) /\ SameFile(a)
  BY DEF Same
<1>2. /\ Served(a)' <=> Served(a)
      /\ Stream(a)' <=> Stream(a)
      /\ a \in DOMAIN db' <=> a \in DOMAIN db
  BY <1>1, ServedSame DEF SameRow
<1>3. \A v \in Admins : /\ Working(v, a)' <=> Working(v, a)
                        /\ Working(v, a) => admin'[v] = admin[v]
  BY DEF SameJobs
<1>4. ASSUME NEW v \in Admins, Working(v, a)
      PROVE  /\ Serving(admin[v], a)' <=> Serving(admin[v], a)
             /\ Present(admin[v], a)' <=> Present(admin[v], a)
             /\ Unchecking(admin[v])' <=> Unchecking(admin[v])
             /\ Filed(admin[v], a)' <=> Filed(admin[v], a)
  <2>1. admin'[v] = admin[v]
    BY <1>3, <1>4
  <2>2. Filed(admin[v], a)' <=> Filed(admin[v], a)
    BY <1>1, <1>2, <2>1 DEF Filed, SameFile, IsStream
  <2> QED
    BY <1>1, <2>1, <2>2, ServingSame
<1>5. ASSUME AppInv(a) PROVE AppInv(a)'
  <2>1. Live(a)' => Live(a)
    BY <1>1 DEF Live, NoNewCheckers
  <2>2. (\A c \in checkers : c.app = a => ~Stream(a))'
    BY <1>1, <1>2, <1>5 DEF AppInv, NoNewCheckers
  <2>3. (Live(a) => a \in DOMAIN db \/ \E w \in Admins : Working(w, a) /\ Unchecking(admin[w]))'
    BY <1>2, <1>3, <1>4, <1>5, <2>1 DEF AppInv
  <2>4. ((\A w \in Admins : ~Working(w, a)) => Served(a))'
    BY <1>2, <1>3, <1>5 DEF AppInv
  <2>5. (\A w \in Admins : Working(w, a) => Serving(admin[w], a) /\ Present(admin[w], a))'
    BY <1>3, <1>4, <1>5 DEF AppInv
  <2>6. (\A v, w \in Admins : Working(v, a) /\ Working(w, a) => v = w)'
    BY <1>3, <1>5 DEF AppInv
  <2> QED
    BY <2>2, <2>3, <2>4, <2>5, <2>6 DEF AppInv
<1>6. ASSUME FileInv(a) PROVE FileInv(a)'
  BY <1>1, <1>2, <1>3, <1>4, <1>6 DEF FileInv, SameFile
<1> QED
  BY <1>5, <1>6

\* The one request that works on an application takes a step, or ends.
SoleServes(w, a) ==
    /\ admin'[w].pc = "idle" \/ admin'[w].app = a
    /\ admin'[w].pc = "idle" => Served(a)'
    /\ admin'[w].pc # "idle" => Serving(admin[w], a)' /\ Present(admin[w], a)'
    /\ \A c \in checkers' : c.app = a => ~Stream(a)'
    /\ Live(a)' => a \in DOMAIN db' \/ (admin'[w].pc # "idle" /\ Unchecking(admin[w])')
SoleFiles(w, a) ==
    IF admin'[w].pc = "idle" THEN a \in DOMAIN conf' <=> Stream(a)' ELSE Filed(admin[w], a)'

\* It keeps what is true of that application.
LEMMA SoleStep ==
    ASSUME TypeOK, NEW w \in Admins, NEW a \in Apps, OnlyOf(w), AppInv(a),
           admin'[w].pc = "idle" \/ admin'[w].app = a,
           \/ Working(w, a)
           \/ \A v \in Admins : ~Working(v, a)
    PROVE  /\ SoleServes(w, a) => AppInv(a)'
           /\ SoleFiles(w, a) => FileInv(a)'
<1>1. \A v \in Admins : v # w => ~Working(v, a)
  BY DEF AppInv
<1>2. \A v \in Admins : v # w => ~Working(v, a)'
  BY <1>1 DEF OnlyOf, Working
<1>3. Working(w, a)' <=> admin'[w].pc # "idle"
  BY DEF Working
<1>4. ASSUME SoleServes(w, a) PROVE AppInv(a)'
  <2>1. (Live(a) => a \in DOMAIN db \/ \E v \in Admins : Working(v, a) /\ Unchecking(admin[v]))'
    BY <1>3, <1>4 DEF SoleServes
  <2>2. ((\A v \in Admins : ~Working(v, a)) => Served(a))'
    BY <1>3, <1>4 DEF SoleServes
  <2>3. (\A v \in Admins : Working(v, a) => Serving(admin[v], a) /\ Present(admin[v], a))'
    BY <1>2, <1>3, <1>4 DEF SoleServes
  <2>4. (\A v, u \in Admins : Working(v, a) /\ Working(u, a) => v = u)'
    BY <1>2
  <2>5. (\A c \in checkers : c.app = a => ~Stream(a))'
    BY <1>4 DEF SoleServes
  <2> QED
    BY <2>1, <2>2, <2>3, <2>4, <2>5 DEF AppInv
<1>5. ASSUME SoleFiles(w, a) PROVE FileInv(a)'
  <2>1. ((\A v \in Admins : ~Working(v, a)) => (a \in DOMAIN conf <=> Stream(a)))'
    BY <1>3, <1>5 DEF SoleFiles
  <2>2. (\A v \in Admins : Working(v, a) => Filed(admin[v], a))'
    BY <1>2, <1>3, <1>5 DEF SoleFiles
  <2> QED
    BY <2>1, <2>2 DEF FileInv
<1> QED
  BY <1>4, <1>5

-----------------------------------------------------------------------------
(* Steps of one request, and of none *)

\* Nobody gets a port that way, but for what a checker brings back.
SamePorts ==
    \A b \in DOMAIN db' : IsStream(db'[b]) =>
        \/ b \in restored'
        \/ /\ b \in DOMAIN db /\ IsStream(db[b])
           /\ db'[b].listen = db[b].listen /\ db'[b].backend = db[b].backend

\* Then ports clash as they did.
LEMMA PortsKept ==
    ASSUME PortsInv, SamePorts, raced \subseteq raced',
           \A b \in restored : b \in restored' \/ b \notin DOMAIN db' \/ ~IsStream(db'[b]),
           \A w \in Admins : Chooses(admin'[w]) => admin'[w] = admin[w]
    PROVE  PortsInv'
<1>1. ClashIsExplained'
  <2> SUFFICES ASSUME NEW b \in DOMAIN db', NEW c \in DOMAIN db', b # c, IsStream(db'[b]), IsStream(db'[c]),
                      db'[b].listen = db'[c].listen \/ db'[b].backend = db'[c].backend,
                      b \notin restored', c \notin restored'
               PROVE  {b, c} \in raced'
    BY DEF ClashIsExplained, IsStream
  <2>1. b \in DOMAIN db /\ IsStream(db[b]) /\ c \in DOMAIN db /\ IsStream(db[c])
        /\ (db[b].listen = db[c].listen \/ db[b].backend = db[c].backend)
    BY DEF SamePorts
  <2>2. {b, c} \in raced \/ b \in restored \/ c \in restored
    BY <2>1 DEF PortsInv, ClashIsExplained
  <2> QED
    BY <2>2
<1>2. ASSUME NEW w \in Admins, Chooses(admin'[w])
      PROVE  Chosen(admin[w])'
  <2>1. admin'[w] = admin[w] /\ Chosen(admin[w])
    BY <1>2 DEF PortsInv
  <2>2. ASSUME NEW b \in DOMAIN db' \ {admin[w].app}, IsStream(db'[b]), b \notin restored'
        PROVE  /\ b \in DOMAIN db \ {admin[w].app} /\ IsStream(db[b])
               /\ db'[b].listen = db[b].listen /\ db'[b].backend = db[b].backend
    BY <2>2 DEF SamePorts
  <2>3. ASSUME NEW b \in DOMAIN db' \ {admin[w].app}, IsStream(db'[b]), Overtaking(admin[w].app, b)
        PROVE  {admin[w].app, b} \in raced' \/ b \in restored'
    BY <2>3 DEF Overtaking
  <2>4. ASSUME NEW b \in DOMAIN db' \ {admin[w].app}, IsStream(db'[b])
        PROVE  /\ db'[b].listen = admin[w].row.listen =>
                    {admin[w].app, b} \in raced' \/ b \in restored'
               /\ admin[w].pc = "write" /\ db'[b].backend = admin[w].row.backend =>
                    {admin[w].app, b} \in raced' \/ b \in restored'
    BY <2>1, <2>2, <2>3, <2>4 DEF Chosen
  <2> QED
    BY <2>1, <2>4 DEF Chosen, Overtaking, IsStream
<1>3. (\A w \in Admins : Chooses(admin[w]) => Chosen(admin[w]))'
  BY <1>2 DEF Chooses, IsStream
<1> QED
  BY <1>1, <1>3 DEF PortsInv

\* A step of a request keeps the invariants of the applications it does not work on.
LEMMA SoleKeeps ==
    ASSUME Inv, NEW w \in Admins, OnlyOf(w), TypeOK', NEW a \in Apps, Working(w, a),
           admin'[w].pc = "idle" \/ admin'[w].app = a,
           disturbed \subseteq disturbed', mixed \subseteq mixed',
           \A b \in Apps \ {a} : Same(b),
           a \notin mixed' => SoleServes(w, a),
           a \notin disturbed' => SoleFiles(w, a),
           PortsInv'
    PROVE  Inv'
<1>1. TypeOK /\ mixed \subseteq disturbed /\ mixed' \subseteq disturbed'
  BY DEF Inv, TypeOK
<1>2. ASSUME NEW b \in Apps \ {a} PROVE SameJobs(b)
  BY DEF OnlyOf, SameJobs, Working
<1>3. ASSUME NEW b \in Apps \ {a}
      PROVE  /\ b \notin mixed' => AppInv(b)'
             /\ b \notin disturbed' => FileInv(b)'
  BY <1>1, <1>2, Undisturbed DEF Inv
<1>4. a \notin mixed' => AppInv(a)'
  BY <1>1, SoleStep DEF Inv
<1>5. a \notin disturbed' => FileInv(a)'
  BY <1>1, SoleStep DEF Inv
<1>6. (\A b \in Apps : b \notin mixed => AppInv(b))'
  BY <1>3, <1>4
<1>7. (\A b \in Apps : b \notin disturbed => FileInv(b))'
  BY <1>3, <1>5
<1> QED
  BY <1>6, <1>7 DEF Inv

\* So does a step of none.
LEMMA NoneKeeps ==
    ASSUME Inv, TypeOK', admin' = admin, disturbed \subseteq disturbed', mixed \subseteq mixed',
           \A b \in Apps : b \notin mixed' => Same(b),
           PortsInv'
    PROVE  Inv'
<1>1. TypeOK /\ mixed \subseteq disturbed /\ mixed' \subseteq disturbed'
  BY DEF Inv, TypeOK
<1>2. ASSUME NEW b \in Apps PROVE SameJobs(b)
  BY DEF SameJobs, Working
<1>3. ASSUME NEW b \in Apps
      PROVE  /\ b \notin mixed' => AppInv(b)'
             /\ b \notin disturbed' => FileInv(b)'
  BY <1>1, <1>2, Undisturbed DEF Inv
<1>6. (\A b \in Apps : b \notin mixed => AppInv(b))'
  BY <1>3
<1>7. (\A b \in Apps : b \notin disturbed => FileInv(b))'
  BY <1>3
<1> QED
  BY <1>6, <1>7 DEF Inv

-----------------------------------------------------------------------------
(* Each step of a request *)

\* What is known of a request that is under way.
LEMMA SoleHas ==
    ASSUME Inv, NEW w \in Admins, admin[w].pc # "idle"
    PROVE  /\ admin[w] \in Jobs /\ Shaped(admin[w]) /\ admin[w].app \in Apps /\ admin[w].row \in Rows
           /\ Working(w, admin[w].app)
           /\ admin[w].app \notin mixed =>
                /\ Serving(admin[w], admin[w].app) /\ Present(admin[w], admin[w].app)
                /\ \A c \in checkers : c.app = admin[w].app => ~Stream(admin[w].app)
                /\ Live(admin[w].app) => admin[w].app \in DOMAIN db \/ Unchecking(admin[w])
           /\ admin[w].app \notin disturbed => Filed(admin[w], admin[w].app)
           /\ mixed \subseteq disturbed
<1> DEFINE a == admin[w].app
<1>1. admin[w] \in Jobs /\ Shaped(admin[w]) /\ a \in Apps /\ admin[w].row \in Rows
  BY DEF Inv, TypeOK, Shaped, Jobs
<1>2. Working(w, a)
  BY DEF Working
<1> HIDE DEF a
<1>3. ASSUME a \notin mixed
      PROVE  /\ Serving(admin[w], a) /\ Present(admin[w], a)
             /\ \A c \in checkers : c.app = a => ~Stream(a)
             /\ Live(a) => a \in DOMAIN db \/ Unchecking(admin[w])
  <2>1. AppInv(a)
    BY <1>1, <1>3 DEF Inv
  <2>2. \A v \in Admins : Working(v, a) => v = w
    BY <1>2, <2>1 DEF AppInv
  <2> QED
    BY <1>2, <2>1, <2>2 DEF AppInv
<1>4. a \notin disturbed => Filed(admin[w], a)
  BY <1>1, <1>2 DEF Inv, FileInv
<1> QED
  BY <1>1, <1>2, <1>3, <1>4 DEF a, Inv, TypeOK

\* What stays the same of an application.
LEMMA SameWhere ==
    ASSUME NEW b
    PROVE  /\ db' = db => SameRow(b)
           /\ open' = open /\ registered' = registered /\ refused' = refused => SameSockets(b)
           /\ checkers' \subseteq checkers => NoNewCheckers(b)
           /\ conf' = conf => SameFile(b)
BY DEF SameRow, SameSockets, NoNewCheckers, SameFile, Stream, Streams, IsStream

\* A step that only moves the request, to k.
Moves(w, a, k) ==
    /\ Working(w, a) /\ OnlyOf(w) /\ k = admin'[w] /\ Shaped(k)
    /\ k.pc = "idle" \/ k.app = a
    /\ UNCHANGED <<db, open, registered, conf, checkers, history>>
    /\ snapshot' \in Lists /\ auto' = auto
    /\ a \notin mixed =>
         /\ k.pc = "idle" => Served(a)
         /\ k.pc # "idle" => Serving(k, a) /\ Present(k, a)
         /\ Live(a) => a \in DOMAIN db \/ (k.pc # "idle" /\ Unchecking(k))
    /\ a \notin disturbed =>
         IF k.pc = "idle" THEN a \in DOMAIN conf <=> Stream(a) ELSE Filed(k, a)
    /\ Chooses(k) => Chosen(k)

\* It keeps the invariant.
LEMMA OnlyMoves ==
    ASSUME Inv, NEW w \in Admins, NEW a \in Apps, NEW k \in Jobs, Moves(w, a, k)
    PROVE  Inv'
<1> USE DEF Moves
<1>1. a = admin[w].app /\ admin[w].pc # "idle" /\ (a \notin mixed => \A c \in checkers : c.app = a => ~Stream(a))
  BY SoleHas DEF Working
<1>2. TypeOK'
  BY TypesOfStep DEF Inv, TypeOK, history
<1>3. \A b : Same(b)
  BY SameWhere DEF Same, history
<1>4. a \notin mixed' => SoleServes(w, a)
  <2> SUFFICES ASSUME a \notin mixed PROVE SoleServes(w, a)
    BY DEF history
  <2>1. SameRow(a) /\ SameSockets(a) /\ (Stream(a)' <=> Stream(a)) /\ Streams(a)' = Streams(a)
    BY <1>3 DEF Same, SameRow, SameSockets
  <2>2. (Served(a)' <=> Served(a)) /\ ((Streams(a) \subseteq registered)' <=> Streams(a) \subseteq registered)
    BY <2>1, ServedSame
  <2>3. k.pc # "idle" => Serving(admin[w], a)' /\ Present(admin[w], a)'
    <3>1. Serving(admin[w], a)' <=> Serving(k, a)
      BY <2>1, <2>2 DEF Serving, Socket, IsStream, StoredAs
    <3>2. Present(admin[w], a)' <=> Present(k, a)
      BY DEF Present
    <3> QED
      BY <3>1, <3>2
  <2>4. Unchecking(admin[w])' <=> Unchecking(k)
    BY DEF Unchecking, IsStream
  <2>5. Live(a)' <=> Live(a)
    BY DEF Live
  <2> QED
    BY <1>1, <2>1, <2>2, <2>3, <2>4, <2>5 DEF SoleServes
<1>5. a \notin disturbed' => SoleFiles(w, a)
  <2> SUFFICES ASSUME a \notin disturbed PROVE SoleFiles(w, a)
    BY DEF history
  <2>1. Stream(a)' <=> Stream(a)
    BY <1>3 DEF Same, SameRow
  <2>2. Filed(admin[w], a)' <=> Filed(k, a)
    BY <2>1 DEF Filed, IsStream
  <2> QED
    BY <2>1, <2>2 DEF SoleFiles
<1>6. PortsInv'
  <2>1. ClashIsExplained'
    BY DEF Inv, PortsInv, ClashIsExplained, IsStream, history
  <2>2. ASSUME NEW v \in Admins, Chooses(admin'[v]) PROVE Chosen(admin[v])'
    <3>1. CASE v = w
      <4>1. Chosen(admin[v])' <=> Chosen(k)
        BY <3>1 DEF Chosen, Overtaking, IsStream, history
      <4> QED
        BY <2>2, <3>1, <4>1
    <3>2. CASE v # w
      <4>1. admin'[v] = admin[v] /\ Chosen(admin[v])
        BY <2>2, <3>2 DEF OnlyOf, Inv, PortsInv
      <4> QED
        BY <4>1 DEF Chosen, Overtaking, IsStream, history
    <3> QED
      BY <3>1, <3>2
  <2>3. (\A v \in Admins : Chooses(admin[v]) => Chosen(admin[v]))'
    BY <2>2 DEF Chooses, IsStream
  <2> QED
    BY <2>1, <2>3 DEF PortsInv
<1>7. \A b \in Apps \ {a} : Same(b)
  BY <1>3
<1>8. disturbed \subseteq disturbed' /\ mixed \subseteq mixed'
  BY DEF history
<1> QED
  BY <1>2, <1>4, <1>5, <1>6, <1>7, <1>8, SoleKeeps

\* A request ends, and all is as it is stored.
LEMMA OnlyEnds ==
    ASSUME Inv, NEW w \in Admins, NEW a \in Apps, Working(w, a), OnlyOf(w), admin'[w] = Idle,
           UNCHANGED <<db, open, registered, conf, checkers, history>>,
           snapshot' \in Lists, auto' = auto,
           a \notin mixed => Served(a) /\ (Live(a) => a \in DOMAIN db),
           a \notin disturbed => (a \in DOMAIN conf <=> Stream(a))
    PROVE  Inv'
<1>1. PICK k \in Jobs : k = Idle
  BY NothingTyped
<1>2. k.pc = "idle" /\ Shaped(k) /\ ~Chooses(k)
  BY <1>1, NothingTyped DEF Chooses
<1>3. Moves(w, a, k)
  BY <1>1, <1>2 DEF Moves
<1> QED
  BY <1>3, OnlyMoves

\* A set of ports has a least one.
LEMMA Least ==
    ASSUME NEW S, S \subseteq Nat, S # {}
    PROVE  (CHOOSE p \in S : \A q \in S : p <= q) \in S
<1> DEFINE R == OpToRel(<, Nat)
<1>1. IsWellFoundedOn(R, Nat)
  BY NatLessThanWellFounded
<1>2. PICK m \in S : \A y \in S : ~(<<y, m>> \in R)
  BY <1>1, WFMin, Zenon
<1>3. \A q \in S : m <= q
  <2> TAKE q \in S
  <2>1. ~(<<q, m>> \in R)
    BY <1>2
  <2>2. ~(q < m)
    BY <2>1 DEF OpToRel
  <2> QED
    BY <2>2
<1> QED
  BY <1>3

\* A port that was chosen is one that no other stream application has
\* (findAvailablePort, checkPortConflict).
LEMMA NotTaken ==
    ASSUME NEW taken, NEW asked, NEW found \in Ports, resolve(asked, taken, found)
    PROVE  found \notin taken
<1>1. CASE asked = 0
  <2>1. Ports \ taken # {} /\ found = Free(taken)
    BY <1>1 DEF resolve
  <2>2. Ports \ taken \subseteq Nat
    BY HostingAssumption
  <2>3. Free(taken) \in Ports \ taken
    BY <2>1, <2>2, Least DEF Free
  <2> QED
    BY <2>1, <2>3
<1>2. CASE asked # 0
  BY <1>2 DEF resolve
<1> QED
  BY <1>1, <1>2

\* The backend port is chosen.
LEMMA ResolveBackendKeeps ==
    ASSUME Inv, NEW w \in Admins, ResolveBackend(w)
    PROVE  Inv'
<1>1. admin[w].pc = "backend" /\ admin \in [Admins -> Jobs] /\ snapshot \in Lists
  BY DEF ResolveBackend, Inv, TypeOK
<1>2. PICK a \in Apps : a = admin[w].app
  BY <1>1, SoleHas
<1>3. PICK j \in Jobs : j = admin[w]
  BY <1>1
<1>4. Shaped(j) /\ j.pc = "backend" /\ j.row \in Rows /\ Working(w, a) /\ j.app = a
      /\ IsStream(j.row) /\ j.kind \in {"create", "update"}
  BY <1>1, <1>2, <1>3, SoleHas DEF Shaped
<1>5. a \notin mixed => Serving(j, a) /\ (Live(a) => a \in DOMAIN db \/ Unchecking(j))
  BY <1>1, <1>2, <1>3, SoleHas
<1>6. a \notin mixed => Served(a) /\ (Live(a) => a \in DOMAIN db)
  BY <1>4, <1>5 DEF Serving, Unchecking
<1>7. a \notin disturbed => (a \in DOMAIN conf <=> Stream(a))
  <2>1. a \notin disturbed => Filed(j, a)
    BY <1>1, <1>2, <1>3, SoleHas
  <2> QED
    BY <1>4, <2>1 DEF Filed
<1>8. UNCHANGED <<db, open, registered, conf, checkers, history>> /\ snapshot' \in Lists /\ auto' = auto
  BY <1>1 DEF ResolveBackend
<1>9. Chooses(j) /\ Chosen(j)
  BY <1>3, <1>4 DEF Chooses, Inv, PortsInv
<1>10. ASSUME NEW p \in Ports, resolve(admin[w].row.backend, Taken(admin[w].app, "backend"), p),
              admin' = [admin EXCEPT ![w].pc = "write", ![w].row.backend = p]
       PROVE  Inv'
  <2> DEFINE row == [j.row EXCEPT !.backend = p]
             k == [j EXCEPT !.pc = "write", !.row = row]
  <2>1. row \in Rows /\ row.scheme = j.row.scheme /\ row.listen = j.row.listen /\ row.backend = p
    BY <1>4, RowsChanged
  <2>3. admin' = [admin EXCEPT ![w] = k]
    BY <1>1, <1>3, <1>10
  <2> HIDE DEF row
  <2>4. k \in Jobs /\ k.pc = "write" /\ k.kind = j.kind /\ k.app = a /\ k.row = row
    BY <1>4, <2>1 DEF Jobs, Steps
  <2> HIDE DEF k
  <2>5. OnlyOf(w) /\ admin'[w] = k
    BY <1>1, <2>3, <2>4 DEF OnlyOf
  <2>6. Shaped(k)
    BY <1>4, <2>4 DEF Shaped
  <2>7. a \notin mixed => /\ Serving(k, a) /\ Present(k, a)
                          /\ Live(a) => a \in DOMAIN db
    BY <1>6, <2>4 DEF Serving, Present
  <2>8. a \notin disturbed => Filed(k, a)
    BY <1>7, <2>4 DEF Filed
  <2>9. Chosen(k)
    <3>1. p \notin Taken(a, "backend")
      BY <1>2, <1>10, NotTaken
    <3>2. \A b \in DOMAIN db \ {a} : IsStream(db[b]) => db[b].backend # p
      BY <3>1 DEF Taken
    <3> QED
      BY <1>4, <1>9, <2>1, <2>4, <3>2 DEF Chosen
  <2>10. k.pc # "idle"
    BY <2>4
  <2>11. Moves(w, a, k)
    BY <1>4, <1>8, <2>4, <2>5, <2>6, <2>7, <2>8, <2>9, <2>10 DEF Moves
  <2> QED
    BY <2>4, <2>11, OnlyMoves
<1>11. ASSUME admin' = [admin EXCEPT ![w] = Idle] PROVE Inv'
  <2>1. OnlyOf(w) /\ admin'[w] = Idle
    BY <1>1, <1>11, Ends
  <2> QED
    BY <1>4, <1>6, <1>7, <1>8, <2>1, OnlyEnds
<1> QED
  BY <1>10, <1>11 DEF ResolveBackend

\* reloadSnapshot is over and the request goes on to what serves the application.
LEMMA AfterReloadKeeps ==
    ASSUME Inv, NEW w \in Admins, admin[w].pc \in {"list", "store"},
           admin' = [admin EXCEPT ![w] = AfterReload(@)],
           UNCHANGED <<db, open, registered, conf, checkers, history>>,
           snapshot' \in Lists, auto' = auto
    PROVE  Inv'
<1>1. admin[w].pc # "idle" /\ TypeOK
  BY DEF Inv
<1>2. PICK a \in Apps : a = admin[w].app
  BY <1>1, SoleHas
<1>3. PICK j \in Jobs : j = admin[w]
  BY <1>1, SoleHas
<1>4. /\ Working(w, a) /\ j.app = a /\ Shaped(j) /\ j.pc \in {"list", "store"} /\ j.kind # "none"
      /\ mixed \subseteq disturbed
  BY <1>1, <1>2, <1>3, SoleHas DEF Shaped
<1>5. a \notin mixed => Serving(j, a) /\ Present(j, a) /\ (Live(a) => a \in DOMAIN db \/ Unchecking(j))
  BY <1>1, <1>2, <1>3, SoleHas
<1>6. a \notin disturbed => Filed(j, a)
  BY <1>1, <1>2, <1>3, SoleHas
<1>7. OnlyOf(w) /\ Shaped(admin'[w])
  BY <1>1, Reloaded
<1>8. CASE j.kind = "toggle"
  <2>1. admin'[w] = Idle
    BY <1>1, <1>3, <1>8, Reloaded
  <2>2. a \notin mixed => Served(a) /\ (Live(a) => a \in DOMAIN db)
    BY <1>4, <1>5, <1>8 DEF Serving, Unchecking
  <2>3. a \notin disturbed => (a \in DOMAIN conf <=> Stream(a))
    BY <1>4, <1>6, <1>8 DEF Filed
  <2> QED
    BY <1>4, <1>7, <2>1, <2>2, <2>3, OnlyEnds
<1>9. CASE j.kind # "toggle"
  <2>1. PICK k \in Jobs : k = admin'[w]
    BY <1>7 DEF OnlyOf
  <2>2. /\ k.kind = j.kind /\ k.app = a /\ k.row = j.row
        /\ k.pc = IF ~IsStream(j.row) THEN "health"
                  ELSE IF j.kind = "create" THEN "conf" ELSE "stop"
    BY <1>1, <1>2, <1>3, <1>9, <2>1, Reloaded
  <2>3. j.kind \in {"create", "update", "delete"}
    BY <1>4, <1>9 DEF Jobs
  <2>4. k.pc # "idle" /\ ~Chooses(k)
    BY <2>2 DEF Chooses
  <2>5. CASE ~IsStream(j.row)
    <3>1. k.pc = "health"
      BY <2>2, <2>5
    <3>2. a \notin mixed => Streams(a) = {} /\ ~Stream(a)
      BY <1>4, <1>5, <2>3, <2>5 DEF Serving
    <3>3. a \notin mixed => Serving(k, a)
      BY <3>1, <3>2 DEF Serving
    <3>4. a \notin mixed => Present(k, a)
      BY <1>4, <1>5, <2>2, <3>1 DEF Present
    <3>5. a \notin mixed => (Live(a) => a \in DOMAIN db \/ Unchecking(k))
      BY <1>5, <2>2, <3>1 DEF Unchecking
    <3>6. a \notin disturbed => Filed(k, a)
      <4>1. a \notin disturbed => a \notin DOMAIN conf
        BY <1>4, <1>6, <2>3, <2>5, <3>2 DEF Filed
      <4> QED
        BY <3>1, <4>1 DEF Filed
    <3>7. Moves(w, a, k)
      BY <1>4, <1>7, <2>1, <2>2, <2>4, <3>3, <3>4, <3>5, <3>6 DEF Moves
    <3> QED
      BY <3>7, OnlyMoves
  <2>6. CASE IsStream(j.row) /\ j.kind = "create"
    <3>1. k.pc = "conf"
      BY <2>2, <2>6
    <3>2. a \notin mixed => Streams(a) = {} /\ StoredAs(a, j.row)
      BY <1>4, <1>5, <2>6 DEF Serving
    <3>3. a \notin mixed => Serving(k, a)
      BY <2>2, <3>1, <3>2 DEF Serving
    <3>4. a \notin mixed => Present(k, a)
      BY <3>1 DEF Present
    <3>5. a \notin mixed => (Live(a) => a \in DOMAIN db)
      BY <1>5, <2>6 DEF Unchecking
    <3>6. a \notin disturbed => Filed(k, a)
      BY <1>4, <1>6, <2>2, <2>6, <3>1 DEF Filed
    <3>7. Moves(w, a, k)
      BY <1>4, <1>7, <2>1, <2>2, <2>4, <3>3, <3>4, <3>5, <3>6 DEF Moves
    <3> QED
      BY <3>7, OnlyMoves
  <2>7. CASE IsStream(j.row) /\ j.kind # "create"
    <3>1. k.pc = "stop" /\ j.kind \in {"update", "delete"}
      BY <2>2, <2>3, <2>7
    <3>2. a \notin mixed => /\ Streams(a) \subseteq registered
                            /\ IF j.kind = "update" THEN StoredAs(a, j.row) ELSE ~Stream(a)
      BY <1>4, <1>5, <2>7, <3>1 DEF Serving
    <3>3. a \notin mixed => Serving(k, a)
      BY <2>2, <3>1, <3>2 DEF Serving
    <3>4. a \notin mixed => Present(k, a)
      BY <3>1 DEF Present
    <3>5. a \notin mixed => (Live(a) => a \in DOMAIN db)
      BY <1>5, <2>7 DEF Unchecking
    <3>6. a \notin disturbed => Filed(k, a)
      <4>1. a \notin disturbed => a \in DOMAIN conf
        BY <1>4, <1>6, <2>7, <3>1, <3>2 DEF Filed, StoredAs
      <4> QED
        BY <3>1, <4>1 DEF Filed
    <3>7. Moves(w, a, k)
      BY <1>4, <1>7, <2>1, <2>2, <2>4, <3>3, <3>4, <3>5, <3>6 DEF Moves
    <3> QED
      BY <3>7, OnlyMoves
  <2> QED
    BY <2>5, <2>6, <2>7
<1> QED
  BY <1>8, <1>9

\* The list is read, or the read fails.
LEMMA ReloadListKeeps ==
    ASSUME Inv, NEW w \in Admins, ReloadList(w)
    PROVE  Inv'
<1>1. admin[w].pc = "list" /\ TypeOK /\ UNCHANGED <<db, open, registered, conf, checkers, history>>
      /\ snapshot' \in Lists /\ auto' = auto /\ admin \in [Admins -> Jobs] /\ db \in Lists
  BY DEF Inv, TypeOK, ReloadList
<1>2. CASE admin' = [admin EXCEPT ![w].pc = "store", ![w].list = db]
  <2>1. PICK a \in Apps : a = admin[w].app
    BY <1>1, SoleHas
  <2>2. PICK j \in Jobs : j = admin[w]
    BY <1>1, SoleHas
  <2> DEFINE k == [j EXCEPT !.pc = "store", !.list = db]
  <2>3. admin' = [admin EXCEPT ![w] = k]
    BY <1>1, <1>2, <2>2
  <2>4. k \in Jobs /\ k.pc = "store" /\ k.kind = j.kind /\ k.app = j.app /\ k.row = j.row
    BY <1>1 DEF Jobs, Steps
  <2> HIDE DEF k
  <2>5. OnlyOf(w) /\ admin'[w] = k
    BY <1>1, <2>3, <2>4 DEF OnlyOf
  <2>6. PICK x \in Jobs : x = k
    BY <2>4
  <2>7. Working(w, a) /\ Shaped(j) /\ j.pc = "list" /\ j.app = a
    BY <1>1, <2>1, <2>2, SoleHas
  <2>8. /\ a \notin mixed => Serving(j, a) /\ Present(j, a) /\ (Live(a) => a \in DOMAIN db \/ Unchecking(j))
        /\ a \notin disturbed => Filed(j, a)
    BY <1>1, <2>1, <2>2, SoleHas
  <2>9. x = admin'[w] /\ x.pc = "store" /\ x.kind = j.kind /\ x.app = a /\ x.row = j.row
    BY <2>4, <2>5, <2>6, <2>7
  <2>10. a \notin mixed => Serving(x, a)
    BY <2>7, <2>8, <2>9 DEF Serving
  <2>11. a \notin mixed => Present(x, a) /\ (Live(a) => a \in DOMAIN db \/ Unchecking(x))
    BY <2>7, <2>8, <2>9 DEF Present, Unchecking
  <2>12. a \notin disturbed => Filed(x, a)
    BY <2>7, <2>8, <2>9 DEF Filed
  <2>13. Shaped(x) /\ x.pc # "idle" /\ ~Chooses(x)
    BY <2>7, <2>9 DEF Shaped, Chooses
  <2>14. Moves(w, a, x)
    BY <1>1, <2>5, <2>7, <2>9, <2>10, <2>11, <2>12, <2>13 DEF Moves
  <2> QED
    BY <2>14, OnlyMoves
<1>3. CASE admin' = [admin EXCEPT ![w] = AfterReload(@)]
  BY <1>1, <1>3, AfterReloadKeeps
<1> QED
  BY <1>2, <1>3 DEF ReloadList

\* The list is stored.
LEMMA ReloadStoreKeeps ==
    ASSUME Inv, NEW w \in Admins, ReloadStore(w)
    PROVE  Inv'
<1>1. admin[w].pc = "store" /\ UNCHANGED <<db, open, registered, conf, checkers, history>> /\ auto' = auto
      /\ admin' = [admin EXCEPT ![w] = AfterReload(@)] /\ snapshot' = admin[w].list
  BY DEF ReloadStore, Store
<1>2. admin[w] \in Jobs
  BY <1>1, SoleHas
<1>3. snapshot' \in Lists
  BY <1>1, <1>2 DEF Jobs
<1> QED
  BY <1>1, <1>3, AfterReloadKeeps

\* What the statement of a request does to the row of its application, and to no other.
LEMMA WrittenIs ==
    ASSUME TypeOK, NEW j \in Jobs, j.app \in Apps, j.kind # "none", Accepted(j)
    PROVE  /\ \A b : b # j.app => /\ b \in DOMAIN Written(j) <=> b \in DOMAIN db
                                  /\ b \in DOMAIN db => Written(j)[b] = db[b]
           /\ j.kind \in {"create", "update"} =>
                /\ j.app \in DOMAIN Written(j)
                /\ Written(j)[j.app].scheme = j.row.scheme
                /\ Written(j)[j.app].listen = j.row.listen
                /\ Written(j)[j.app].backend = j.row.backend
           /\ j.kind = "create" => j.app \notin DOMAIN db
           /\ j.kind \in {"update", "delete"} => j.app \in DOMAIN db
           /\ j.kind = "delete" => j.app \notin DOMAIN Written(j)
           /\ j.kind = "toggle" =>
                /\ j.app \in DOMAIN Written(j) <=> j.app \in DOMAIN db
                /\ j.app \in DOMAIN db => /\ Written(j)[j.app].scheme = db[j.app].scheme
                                          /\ Written(j)[j.app].listen = db[j.app].listen
                                          /\ Written(j)[j.app].backend = db[j.app].backend
<1>1. PICK a \in Apps : a = j.app
  OBVIOUS
<1>2. PICK row \in Rows : row = j.row
  BY DEF Jobs
<1>3. db \in [DOMAIN db -> Rows]
  BY ListsAreTables DEF TypeOK
<1>4. j.kind \in {"create", "update", "delete", "toggle"}
  BY DEF Jobs
<1>5. CASE j.kind = "create"
  <2>1. Written(j) = With(db, a, row) /\ a \notin DOMAIN db
    BY <1>1, <1>2, <1>5 DEF Written, Accepted
  <2> QED
    BY <1>1, <1>2, <1>5, <2>1 DEF With
<1>6. CASE j.kind = "update"
  <2>1. a \in DOMAIN db
    BY <1>1, <1>6 DEF Accepted
  <2>2. PICK x \in BOOLEAN : x = db[a].attack
    BY <1>3, <2>1, RowsChanged
  <2>3. PICK new \in Rows : /\ new = [row EXCEPT !.attack = x]
                            /\ new.scheme = row.scheme /\ new.listen = row.listen /\ new.backend = row.backend
    BY RowsChanged
  <2>4. Written(j) = [db EXCEPT ![a] = new]
    BY <1>1, <1>2, <1>6, <2>2, <2>3 DEF Written
  <2> QED
    BY <1>1, <1>2, <1>3, <1>6, <2>1, <2>3, <2>4
<1>7. CASE j.kind = "delete"
  <2>1. Written(j) = Without(db, a) /\ a \in DOMAIN db
    BY <1>1, <1>7 DEF Written, Accepted
  <2> QED
    BY <1>1, <1>7, <2>1 DEF Without
<1>8. CASE j.kind = "toggle"
  <2>1. CASE a \in DOMAIN db
    <3>1. PICK x \in BOOLEAN : x = j.row.attack
      BY <1>2, RowsChanged
    <3>2. PICK old \in Rows : old = db[a]
      BY <1>3, <2>1
    <3>3. PICK new \in Rows : /\ new = [old EXCEPT !.attack = x]
                              /\ new.scheme = old.scheme /\ new.listen = old.listen /\ new.backend = old.backend
      BY RowsChanged
    <3>4. Written(j) = [db EXCEPT ![a] = new]
      BY <1>1, <1>8, <2>1, <3>1, <3>2, <3>3 DEF Written
    <3> QED
      BY <1>1, <1>3, <1>8, <2>1, <3>2, <3>3, <3>4
  <2>2. CASE a \notin DOMAIN db
    <3>1. Written(j) = db
      BY <1>1, <1>8, <2>2 DEF Written
    <3> QED
      BY <1>1, <1>8, <2>2, <3>1
  <2> QED
    BY <2>1, <2>2
<1> QED
  BY <1>4, <1>5, <1>6, <1>7, <1>8

\* The statement is executed: what a request of each kind leaves to do.
WroteRow(w, a, j) ==
    /\ admin[w] = j /\ j.pc = "write" /\ j.app = a /\ Working(w, a) /\ Accepted(j) /\ Shaped(j) /\ j.kind # "none"
    /\ db' = Written(j) /\ OnlyOf(w)
    /\ admin'[w].pc = "list" /\ admin'[w].kind = j.kind /\ admin'[w].app = a /\ admin'[w].row = j.row
    /\ disturbed \subseteq disturbed' /\ mixed \subseteq mixed' /\ mixed' \subseteq disturbed'
    /\ j.kind \in {"update", "delete"} /\ a \notin mixed' => (IsStream(db[a]) <=> IsStream(j.row))
    /\ j.kind = "create" /\ a \notin mixed' => \A c \in checkers : c.app # a
    /\ UNCHANGED <<snapshot, auto, open, registered, conf, checkers, requests, refused>>

\* The application is served as far as the request has come.
LEMMA WroteRowServes ==
    ASSUME Inv, NEW w \in Admins, NEW a \in Apps, NEW j \in Jobs, WroteRow(w, a, j), a \notin mixed'
    PROVE  SoleServes(w, a)
<1> USE DEF WroteRow
<1>1. /\ Served(a) /\ (Live(a) => a \in DOMAIN db)
      /\ \A c \in checkers : c.app = a => ~Stream(a)
  <2>1. a \notin mixed /\ admin[w].pc # "idle"
    OBVIOUS
  <2>2. Serving(j, a) /\ (Live(a) => a \in DOMAIN db \/ Unchecking(j))
        /\ \A c \in checkers : c.app = a => ~Stream(a)
    BY <2>1, SoleHas
  <2> QED
    BY <2>2 DEF Serving, Unchecking
<1>2. TypeOK
  BY DEF Inv
<1>3. Streams(a)' = Streams(a) /\ (Live(a)' <=> Live(a)) /\ (Streams(a) \subseteq registered)' = (Streams(a) \subseteq registered)
  BY DEF Streams, Live
<1>4. ~Stream(a) => Streams(a) = {}
  BY <1>1 DEF Served
<1>5. Stream(a) => Streams(a) \subseteq registered
  BY <1>1 DEF Served
<1>6. admin'[w].pc = "list" /\ admin'[w].app = a /\ checkers' = checkers /\ admin'[w].pc # "idle"
  OBVIOUS
<1>7. CASE j.kind = "create"
  <2>1. a \notin DOMAIN db /\ a \in DOMAIN db' /\ db'[a].scheme = j.row.scheme /\ db'[a].backend = j.row.backend
    BY <1>2, <1>7, WrittenIs
  <2>2. Streams(a)' = {} /\ (\A c \in checkers' : c.app # a)
    BY <1>3, <1>4, <1>7, <2>1 DEF Stream
  <2>3. (Stream(a)' <=> IsStream(j.row)) /\ (IsStream(j.row) => StoredAs(a, j.row)')
    BY <2>1 DEF Stream, StoredAs, IsStream
  <2>4. Serving(admin[w], a)'
    BY <1>7, <2>2, <2>3 DEF Serving, IsStream, StoredAs
  <2>5. Present(admin[w], a)' /\ ~Live(a)'
    BY <2>1, <2>2 DEF Present, Live
  <2> QED
    BY <1>6, <2>2, <2>4, <2>5 DEF SoleServes
<1>8. CASE j.kind = "update"
  <2>1. a \in DOMAIN db /\ a \in DOMAIN db' /\ db'[a].scheme = j.row.scheme /\ db'[a].backend = j.row.backend
    BY <1>2, <1>8, WrittenIs
  <2>2. (Stream(a) <=> IsStream(j.row)) /\ (Stream(a)' <=> IsStream(j.row)) /\ (IsStream(j.row) => StoredAs(a, j.row)')
    BY <1>8, <2>1 DEF Stream, StoredAs, IsStream
  <2>3. Serving(admin[w], a)'
    BY <1>3, <1>4, <1>5, <1>8, <2>2 DEF Serving, IsStream, StoredAs
  <2>4. Present(admin[w], a)'
    BY <2>1 DEF Present
  <2>5. \A c \in checkers' : c.app = a => ~Stream(a)'
    BY <1>1, <2>2
  <2> QED
    BY <1>6, <2>1, <2>3, <2>4, <2>5 DEF SoleServes
<1>9. CASE j.kind = "delete"
  <2>1. a \in DOMAIN db /\ a \notin DOMAIN db'
    BY <1>2, <1>9, WrittenIs
  <2>2. (Stream(a) <=> IsStream(j.row)) /\ ~Stream(a)'
    BY <1>9, <2>1 DEF Stream
  <2>3. Serving(admin[w], a)'
    BY <1>3, <1>4, <1>5, <1>9, <2>2 DEF Serving, IsStream
  <2>4. Present(admin[w], a)'
    BY <1>9 DEF Present
  <2>5. Live(a)' => Unchecking(admin[w])'
    BY <1>1, <1>3, <1>9, <2>2 DEF Live, Unchecking, IsStream
  <2> QED
    BY <1>6, <2>2, <2>3, <2>4, <2>5 DEF SoleServes
<1>10. CASE j.kind = "toggle"
  <2>1. /\ a \in DOMAIN db' <=> a \in DOMAIN db
        /\ a \in DOMAIN db => db'[a].scheme = db[a].scheme /\ db'[a].backend = db[a].backend
    BY <1>2, <1>10, WrittenIs
  <2>2. SameRow(a) /\ SameSockets(a) /\ (Stream(a)' <=> Stream(a))
    BY <2>1, SameWhere DEF SameRow, Stream, IsStream
  <2>3. Served(a)'
    BY <1>1, <2>2, ServedSame
  <2>4. Serving(admin[w], a)'
    BY <1>10, <2>3 DEF Serving
  <2>5. Present(admin[w], a)'
    BY <1>10 DEF Present
  <2> QED
    BY <1>1, <1>3, <1>6, <2>1, <2>2, <2>4, <2>5 DEF SoleServes
<1> QED
  BY <1>7, <1>8, <1>9, <1>10 DEF Jobs

\* And its file is where that leaves it.
LEMMA WroteRowFiles ==
    ASSUME Inv, NEW w \in Admins, NEW a \in Apps, NEW j \in Jobs, WroteRow(w, a, j), a \notin disturbed'
    PROVE  SoleFiles(w, a)
<1> USE DEF WroteRow
<1>1. TypeOK /\ admin[w].pc # "idle" /\ a \notin disturbed /\ a \notin mixed'
  BY DEF Inv
<1>2. a \in DOMAIN conf <=> Stream(a)
  <2>1. Filed(j, a)
    BY <1>1, SoleHas
  <2> QED
    BY <2>1 DEF Filed
<1>3. admin'[w].pc = "list" /\ conf' = conf
  OBVIOUS
<1>4. CASE j.kind = "create"
  <2>1. a \notin DOMAIN conf
    BY <1>1, <1>2, <1>4, WrittenIs DEF Stream
  <2>2. Filed(admin[w], a)'
    BY <1>3, <1>4, <2>1 DEF Filed
  <2> QED
    BY <1>3, <2>2 DEF SoleFiles
<1>5. CASE j.kind = "update"
  <2>1. a \in DOMAIN db /\ a \in DOMAIN db' /\ db'[a].scheme = j.row.scheme
    BY <1>1, <1>5, WrittenIs
  <2>2. Stream(a) <=> Stream(a)'
    BY <1>1, <1>5, <2>1 DEF Stream, IsStream
  <2>3. Filed(admin[w], a)'
    BY <1>2, <1>3, <1>5, <2>2 DEF Filed
  <2> QED
    BY <1>3, <2>3 DEF SoleFiles
<1>6. CASE j.kind = "delete"
  <2>1. a \in DOMAIN db
    BY <1>1, <1>6, WrittenIs
  <2>2. Stream(a) <=> IsStream(j.row)
    BY <1>1, <1>6, <2>1 DEF Stream
  <2>3. Filed(admin[w], a)'
    BY <1>2, <1>3, <1>6, <2>2 DEF Filed, IsStream
  <2> QED
    BY <1>3, <2>3 DEF SoleFiles
<1>7. CASE j.kind = "toggle"
  <2>1. /\ a \in DOMAIN db' <=> a \in DOMAIN db
        /\ a \in DOMAIN db => db'[a].scheme = db[a].scheme
    BY <1>1, <1>7, WrittenIs
  <2>2. Stream(a)' <=> Stream(a)
    BY <2>1 DEF Stream, IsStream
  <2>3. Filed(admin[w], a)'
    BY <1>2, <1>3, <1>7, <2>2 DEF Filed
  <2> QED
    BY <1>3, <2>3 DEF SoleFiles
<1> QED
  BY <1>4, <1>5, <1>6, <1>7 DEF Jobs

\* Its new ports clash with those of no application, unless requests raced.
LEMMA WroteRowPorts ==
    ASSUME Inv, NEW w \in Admins, NEW a \in Apps, NEW j \in Jobs, WroteRow(w, a, j), raced \subseteq raced',
           Chooses(j) => \A b \in Choosing(w) : {a, b} \in raced',
           restored' = IF j.kind = "toggle" THEN restored ELSE restored \ {a}
    PROVE  PortsInv'
<1> USE DEF WroteRow
<1>1. /\ TypeOK
      /\ \A b, c : b # a /\ c # a /\ Excused(b, c) => Excused(b, c)'
      /\ \A b, c : c # a /\ Overtaking(b, c) => Overtaking(b, c)'
  BY DEF Inv, Excused, Overtaking
<1>2. \A b : b # a => /\ b \in DOMAIN db' <=> b \in DOMAIN db
                      /\ b \in DOMAIN db => db'[b] = db[b]
  BY <1>1, WrittenIs
<1>3. \A v \in Admins : Chooses(admin'[v]) => v # w /\ admin'[v] = admin[v]
  BY DEF Chooses, OnlyOf
<1>4. CASE ~Chooses(j)
  <2>1. a \in DOMAIN db' /\ IsStream(db'[a]) =>
          a \in DOMAIN db /\ IsStream(db[a]) /\ db'[a].listen = db[a].listen /\ db'[a].backend = db[a].backend
    <3>1. CASE j.kind \in {"create", "update"}
      <4>1. ~IsStream(j.row) /\ a \in DOMAIN db' /\ db'[a].scheme = j.row.scheme
        BY <1>1, <1>4, <3>1, WrittenIs DEF Chooses
      <4> QED
        BY <4>1 DEF IsStream
    <3>2. CASE j.kind = "delete"
      BY <1>1, <3>2, WrittenIs
    <3>3. CASE j.kind = "toggle"
      BY <1>1, <3>3, WrittenIs DEF IsStream
    <3> QED
      BY <3>1, <3>2, <3>3 DEF Jobs
  <2>2. SamePorts
    BY <1>2, <2>1 DEF SamePorts
  <2>3. \A b \in restored : b \in restored' \/ b \notin DOMAIN db' \/ ~IsStream(db'[b])
    <3>1. CASE j.kind \in {"create", "update"}
      <4>1. ~IsStream(j.row) /\ db'[a].scheme = j.row.scheme
        BY <1>1, <1>4, <3>1, WrittenIs DEF Chooses
      <4> QED
        BY <4>1 DEF IsStream
    <3>2. CASE j.kind = "delete"
      BY <1>1, <3>2, WrittenIs
    <3>3. CASE j.kind = "toggle"
      BY <3>3
    <3> QED
      BY <3>1, <3>2, <3>3 DEF Jobs
  <2> QED
    BY <1>3, <2>2, <2>3, PortsKept DEF Inv
<1>5. CASE Chooses(j)
  <2>1. /\ a \in DOMAIN db' /\ db'[a].listen = j.row.listen /\ db'[a].backend = j.row.backend
        /\ IsStream(j.row)
    BY <1>1, <1>5, WrittenIs DEF Chooses
  <2>2. Chosen(j)
    BY <1>5 DEF Inv, PortsInv
  <2>3. ASSUME NEW b \in DOMAIN db', b # a, IsStream(db'[b]),
               db'[b].listen = db'[a].listen \/ db'[b].backend = db'[a].backend
        PROVE  Excused(a, b)'
    <3>1. b \in DOMAIN db \ {a} /\ IsStream(db[b])
      BY <1>2, <2>3
    <3>2. db[b].listen = j.row.listen \/ db[b].backend = j.row.backend
      BY <1>2, <2>1, <2>3
    <3>3. Overtaking(a, b)
      BY <2>2, <3>1, <3>2 DEF Chosen
    <3> QED
      BY <1>1, <2>3, <3>3 DEF Excused, Overtaking
  <2>4. ClashIsExplained'
    <3> SUFFICES ASSUME NEW b \in DOMAIN db', NEW c \in DOMAIN db', b # c, IsStream(db'[b]), IsStream(db'[c]),
                        db'[b].listen = db'[c].listen \/ db'[b].backend = db'[c].backend
                 PROVE  Excused(b, c)'
      BY DEF ClashIsExplained, Excused, IsStream
    <3>1. CASE b = a
      BY <2>3, <3>1
    <3>2. CASE c = a
      BY <2>3, <3>2 DEF Excused
    <3>3. CASE b # a /\ c # a
      <4>1. Excused(b, c)
        BY <1>2, <3>3 DEF Inv, PortsInv, ClashIsExplained, Excused
      <4> QED
        BY <1>1, <3>3, <4>1
    <3> QED
      BY <3>1, <3>2, <3>3
  <2>5. ASSUME NEW v \in Admins, Chooses(admin'[v]) PROVE Chosen(admin[v])'
    <3>1. v # w /\ admin'[v] = admin[v] /\ Chosen(admin[v]) /\ Chooses(admin[v])
      BY <1>3, <2>5 DEF Inv, PortsInv
    <3>2. admin[v].app \in Choosing(w)
      BY <3>1 DEF Choosing, Chooses
    <3>3. {a, admin[v].app} \in raced'
      BY <1>5, <3>2
    <3>4. PICK i \in Jobs : i = admin[v]
      BY <1>1 DEF TypeOK
    <3>5. ASSUME NEW b \in DOMAIN db' \ {i.app}, IsStream(db'[b])
          PROVE  /\ db'[b].listen = i.row.listen => Overtaking(i.app, b)'
                 /\ i.pc = "write" /\ db'[b].backend = i.row.backend => Overtaking(i.app, b)'
      <4>1. CASE b = a
        <5>1. {i.app, b} = {a, admin[v].app}
          BY <3>4, <4>1
        <5> QED
          BY <3>3, <5>1 DEF Overtaking
      <4>2. CASE b # a
        <5>1. b \in DOMAIN db \ {i.app} /\ db'[b] = db[b] /\ IsStream(db[b])
          BY <1>2, <3>5, <4>2
        <5> QED
          BY <1>1, <3>1, <3>4, <4>2, <5>1 DEF Chosen
      <4> QED
        BY <4>1, <4>2
    <3>6. Chosen(i)'
      BY <3>5 DEF Chosen, IsStream
    <3> QED
      BY <3>1, <3>4, <3>6 DEF Chosen, Overtaking, IsStream
  <2> QED
    BY <2>4, <2>5 DEF PortsInv, Chooses, IsStream
<1> QED
  BY <1>4, <1>5

\* The statement is executed, or fails.
LEMMA WriteRowKeeps ==
    ASSUME Inv, NEW w \in Admins, WriteRow(w)
    PROVE  Inv'
<1>1. admin[w].pc = "write" /\ TypeOK /\ admin \in [Admins -> Jobs]
      /\ UNCHANGED <<snapshot, auto, open, registered, conf, checkers, requests>>
  BY DEF WriteRow, Inv, TypeOK
<1>2. PICK a \in Apps : a = admin[w].app
  BY <1>1, SoleHas
<1>3. PICK j \in Jobs : j = admin[w]
  BY <1>1
<1>4. j.pc = "write" /\ Working(w, a) /\ j.app = a /\ Shaped(j) /\ j.kind # "none" /\ mixed \subseteq disturbed
  BY <1>1, <1>2, <1>3, SoleHas DEF Shaped
<1>5. CASE admin' = [admin EXCEPT ![w] = Idle] /\ UNCHANGED <<db, history>>
  <2>1. OnlyOf(w) /\ admin'[w] = Idle
    BY <1>1, <1>5, Ends
  <2>2. /\ a \notin mixed => Serving(j, a) /\ (Live(a) => a \in DOMAIN db \/ Unchecking(j))
        /\ a \notin disturbed => Filed(j, a)
    BY <1>1, <1>2, <1>3, SoleHas
  <2>3. /\ a \notin mixed => Served(a) /\ (Live(a) => a \in DOMAIN db)
        /\ a \notin disturbed => (a \in DOMAIN conf <=> Stream(a))
    BY <1>4, <2>2 DEF Serving, Unchecking, Filed
  <2>4. snapshot' \in Lists /\ auto' = auto /\ UNCHANGED <<db, open, registered, conf, checkers, history>>
    BY <1>1, <1>5 DEF TypeOK
  <2> QED
    BY <1>4, <2>1, <2>3, <2>4, OnlyEnds
<1> DEFINE switch == IF \/ j.kind \in {"update", "delete"} /\ a \in DOMAIN db /\ IsStream(db[a]) # IsStream(j.row)
                        \/ j.kind = "create" /\ \E c \in checkers : c.app = a
                     THEN {a} ELSE {}
           race == IF j.kind \in {"create", "update"} /\ IsStream(j.row)
                   THEN {{a, b} : b \in Choosing(w)} ELSE {}
<1>6. CASE /\ Accepted(j) /\ db' = Written(j) /\ admin' = [admin EXCEPT ![w].pc = "list"]
           /\ disturbed' = disturbed \cup switch /\ mixed' = mixed \cup switch
           /\ raced' = raced \cup race /\ UNCHANGED refused
           /\ restored' = IF j.kind = "toggle" THEN restored ELSE restored \ {a}
  <2>1. /\ OnlyOf(w) /\ admin'[w].pc = "list" /\ admin'[w].kind = j.kind
        /\ admin'[w].app = a /\ admin'[w].row = j.row
    <3>1. "list" \in Steps /\ admin' = [admin EXCEPT ![w].pc = "list"]
      BY <1>6 DEF Steps
    <3>2. /\ OnlyOf(w) /\ admin'[w].pc = "list" /\ admin'[w].kind = admin[w].kind
          /\ admin'[w].app = admin[w].app /\ admin'[w].row = admin[w].row
      BY <1>1, <3>1, Goes
    <3> QED
      BY <1>2, <1>3, <3>2
  <2>2. j.kind \in {"update", "delete"} /\ a \notin mixed' => (IsStream(db[a]) <=> IsStream(j.row))
    <3>1. j.kind \in {"update", "delete"} => a \in DOMAIN db
      BY <1>1, <1>4, <1>6, WrittenIs
    <3> QED
      BY <1>6, <3>1 DEF IsStream
  <2>3. j.kind = "create" /\ a \notin mixed' => \A c \in checkers : c.app # a
    BY <1>6
  <2>4. disturbed \subseteq disturbed' /\ mixed \subseteq mixed' /\ mixed' \subseteq disturbed' /\ raced \subseteq raced'
    BY <1>4, <1>6
  <2>5. Chooses(j) => \A b \in Choosing(w) : {a, b} \in raced'
    BY <1>6 DEF Chooses
  <2> HIDE DEF switch, race
  <2>6. WroteRow(w, a, j)
    BY <1>1, <1>2, <1>3, <1>4, <1>6, <2>1, <2>2, <2>3, <2>4 DEF WroteRow
  <2>7. PortsInv'
    BY <1>6, <2>4, <2>5, <2>6, WroteRowPorts
  <2>8. TypeOK'
    <3>1. Written(j) \in Lists
      BY <1>1, <1>3, <1>6, WrittenIsTable
    <3>2. PICK k \in Jobs : k = admin'[w]
      BY <2>1 DEF OnlyOf
    <3>3. Shaped(k)
      BY <1>4, <2>1, <3>2 DEF Shaped
    <3> QED
      BY <1>1, <1>6, <2>1, <2>4, <3>1, <3>2, <3>3, TypesOfStep DEF TypeOK
  <2>9. ASSUME NEW b \in Apps \ {a} PROVE Same(b)
    <3>1. /\ b \in DOMAIN db' <=> b \in DOMAIN db
          /\ b \in DOMAIN db => db'[b] = db[b]
      BY <1>1, <1>4, <1>6, WrittenIs
    <3>2. SameRow(b)
      BY <3>1 DEF SameRow, Stream, IsStream
    <3> QED
      BY <1>1, <1>6, <3>2, SameWhere DEF Same
  <2>10. /\ a \notin mixed' => SoleServes(w, a)
         /\ a \notin disturbed' => SoleFiles(w, a)
    BY <2>6, WroteRowServes, WroteRowFiles
  <2> QED
    BY <1>4, <2>1, <2>4, <2>7, <2>8, <2>9, <2>10, SoleKeeps
<1>7. \/ admin' = [admin EXCEPT ![w] = Idle] /\ UNCHANGED <<db, history>>
      \/ /\ Accepted(j) /\ db' = Written(j) /\ admin' = [admin EXCEPT ![w].pc = "list"]
         /\ disturbed' = disturbed \cup switch /\ mixed' = mixed \cup switch
         /\ raced' = raced \cup race /\ UNCHANGED refused
         /\ restored' = IF j.kind = "toggle" THEN restored ELSE restored \ {a}
  BY <1>2, <1>3, Zenon DEF WriteRow
<1> QED
  BY <1>5, <1>6, <1>7

-----------------------------------------------------------------------------
(* What serves the application is stopped and started *)

\* A step of the second part of a request.
Handles(w, a, j, k) ==
    /\ Working(w, a) /\ j = admin[w] /\ OnlyOf(w) /\ k = admin'[w] /\ Shaped(k) /\ ~Chooses(k)
    /\ k.pc = "idle" \/ k.app = a
    /\ UNCHANGED <<db, snapshot, auto, raced, restored, mixed>>
    /\ disturbed \subseteq disturbed' /\ checkers' \subseteq CheckerStates
    /\ \A b \in Apps \ {a} : SameSockets(b) /\ NoNewCheckers(b) /\ SameFile(b)
    /\ a \notin mixed => SoleServes(w, a)
    /\ a \notin disturbed' => SoleFiles(w, a)

\* It keeps the invariant.
LEMMA HandlesKeeps ==
    ASSUME Inv, NEW w \in Admins, NEW a \in Apps, NEW j \in Jobs, NEW k \in Jobs, Handles(w, a, j, k)
    PROVE  Inv'
<1> USE DEF Handles
<1>1. TypeOK /\ mixed \subseteq disturbed
  BY DEF Inv, TypeOK
<1>2. TypeOK'
  BY <1>1, TypesOfStep DEF TypeOK
<1>3. \A b \in Apps \ {a} : Same(b)
  BY SameWhere DEF Same
<1>4. SamePorts
  BY DEF SamePorts
<1>5. \A v \in Admins : Chooses(admin'[v]) => admin'[v] = admin[v]
  BY DEF OnlyOf
<1>6. PortsInv'
  BY <1>4, <1>5, PortsKept DEF Inv
<1> QED
  BY <1>2, <1>3, <1>6, SoleKeeps

\* What is known of a request when such a step begins.
Handling(w, a, j) ==
    /\ a = admin[w].app /\ j = admin[w] /\ Working(w, a) /\ Shaped(j) /\ j.app = a
    /\ a \notin mixed => /\ Serving(j, a) /\ Present(j, a)
                         /\ \A c \in checkers : c.app = a => ~Stream(a)
                         /\ Live(a) => a \in DOMAIN db \/ Unchecking(j)
    /\ a \notin disturbed => Filed(j, a)
    /\ mixed \subseteq disturbed
    /\ TypeOK /\ admin \in [Admins -> Jobs] /\ checkers \subseteq CheckerStates

\* It is known of every request that is under way.
LEMMA HandlesFrom ==
    ASSUME Inv, NEW w \in Admins, admin[w].pc # "idle"
    PROVE  \E a \in Apps, j \in Jobs : Handling(w, a, j)
BY SoleHas DEF Handling, Inv, TypeOK

\* A table that stays keeps rows what they are.
LEMMA RowsStay ==
    ASSUME db' = db, NEW a
    PROVE  /\ Stream(a)' <=> Stream(a)
           /\ \A row : StoredAs(a, row)' <=> StoredAs(a, row)
BY DEF Stream, StoredAs, IsStream

\* The sockets of the application are closed.
LEMMA StopStreamKeeps ==
    ASSUME Inv, NEW w \in Admins, StopStream(w)
    PROVE  Inv'
<1>1. admin[w].pc = "stop"
  BY DEF StopStream
<1>2. PICK a \in Apps, j \in Jobs : Handling(w, a, j)
  BY <1>1, HandlesFrom
<1> USE DEF Handling
<1>3. j.pc = "stop" /\ IsStream(j.row) /\ j.kind \in {"update", "delete"}
  BY <1>1, <1>2 DEF Shaped
<1>4. PICK pc \in {"unconf", "conf"} : pc = IF j.kind = "delete" THEN "unconf" ELSE "conf"
  OBVIOUS
<1>5. pc \in Steps /\ admin' = [admin EXCEPT ![w].pc = pc]
  BY <1>2, <1>4 DEF StopStream, Steps
<1>6. OnlyOf(w) /\ admin'[w].pc = pc /\ admin'[w].kind = j.kind /\ admin'[w].app = a /\ admin'[w].row = j.row
  BY <1>2, <1>5, Goes
<1>7. PICK k \in Jobs : k = admin'[w]
  BY <1>6 DEF OnlyOf
<1>8. UNCHANGED <<db, snapshot, auto, raced, restored, mixed, disturbed, refused, conf, checkers>>
      /\ open' = open \ StopForApp(a) /\ registered' = registered \ StopForApp(a)
  BY <1>2 DEF StopStream, history
<1>9. Shaped(k) /\ ~Chooses(k) /\ k.app = a
  BY <1>3, <1>4, <1>6, <1>7, <1>2 DEF Shaped, Chooses
<1>10. \A b \in Apps \ {a} : SameSockets(b) /\ NoNewCheckers(b) /\ SameFile(b)
  BY <1>8 DEF SameSockets, NoNewCheckers, SameFile, Streams, StopForApp
<1>11. ASSUME a \notin mixed PROVE SoleServes(w, a)
  <2>1. /\ Streams(a) \subseteq registered
        /\ IF j.kind = "update" THEN StoredAs(a, j.row) ELSE ~Stream(a)
    BY <1>2, <1>3, <1>11 DEF Serving
  <2>2. Streams(a)' = {}
    BY <1>8, <2>1 DEF Streams, StopForApp
  <2>3. (Stream(a)' <=> Stream(a)) /\ (StoredAs(a, j.row)' <=> StoredAs(a, j.row))
    BY <1>8, RowsStay
  <2>4. Serving(admin[w], a)'
    BY <1>3, <1>4, <1>6, <2>1, <2>2, <2>3 DEF Serving, StoredAs
  <2>5. Present(admin[w], a)'
    BY <1>4, <1>6 DEF Present
  <2>6. \A c \in checkers' : c.app = a => ~Stream(a)'
    BY <1>2, <1>8, <1>11, <2>3
  <2>7. Live(a)' => a \in DOMAIN db'
    BY <1>2, <1>3, <1>8, <1>11 DEF Live, Unchecking
  <2>8. admin'[w].pc # "idle"
    BY <1>4, <1>6
  <2> QED
    BY <1>6, <2>4, <2>5, <2>6, <2>7, <2>8 DEF SoleServes
<1>12. ASSUME a \notin disturbed' PROVE SoleFiles(w, a)
  <2>1. a \in DOMAIN conf
    BY <1>2, <1>3, <1>8, <1>12 DEF Filed
  <2>2. Filed(admin[w], a)'
    BY <1>3, <1>4, <1>6, <1>8, <2>1 DEF Filed
  <2>3. admin'[w].pc # "idle"
    BY <1>4, <1>6
  <2> QED
    BY <2>2, <2>3 DEF SoleFiles
<1>13. Handles(w, a, j, k)
  BY <1>2, <1>6, <1>7, <1>8, <1>9, <1>10, <1>11, <1>12 DEF Handles
<1> QED
  BY <1>13, HandlesKeeps

\* The nginx file of a stream application is written, is there, or cannot be written.
LEMMA GenerateConfKeeps ==
    ASSUME Inv, NEW w \in Admins, GenerateConf(w)
    PROVE  Inv'
<1>1. admin[w].pc = "conf"
  BY DEF GenerateConf
<1>2. PICK a \in Apps, j \in Jobs : Handling(w, a, j)
  BY <1>1, HandlesFrom
<1> USE DEF Handling
<1>3. j.pc = "conf" /\ IsStream(j.row) /\ j.kind \in {"create", "update"}
  BY <1>1, <1>2 DEF Shaped
<1>4. UNCHANGED <<db, snapshot, auto, open, registered, checkers, requests, mixed, raced, restored>>
  BY DEF GenerateConf
<1>5. a \notin mixed => /\ Streams(a) = {} /\ StoredAs(a, j.row)
                        /\ Live(a) => a \in DOMAIN db
  BY <1>2, <1>3 DEF Serving, Unchecking
<1>6. /\ Stream(a)' <=> Stream(a)
      /\ StoredAs(a, j.row)' <=> StoredAs(a, j.row)
      /\ Streams(a)' = Streams(a) /\ (Live(a)' <=> Live(a))
  BY <1>4, RowsStay DEF Streams, Live
<1>7. ASSUME conf' = IF a \in DOMAIN conf THEN conf
                     ELSE With(conf, a, [listen |-> j.row.listen, backend |-> j.row.backend]),
             admin' = [admin EXCEPT ![w].pc = "bind"], refused' = refused, disturbed' = disturbed
      PROVE  Inv'
  <2>1. /\ OnlyOf(w) /\ admin'[w].pc = "bind" /\ admin'[w].kind = j.kind
        /\ admin'[w].app = a /\ admin'[w].row = j.row
    <3>1. "bind" \in Steps
      BY DEF Steps
    <3>2. /\ OnlyOf(w) /\ admin'[w].pc = "bind" /\ admin'[w].kind = admin[w].kind
          /\ admin'[w].app = admin[w].app /\ admin'[w].row = admin[w].row
      BY <1>2, <1>7, <3>1, Goes
    <3> QED
      BY <1>2, <3>2
  <2>2. PICK k \in Jobs : k = admin'[w]
    BY <2>1 DEF OnlyOf
  <2>3. Shaped(k) /\ ~Chooses(k) /\ k.app = a
    BY <1>2, <1>3, <2>1, <2>2 DEF Shaped, Chooses
  <2>4. DOMAIN conf' = DOMAIN conf \cup {a}
    BY <1>7 DEF With
  <2>5. \A b \in Apps \ {a} : SameSockets(b) /\ NoNewCheckers(b) /\ SameFile(b)
    BY <1>4, <1>7, <2>4, SameWhere DEF SameFile
  <2>6. ASSUME a \notin mixed PROVE SoleServes(w, a)
    <3>1. Serving(admin[w], a)' /\ Present(admin[w], a)'
      BY <1>5, <1>6, <2>1, <2>6 DEF Serving, Present, StoredAs
    <3> QED
      BY <1>2, <1>4, <1>5, <1>6, <2>1, <2>6, <3>1 DEF SoleServes
  <2>7. SoleFiles(w, a)
    BY <2>1, <2>4 DEF SoleFiles, Filed
  <2>8. Handles(w, a, j, k)
    BY <1>2, <1>4, <1>7, <2>1, <2>2, <2>3, <2>5, <2>6, <2>7 DEF Handles
  <2> QED
    BY <2>8, HandlesKeeps
<1>8. ASSUME refused' = refused \cup {a}, disturbed' = disturbed \cup {a},
             admin' = [admin EXCEPT ![w] = Idle], conf' = conf
      PROVE  Inv'
  <2>1. OnlyOf(w) /\ admin'[w] = Idle
    BY <1>2, <1>8, Ends
  <2>2. PICK k \in Jobs : k = admin'[w]
    BY <2>1 DEF OnlyOf
  <2>3. Shaped(k) /\ ~Chooses(k) /\ k.pc = "idle"
    BY <2>1, <2>2, NothingTyped DEF Chooses
  <2>4. \A b \in Apps \ {a} : SameSockets(b) /\ NoNewCheckers(b) /\ SameFile(b)
    BY <1>4, <1>8, SameWhere DEF SameSockets, Streams
  <2>5. ASSUME a \notin mixed PROVE SoleServes(w, a)
    <3>1. Served(a)'
      BY <1>5, <1>6, <1>8, <2>5 DEF Served
    <3> QED
      BY <1>2, <1>4, <1>5, <1>6, <2>2, <2>3, <2>5, <3>1 DEF SoleServes
  <2>6. Handles(w, a, j, k)
    BY <1>2, <1>4, <1>8, <2>1, <2>2, <2>3, <2>4, <2>5 DEF Handles
  <2> QED
    BY <2>6, HandlesKeeps
<1> QED
  BY <1>2, <1>7, <1>8 DEF GenerateConf

\* The port is listened to, or another socket has it.
LEMMA ListenKeeps ==
    ASSUME Inv, NEW w \in Admins, Listen(w)
    PROVE  Inv'
<1>1. admin[w].pc = "bind"
  BY DEF Listen
<1>2. PICK a \in Apps, j \in Jobs : Handling(w, a, j)
  BY <1>1, HandlesFrom
<1> USE DEF Handling
<1>3. j.pc = "bind" /\ IsStream(j.row) /\ j.kind \in {"create", "update"}
  BY <1>1, <1>2 DEF Shaped
<1>4. UNCHANGED <<db, snapshot, auto, registered, conf, checkers, requests, disturbed, mixed, raced, restored>>
  BY DEF Listen
<1>5. /\ a \notin mixed => /\ Streams(a) = {} /\ StoredAs(a, j.row)
                           /\ Live(a) => a \in DOMAIN db
      /\ a \notin disturbed => a \in DOMAIN conf
  BY <1>2, <1>3 DEF Serving, Unchecking, Filed
<1>6. /\ Stream(a)' <=> Stream(a)
      /\ StoredAs(a, j.row)' <=> StoredAs(a, j.row)
      /\ Live(a)' <=> Live(a)
  BY <1>4, RowsStay DEF Live
<1>7. PICK s : s = Socket(a, j.row)
  OBVIOUS
<1>8. s.app = a
  BY <1>7 DEF Socket
<1>9. ASSUME refused' = refused \cup {a}, admin' = [admin EXCEPT ![w] = Idle], open' = open
      PROVE  Inv'
  <2>1. OnlyOf(w) /\ admin'[w] = Idle
    BY <1>2, <1>9, Ends
  <2>2. PICK k \in Jobs : k = admin'[w]
    BY <2>1 DEF OnlyOf
  <2>3. Shaped(k) /\ ~Chooses(k) /\ k.pc = "idle"
    BY <2>1, <2>2, NothingTyped DEF Chooses
  <2>4. \A b \in Apps \ {a} : SameSockets(b) /\ NoNewCheckers(b) /\ SameFile(b)
    BY <1>4, <1>9, SameWhere DEF SameSockets, Streams
  <2>5. ASSUME a \notin mixed PROVE SoleServes(w, a)
    <3>1. Served(a)'
      BY <1>5, <1>6, <1>9, <2>5 DEF Served, Streams
    <3> QED
      BY <1>2, <1>4, <1>5, <1>6, <2>2, <2>3, <2>5, <3>1 DEF SoleServes
  <2>6. ASSUME a \notin disturbed PROVE SoleFiles(w, a)
    <3>1. Stream(a)
      BY <1>2, <1>5, <2>6 DEF StoredAs
    <3> QED
      BY <1>4, <1>5, <1>6, <2>2, <2>3, <2>6, <3>1 DEF SoleFiles
  <2>7. Handles(w, a, j, k)
    BY <1>2, <1>4, <1>9, <2>1, <2>2, <2>3, <2>4, <2>5, <2>6 DEF Handles
  <2> QED
    BY <2>7, HandlesKeeps
<1>10. ASSUME refused' = refused \ {a}, admin' = [admin EXCEPT ![w].pc = "register"], open' = open \cup {s}
       PROVE  Inv'
  <2>1. /\ OnlyOf(w) /\ admin'[w].pc = "register" /\ admin'[w].kind = j.kind
        /\ admin'[w].app = a /\ admin'[w].row = j.row
    <3>1. "register" \in Steps
      BY DEF Steps
    <3>2. /\ OnlyOf(w) /\ admin'[w].pc = "register" /\ admin'[w].kind = admin[w].kind
          /\ admin'[w].app = admin[w].app /\ admin'[w].row = admin[w].row
      BY <1>2, <1>10, <3>1, Goes
    <3> QED
      BY <1>2, <3>2
  <2>2. PICK k \in Jobs : k = admin'[w]
    BY <2>1 DEF OnlyOf
  <2>3. Shaped(k) /\ ~Chooses(k) /\ k.app = a
    BY <1>2, <1>3, <2>1, <2>2 DEF Shaped, Chooses
  <2>4. \A b \in Apps \ {a} : SameSockets(b) /\ NoNewCheckers(b) /\ SameFile(b)
    BY <1>4, <1>8, <1>10, SameWhere DEF SameSockets, Streams
  <2>5. ASSUME a \notin mixed PROVE SoleServes(w, a)
    <3>1. Streams(a)' = {s}
      BY <1>5, <1>8, <1>10, <2>5 DEF Streams
    <3>2. Serving(admin[w], a)' /\ Present(admin[w], a)'
      BY <1>5, <1>6, <1>7, <2>1, <2>5, <3>1 DEF Serving, Present, StoredAs, Socket
    <3> QED
      BY <1>2, <1>4, <1>5, <1>6, <2>1, <2>5, <3>2 DEF SoleServes
  <2>6. ASSUME a \notin disturbed PROVE SoleFiles(w, a)
    BY <1>4, <1>5, <2>1, <2>6 DEF SoleFiles, Filed
  <2>7. Handles(w, a, j, k)
    BY <1>2, <1>4, <1>10, <2>1, <2>2, <2>3, <2>4, <2>5, <2>6 DEF Handles
  <2> QED
    BY <2>7, HandlesKeeps
<1> QED
  BY <1>2, <1>7, <1>9, <1>10 DEF Listen

\* The proxy knows the socket; it forgets one it had of the same protocol.
LEMMA RegisterKeeps ==
    ASSUME Inv, NEW w \in Admins, Register(w)
    PROVE  Inv'
<1>1. admin[w].pc = "register"
  BY DEF Register
<1>2. PICK a \in Apps, j \in Jobs : Handling(w, a, j)
  BY <1>1, HandlesFrom
<1> USE DEF Handling
<1>3. j.pc = "register" /\ IsStream(j.row) /\ j.kind \in {"create", "update"}
  BY <1>1, <1>2 DEF Shaped
<1>4. UNCHANGED <<db, snapshot, auto, open, conf, checkers, requests, disturbed, mixed, raced, refused, restored>>
      /\ admin' = [admin EXCEPT ![w] = Idle]
  BY DEF Register, history
<1>5. PICK s : s = Socket(a, j.row)
  OBVIOUS
<1>6. s.app = a /\ s.scheme = j.row.scheme /\ s.port = j.row.backend
  BY <1>5 DEF Socket
<1>7. registered' = {t \in registered : t.app # s.app \/ t.scheme # s.scheme} \cup {s}
  BY <1>2, <1>5 DEF Register
<1>8. /\ a \notin mixed => /\ Streams(a) = {s} /\ StoredAs(a, j.row)
                           /\ Live(a) => a \in DOMAIN db
      /\ a \notin disturbed => a \in DOMAIN conf
  BY <1>2, <1>3, <1>5 DEF Serving, Unchecking, Filed
<1>9. /\ Stream(a)' <=> Stream(a)
      /\ Live(a)' <=> Live(a)
  BY <1>4, RowsStay DEF Live
<1>10. OnlyOf(w) /\ admin'[w] = Idle
  BY <1>2, <1>4, Ends
<1>11. PICK k \in Jobs : k = admin'[w]
  BY <1>10 DEF OnlyOf
<1>12. Shaped(k) /\ ~Chooses(k) /\ k.pc = "idle"
  BY <1>10, <1>11, NothingTyped DEF Chooses
<1>13. \A b \in Apps \ {a} : SameSockets(b) /\ NoNewCheckers(b) /\ SameFile(b)
  BY <1>4, <1>6, <1>7, SameWhere DEF SameSockets, Streams
<1>14. ASSUME a \notin mixed PROVE SoleServes(w, a)
  <2>1. Streams(a)' = {s} /\ s \in registered'
    BY <1>4, <1>7, <1>8, <1>14 DEF Streams
  <2>2. Stream(a)' /\ s.scheme = db'[a].scheme /\ s.port = db'[a].backend
    BY <1>4, <1>6, <1>8, <1>9, <1>14 DEF StoredAs
  <2>3. Served(a)'
    BY <2>1, <2>2 DEF Served
  <2> QED
    BY <1>2, <1>4, <1>8, <1>9, <1>11, <1>12, <1>14, <2>3 DEF SoleServes
<1>15. ASSUME a \notin disturbed PROVE SoleFiles(w, a)
  <2>1. Stream(a)
    BY <1>2, <1>8, <1>15 DEF StoredAs
  <2> QED
    BY <1>4, <1>8, <1>9, <1>11, <1>12, <1>15, <2>1 DEF SoleFiles
<1>16. Handles(w, a, j, k)
  BY <1>2, <1>4, <1>10, <1>11, <1>12, <1>13, <1>14, <1>15 DEF Handles
<1> QED
  BY <1>16, HandlesKeeps

\* The file of a deleted stream application is removed, or stays.
LEMMA RemoveConfKeeps ==
    ASSUME Inv, NEW w \in Admins, RemoveConf(w)
    PROVE  Inv'
<1>1. admin[w].pc = "unconf"
  BY DEF RemoveConf
<1>2. PICK a \in Apps, j \in Jobs : Handling(w, a, j)
  BY <1>1, HandlesFrom
<1> USE DEF Handling
<1>3. j.pc = "unconf" /\ j.kind = "delete"
  BY <1>1, <1>2 DEF Shaped
<1>4. UNCHANGED <<db, snapshot, auto, open, registered, checkers, requests, mixed, refused, raced, restored>>
      /\ admin' = [admin EXCEPT ![w] = Idle]
  BY DEF RemoveConf
<1>5. \/ conf' = Without(conf, a) /\ disturbed' = disturbed
      \/ disturbed' = disturbed \cup {a} /\ conf' = conf
  BY <1>2 DEF RemoveConf
<1>6. a \notin mixed => /\ Streams(a) = {} /\ ~Stream(a)
                        /\ Live(a) => a \in DOMAIN db
  BY <1>2, <1>3 DEF Serving, Unchecking
<1>7. /\ Stream(a)' <=> Stream(a)
      /\ Streams(a)' = Streams(a) /\ (Live(a)' <=> Live(a))
  BY <1>4, RowsStay DEF Streams, Live
<1>8. OnlyOf(w) /\ admin'[w] = Idle
  BY <1>2, <1>4, Ends
<1>9. PICK k \in Jobs : k = admin'[w]
  BY <1>8 DEF OnlyOf
<1>10. Shaped(k) /\ ~Chooses(k) /\ k.pc = "idle"
  BY <1>8, <1>9, NothingTyped DEF Chooses
<1>11. \A b \in Apps \ {a} : SameFile(b)
  BY <1>5 DEF SameFile, Without
<1>12. \A b \in Apps \ {a} : SameSockets(b) /\ NoNewCheckers(b) /\ SameFile(b)
  BY <1>4, <1>11, SameWhere
<1>13. ASSUME a \notin mixed PROVE SoleServes(w, a)
  <2>1. Served(a)'
    BY <1>6, <1>7, <1>13 DEF Served
  <2> QED
    BY <1>2, <1>4, <1>6, <1>7, <1>9, <1>10, <1>13, <2>1 DEF SoleServes
<1>14. ASSUME a \notin disturbed' PROVE SoleFiles(w, a)
  <2>1. a \notin DOMAIN conf' /\ ~Stream(a)
    BY <1>2, <1>5, <1>6, <1>14 DEF Without
  <2> QED
    BY <1>7, <1>9, <1>10, <2>1 DEF SoleFiles
<1>15. disturbed \subseteq disturbed'
  BY <1>5
<1>16. Handles(w, a, j, k)
  BY <1>2, <1>4, <1>8, <1>9, <1>10, <1>12, <1>13, <1>14, <1>15 DEF Handles
<1> QED
  BY <1>16, HandlesKeeps

\* The checker of an application is cancelled, and one started if it wants one.
LEMMA RestartHealthKeeps ==
    ASSUME Inv, NEW w \in Admins, RestartHealth(w)
    PROVE  Inv'
<1>1. admin[w].pc = "health"
  BY DEF RestartHealth
<1>2. PICK a \in Apps, j \in Jobs : Handling(w, a, j)
  BY <1>1, HandlesFrom
<1> USE DEF Handling
<1>3. j.pc = "health" /\ j.kind \in {"create", "update", "delete"}
  BY <1>1, <1>2 DEF Shaped, Jobs
<1>4. UNCHANGED <<db, snapshot, auto, open, registered, conf, requests, mixed, refused, raced, disturbed, restored>>
      /\ admin' = [admin EXCEPT ![w] = Idle]
  BY DEF RestartHealth, history
<1> DEFINE start == j.kind # "delete" /\ j.row.checked
<1>5. checkers' = IF j.kind = "create" /\ ~start THEN checkers
                  ELSE Cancel(a) \cup (IF start THEN {Checker(a)} ELSE {})
  BY <1>2 DEF RestartHealth
<1>6. a \notin mixed => /\ Streams(a) = {} /\ ~Stream(a)
                        /\ j.kind # "delete" => a \in DOMAIN db
                        /\ Live(a) => a \in DOMAIN db \/ j.kind = "delete"
  BY <1>2, <1>3 DEF Serving, Unchecking, Present
<1>7. Checker(a) \in CheckerStates /\ Checker(a).app = a
  BY CheckersTyped
<1>8. /\ Cancel(a) \subseteq CheckerStates
      /\ \A c \in Cancel(a) : IF c.app = a THEN ~c.live ELSE c \in checkers
  BY <1>2, Cancelled
<1>9. checkers' \subseteq CheckerStates
  BY <1>2, <1>5, <1>7, <1>8
<1>10. \A c \in checkers' : c.app # a => c \in checkers
  BY <1>5, <1>7, <1>8
<1>11. j.kind = "delete" => \A c \in checkers' : c.app = a => ~c.live
  BY <1>5, <1>8
<1> HIDE DEF start
<1>12. /\ Stream(a)' <=> Stream(a)
       /\ Streams(a)' = Streams(a)
  BY <1>4, RowsStay DEF Streams
<1>13. OnlyOf(w) /\ admin'[w] = Idle
  BY <1>2, <1>4, Ends
<1>14. PICK k \in Jobs : k = admin'[w]
  BY <1>13 DEF OnlyOf
<1>15. Shaped(k) /\ ~Chooses(k) /\ k.pc = "idle"
  BY <1>13, <1>14, NothingTyped DEF Chooses
<1>16. \A b \in Apps \ {a} : SameSockets(b) /\ NoNewCheckers(b) /\ SameFile(b)
  BY <1>4, <1>10, SameWhere DEF NoNewCheckers
<1>17. ASSUME a \notin mixed PROVE SoleServes(w, a)
  <2>1. Served(a)'
    BY <1>6, <1>12, <1>17 DEF Served
  <2>2. Live(a)' => a \in DOMAIN db'
    BY <1>4, <1>6, <1>11, <1>17 DEF Live
  <2> QED
    BY <1>6, <1>12, <1>14, <1>15, <1>17, <2>1, <2>2 DEF SoleServes
<1>18. ASSUME a \notin disturbed PROVE SoleFiles(w, a)
  <2>1. a \notin DOMAIN conf
    BY <1>2, <1>3, <1>18 DEF Filed
  <2> QED
    BY <1>2, <1>4, <1>6, <1>12, <1>14, <1>15, <1>18, <2>1 DEF SoleFiles
<1>19. Handles(w, a, j, k)
  BY <1>2, <1>4, <1>9, <1>13, <1>14, <1>15, <1>16, <1>17, <1>18 DEF Handles
<1> QED
  BY <1>19, HandlesKeeps

-----------------------------------------------------------------------------
(* Requests begin *)

\* A request begins at an application that is served as it is stored, or that another
\* request is working on.
LEMMA StartedKeeps ==
    ASSUME Inv, NEW w \in Admins, NEW a \in Apps, Started(w, a)
    PROVE  Inv'
<1>1. PICK pc \in {"backend", "write"}, kind \in {"create", "update", "delete", "toggle"}, row \in Rows :
        /\ pc = "backend" => IsStream(row) /\ kind \in {"create", "update"}
        /\ pc = "write" /\ kind \in {"create", "update"} => ~IsStream(row)
        /\ pc = "backend" => \E asked \in {0} \cup Ports : resolve(asked, Taken(a, "listen"), row.listen)
        /\ Begin(w, a, Job(pc, kind, a, row))
  BY Zenon DEF Started
<1>2. /\ TypeOK' /\ admin[w].pc = "idle" /\ OnlyOf(w)
      /\ admin'[w].pc = pc /\ admin'[w].kind = kind /\ admin'[w].app = a /\ admin'[w].row = row
      /\ UNCHANGED <<db, snapshot, auto, open, registered, conf, checkers, refused, raced, restored>>
      /\ disturbed \subseteq disturbed' /\ mixed \subseteq mixed'
      /\ \A v \in Admins : v # w /\ Working(v, a) => a \in mixed' /\ a \in disturbed'
  <2>1. TypeOK
    BY DEF Inv
  <2> QED
    BY <1>1, <2>1, Begun
<1>3. TypeOK /\ mixed \subseteq disturbed /\ mixed' \subseteq disturbed'
  BY <1>2 DEF Inv, TypeOK
<1>4. PICK k \in Jobs : k = admin'[w]
  BY <1>2 DEF OnlyOf
<1>5. k.pc = pc /\ k.kind = kind /\ k.app = a /\ k.row = row /\ k.pc # "idle"
  BY <1>2, <1>4
<1>6. \A b : Same(b)
  BY <1>2, SameWhere DEF Same
<1>7. ASSUME NEW b \in Apps \ {a} PROVE SameJobs(b)
  BY <1>2 DEF OnlyOf, SameJobs, Working
<1>8. ASSUME NEW b \in Apps \ {a}
      PROVE  /\ b \notin mixed' => AppInv(b)'
             /\ b \notin disturbed' => FileInv(b)'
  BY <1>2, <1>3, <1>6, <1>7, Undisturbed DEF Inv
<1>9. ASSUME a \notin mixed'
      PROVE  AppInv(a)' /\ (a \notin disturbed' => FileInv(a)')
  <2>1. \A v \in Admins : ~Working(v, a)
    BY <1>2, <1>9 DEF Working
  <2>2. AppInv(a)
    BY <1>2, <1>9 DEF Inv
  <2>3. Served(a) /\ (Live(a) => a \in DOMAIN db) /\ (\A c \in checkers : c.app = a => ~Stream(a))
    BY <2>1, <2>2 DEF AppInv
  <2>4. SameRow(a) /\ SameSockets(a) /\ (Stream(a)' <=> Stream(a)) /\ (Live(a)' <=> Live(a))
    BY <1>2, <1>6 DEF Same, SameRow, Live
  <2>5. Served(a)'
    BY <2>3, <2>4, ServedSame
  <2>6. Serving(admin[w], a)' /\ Present(admin[w], a)'
    BY <1>2, <2>5 DEF Serving, Present
  <2>7. SoleServes(w, a)
    BY <1>2, <2>3, <2>4, <2>6 DEF SoleServes
  <2>8. ASSUME a \notin disturbed' PROVE SoleFiles(w, a)
    <3>1. a \in DOMAIN conf <=> Stream(a)
      BY <1>2, <2>1, <2>8 DEF Inv, FileInv
    <3>2. Filed(admin[w], a)'
      BY <1>2, <2>4, <3>1 DEF Filed
    <3> QED
      BY <1>2, <3>2 DEF SoleFiles
  <2> QED
    BY <1>2, <1>3, <2>1, <2>2, <2>7, <2>8, SoleStep
<1>10. PortsInv'
  <2>1. ClashIsExplained'
    BY <1>2 DEF Inv, PortsInv, ClashIsExplained, IsStream
  <2>2. ASSUME NEW v \in Admins, Chooses(admin'[v]) PROVE Chosen(admin[v])'
    <3>1. CASE v = w
      <4>1. pc = "backend"
        BY <1>1, <1>2, <2>2, <3>1 DEF Chooses
      <4>2. PICK asked \in {0} \cup Ports : resolve(asked, Taken(a, "listen"), row.listen)
        BY <1>1, <4>1
      <4>3. row.listen \in Ports
        <5>1. CASE asked = 0
          <6>1. Ports \ Taken(a, "listen") # {} /\ row.listen = Free(Taken(a, "listen"))
            BY <4>2, <5>1 DEF resolve
          <6>2. Ports \ Taken(a, "listen") \subseteq Nat
            BY HostingAssumption
          <6>3. Free(Taken(a, "listen")) \in Ports \ Taken(a, "listen")
            BY <6>1, <6>2, Least DEF Free
          <6> QED
            BY <6>1, <6>3
        <5>2. CASE asked # 0
          BY <4>2, <5>2 DEF resolve
        <5> QED
          BY <5>1, <5>2
      <4>4. row.listen \notin Taken(a, "listen")
        BY <4>2, <4>3, NotTaken
      <4>5. \A b \in DOMAIN db \ {a} : IsStream(db[b]) => db[b].listen # row.listen
        BY <4>4 DEF Taken
      <4> QED
        BY <1>2, <3>1, <4>1, <4>5 DEF Chosen, IsStream
    <3>2. CASE v # w
      <4>1. admin'[v] = admin[v] /\ Chosen(admin[v])
        BY <1>2, <2>2, <3>2 DEF OnlyOf, Inv, PortsInv
      <4> QED
        BY <1>2, <4>1 DEF Chosen, Overtaking, IsStream
    <3> QED
      BY <3>1, <3>2
  <2> QED
    BY <2>1, <2>2 DEF PortsInv, Chooses, IsStream
<1>11. (\A b \in Apps : b \notin mixed => AppInv(b))'
  BY <1>8, <1>9
<1>12. (\A b \in Apps : b \notin disturbed => FileInv(b))'
  BY <1>3, <1>8, <1>9
<1> QED
  BY <1>2, <1>10, <1>11, <1>12 DEF Inv

-----------------------------------------------------------------------------
(* The ticker, the health checkers and a restart *)

\* The reload ticker has nothing to do with what serves the applications.
LEMMA AutoReloadKeeps ==
    ASSUME Inv, autoReload
    PROVE  Inv'
<1>1. TypeOK /\ UNCHANGED <<db, admin, open, registered, conf, checkers, requests, history>>
  BY DEF Inv, autoReload
<1>2. snapshot' \in Lists /\ auto'.list \in Lists
  BY <1>1, NothingTyped DEF autoReload, TypeOK, NoReload, Store
<1>3. TypeOK'
  BY <1>1, <1>2 DEF TypeOK, Shaped, IsStream, history
<1>4. \A b : Same(b)
  BY <1>1, SameWhere DEF Same, history
<1>5. PortsInv'
  <2>1. SamePorts /\ restored \subseteq restored' /\ raced \subseteq raced'
        /\ \A w \in Admins : Chooses(admin'[w]) => admin'[w] = admin[w]
    BY <1>1 DEF SamePorts, history
  <2> QED
    BY <2>1, PortsKept DEF Inv
<1> QED
  BY <1>1, <1>3, <1>4, <1>5, NoneKeeps DEF history

\* A health check begins or returns: no row, no socket and no file changes, and a checker
\* stays a checker of its application.
LEMMA ChecksKeep ==
    ASSUME Inv, UNCHANGED <<db, snapshot, auto, admin, open, registered, conf, requests, history>>,
           checkers' \subseteq CheckerStates,
           \A c \in checkers' : \E d \in checkers : d.app = c.app /\ (c.live => d.live)
    PROVE  Inv'
<1>1. TypeOK'
  BY DEF Inv, TypeOK, Shaped, IsStream, history
<1>2. \A b : Same(b)
  BY SameWhere DEF Same, NoNewCheckers, history
<1>3. PortsInv'
  <2>1. SamePorts /\ restored \subseteq restored' /\ raced \subseteq raced'
        /\ \A w \in Admins : Chooses(admin'[w]) => admin'[w] = admin[w]
    BY DEF SamePorts, history
  <2> QED
    BY <2>1, PortsKept DEF Inv
<1> QED
  BY <1>1, <1>2, <1>3, NoneKeeps DEF history

\* A checker that goes on is a checker of the same application.
LEMMA CheckersGo ==
    ASSUME NEW c \in CheckerStates, NEW row \in Rows, NEW pc \in {"wait", "check"}
    PROVE  \E d \in CheckerStates : d = [c EXCEPT !.pc = pc, !.copy = row] /\ d.app = c.app /\ d.live = c.live
<1> DEFINE d == [c EXCEPT !.pc = pc, !.copy = row]
<1>1. d \in CheckerStates
  BY DEF CheckerStates
<1>2. d.app = c.app /\ d.live = c.live
  BY DEF CheckerStates
<1> HIDE DEF d
<1> QED
  BY <1>1, <1>2 DEF d

\* An application is looked up by its checker.
LEMMA CheckBeginKeeps ==
    ASSUME Inv, NEW c \in checkers, CheckBegin(c)
    PROVE  Inv'
<1>1. TypeOK /\ c \in CheckerStates /\ checkers \subseteq CheckerStates /\ Known(c.app) /\ c.app \in Apps
  BY DEF Inv, TypeOK, CheckBegin, CheckerStates
<1>2. PICK row \in Rows : row = GetApp(c.app)
  BY <1>1, RowsTyped
<1>3. PICK d \in CheckerStates : d = [c EXCEPT !.pc = "check", !.copy = row] /\ d.app = c.app /\ d.live = c.live
  BY <1>1, CheckersGo
<1>4. checkers' \subseteq checkers \cup {d}
  <2>1. d = [c EXCEPT !.pc = "check", !.copy = GetApp(c.app)]
    BY <1>2, <1>3
  <2> QED
    BY <2>1, Zenon DEF CheckBegin
<1>5. checkers' \subseteq CheckerStates
  BY <1>1, <1>4
<1>6. \A e \in checkers' : \E f \in checkers : f.app = e.app /\ (e.live => f.live)
  BY <1>3, <1>4
<1> QED
  BY <1>5, <1>6, ChecksKeep DEF CheckBegin

\* A checker returns.
LEMMA CheckReturnKeeps ==
    ASSUME Inv, NEW c \in checkers, CheckReturn(c)
    PROVE  Inv'
<1>1. checkers \subseteq CheckerStates /\ checkers' \subseteq checkers
  BY DEF Inv, TypeOK, CheckReturn
<1>2. checkers' \subseteq CheckerStates
  BY <1>1
<1>3. \A e \in checkers' : \E f \in checkers : f.app = e.app /\ (e.live => f.live)
  BY <1>1
<1> QED
  BY <1>2, <1>3, ChecksKeep DEF CheckReturn

\* A checker writes back what it looked up: as long as the application has not been
\* mixed up, both are HTTP.
LEMMA CheckEndKeeps ==
    ASSUME Inv, NEW c \in checkers, NEW changed \in BOOLEAN, CheckEnd(c, changed)
    PROVE  Inv'
<1>1. TypeOK /\ c \in CheckerStates /\ checkers \subseteq CheckerStates
      /\ UNCHANGED <<snapshot, auto, admin, open, registered, conf, requests, refused, raced>>
  BY DEF Inv, TypeOK, CheckEnd
<1>2. PICK a \in Apps : a = c.app
  BY <1>1 DEF CheckerStates
<1>3. PICK copy \in Rows : copy = c.copy
  BY <1>1 DEF CheckerStates
<1>4. PICK d \in CheckerStates : d = [c EXCEPT !.pc = "wait", !.copy = NoRow] /\ d.app = a /\ d.live = c.live
  <2>1. PICK row \in Rows : row = NoRow
    BY NothingTyped
  <2>2. PICK d \in CheckerStates : d = [c EXCEPT !.pc = "wait", !.copy = row] /\ d.app = c.app /\ d.live = c.live
    BY <1>1, CheckersGo
  <2> QED
    BY <1>2, <2>1, <2>2
<1>5. checkers' = (checkers \ {c}) \cup {d}
  BY <1>4 DEF CheckEnd
<1>6. checkers' \subseteq CheckerStates /\ \A b : NoNewCheckers(b)
  BY <1>1, <1>2, <1>4, <1>5 DEF NoNewCheckers
<1> DEFINE written == changed /\ a \in DOMAIN db
           switch == IF changed /\ c.app \in DOMAIN db /\ IsStream(db[c.app]) # IsStream(c.copy)
                     THEN {c.app} ELSE {}
           ports(row) == <<IsStream(row), row.listen, row.backend>>
           back == IF written /\ IsStream(copy) /\ ports(copy) # ports(db[a]) THEN {a} ELSE {}
<1>7. /\ disturbed' = disturbed \cup switch /\ mixed' = mixed \cup switch
      /\ restored' = restored \cup back
  BY <1>2, <1>3 DEF CheckEnd
<1>8. CASE ~written
  <2>1. db' = db /\ disturbed' = disturbed /\ mixed' = mixed /\ restored' = restored
    BY <1>2, <1>3, <1>7, <1>8 DEF CheckEnd
  <2>2. UNCHANGED <<db, snapshot, auto, admin, open, registered, conf, requests, history>>
    BY <1>1, <2>1 DEF history
  <2>3. \A e \in checkers' : \E f \in checkers : f.app = e.app /\ (e.live => f.live)
    BY <1>2, <1>4, <1>5
  <2> QED
    BY <1>6, <2>2, <2>3, ChecksKeep
<1>9. CASE written
  <2>1. PICK old \in Rows : old = db[a]
    BY <1>1, <1>9, RowsTyped
  <2>2. PICK x \in BOOLEAN : x = old.attack
    BY RowsChanged
  <2>3. PICK new \in Rows : new = [copy EXCEPT !.attack = x] /\ new.scheme = copy.scheme
    BY RowsChanged
  <2>4. db' = [db EXCEPT ![a] = new]
    BY <1>2, <1>3, <1>9, <2>1, <2>2, <2>3 DEF CheckEnd
  <2>5. db \in [DOMAIN db -> Rows] /\ db \in Lists
    BY <1>1, ListsAreTables DEF TypeOK
  <2>6. DOMAIN db' = DOMAIN db /\ db'[a] = new /\ \A b \in DOMAIN db : b # a => db'[b] = db[b]
    BY <1>9, <2>4, <2>5
  <2>7. db' \in Lists
    BY <1>9, <2>4, <2>5, TablesChanged
  <2>8. IsStream(db[a]) # IsStream(copy) => a \in mixed' /\ a \in disturbed'
    BY <1>2, <1>3, <1>7, <1>9
  <2>9. disturbed \subseteq disturbed' /\ mixed \subseteq mixed'
    BY <1>7
  <2>10. mixed' \subseteq disturbed'
    BY <1>1, <1>7 DEF TypeOK
  <2> HIDE DEF switch
  <2>11. IsStream(new) <=> IsStream(copy)
    BY <2>3 DEF IsStream
  <2>12. a \notin mixed => ~Stream(a)
    BY <1>2 DEF Inv, AppInv
  <2>13. a \notin mixed' => ~Stream(a) /\ ~Stream(a)'
    <3>1. ASSUME a \notin mixed' PROVE ~IsStream(db[a]) /\ ~IsStream(new)
      BY <1>9, <2>8, <2>9, <2>11, <2>12, <3>1 DEF Stream, IsStream
    <3> QED
      BY <2>6, <2>9, <2>12, <3>1 DEF Stream, IsStream
  <2>14. ASSUME NEW b \in Apps, b \notin mixed' PROVE SameRow(b)
    <3>1. CASE b = a
      BY <2>6, <2>13, <2>14, <3>1 DEF SameRow
    <3>2. CASE b # a
      BY <2>6, <3>2 DEF SameRow, Stream, IsStream
    <3> QED
      BY <3>1, <3>2
  <2>15. \A b \in Apps : b \notin mixed' => Same(b)
    BY <1>1, <1>6, <2>14, SameWhere DEF Same
  <2>16. SamePorts
    <3>1. /\ new.listen = copy.listen /\ new.backend = copy.backend
      BY <2>3 DEF Rows
    <3>2. IsStream(new) /\ a \notin restored' => ports(copy) = ports(db[a])
      BY <1>7, <1>9, <2>11
    <3>3. IsStream(new) /\ a \notin restored' =>
            IsStream(db[a]) /\ new.listen = db[a].listen /\ new.backend = db[a].backend
      BY <2>11, <3>1, <3>2
    <3> QED
      BY <1>9, <2>6, <3>3 DEF SamePorts
  <2>17. PortsInv'
    <3>1. /\ raced \subseteq raced' /\ restored \subseteq restored'
          /\ \A w \in Admins : Chooses(admin'[w]) => admin'[w] = admin[w]
      BY <1>1, <1>7
    <3> QED
      BY <2>9, <2>16, <3>1, PortsKept DEF Inv
  <2>18. TypeOK'
    BY <1>1, <1>6, <2>7, <2>10 DEF TypeOK, Shaped, IsStream
  <2> QED
    BY <1>1, <2>9, <2>15, <2>17, <2>18, NoneKeeps
<1> QED
  BY <1>8, <1>9

\* The sockets and checkers of a table.
LEMMA TableServed ==
    ASSUME NEW table \in Lists, NEW up, up \subseteq {a \in DOMAIN table : IsStream(table[a])},
           NEW a \in Apps
    PROVE  /\ {s \in {Socket(b, table[b]) : b \in up} : s.app = a} =
                IF a \in up THEN {Socket(a, table[a])} ELSE {}
           /\ \A c \in Checkers(table) : /\ c \in CheckerStates
                                         /\ c.app = a => a \in DOMAIN table /\ ~IsStream(table[a])
<1>1. DOMAIN table \subseteq Apps
  BY ListsAreTables
<1>2. {s \in {Socket(b, table[b]) : b \in up} : s.app = a} = IF a \in up THEN {Socket(a, table[a])} ELSE {}
  <2>1. \A b : Socket(b, table[b]).app = b
    BY DEF Socket
  <2> QED
    BY <2>1
<1>3. \A c \in Checkers(table) : /\ c \in CheckerStates
                                 /\ c.app = a => a \in DOMAIN table /\ ~IsStream(table[a])
  BY <1>1, CheckersTyped DEF Checkers
<1> QED
  BY <1>2, <1>3

\* The process starts again with the table and the files.
LEMMA RestartKeeps ==
    ASSUME Inv, Restart
    PROVE  Inv'
<1> DEFINE streams == {a \in DOMAIN db : IsStream(db[a])}
           cut == {admin[w].app : w \in {v \in Admins : admin[v].pc # "idle"}}
<1>1. TypeOK /\ db \in Lists /\ mixed \subseteq disturbed
  BY DEF Inv, TypeOK
<1>2. PICK up \in SUBSET DOMAIN db : StartUp(db, up)
  BY DEF Restart
<1>3. /\ up \subseteq streams
      /\ open' = {Socket(a, db[a]) : a \in up} /\ registered' = open'
      /\ checkers' = Checkers(db) /\ refused' = streams \ up /\ snapshot' = db
  BY <1>2 DEF StartUp, Sockets
<1>4. /\ admin' = [w \in Admins |-> Idle] /\ auto' = NoReload
      /\ disturbed' = disturbed \cup cut /\ mixed' = {} /\ db' = db /\ conf' = conf /\ raced' = raced /\ restored' = restored
  BY DEF Restart
<1>5. \A w \in Admins : admin'[w] = Idle /\ admin'[w].pc = "idle"
  BY <1>4, NothingTyped
<1>6. TypeOK'
  <2>1. admin' \in [Admins -> Jobs] /\ \A w \in Admins : Shaped(Idle)
    BY <1>4, NothingTyped
  <2>2. \A w \in Admins : Shaped(admin[w])'
    BY <1>5, <2>1 DEF Shaped, IsStream
  <2>3. checkers' \subseteq CheckerStates
    <3>1. ASSUME NEW c \in Checkers(db) PROVE c \in CheckerStates
      BY <1>1, ListsAreTables, CheckersTyped DEF Checkers
    <3> QED
      BY <1>3, <3>1
  <2>4. auto'.list \in Lists
    BY <1>4, NothingTyped DEF NoReload
  <2> QED
    BY <1>1, <1>3, <1>4, <2>1, <2>2, <2>3, <2>4 DEF TypeOK
<1>7. ASSUME NEW a \in Apps PROVE AppInv(a)'
  <2>1. Streams(a)' = IF a \in up THEN {Socket(a, db[a])} ELSE {}
    BY <1>1, <1>3, TableServed DEF Streams
  <2>2. \A c \in checkers' : c.app = a => a \in DOMAIN db /\ ~IsStream(db[a])
    BY <1>1, <1>3, TableServed
  <2>3. Stream(a)' <=> a \in streams
    BY <1>4 DEF Stream, IsStream
  <2>4. Served(a)'
    <3>1. CASE a \in up
      <4>1. PICK s : s = Socket(a, db[a])
        OBVIOUS
      <4>2. s.scheme = db[a].scheme /\ s.port = db[a].backend
        BY <4>1 DEF Socket
      <4>3. s \in registered' /\ Streams(a)' = {s}
        BY <1>3, <2>1, <3>1, <4>1
      <4> QED
        BY <1>3, <1>4, <2>3, <3>1, <4>2, <4>3 DEF Served
    <3>2. CASE a \notin up
      BY <1>3, <2>1, <2>3, <3>2 DEF Served
    <3> QED
      BY <3>1, <3>2
  <2>5. \A w \in Admins : ~Working(w, a)'
    BY <1>5 DEF Working
  <2> HIDE DEF streams
  <2>6. (\A c \in checkers : c.app = a => ~Stream(a))'
    BY <1>4, <2>2 DEF Stream, IsStream
  <2>7. (Live(a) => a \in DOMAIN db)'
    BY <1>4, <2>2 DEF Live
  <2> QED
    BY <2>4, <2>5, <2>6, <2>7 DEF AppInv
<1>8. ASSUME NEW a \in Apps, a \notin disturbed' PROVE FileInv(a)'
  <2>1. \A w \in Admins : ~Working(w, a)
    BY <1>4, <1>8 DEF Working
  <2>2. a \in DOMAIN conf <=> Stream(a)
    BY <1>4, <1>8, <2>1 DEF Inv, FileInv
  <2>3. \A w \in Admins : ~Working(w, a)'
    BY <1>5 DEF Working
  <2> QED
    BY <1>4, <2>2, <2>3 DEF FileInv, Stream, IsStream
<1>9. PortsInv'
  <2>1. SamePorts /\ restored \subseteq restored' /\ raced \subseteq raced'
    BY <1>4 DEF SamePorts
  <2>2. \A w \in Admins : Chooses(admin'[w]) => admin'[w] = admin[w]
    BY <1>5 DEF Chooses
  <2> QED
    BY <2>1, <2>2, PortsKept DEF Inv
<1> QED
  BY <1>6, <1>7, <1>8, <1>9 DEF Inv

-----------------------------------------------------------------------------
(* The theorems *)

\* The program starts with every stream application at its ports and with its file.
LEMMA InvAtStart == Init => Inv
<1> SUFFICES ASSUME Init PROVE Inv
  OBVIOUS
<1> DEFINE streams == {a \in DOMAIN db : IsStream(db[a])}
<1>1. db \in Tables /\ db \in [DOMAIN db -> Rows] /\ DOMAIN db \subseteq Apps /\ db \in Lists
  BY HostingAssumption, ListsAreTables DEF Init
<1>2. /\ snapshot = db /\ open = {Socket(a, db[a]) : a \in streams} /\ registered = open
      /\ DOMAIN conf = streams /\ checkers = Checkers(db) /\ auto = NoReload
      /\ admin = [w \in Admins |-> Idle]
      /\ disturbed = {} /\ mixed = {} /\ refused = {} /\ raced = {} /\ restored = {}
  BY DEF Init
<1>3. \A w \in Admins : admin[w] = Idle /\ admin[w].pc = "idle" /\ \A a : ~Working(w, a)
  BY <1>2, NothingTyped DEF Working
<1>4. TypeOK
  <2>1. admin \in [Admins -> Jobs] /\ \A w \in Admins : Shaped(admin[w])
    BY <1>2, <1>3, NothingTyped
  <2>2. checkers \subseteq CheckerStates
    <3>1. ASSUME NEW c \in Checkers(db) PROVE c \in CheckerStates
      BY <1>1, CheckersTyped DEF Checkers
    <3> QED
      BY <1>2, <3>1
  <2>3. auto.list \in Lists
    BY <1>2, NothingTyped DEF NoReload
  <2> QED
    BY <1>1, <1>2, <2>1, <2>2, <2>3 DEF TypeOK
<1>5. ASSUME NEW a \in Apps PROVE AppInv(a) /\ FileInv(a)
  <2>1. Streams(a) = IF a \in streams THEN {Socket(a, db[a])} ELSE {}
    <3>1. PICK up : up = streams
      OBVIOUS
    <3>2. up \subseteq {b \in DOMAIN db : IsStream(db[b])} /\ open = {Socket(b, db[b]) : b \in up}
      BY <1>2, <3>1
    <3>3. {s \in {Socket(b, db[b]) : b \in up} : s.app = a} = IF a \in up THEN {Socket(a, db[a])} ELSE {}
      BY <1>1, <3>2, TableServed
    <3> QED
      BY <3>1, <3>2, <3>3 DEF Streams
  <2>2. \A c \in checkers : c.app = a => a \in DOMAIN db /\ ~IsStream(db[a])
    BY <1>1, <1>2, TableServed
  <2>3. Stream(a) <=> a \in streams
    BY DEF Stream
  <2>4. Served(a)
    <3>1. CASE a \in streams
      <4>1. PICK s : s = Socket(a, db[a])
        OBVIOUS
      <4>2. s.scheme = db[a].scheme /\ s.port = db[a].backend
        BY <4>1 DEF Socket
      <4>3. s \in registered /\ Streams(a) = {s}
        BY <1>2, <2>1, <3>1, <4>1
      <4> QED
        BY <2>3, <3>1, <4>2, <4>3 DEF Served
    <3>2. CASE a \notin streams
      BY <2>1, <2>3, <3>2 DEF Served
    <3> QED
      BY <3>1, <3>2
  <2>5. (\A c \in checkers : c.app = a => ~Stream(a)) /\ (Live(a) => a \in DOMAIN db)
    BY <2>2 DEF Live, Stream
  <2>6. AppInv(a)
    BY <1>3, <2>4, <2>5 DEF AppInv
  <2>7. FileInv(a)
    BY <1>2, <1>3, <2>3 DEF FileInv
  <2> QED
    BY <2>6, <2>7
<1>6. PortsInv
  <2>1. ClashIsExplained
    <3> SUFFICES ASSUME NEW a \in DOMAIN db, NEW b \in DOMAIN db, a # b, IsStream(db[a]), IsStream(db[b])
                 PROVE  db[a].listen # db[b].listen /\ db[a].backend # db[b].backend
      BY DEF ClashIsExplained
    <3>1. {db[a].scheme, db[b].scheme} \subseteq {"tcp", "udp"}
      BY DEF IsStream
    <3> QED
      BY <1>1, <3>1, HostingAssumption
  <2>2. \A w \in Admins : ~Chooses(admin[w])
    BY <1>3 DEF Chooses
  <2> QED
    BY <2>1, <2>2 DEF PortsInv
<1> QED
  BY <1>4, <1>5, <1>6 DEF Inv

\* Every step keeps the invariant.
LEMMA InvKept == Inv /\ [Next]_vars => Inv'
<1> SUFFICES ASSUME Inv, [Next]_vars PROVE Inv'
  OBVIOUS
<1>1. ASSUME NEW w \in Admins, Continue(w) PROVE Inv'
  <2>1. CASE ResolveBackend(w)
    BY <2>1, ResolveBackendKeeps
  <2>2. CASE WriteRow(w)
    BY <2>2, WriteRowKeeps
  <2>3. CASE ReloadList(w)
    BY <2>3, ReloadListKeeps
  <2>4. CASE ReloadStore(w)
    BY <2>4, ReloadStoreKeeps
  <2>5. CASE StopStream(w)
    BY <2>5, StopStreamKeeps
  <2>6. CASE GenerateConf(w)
    BY <2>6, GenerateConfKeeps
  <2>7. CASE Listen(w)
    BY <2>7, ListenKeeps
  <2>8. CASE Register(w)
    BY <2>8, RegisterKeeps
  <2>9. CASE RemoveConf(w)
    BY <2>9, RemoveConfKeeps
  <2>10. CASE RestartHealth(w)
    BY <2>10, RestartHealthKeeps
  <2> QED
    BY <1>1, <2>1, <2>2, <2>3, <2>4, <2>5, <2>6, <2>7, <2>8, <2>9, <2>10 DEF Continue
<1>2. ASSUME NEW w \in Admins, NEW a \in Apps,
             \/ \E kind \in {"create", "update"}, form \in Forms : SubmitApp(w, a, kind, form)
             \/ DeleteApp(w, a)
             \/ \E enabled \in BOOLEAN : ToggleUnderAttackMode(w, a, enabled)
      PROVE  Inv'
  <2>1. TypeOK
    BY DEF Inv
  <2>2. Started(w, a)
    BY <1>2, <2>1, StartsAre
  <2> QED
    BY <2>2, StartedKeeps
<1>3. ASSUME HealthCheck PROVE Inv'
  <2>1. PICK c \in checkers : CheckBegin(c) \/ CheckReturn(c) \/ \E changed \in BOOLEAN : CheckEnd(c, changed)
    BY <1>3 DEF HealthCheck
  <2> QED
    BY <2>1, CheckBeginKeeps, CheckReturnKeeps, CheckEndKeeps
<1>4. ASSUME UNCHANGED vars PROVE Inv'
  <2>1. UNCHANGED <<db, snapshot, auto, admin, open, registered, conf, requests, history>>
        /\ checkers' = checkers
    BY <1>4 DEF vars, history
  <2>2. checkers' \subseteq CheckerStates
        /\ \A c \in checkers' : \E d \in checkers : d.app = c.app /\ (c.live => d.live)
    BY <2>1 DEF Inv, TypeOK
  <2> QED
    BY <2>1, <2>2, ChecksKeep
<1> QED
  BY <1>1, <1>2, <1>3, <1>4, AutoReloadKeeps, RestartKeeps DEF Next

\* The invariant holds throughout.
LEMMA InvHolds == Spec => []Inv
<1>1. Init => Inv
  BY InvAtStart
<1>2. Inv /\ [Next]_vars => Inv'
  BY InvKept
<1> QED
  BY <1>1, <1>2, PTL DEF Spec

\* An application that was worked on by one request at a time, and not switched between
\* HTTP and stream, is served as it is stored when the request is over, for any number of
\* applications, administrators and ports (AppService, Proxy, HealthCheckService).
THEOREM ServedAsTheyAreStored == Spec => []ServedAsStored
<1>1. Inv => ServedAsStored
  <2> SUFFICES ASSUME Inv, NEW a \in Apps, Quiet(a), a \notin mixed
               PROVE  /\ IF a \in DOMAIN db /\ IsStream(db[a])
                         THEN \/ a \in refused /\ Streams(a) = {}
                              \/ \E s \in registered : /\ Streams(a) = {s}
                                                       /\ s.scheme = db[a].scheme /\ s.port = db[a].backend
                         ELSE Streams(a) = {}
                      /\ (\E c \in checkers : c.app = a /\ c.live) => a \in DOMAIN db /\ ~IsStream(db[a])
    BY DEF ServedAsStored
  <2>1. AppInv(a) /\ \A w \in Admins : ~Working(w, a)
    BY DEF Inv, Quiet, Working
  <2>2. Served(a) /\ (Live(a) => a \in DOMAIN db) /\ (\A c \in checkers : c.app = a => ~Stream(a))
    BY <2>1 DEF AppInv
  <2> QED
    BY <2>2 DEF Served, Live, Stream
<1> QED
  BY <1>1, InvHolds, PTL

\* Its nginx file is there exactly while it is a stream application (NginxManager).
THEOREM FilesAreThereForStreams == Spec => []FilesFollowRows
<1>1. Inv => FilesFollowRows
  BY DEF Inv, FileInv, FilesFollowRows, Quiet, Working, Stream
<1> QED
  BY <1>1, InvHolds, PTL

\* Two stream applications have a port in common only if requests of these two looked for
\* ports at the same time, or if one of them is where a checker that wrote old ports back put
\* it, for any number of requests, checkers and restarts (findAvailablePort,
\* checkPortConflict, HealthCheckService.run).
THEOREM PortClashesAreExplained == Spec => []ClashIsExplained
<1>1. Inv => ClashIsExplained
  BY DEF Inv, PortsInv
<1> QED
  BY <1>1, InvHolds, PTL

-----------------------------------------------------------------------------
(* The snapshot approaches the table *)

\* Requests whose reload read the table before its last change and has not stored yet.
Overtaken == {w \in Admins : admin[w].pc = "store" /\ admin[w].list # db}

\* Steps of the ticker's reload until the snapshot is the table, if no request stores.
Lag == IF auto.pc = "store" /\ auto.list # db THEN 3
       ELSE IF snapshot = db THEN 0
       ELSE IF auto.pc = "store" THEN 1 ELSE 2

\* While the table stays as it is, no reload becomes overtaken; the snapshot falls behind
\* further only as one that was overtaken stores, and the ticker's reload brings it nearer.
Approaches ==
    db' = db =>
        /\ Overtaken' \subseteq Overtaken
        /\ Lag' > Lag => Overtaken' # Overtaken
        /\ autoReload => Lag' < Lag \/ Lag' = 0

\* A request that goes on, but not to a store.
LEMMA NotStoring ==
    ASSUME NEW w \in Admins, OnlyOf(w), admin'[w].pc # "store",
           UNCHANGED <<db, auto, snapshot>>, ~autoReload
    PROVE  Approaches
<1>1. Overtaken' \subseteq Overtaken
  BY DEF Overtaken, OnlyOf
<1>2. Lag' = Lag /\ Lag \in 0..3
  BY DEF Lag
<1> QED
  BY <1>1, <1>2 DEF Approaches

\* A request that reads the table.
LEMMA RequestsApproach ==
    ASSUME TypeOK, NEW w \in Admins, NEW j,
           admin' = [admin EXCEPT ![w] = j], j.list = db,
           UNCHANGED <<db, auto, snapshot>>, ~autoReload
    PROVE  Approaches
<1>1. \A v \in Admins : admin'[v] = IF v = w THEN j ELSE admin[v]
  BY DEF TypeOK
<1>2. Overtaken' \subseteq Overtaken
  BY <1>1 DEF Overtaken
<1>3. Lag' = Lag /\ Lag \in 0..3
  BY DEF Lag
<1> QED
  BY <1>2, <1>3 DEF Approaches

\* The steps of a request that only send it on, or end it.
LEMMA MovesOn ==
    ASSUME TypeOK, NEW w \in Admins,
           \/ ResolveBackend(w) \/ WriteRow(w) \/ StopStream(w) \/ GenerateConf(w) \/ Listen(w)
           \/ Register(w) \/ RemoveConf(w) \/ RestartHealth(w)
    PROVE  OnlyOf(w) /\ admin'[w].pc # "store"
<1>1. admin \in [Admins -> Jobs]
  BY DEF TypeOK
<1>2. CASE admin' = [admin EXCEPT ![w] = Idle]
  BY <1>1, <1>2, Ends, NothingTyped
<1>3. CASE \E pc \in {"list", "unconf", "conf", "bind", "register"} : admin' = [admin EXCEPT ![w].pc = pc]
  <2>1. PICK pc \in {"list", "unconf", "conf", "bind", "register"} : admin' = [admin EXCEPT ![w].pc = pc]
    BY <1>3
  <2>2. pc \in Steps
    BY DEF Steps
  <2> QED
    BY <1>1, <2>1, <2>2, Goes
<1>4. ASSUME NEW p \in Ports, admin' = [admin EXCEPT ![w].pc = "write", ![w].row.backend = p]
      PROVE  OnlyOf(w) /\ admin'[w].pc # "store"
  <2> DEFINE k == [admin[w] EXCEPT !.pc = "write", !.row.backend = p]
  <2>1. [admin[w].row EXCEPT !.backend = p] \in Rows
    BY <1>1, RowsChanged DEF Jobs
  <2>2. k \in Jobs /\ k.pc = "write"
    BY <1>1, <2>1 DEF Jobs, Steps
  <2>3. admin' = [admin EXCEPT ![w] = k]
    BY <1>1, <1>4
  <2> QED
    BY <1>1, <2>2, <2>3 DEF OnlyOf
<1>5. CASE ResolveBackend(w)
  BY <1>2, <1>4, <1>5 DEF ResolveBackend
<1>6. CASE StopStream(w)
  BY <1>3, <1>6 DEF StopStream
<1> QED
  BY <1>2, <1>3, <1>5, <1>6 DEF WriteRow, GenerateConf, Listen, Register, RemoveConf, RestartHealth

\* The beginning of a request.
LEMMA BeginsElsewhere ==
    ASSUME TypeOK, NEW w \in Admins, NEW a \in Apps, Started(w, a)
    PROVE  /\ UNCHANGED <<db, auto, snapshot>> /\ ~autoReload
           /\ OnlyOf(w) /\ admin'[w].pc # "store"
<1>1. PICK pc \in {"backend", "write"}, kind \in {"create", "update", "delete", "toggle"}, row \in Rows :
        Begin(w, a, Job(pc, kind, a, row))
  BY DEF Started
<1>2. Job(pc, kind, a, row) \in Jobs /\ Job(pc, kind, a, row).pc = pc
  BY NothingTyped DEF Job, Jobs, Steps
<1>3. admin' = [admin EXCEPT ![w] = Job(pc, kind, a, row)] /\ UNCHANGED <<db, auto, snapshot>>
  BY <1>1 DEF Begin
<1>4. ~autoReload
  BY <1>3 DEF autoReload, NoReload
<1> QED
  BY <1>2, <1>3, <1>4 DEF OnlyOf, TypeOK

\* A step that touches neither the table nor a reload.
LEMMA NothingReloaded ==
    ASSUME UNCHANGED <<db, auto, admin, snapshot>>, ~autoReload
    PROVE  Approaches
<1>1. Overtaken' = Overtaken /\ Lag' = Lag
  BY DEF Overtaken, Lag
<1>2. Lag \in 0..3
  BY DEF Lag
<1> QED
  BY <1>1, <1>2 DEF Approaches

\* A request whose reload is over.
LEMMA GoesOnFromReload ==
    ASSUME TypeOK, NEW w \in Admins, admin[w].pc \in {"list", "store"},
           admin' = [admin EXCEPT ![w] = AfterReload(@)]
    PROVE  OnlyOf(w) /\ admin'[w].pc # "store"
<1>1. \/ admin'[w] = Idle
      \/ admin'[w].pc \in {"health", "conf", "stop"}
  BY Reloaded
<1>2. OnlyOf(w)
  BY Reloaded
<1> QED
  BY <1>1, <1>2, NothingTyped

\* A request that stores its list: an overtaken one may set the snapshot back, and is done.
LEMMA StoreApproaches ==
    ASSUME TypeOK, NEW w \in Admins, ReloadStore(w)
    PROVE  Approaches
<1> SUFFICES ASSUME db' = db
        PROVE  /\ Overtaken' \subseteq Overtaken
               /\ Lag' > Lag => Overtaken' # Overtaken
               /\ autoReload => Lag' < Lag \/ Lag' = 0
  BY DEF Approaches
<1>1. /\ admin[w].pc = "store" /\ snapshot' = admin[w].list /\ auto' = auto
      /\ admin' = [admin EXCEPT ![w] = AfterReload(@)]
  BY DEF ReloadStore, Store
<1>2. OnlyOf(w) /\ admin'[w].pc # "store"
  BY <1>1, GoesOnFromReload
<1>3. Overtaken' = Overtaken \ {w}
  BY <1>2 DEF Overtaken, OnlyOf
<1>4. ~autoReload
  BY <1>1 DEF autoReload, NoReload
<1>5. CASE w \in Overtaken
  BY <1>3, <1>4, <1>5
<1>6. CASE w \notin Overtaken
  <2>1. snapshot' = db
    BY <1>1, <1>6 DEF Overtaken
  <2>2. Lag' = Lag \/ Lag' = 0
    BY <1>1, <2>1 DEF Lag
  <2>3. Lag \in 0..3
    BY DEF Lag
  <2> QED
    BY <1>3, <1>4, <2>2, <2>3
<1> QED
  BY <1>5, <1>6

\* The reload of the ticker: it reads the table, and what it stores is what it has read.
LEMMA TickerApproaches ==
    ASSUME autoReload
    PROVE  Approaches
<1> SUFFICES ASSUME db' = db
        PROVE  /\ Overtaken' = Overtaken
               /\ Lag' \in 0..3 /\ Lag \in 0..3
               /\ Lag' < Lag \/ Lag' = 0
  BY DEF Approaches
<1>1. Overtaken' = Overtaken
  BY DEF autoReload, Overtaken
<1>2. CASE auto.pc = "idle" /\ auto' = [pc |-> "store", list |-> db] /\ snapshot' = snapshot
  BY <1>1, <1>2 DEF Lag
<1>3. CASE auto.pc = "store" /\ auto' = NoReload /\ snapshot' = auto.list
  BY <1>1, <1>3 DEF Lag, NoReload
<1> QED
  BY <1>2, <1>3 DEF autoReload, Store

\* A restart reads the table, and no reload is under way after it.
LEMMA RestartApproaches ==
    ASSUME Restart
    PROVE  Approaches
<1>1. snapshot' = db /\ db' = db /\ auto'.pc = "idle" /\ \A w \in Admins : admin'[w].pc = "idle"
  BY DEF Restart, StartUp, NoReload, Idle
<1>2. Overtaken' = {} /\ Lag' = 0 /\ Lag \in 0..3
  BY <1>1 DEF Overtaken, Lag
<1> QED
  BY <1>2 DEF Approaches

\* Every step.
LEMMA StepApproaches ==
    ASSUME TypeOK, [Next]_vars
    PROVE  [Approaches]_vars
<1>1. ASSUME NEW w \in Admins, Continue(w)
      PROVE  Approaches
  <2>1. CASE ReloadStore(w)
    BY <2>1, StoreApproaches
  <2>2. CASE ReloadList(w)
    <3>1. UNCHANGED <<db, auto, snapshot>> /\ ~autoReload
      BY <2>2 DEF ReloadList, autoReload, NoReload
    <3>2. CASE admin' = [admin EXCEPT ![w].pc = "store", ![w].list = db]
      <4>1. admin' = [admin EXCEPT ![w] = [admin[w] EXCEPT !.pc = "store", !.list = db]]
        BY <3>2 DEF TypeOK
      <4>2. [admin[w] EXCEPT !.pc = "store", !.list = db].list = db
        BY DEF TypeOK, Jobs
      <4> QED
        BY <3>1, <4>1, <4>2, RequestsApproach
    <3>3. CASE admin' = [admin EXCEPT ![w] = AfterReload(@)]
      <4>1. OnlyOf(w) /\ admin'[w].pc # "store"
        BY <2>2, <3>3, GoesOnFromReload DEF ReloadList
      <4> QED
        BY <3>1, <4>1, NotStoring
    <3> QED
      BY <2>2, <3>2, <3>3 DEF ReloadList
  <2>3. ASSUME ResolveBackend(w) \/ StopStream(w) \/ GenerateConf(w) \/ Listen(w) \/ Register(w)
               \/ RemoveConf(w) \/ RestartHealth(w)
        PROVE  Approaches
    <3>1. UNCHANGED <<db, auto, snapshot>> /\ ~autoReload
      BY <2>3 DEF ResolveBackend, StopStream, GenerateConf, Listen, Register, RemoveConf,
                  RestartHealth, autoReload, NoReload, history
    <3>2. OnlyOf(w) /\ admin'[w].pc # "store"
      BY <2>3, MovesOn
    <3> QED
      BY <3>1, <3>2, NotStoring
  <2>4. CASE WriteRow(w)
    <3>1. UNCHANGED <<auto, snapshot>> /\ ~autoReload
      BY <2>4 DEF WriteRow, autoReload, NoReload
    <3>2. OnlyOf(w) /\ admin'[w].pc # "store"
      BY <2>4, MovesOn
    <3> QED
      BY <3>1, <3>2, NotStoring DEF Approaches
  <2> QED
    BY <1>1, <2>1, <2>2, <2>3, <2>4 DEF Continue
<1>2. ASSUME NEW w \in Admins, NEW a \in Apps,
             \/ \E kind \in {"create", "update"}, form \in Forms : SubmitApp(w, a, kind, form)
             \/ DeleteApp(w, a)
             \/ \E enabled \in BOOLEAN : ToggleUnderAttackMode(w, a, enabled)
      PROVE  Approaches
  <2>1. Started(w, a)
    BY <1>2, StartsAre
  <2>2. UNCHANGED <<db, auto, snapshot>> /\ ~autoReload /\ OnlyOf(w) /\ admin'[w].pc # "store"
    BY <2>1, BeginsElsewhere
  <2> QED
    BY <2>2, NotStoring
<1>3. ASSUME HealthCheck PROVE Approaches
  <2>1. PICK c \in checkers : CheckBegin(c) \/ CheckReturn(c) \/ \E changed \in BOOLEAN : CheckEnd(c, changed)
    BY <1>3 DEF HealthCheck
  <2>2. UNCHANGED <<auto, admin, snapshot>> /\ ~autoReload
    BY <2>1 DEF CheckBegin, CheckReturn, CheckEnd, autoReload, NoReload
  <2> QED
    BY <2>2, NothingReloaded DEF Approaches
<1> QED
  BY <1>1, <1>2, <1>3, TickerApproaches, RestartApproaches DEF Next

\* While the table stays as it is, each reload that read it before its last change can put
\* an old snapshot back once at most, and the ticker's reload brings the snapshot nearer at
\* each of its steps, for any number of applications and requests (reloadSnapshot,
\* autoReload).  This is what SnapshotCatchesUp rests on.
THEOREM SnapshotApproachesTheTable == Spec => [][Approaches]_vars
<1>1. Inv /\ [Next]_vars => [Approaches]_vars
  BY StepApproaches DEF Inv
<1> QED
  BY <1>1, InvHolds, PTL DEF Spec
=============================================================================
