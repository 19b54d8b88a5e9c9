------------------------- MODULE SettingsPagesProofs -------------------------
(***************************************************************************)
(* The settings pages, for any number of browsers and administrators, any  *)
(* sections, edits, saves and failures: a page shows its own saves         *)
(* (OwnSavesAreShown), its form shows the data but for the fields that     *)
(* were touched (FormsFollowTheData), and what all of them store is what   *)
(* SharedSettings promises (PagesImplementSharedSettings).                 *)
(***************************************************************************)
EXTENDS SettingsPages, TLAPS

\* A save under way; of what it carries nothing is needed here.
IsSave(r) ==
    r \in [id : {r.id}, by : Browsers, live : BOOLEAN, state : {"sent", "ok", "failed"},
           ver : Nat, save : {r.save}]

\* A query's data and its request are records with the version they were read at.
IsCached(c) == c \in [data : {c.data}, ver : Nat]
IsFetch(f) == f \in [phase : {"idle", "sent", "answered"}, data : {f.data}, ver : Nat]

VersionTypes ==
    /\ version \in Nat
    /\ shown \in [Browsers -> Nat]
    /\ cache = [b \in Browsers |-> cache[b]]
    /\ fetch = [b \in Browsers |-> fetch[b]]
    /\ page = [b \in Browsers |-> page[b]]
    /\ \A b \in Browsers : IsCached(cache[b]) /\ IsFetch(fetch[b])
    /\ \A r \in reqs : IsSave(r)

\* Nobody waits for a save that has not been stored.
NothingFromTheFuture ==
    /\ \A b \in Browsers : shown[b] <= version
    /\ \A r \in reqs : r.ver <= version

\* A save that may still move a page has that page; without one nothing is waited for.
LiveHasPage ==
    /\ \A r \in reqs : r.live => page[r.by] # None
    /\ \A b \in Browsers : page[b] = None => shown[b] = 0

\* An answer on its way is new enough: it was read after the save that is waited for.
\* OwnSavesShown speaks of the cache alone and is not kept by an answer that comes in.
AnswersAreNew == \A b \in Browsers : fetch[b].phase = "answered" => fetch[b].ver >= shown[b]

PagesInv == VersionTypes /\ NothingFromTheFuture /\ LiveHasPage /\ AnswersAreNew /\ OwnSavesShown

USE DEF Idle, Sent, Unloaded

\* Nothing has been read or saved at first.
LEMMA PagesInit == Init => PagesInv
<1> SUFFICES ASSUME Init PROVE PagesInv
  OBVIOUS
<1>1. VersionTypes
  BY DEF Init, VersionTypes, IsCached, IsFetch
<1>2. NothingFromTheFuture /\ LiveHasPage
  BY DEF Init, NothingFromTheFuture, LiveHasPage
<1>3. AnswersAreNew /\ OwnSavesShown
  BY DEF Init, AnswersAreNew, OwnSavesShown
<1> QED
  BY <1>1, <1>2, <1>3 DEF PagesInv

\* What the library does to a request that is under way (QueryCache).
LEMMA FetchKinds ==
    ASSUME NEW used, NEW c, NEW f, IsFetch(f)
    PROVE  /\ IsFetch(Sent) /\ IsFetch(Idle)
           /\ Mounted(f) \in {f, Sent} /\ (Mounted(f) = f => f.phase # "idle")
           /\ Refetched(used, c, f) \in {f, Sent}
BY DEF IsFetch, Mounted, Refetched

\* A step that changes neither reads nor saves nor the version.
LEMMA PagesUntouched ==
    ASSUME PagesInv, UNCHANGED <<version, shown, cache, fetch, page, reqs>>
    PROVE  PagesInv'
BY DEF PagesInv, VersionTypes, NothingFromTheFuture, LiveHasPage, AnswersAreNew, OwnSavesShown,
       IsSave, IsCached, IsFetch

\* A page is mounted (Open).
LEMMA PagesOpen ==
    ASSUME PagesInv, NEW b \in Browsers, NEW p, Open(b, p)
    PROVE  PagesInv'
<1>1. /\ page[b] = None /\ page' = [page EXCEPT ![b] = p]
      /\ fetch' = [fetch EXCEPT ![b] = Mounted(@)]
      /\ UNCHANGED <<version, shown, cache, reqs>>
  BY DEF Open, server
<1>2. /\ Mounted(fetch[b]) \in {fetch[b], Sent} /\ IsFetch(Mounted(fetch[b]))
  BY FetchKinds DEF PagesInv, VersionTypes
<1>3. VersionTypes'
  BY <1>1, <1>2 DEF PagesInv, VersionTypes, IsCached, IsSave
<1>4. NothingFromTheFuture' /\ LiveHasPage'
  BY <1>1 DEF PagesInv, VersionTypes, NothingFromTheFuture, LiveHasPage, IsSave
<1>5. AnswersAreNew' /\ OwnSavesShown'
  BY <1>1, <1>2 DEF PagesInv, VersionTypes, AnswersAreNew, OwnSavesShown
<1> QED
  BY <1>3, <1>4, <1>5 DEF PagesInv

\* A request that is no longer alive is the same request otherwise.
LEMMA SaveLeft ==
    ASSUME NEW r, IsSave(r)
    PROVE  LET q == [r EXCEPT !.live = FALSE] IN
           IsSave(q) /\ q.by = r.by /\ ~q.live /\ q.ver = r.ver /\ q.state = r.state
BY DEF IsSave

\* A page is unmounted (Leave); its answers no longer reach a form.
LEMMA PagesLeave ==
    ASSUME PagesInv, NEW b \in Browsers, Leave(b)
    PROVE  PagesInv'
<1> DEFINE left(r) == IF r.by = b THEN [r EXCEPT !.live = FALSE] ELSE r
<1>1. /\ page' = [page EXCEPT ![b] = None] /\ shown' = [shown EXCEPT ![b] = 0]
      /\ reqs' = {left(r) : r \in reqs} /\ UNCHANGED <<version, cache, fetch>>
  BY DEF Leave, server
<1>2. \A r \in reqs : /\ IsSave(left(r)) /\ left(r).by = r.by /\ left(r).ver = r.ver
                      /\ left(r).live => r.live /\ r.by # b
  BY SaveLeft DEF PagesInv, VersionTypes, IsSave
<1> HIDE DEF left
<1>3. VersionTypes'
  <2>1. \A q \in reqs' : IsSave(q)
    BY <1>1, <1>2
  <2>2. (\A q \in reqs : IsSave(q))'
    BY <2>1 DEF IsSave
  <2> QED
    BY <1>1, <2>2 DEF PagesInv, VersionTypes, IsCached, IsFetch
<1>4. NothingFromTheFuture' /\ LiveHasPage'
  BY <1>1, <1>2 DEF PagesInv, VersionTypes, NothingFromTheFuture, LiveHasPage, IsSave
<1>5. AnswersAreNew' /\ OwnSavesShown'
  BY <1>1 DEF PagesInv, VersionTypes, AnswersAreNew, OwnSavesShown, IsFetch, IsCached
<1> QED
  BY <1>3, <1>4, <1>5 DEF PagesInv

\* The cache drops a query that no page uses (Forget).
LEMMA PagesForget ==
    ASSUME PagesInv, NEW b \in Browsers, Forget(b)
    PROVE  PagesInv'
<1>1. /\ page[b] = None /\ cache' = [cache EXCEPT ![b] = Unloaded]
      /\ UNCHANGED <<version, shown, fetch, page, reqs>>
  BY DEF Forget, server
<1>2. VersionTypes'
  BY <1>1 DEF PagesInv, VersionTypes, IsCached, IsFetch, IsSave
<1>3. NothingFromTheFuture' /\ LiveHasPage' /\ AnswersAreNew'
  BY <1>1 DEF PagesInv, NothingFromTheFuture, LiveHasPage, AnswersAreNew
<1>4. OwnSavesShown'
  BY <1>1 DEF PagesInv, VersionTypes, LiveHasPage, OwnSavesShown
<1> QED
  BY <1>2, <1>3, <1>4 DEF PagesInv

\* The server reads for a request (ServerReads): what it sends is as new as can be.
LEMMA PagesServerReads ==
    ASSUME PagesInv, NEW b \in Browsers, ServerReads(b)
    PROVE  PagesInv'
<1> DEFINE answer == AnsweredWith(stored, version)
<1>1. /\ fetch' = [fetch EXCEPT ![b] = answer] /\ UNCHANGED <<version, shown, cache, page, reqs>>
  BY DEF ServerReads, server
<1>2. IsFetch(answer) /\ answer.phase = "answered" /\ answer.ver = version
  BY DEF PagesInv, VersionTypes, IsFetch, AnsweredWith
<1> HIDE DEF answer
<1>3. VersionTypes'
  BY <1>1, <1>2 DEF PagesInv, VersionTypes, IsCached, IsSave
<1>4. NothingFromTheFuture' /\ LiveHasPage'
  BY <1>1 DEF PagesInv, NothingFromTheFuture, LiveHasPage
<1>5. AnswersAreNew' /\ OwnSavesShown'
  BY <1>1, <1>2 DEF PagesInv, VersionTypes, NothingFromTheFuture, AnswersAreNew, OwnSavesShown
<1> QED
  BY <1>3, <1>4, <1>5 DEF PagesInv

\* An answer comes in (Deliver), or the request fails (FetchFails).
LEMMA PagesDeliver ==
    ASSUME PagesInv, NEW b \in Browsers, Deliver(b)
    PROVE  PagesInv'
<1> DEFINE got == Received(fetch[b])
<1>1. /\ fetch[b].phase = "answered" /\ cache' = [cache EXCEPT ![b] = got]
      /\ fetch' = [fetch EXCEPT ![b] = Idle] /\ UNCHANGED <<version, shown, page, reqs>>
  BY DEF Deliver, server
<1>2. IsCached(got) /\ got.ver = fetch[b].ver
  BY DEF PagesInv, VersionTypes, IsFetch, IsCached, Received
<1> HIDE DEF got
<1>3. VersionTypes'
  BY <1>1, <1>2 DEF PagesInv, VersionTypes, IsCached, IsFetch, IsSave
<1>4. NothingFromTheFuture' /\ LiveHasPage'
  BY <1>1 DEF PagesInv, NothingFromTheFuture, LiveHasPage
<1>5. AnswersAreNew' /\ OwnSavesShown'
  BY <1>1, <1>2 DEF PagesInv, VersionTypes, AnswersAreNew, OwnSavesShown
<1> QED
  BY <1>3, <1>4, <1>5 DEF PagesInv

LEMMA PagesFetchFails ==
    ASSUME PagesInv, NEW b \in Browsers, FetchFails(b)
    PROVE  PagesInv'
<1>1. /\ fetch' = [fetch EXCEPT ![b] = Idle] /\ shown' = [shown EXCEPT ![b] = 0]
      /\ UNCHANGED <<version, cache, page, reqs>>
  BY DEF FetchFails, server
<1>2. VersionTypes'
  BY <1>1 DEF PagesInv, VersionTypes, IsCached, IsFetch, IsSave
<1>3. NothingFromTheFuture' /\ LiveHasPage'
  BY <1>1 DEF PagesInv, VersionTypes, NothingFromTheFuture, LiveHasPage
<1>4. AnswersAreNew' /\ OwnSavesShown'
  BY <1>1 DEF PagesInv, VersionTypes, AnswersAreNew, OwnSavesShown, IsCached
<1> QED
  BY <1>2, <1>3, <1>4 DEF PagesInv

\* A save is sent from a page that is there (Save).
LEMMA PagesSave ==
    ASSUME PagesInv, NEW b \in Browsers, Save(b)
    PROVE  PagesInv'
<1>1. PICK s \in Saves(b) :
        reqs' = reqs \cup {[id |-> saves, by |-> b, live |-> TRUE, state |-> "sent", ver |-> 0, save |-> s]}
  BY DEF Save
<1> DEFINE new == [id |-> saves, by |-> b, live |-> TRUE, state |-> "sent", ver |-> 0, save |-> s]
<1>2. page[b] # None /\ UNCHANGED <<version, shown, cache, fetch, page>>
  BY DEF Save, server, browser
<1>3. IsSave(new) /\ new.by = b /\ new.ver = 0
  BY DEF IsSave
<1>4. reqs' = reqs \cup {new}
  BY <1>1
<1> HIDE DEF new
<1>5. VersionTypes'
  BY <1>2, <1>3, <1>4 DEF PagesInv, VersionTypes, IsCached, IsFetch
<1>6. NothingFromTheFuture' /\ LiveHasPage'
  BY <1>2, <1>3, <1>4 DEF PagesInv, VersionTypes, NothingFromTheFuture, LiveHasPage
<1>7. AnswersAreNew' /\ OwnSavesShown'
  BY <1>2 DEF PagesInv, AnswersAreNew, OwnSavesShown
<1> QED
  BY <1>5, <1>6, <1>7 DEF PagesInv

\* One save is replaced by another of the same browser that is no newer than the table.
LEMMA PagesReplace ==
    ASSUME PagesInv, NEW r \in reqs, NEW q, IsSave(q), q.by = r.by, q.live => r.live,
           version' \in {version, version + 1}, q.ver <= version',
           reqs' = (reqs \ {r}) \cup {q}, UNCHANGED <<shown, cache, fetch, page>>
    PROVE  PagesInv'
<1>1. VersionTypes'
  BY DEF PagesInv, VersionTypes, IsCached, IsFetch
<1>2. NothingFromTheFuture'
  BY DEF PagesInv, VersionTypes, NothingFromTheFuture, IsSave
<1>3. LiveHasPage'
  BY DEF PagesInv, VersionTypes, LiveHasPage
<1>4. AnswersAreNew' /\ OwnSavesShown'
  BY DEF PagesInv, AnswersAreNew, OwnSavesShown
<1> QED
  BY <1>1, <1>2, <1>3, <1>4 DEF PagesInv

\* The record of a save that was stored.
LEMMA SaveStored ==
    ASSUME NEW r, IsSave(r), NEW v \in Nat
    PROVE  LET q == [r EXCEPT !.state = "ok", !.ver = v] IN
           IsSave(q) /\ q.by = r.by /\ q.live = r.live /\ q.ver = v
<1> DEFINE q == [r EXCEPT !.state = "ok", !.ver = v]
<1>1. /\ q.id = r.id /\ q.by = r.by /\ q.live = r.live /\ q.state = "ok" /\ q.ver = v
      /\ q.save = r.save
  BY DEF IsSave
<1>2. q \in [id : {r.id}, by : Browsers, live : BOOLEAN, state : {"sent", "ok", "failed"},
             ver : Nat, save : {r.save}]
  BY DEF IsSave
<1> HIDE DEF q
<1>3. IsSave(q)
  BY <1>1, <1>2 DEF IsSave
<1> QED
  BY <1>1, <1>3 DEF q

\* The server stores or refuses a save (ServerStores), or it fails (SaveFails).
LEMMA PagesServerStores ==
    ASSUME PagesInv, NEW r \in reqs, ServerStores(r) \/ SaveFails(r)
    PROVE  PagesInv'
<1> DEFINE kept == [r EXCEPT !.state = "ok", !.ver = version + 1]
           lost == [r EXCEPT !.state = "failed"]
<1>0. version \in Nat /\ IsSave(r) /\ r.ver <= version
  BY DEF PagesInv, VersionTypes, NothingFromTheFuture
<1>1. IsSave(kept) /\ kept.by = r.by /\ kept.live = r.live /\ kept.ver = version + 1
  <2>1. version + 1 \in Nat
    BY <1>0
  <2> QED
    BY <1>0, <2>1, SaveStored
<1>2. IsSave(lost) /\ lost.by = r.by /\ lost.live = r.live /\ lost.ver = r.ver
  BY <1>0 DEF IsSave
<1>3. UNCHANGED <<shown, cache, fetch, page>>
  BY DEF ServerStores, SaveFails, browser
<1>4. \/ version' = version + 1 /\ reqs' = (reqs \ {r}) \cup {kept}
      \/ version' = version /\ reqs' = (reqs \ {r}) \cup {lost}
  BY DEF ServerStores, SaveFails, server
<1> HIDE DEF kept, lost
<1>5. CASE version' = version + 1 /\ reqs' = (reqs \ {r}) \cup {kept}
  BY <1>0, <1>1, <1>3, <1>5, PagesReplace
<1>6. CASE version' = version /\ reqs' = (reqs \ {r}) \cup {lost}
  BY <1>0, <1>2, <1>3, <1>6, PagesReplace
<1> QED
  BY <1>4, <1>5, <1>6

\* The answer of a save (SaveAnswered): a page that is there reads anew, and whatever
\* was under way before the answer is given up for it.
LEMMA PagesSaveAnswered ==
    ASSUME PagesInv, NEW r \in reqs, SaveAnswered(r)
    PROVE  PagesInv'
<1> DEFINE b == r.by
           waits == r.live /\ ~Loading(b) /\ r.ver > shown[b]
           f == Refetched(page[b] # None, cache[b], fetch[b])
<1>0. b \in Browsers /\ IsSave(r) /\ r.ver \in Nat /\ r.ver <= version /\ (r.live => page[b] # None)
  BY DEF PagesInv, VersionTypes, NothingFromTheFuture, LiveHasPage, IsSave
<1>1. /\ reqs' = reqs \ {r} /\ UNCHANGED <<version, cache, page>>
      /\ fetch' = [fetch EXCEPT ![b] = f]
      /\ shown' = [shown EXCEPT ![b] = IF waits THEN r.ver ELSE shown[b]]
  BY DEF SaveAnswered, server
<1>2. f \in {fetch[b], Sent} /\ IsFetch(f) /\ (waits => f = Sent)
  <2>1. IsFetch(fetch[b])
    BY <1>0 DEF PagesInv, VersionTypes
  <2>2. f \in {fetch[b], Sent} /\ IsFetch(Sent)
    BY <2>1, FetchKinds
  <2>3. page[b] # None /\ ~LoadingNow(cache[b], fetch[b]) => f = Sent
    BY DEF Refetched
  <2>4. waits => page[b] # None /\ ~LoadingNow(cache[b], fetch[b])
    BY <1>0 DEF Loading
  <2> HIDE DEF f, waits
  <2> QED
    BY <2>1, <2>2, <2>3, <2>4
<1> HIDE DEF f, waits
<1>3. VersionTypes'
  BY <1>0, <1>1, <1>2 DEF PagesInv, VersionTypes, IsCached
<1>4. NothingFromTheFuture'
  BY <1>0, <1>1 DEF PagesInv, VersionTypes, NothingFromTheFuture
<1>5. LiveHasPage'
  <2>1. waits => r.live
    BY DEF waits
  <2> QED
    BY <1>0, <1>1, <2>1 DEF PagesInv, VersionTypes, LiveHasPage
<1>6. AnswersAreNew' /\ OwnSavesShown'
  BY <1>0, <1>1, <1>2 DEF PagesInv, VersionTypes, AnswersAreNew, OwnSavesShown
<1> QED
  BY <1>3, <1>4, <1>5, <1>6 DEF PagesInv

\* The answer of a saved application leads back to the list (AppSaved).
LEMMA PagesAppSaved ==
    ASSUME PagesInv, NEW r \in reqs, AppSaved(r)
    PROVE  PagesInv'
<1> DEFINE b == r.by
           f == Refetched(TRUE, cache[b], fetch[b])
           left(q) == IF q.by = b THEN [q EXCEPT !.live = FALSE] ELSE q
<1>0. b \in Browsers
  BY DEF PagesInv, VersionTypes, IsSave
<1>1. /\ reqs' = {left(q) : q \in reqs \ {r}} /\ UNCHANGED <<version, cache>>
      /\ fetch' = [fetch EXCEPT ![b] = f] /\ page' = [page EXCEPT ![b] = None]
      /\ shown' = [shown EXCEPT ![b] = 0]
  BY DEF AppSaved, server
<1>2. f \in {fetch[b], Sent} /\ IsFetch(f)
  <2>1. IsFetch(fetch[b])
    BY <1>0 DEF PagesInv, VersionTypes
  <2>2. f \in {fetch[b], Sent} /\ IsFetch(Sent)
    BY <2>1, FetchKinds
  <2> HIDE DEF f
  <2> QED
    BY <2>1, <2>2
<1>3. \A q \in reqs : /\ IsSave(left(q)) /\ left(q).by = q.by /\ left(q).ver = q.ver
                      /\ left(q).live => q.live /\ q.by # b
  BY SaveLeft DEF PagesInv, VersionTypes, IsSave
<1> HIDE DEF f, left, b
<1>4. VersionTypes'
  <2>1. \A q \in reqs' : IsSave(q)
    BY <1>1, <1>3
  <2>2. (\A q \in reqs : IsSave(q))'
    BY <2>1 DEF IsSave
  <2> QED
    BY <1>0, <1>1, <1>2, <2>2 DEF PagesInv, VersionTypes, IsCached
<1>5. NothingFromTheFuture' /\ LiveHasPage'
  BY <1>0, <1>1, <1>3 DEF PagesInv, VersionTypes, NothingFromTheFuture, LiveHasPage, IsSave
<1>6. AnswersAreNew' /\ OwnSavesShown'
  BY <1>0, <1>1, <1>2 DEF PagesInv, VersionTypes, AnswersAreNew, OwnSavesShown, IsCached, IsFetch
<1> QED
  BY <1>4, <1>5, <1>6 DEF PagesInv

\* Every step of the pages keeps the invariant.
LEMMA PagesStep == PagesInv /\ [Next]_vars => PagesInv'
<1> SUFFICES ASSUME PagesInv, [Next]_vars PROVE PagesInv'
  OBVIOUS
<1>1. ASSUME NEW b \in Browsers, NEW p, Open(b, p) PROVE PagesInv'
  BY <1>1, PagesOpen
<1>2. ASSUME NEW b \in Browsers, Leave(b) PROVE PagesInv'
  BY <1>2, PagesLeave
<1>3. ASSUME NEW b \in Browsers, Forget(b) PROVE PagesInv'
  BY <1>3, PagesForget
<1>4. ASSUME NEW b \in Browsers, ServerReads(b) PROVE PagesInv'
  BY <1>4, PagesServerReads
<1>5. ASSUME NEW b \in Browsers, Deliver(b) PROVE PagesInv'
  BY <1>5, PagesDeliver
<1>6. ASSUME NEW b \in Browsers, FetchFails(b) PROVE PagesInv'
  BY <1>6, PagesFetchFails
<1>7. ASSUME NEW b \in Browsers, Edit(b) PROVE PagesInv'
  BY <1>7, PagesUntouched DEF Edit, server
<1>8. ASSUME NEW b \in Browsers, Save(b) PROVE PagesInv'
  BY <1>8, PagesSave
<1>9. ASSUME NEW r \in reqs, ServerStores(r) \/ SaveFails(r) PROVE PagesInv'
  BY <1>9, PagesServerStores
<1>10. ASSUME NEW r \in reqs, SaveAnswered(r) PROVE PagesInv'
  BY <1>10, PagesSaveAnswered
<1>11. ASSUME NEW r \in reqs, AppSaved(r) PROVE PagesInv'
  BY <1>11, PagesAppSaved
<1>12. ASSUME NEW r \in reqs, SaveRefused(r) PROVE PagesInv'
  <2>1. reqs' = reqs \ {r} /\ UNCHANGED <<version, shown, cache, fetch, page>>
    BY <1>12 DEF SaveRefused, server, browser
  <2> QED
    BY <2>1 DEF PagesInv, VersionTypes, NothingFromTheFuture, LiveHasPage, AnswersAreNew,
                OwnSavesShown, IsSave, IsCached, IsFetch
<1>13. CASE UNCHANGED vars
  BY <1>13, PagesUntouched DEF vars, server, browser
<1> QED
  BY <1>1, <1>2, <1>3, <1>4, <1>5, <1>6, <1>7, <1>8, <1>9, <1>10, <1>11, <1>12, <1>13 DEF Next

\* A page that stays open and whose reads succeed does not come to rest on data older
\* than its own save: the invalidation that follows the answer of a save (useSettings,
\* useRateLimit) gives up any read that was sent before.
THEOREM OwnSavesAreShown == Spec => []OwnSavesShown
<1>1. PagesInv => OwnSavesShown
  BY DEF PagesInv
<1> QED
  BY PagesInit, PagesStep, <1>1, PTL DEF Spec

-----------------------------------------------------------------------------
(***************************************************************************)
(* What a form owes to the data, and a save to the table (SoundInv).       *)
(***************************************************************************)

\* The parts of a section and the fields of a part.
Parts(s) == IF s = "ratelimit" THEN LimitTypes \cup {"exclude"} ELSE {s}
Fields(p) ==
    CASE p = "waf" -> {"paranoia", "inbound", "outbound", "methods", "disabled", "custom"}
      [] p = "scoring" -> {"block", "challenge", "weights", "trust"}
      [] p = "anomaly" -> {"header", "cookie", "ja4"}
      [] p = "bot" -> {"headers", "behaviour", "dns", "texts", "html", "times", "trust"}
      [] p = "reputation" -> {"maxmind", "spamhaus"}
      [] p = "app" -> {"domain", "note", "scheme", "up", "ports", "health", "connection",
                       "headers", "cors"}
      [] p = "exclude" -> Extensions \cup {"path"}
      [] OTHER -> {"on", "vals"}
Version(p) == [Fields(p) -> Values]

\* Every part is there in its newest version; the description of an application is lost.
TableSound ==
    /\ section \in Sections
    /\ stored = [p \in Parts(section) |-> stored[p]] /\ past = [p \in Parts(section) |-> past[p]]
    /\ \A p \in Parts(section) : stored[p] \in past[p] /\ past[p] \subseteq Version(p)
    /\ section = "app" => \A v \in past["app"] : v.note = Blank

\* What a read returned: of every part some version.
OfVersions(s, d, pa) == d = None \/ \A p \in Parts(s) : d[p] \in pa[p]

\* Outside the edited fields a body is one version, with defaults in the place of blanks.
Based(c, fields, p, pa) ==
    \E base \in pa[p] \cup BuiltIn[p] : \A x \in Fields(p) \ fields : Shared!Kept(c[x], base[x])

\* The pages that send the part they hold, and that part.
PartOf(pg) == CASE pg = "WAFEngine" -> "waf"
                [] pg = "ScoringEngine" -> "scoring"
                [] pg = "AnomalyBehavior" -> "anomaly"
                [] pg = "AppForm" -> "app"
                [] pg = "BotDetector" -> "bot"
Holding == {"WAFEngine", "ScoringEngine", "AnomalyBehavior", "AppForm", "BotDetector"}

\* What the form of a page owes to the data: a body of its part, but for the fields
\* touched.  Challenged sends four fields of its own, RateLimiter one.
FormSound(pg, f, t, d, pa) ==
    /\ f = None => \/ pg \in {"BotDetector", "RateLimiter"}
                   \/ pg \in {"ScoringEngine", "AnomalyBehavior"} /\ d = None
    /\ f # None => f \in Forms(pg)
    /\ pg \in Holding /\ f # None => Based(f, t, PartOf(pg), pa)
    /\ pg = "Challenged" => t \cap {"html", "mode"} = {}
    /\ pg = "IPReputation" =>
         IF f.config = None THEN f.dirty = {} ELSE Based(ReputationPayload(f.config), t, "reputation", pa)

\* What a save will store is a body of its part, but for the fields of its edit.
SaveSound(sec, s, pa) ==
    /\ s.part \in Parts(sec)
    /\ AsStored(s.part, s.payload) \in Version(s.part)
    /\ s.part = "app" => AsStored(s.part, s.payload).note = Blank
    /\ Based(AsStored(s.part, s.payload), s.fields, s.part, pa)

\* A save that closes something was sent from a page with dialogs or an application.
ClosesOnly == \A r \in reqs : r.live /\ r.save.closes =>
                page[r.by] \in {"BotDetector", "RateLimiter", "AppForm"}

\* A field nobody touched shows the data (FormFollowsCache, of one browser).
Follows(p, d, f, t) ==
    p \in Filling /\ d # None =>
      \A x \in DOMAIN Filled(p, d, f) \ (t \cup {"tab"}) : f[x] = Filled(p, d, f)[x]

\* One browser: what it has read are versions, and its form owes to them what it should.
BrowserSound(s, p, d, q, f, t, pa) ==
    /\ p \in PagesOf(s) \cup {None}
    /\ OfVersions(s, d, pa) /\ OfVersions(s, q.data, pa)
    /\ q.phase = "answered" => q.data # None
    /\ p # None => FormSound(p, f, t, d, pa) /\ Follows(p, d, f, t)

\* What the two theorems below need of every browser and of every save under way.
SoundInv ==
    /\ TableSound /\ ClosesOnly
    /\ form = [b \in Browsers |-> form[b]] /\ touched = [b \in Browsers |-> touched[b]]
    /\ \A b \in Browsers :
         BrowserSound(section, page[b], cache[b].data, fetch[b], form[b], touched[b], past)
    /\ \A r \in reqs : SaveSound(section, r.save, past)
\* A later table has every version an earlier one had.
LEMMA BasedLater ==
    \A c, fields, p, pa, pb :
      pa[p] \subseteq pb[p] /\ Based(c, fields, p, pa) => Based(c, fields, p, pb)
BY DEF Based

\* An edit that says what it changed.
LEMMA BasedEdited ==
    \A f, g, t, u, p, pa :
      /\ Based(f, t, p, pa) /\ t \subseteq u
      /\ \A x \in Fields(p) \ u : g[x] = f[x]
      => Based(g, u, p, pa)
BY DEF Based

\* A version itself, and the values a page puts in the place of blanks.
LEMMA BasedOn ==
    \A c, v, t, p, pa :
      /\ v \in pa[p] \cup BuiltIn[p]
      /\ \A x \in Fields(p) \ t : c[x] \in {v[x], OrDefault(v[x])}
      => Based(c, t, p, pa)
BY DEF Based, Shared!Kept, OrDefault

\* The fields of the parts.
LEMMA FieldNames ==
    /\ Fields("waf") = DOMAIN WAFInitial /\ Fields("scoring") = DOMAIN ScoringInitial
    /\ Fields("anomaly") = DOMAIN AnomalyInitial /\ Fields("bot") = DOMAIN BotInitial
    /\ Fields("reputation") = DOMAIN ReputationInitial /\ Fields("app") = DOMAIN AppInitial
    /\ Fields("exclude") = Extensions \cup {"path"}
    /\ \A t \in LimitTypes : Fields(t) = {"on", "vals"}
<1>1. DOMAIN WAFInitial = {"paranoia", "inbound", "outbound", "methods", "disabled", "custom"}
  BY DEF WAFInitial
<1>2. DOMAIN ScoringInitial = {"block", "challenge", "weights", "trust"}
  BY DEF ScoringInitial
<1>3. DOMAIN AnomalyInitial = {"header", "cookie", "ja4"}
  BY DEF AnomalyInitial
<1>4. DOMAIN BotInitial = {"headers", "behaviour", "dns", "texts", "html", "times", "trust"}
  BY DEF BotInitial
<1>5. DOMAIN ReputationInitial = {"maxmind", "spamhaus"}
  BY DEF ReputationInitial
<1>6. DOMAIN AppInitial = {"domain", "note", "scheme", "up", "ports", "health", "connection",
                           "headers", "cors"}
  BY DEF AppInitial
<1>7. \A t \in LimitTypes : t \notin {"waf", "scoring", "anomaly", "bot", "reputation", "app", "exclude"}
  BY SettingsAssumption DEF AllSections
<1> QED
  BY <1>1, <1>2, <1>3, <1>4, <1>5, <1>6, <1>7 DEF Fields

\* What was built into the pages.
LEMMA BuiltIns ==
    /\ BuiltIn["waf"] = {WAFInitial} /\ BuiltIn["app"] = {defaultAppConfig}
    /\ BuiltIn["reputation"] = {[maxmind |-> Blank, spamhaus |-> Blank]}
    /\ \A p \in {"scoring", "anomaly", "bot", "exclude"} \cup LimitTypes : BuiltIn[p] = {}
<1>1. \A t \in LimitTypes : t \notin {"waf", "reputation", "app"}
  BY SettingsAssumption DEF AllSections
<1> QED
  BY <1>1 DEF BuiltIn

\* The sections, their pages and their parts.
LEMMA Places ==
    ASSUME NEW s \in Sections, NEW p \in PagesOf(s)
    PROVE  /\ p # None /\ None \notin Forms(p)
           /\ p \in {"WAFEngine", "ScoringEngine", "AnomalyBehavior", "AppForm", "Challenged",
                     "BotDetector", "IPReputation", "RateLimiter"}
           /\ p \in Holding => s = PartOf(p) /\ Parts(s) = {PartOf(p)}
           /\ p = "Challenged" => Parts(s) = {"bot"}
           /\ p = "IPReputation" => Parts(s) = {"reputation"}
           /\ p = "RateLimiter" => Parts(s) = LimitTypes \cup {"exclude"}
<1>1. s \in AllSections /\ p # None /\ None \notin Forms(p)
  BY SettingsAssumption
<1>2. <<s, p>> \in {<<"waf", "WAFEngine">>, <<"scoring", "ScoringEngine">>,
                     <<"anomaly", "AnomalyBehavior">>, <<"app", "AppForm">>, <<"bot", "Challenged">>,
                     <<"bot", "BotDetector">>, <<"reputation", "IPReputation">>,
                     <<"ratelimit", "RateLimiter">>}
  BY <1>1 DEF AllSections, PagesOf
<1> QED
  BY <1>1, <1>2 DEF Parts, PartOf, Holding

\* The forms of each page.
LEMMA FormsAre ==
    /\ Forms("WAFEngine") = Version("waf") /\ Forms("ScoringEngine") = Version("scoring")
    /\ Forms("AnomalyBehavior") = Version("anomaly") /\ Forms("BotDetector") = Version("bot")
    /\ Forms("Challenged") = [texts : Values, html : Values, mode : {"basic", "custom"},
                              times : Values, attempts : Values, trust : Values]
    /\ Forms("AppForm") = [domain : Values, note : Values, scheme : Values, up : Values,
                           ports : Values, health : Values, connection : Values,
                           headers : Values, cors : Values, tab : {"basic", "advanced"}]
    /\ Forms("RateLimiter") = [type : LimitTypes, vals : Values]
    /\ Forms("IPReputation") = [config : {None} \cup ReputationConfigs,
                                dirty : SUBSET Fields("reputation")]
    /\ ReputationConfigs = [Fields("reputation") -> {None} \cup Values]
BY FieldNames DEF Forms, ReputationConfigs, Version

\* What the controls of a page make of its form is a form of the page, or closes it.
LEMMA EditTyped ==
    ASSUME NEW p \in {"WAFEngine", "ScoringEngine", "AnomalyBehavior", "Challenged", "AppForm"},
           NEW d, NEW f \in Forms(p), None \notin Forms(p), NEW g \in Edits(p, d, f)
    PROVE  /\ g \in Forms(p)
           /\ p = "Challenged" => g.html = f.html /\ g.mode = f.mode
<1>0. Inputs \subseteq Values /\ Default \in Values /\ Other \in Values /\ Blank \in Values
  BY SettingsAssumption DEF Values
<1>f. f # None
  OBVIOUS
<1>1. CASE p = "WAFEngine"
  <2>1. f \in [{"paranoia", "inbound", "outbound", "methods", "disabled", "custom"} -> Values]
    BY <1>1, FormsAre DEF Version, Fields
  <2>2. g \in ParanoiaEdits(f) \cup ThresholdEdits(f) \cup MethodEdits(f) \cup CustomEdits(f)
    BY <1>1 DEF Edits
  <2>3. g \in [{"paranoia", "inbound", "outbound", "methods", "disabled", "custom"} -> Values]
    BY <1>0, <2>1, <2>2 DEF ParanoiaEdits, ThresholdEdits, MethodEdits, CustomEdits
  <2> QED
    BY <1>1, <2>3, FormsAre DEF Version, Fields
<1>2. CASE p = "ScoringEngine"
  <2>1. f \in [{"block", "challenge", "weights", "trust"} -> Values]
    BY <1>2, FormsAre DEF Version, Fields
  <2>2. g \in DecisionEdits(f) \cup WeightEdits(f) \cup TrustEdits(f)
    BY <1>2, <1>f DEF Edits
  <2>3. g \in [{"block", "challenge", "weights", "trust"} -> Values]
    BY <1>0, <2>1, <2>2 DEF DecisionEdits, WeightEdits, TrustEdits
  <2> QED
    BY <1>2, <2>3, FormsAre DEF Version, Fields
<1>3. CASE p = "AnomalyBehavior"
  <2>1. f \in [{"header", "cookie", "ja4"} -> Values]
    BY <1>3, FormsAre DEF Version, Fields
  <2>2. g \in HeaderRuleEdits(f) \cup CookieRuleEdits(f) \cup JA4RuleEdits(f)
    BY <1>3, <1>f DEF Edits
  <2>3. g \in [{"header", "cookie", "ja4"} -> Values]
    BY <1>0, <2>1, <2>2 DEF HeaderRuleEdits, CookieRuleEdits, JA4RuleEdits
  <2> QED
    BY <1>3, <2>3, FormsAre DEF Version, Fields
<1>4. CASE p = "Challenged"
  <2> DEFINE F == [texts : Values, html : Values, mode : {"basic", "custom"},
                   times : Values, attempts : Values, trust : Values]
  <2>1. f \in F
    BY <1>4, FormsAre
  <2>2. g \in AppearanceEdits(f) \cup TrustLevelEdits(f)
    BY <1>4 DEF Edits
  <2>3. g \in F /\ g.html = f.html /\ g.mode = f.mode
    BY <1>0, <2>1, <2>2 DEF AppearanceEdits, TrustLevelEdits
  <2> QED
    BY <1>4, <2>3, FormsAre
<1>5. CASE p = "AppForm"
  <2> DEFINE F == [domain : Values, note : Values, scheme : Values, up : Values,
                   ports : Values, health : Values, connection : Values,
                   headers : Values, cors : Values, tab : {"basic", "advanced"}]
  <2>1. f \in F
    BY <1>5, FormsAre
  <2>2. g \in SwitchTab(f) \cup BasicTab(f) \cup AdvancedTab(f)
    BY <1>5 DEF Edits
  <2> SUFFICES g \in F
    BY <1>5, FormsAre
  <2>3. CASE g \in SwitchTab(f)
    BY <2>1, <2>3 DEF SwitchTab
  <2>4. CASE g \in BasicTab(f)
    <3>1. CASE g \in IdentityEdits(f)
      BY <1>0, <2>1, <3>1 DEF IdentityEdits
    <3>2. CASE g \in UpstreamEdits(f)
      BY <1>0, <2>1, <3>2 DEF UpstreamEdits
    <3>3. CASE g \in StreamEdits(f) \cup HealthEdits(f)
      BY <1>0, <2>1, <3>3 DEF StreamEdits, HealthEdits
    <3> QED
      BY <2>4, <3>1, <3>2, <3>3 DEF BasicTab
  <2>5. CASE g \in AdvancedTab(f)
    BY <1>0, <2>1, <2>5 DEF AdvancedTab, ConnectionEdits, HeaderEdits, CORSEdits
  <2> QED
    BY <2>2, <2>3, <2>4, <2>5
<1> QED
  BY <1>1, <1>2, <1>3, <1>4, <1>5

\* What a page that fills its form makes of the data.
LEMMA FilledTyped ==
    ASSUME NEW p \in Filling, NEW d, NEW f, d # None,
           p = "WAFEngine" => d.waf \in Version("waf"),
           p = "ScoringEngine" => d.scoring \in Version("scoring"),
           p = "AnomalyBehavior" => d.anomaly \in Version("anomaly"),
           p = "Challenged" => d.bot \in Version("bot"),
           p = "AppForm" => d.app \in Version("app") /\ f.tab \in {"basic", "advanced"}
    PROVE  /\ Filled(p, d, f) \in Forms(p)
           /\ p = "WAFEngine" => \A x \in Fields("waf") :
                Filled(p, d, f)[x] \in {d.waf[x], OrDefault(d.waf[x])}
           /\ p = "ScoringEngine" => Filled(p, d, f) = d.scoring
           /\ p = "AnomalyBehavior" => Filled(p, d, f) = d.anomaly
           /\ p = "AppForm" => \A x \in Fields("app") :
                Filled(p, d, f)[x] \in {d.app[x], OrDefault(d.app[x])}
<1>0. \A v \in Values : OrDefault(v) \in Values
  BY DEF Values, OrDefault
<1>1. CASE p = "WAFEngine"
  <2> DEFINE F == {"paranoia", "inbound", "outbound", "methods", "disabled", "custom"}
  <2>1. Filled(p, d, f) = WAFFilled(d.waf) /\ d.waf \in [F -> Values]
    BY <1>1 DEF Filled, Version, Fields
  <2>2. WAFFilled(d.waf) \in [F -> Values]
        /\ \A x \in F : WAFFilled(d.waf)[x] \in {d.waf[x], OrDefault(d.waf[x])}
    BY <1>0, <2>1 DEF WAFFilled
  <2> QED
    BY <1>1, <2>1, <2>2, FormsAre DEF Version, Fields
<1>2. CASE p \in {"ScoringEngine", "AnomalyBehavior"}
  BY <1>2, FormsAre DEF Filled
<1>3. CASE p = "Challenged"
  <2>1. d.bot \in [{"headers", "behaviour", "dns", "texts", "html", "times", "trust"} -> Values]
    BY <1>3 DEF Version, Fields
  <2>2. Filled(p, d, f) = ChallengedFilled(d.bot)
    BY <1>3 DEF Filled
  <2>3. ChallengedFilled(d.bot) \in [texts : Values, html : Values, mode : {"basic", "custom"},
                                     times : Values, attempts : Values, trust : Values]
    <3>1. Default \in Values
      BY DEF Values
    <3> QED
      BY <1>0, <2>1, <3>1 DEF ChallengedFilled
  <2> QED
    BY <1>3, <2>2, <2>3, FormsAre
<1>4. CASE p = "AppForm"
  <2> DEFINE F == {"domain", "note", "scheme", "up", "ports", "health", "connection", "headers", "cors"}
             c == sanitizedConfig(d.app)
             tab == KeptTab(d.app, f.tab)
  <2>1. Filled(p, d, f) = WithTab(c, tab) /\ d.app \in [F -> Values]
    BY <1>4 DEF Filled, AppFilled, Version, Fields
  <2>2. c \in [F -> Values] /\ \A x \in F : c[x] \in {d.app[x], OrDefault(d.app[x])}
    BY <1>0, <2>1 DEF sanitizedConfig
  <2>3. tab \in {"basic", "advanced"}
    BY <1>4 DEF KeptTab
  <2> HIDE DEF c, tab
  <2>4. WithTab(c, tab) = [x \in F \cup {"tab"} |-> IF x = "tab" THEN tab ELSE c[x]]
    BY <2>2 DEF WithTab
  <2>5. WithTab(c, tab) \in [domain : Values, note : Values, scheme : Values, up : Values,
                             ports : Values, health : Values, connection : Values,
                             headers : Values, cors : Values, tab : {"basic", "advanced"}]
    BY <2>2, <2>3, <2>4
  <2>6. \A x \in F : WithTab(c, tab)[x] = c[x]
    BY <2>4
  <2>7. Fields("app") = F
    BY DEF Fields
  <2>8. WithTab(c, tab) \in Forms("AppForm")
    BY <2>5, FormsAre
  <2> QED
    BY <1>4, <2>1, <2>2, <2>6, <2>7, <2>8
<1> QED
  BY <1>1, <1>2, <1>3, <1>4 DEF Filling

\* The versions of the part a page holds that a read has returned.
LEMMA ReadVersions ==
    ASSUME TableSound, NEW p \in PagesOf(section), NEW d, d # None, OfVersions(section, d, past)
    PROVE  /\ p \in Holding => d[PartOf(p)] \in past[PartOf(p)] /\ d[PartOf(p)] \in Version(PartOf(p))
           /\ p = "Challenged" => d.bot \in past["bot"] /\ d.bot \in Version("bot")
           /\ p = "IPReputation" => d.reputation \in past["reputation"]
                                    /\ d.reputation \in Version("reputation")
           /\ p = "RateLimiter" => \A q \in LimitTypes \cup {"exclude"} :
                                     d[q] \in past[q] /\ d[q] \in Version(q)
<1>1. \A q \in Parts(section) : d[q] \in past[q] /\ d[q] \in Version(q)
  BY DEF TableSound, OfVersions
<1>2. section \in Sections
  BY DEF TableSound
<1>3. p \in Holding => Parts(section) = {PartOf(p)}
  BY <1>2, Places
<1>4. /\ p = "Challenged" => Parts(section) = {"bot"}
      /\ p = "IPReputation" => Parts(section) = {"reputation"}
      /\ p = "RateLimiter" => Parts(section) = LimitTypes \cup {"exclude"}
  BY <1>2, Places
<1> QED
  BY <1>1, <1>3, <1>4

\* A form that has just been filled owes everything to the data.
LEMMA FillSound ==
    ASSUME TableSound, NEW p \in PagesOf(section) \cap Filling, NEW d, NEW f, d # None,
           OfVersions(section, d, past), p = "AppForm" => f.tab \in {"basic", "advanced"}
    PROVE  /\ FormSound(p, Filled(p, d, f), {}, d, past)
           /\ Follows(p, d, Filled(p, d, f), {})
<1> DEFINE g == Filled(p, d, f)
<1>1. /\ p = "WAFEngine" => d.waf \in past["waf"] /\ d.waf \in Version("waf")
      /\ p = "ScoringEngine" => d.scoring \in past["scoring"] /\ d.scoring \in Version("scoring")
      /\ p = "AnomalyBehavior" => d.anomaly \in past["anomaly"] /\ d.anomaly \in Version("anomaly")
      /\ p = "Challenged" => d.bot \in Version("bot")
      /\ p = "AppForm" => d.app \in past["app"] /\ d.app \in Version("app")
  BY ReadVersions DEF Holding, PartOf
<1>2. /\ g \in Forms(p)
      /\ p = "WAFEngine" => \A x \in Fields("waf") : g[x] \in {d.waf[x], OrDefault(d.waf[x])}
      /\ p = "ScoringEngine" => g = d.scoring
      /\ p = "AnomalyBehavior" => g = d.anomaly
      /\ p = "AppForm" => \A x \in Fields("app") : g[x] \in {d.app[x], OrDefault(d.app[x])}
  BY <1>1, FilledTyped
<1>3. g # None
  BY <1>2, Places DEF TableSound
<1>4. p = "AppForm" => g.tab = KeptTab(d.app, f.tab)
  BY DEF Filled, AppFilled, WithTab
<1>5. Follows(p, d, g, {})
  <2>1. p # "AppForm" => Filled(p, d, g) = g
    BY DEF Filled
  <2>2. CASE p = "AppForm"
    <3>1. Filled(p, d, g) = WithTab(sanitizedConfig(d.app), KeptTab(d.app, g.tab))
          /\ g = WithTab(sanitizedConfig(d.app), KeptTab(d.app, f.tab))
      BY <2>2 DEF Filled, AppFilled
    <3>2. \A c, u, v : \A x \in DOMAIN WithTab(c, u) \ {"tab"} : WithTab(c, u)[x] = WithTab(c, v)[x]
      BY DEF WithTab
    <3> HIDE DEF g
    <3> QED
      BY <3>1, <3>2 DEF Follows
  <2> HIDE DEF g
  <2> QED
    BY <2>1, <2>2 DEF Follows
<1> HIDE DEF g
<1>6. p \in Holding => Based(g, {}, PartOf(p), past)
  <2>1. CASE p = "WAFEngine"
    BY <1>1, <1>2, <2>1, BasedOn DEF PartOf
  <2>2. CASE p = "ScoringEngine"
    BY <1>1, <1>2, <2>2, BasedOn DEF PartOf
  <2>3. CASE p = "AnomalyBehavior"
    BY <1>1, <1>2, <2>3, BasedOn DEF PartOf
  <2>4. CASE p = "AppForm"
    BY <1>1, <1>2, <2>4, BasedOn DEF PartOf
  <2> QED
    BY <2>1, <2>2, <2>3, <2>4 DEF Filling, Holding
<1>7. FormSound(p, g, {}, d, past)
  BY <1>2, <1>3, <1>6 DEF FormSound, Filling
<1> QED
  BY <1>5, <1>7 DEF g

\* Every form of a page that fills it has the same fields.
LEMMA FormFields ==
    ASSUME NEW p \in Filling
    PROVE  /\ \A f, g \in Forms(p) : DOMAIN f = DOMAIN g
           /\ p \in Holding => \A f \in Forms(p) : Fields(PartOf(p)) \subseteq DOMAIN f
           /\ p = "AppForm" => \A f \in Forms(p) : f.tab \in {"basic", "advanced"}
<1>1. CASE p \in {"WAFEngine", "ScoringEngine", "AnomalyBehavior"}
  <2>1. PICK q : Forms(p) = Version(q) /\ PartOf(p) = q
    BY <1>1, FormsAre DEF PartOf
  <2>2. \A f \in Forms(p) : DOMAIN f = Fields(q)
    BY <2>1 DEF Version
  <2> QED
    BY <1>1, <2>1, <2>2
<1>2. CASE p = "Challenged"
  <2>1. \A f \in [texts : Values, html : Values, mode : {"basic", "custom"},
                   times : Values, attempts : Values, trust : Values] :
          DOMAIN f = {"texts", "html", "mode", "times", "attempts", "trust"}
    OBVIOUS
  <2> QED
    BY <1>2, <2>1, FormsAre DEF Holding
<1>3. CASE p = "AppForm"
  <2>1. \A f \in [domain : Values, note : Values, scheme : Values, up : Values,
                   ports : Values, health : Values, connection : Values,
                   headers : Values, cors : Values, tab : {"basic", "advanced"}] :
          /\ DOMAIN f = {"domain", "note", "scheme", "up", "ports", "health", "connection",
                         "headers", "cors", "tab"}
          /\ f.tab \in {"basic", "advanced"}
    OBVIOUS
  <2>2. Fields("app") \subseteq {"domain", "note", "scheme", "up", "ports", "health", "connection",
                                "headers", "cors", "tab"}
    BY DEF Fields
  <2> QED
    BY <1>3, <2>1, <2>2, FormsAre DEF PartOf
<1> QED
  BY <1>1, <1>2, <1>3 DEF Filling

\* An edit of a page that fills its form touches what it changes (Edit).
LEMMA EditFills ==
    ASSUME TableSound, NEW p \in PagesOf(section) \cap Filling, NEW d, NEW f, NEW t,
           OfVersions(section, d, past), FormSound(p, f, t, d, past), Follows(p, d, f, t),
           NEW g \in Edits(p, d, f)
    PROVE  LET u == t \cup Changed(p, f, g) IN
           /\ None \notin {f, g}
           /\ FormSound(p, g, u, d, past) /\ Follows(p, d, g, u)
<1> DEFINE u == t \cup Changed(p, f, g)
<1>0. p \in {"WAFEngine", "ScoringEngine", "AnomalyBehavior", "Challenged", "AppForm"}
      /\ None \notin Forms(p)
  BY Places DEF Filling, TableSound
<1>1. f \in Forms(p) /\ f # None
  <2>1. f # None
    BY <1>0 DEF FormSound, Edits
  <2> QED
    BY <2>1 DEF FormSound
<1>2. g \in Forms(p) /\ (p = "Challenged" => g.html = f.html /\ g.mode = f.mode)
  BY <1>0, <1>1, EditTyped
<1>3. DOMAIN f = DOMAIN g
  BY <1>1, <1>2, FormFields
<1>4. \A x \in DOMAIN f : x \notin u => g[x] = f[x]
  BY <1>0 DEF Changed
<1>5. p = "Challenged" => u \cap {"html", "mode"} = {}
  BY <1>2 DEF Changed, FormSound
<1>6. p \in Holding => Fields(PartOf(p)) \subseteq DOMAIN f
  BY <1>1, FormFields
<1> HIDE DEF u
<1>7. t \subseteq u
  BY DEF u
<1>8. FormSound(p, g, u, d, past)
  <2>1. p \in Holding => Based(f, t, PartOf(p), past)
    BY <1>1 DEF FormSound
  <2>2. p \in Holding => Based(g, u, PartOf(p), past)
    BY <2>1, <1>4, <1>6, <1>7, BasedEdited
  <2> QED
    BY <1>0, <1>2, <1>5, <2>2 DEF FormSound
<1>9. Follows(p, d, g, u)
  <2> SUFFICES ASSUME d # None, NEW x \in DOMAIN Filled(p, d, g) \ (u \cup {"tab"})
               PROVE  g[x] = Filled(p, d, g)[x]
    BY DEF Follows
  <2>1. /\ p = "WAFEngine" => d.waf \in Version("waf")
        /\ p = "ScoringEngine" => d.scoring \in Version("scoring")
        /\ p = "AnomalyBehavior" => d.anomaly \in Version("anomaly")
        /\ p = "Challenged" => d.bot \in Version("bot")
        /\ p = "AppForm" => d.app \in Version("app")
    BY ReadVersions DEF Holding, PartOf
  <2>2. p = "AppForm" => f.tab \in {"basic", "advanced"} /\ g.tab \in {"basic", "advanced"}
    BY <1>1, <1>2, FormFields
  <2>3. Filled(p, d, f) \in Forms(p) /\ Filled(p, d, g) \in Forms(p)
    BY <2>1, <2>2, FilledTyped
  <2>4. DOMAIN Filled(p, d, f) = DOMAIN f /\ DOMAIN Filled(p, d, g) = DOMAIN f
    BY <1>1, <2>3, FormFields
  <2>5. Filled(p, d, g)[x] = Filled(p, d, f)[x]
    <3>1. \A c, v, w : \A y \in DOMAIN WithTab(c, v) \ {"tab"} : WithTab(c, v)[y] = WithTab(c, w)[y]
      BY DEF WithTab
    <3>2. p = "AppForm" =>
            /\ Filled(p, d, f) = WithTab(sanitizedConfig(d.app), KeptTab(d.app, f.tab))
            /\ Filled(p, d, g) = WithTab(sanitizedConfig(d.app), KeptTab(d.app, g.tab))
      BY DEF Filled, AppFilled
    <3>3. p # "AppForm" => Filled(p, d, g) = Filled(p, d, f)
      BY <1>0 DEF Filled
    <3> QED
      BY <3>1, <3>2, <3>3
  <2>6. f[x] = Filled(p, d, f)[x]
    BY <1>7, <2>4 DEF Follows
  <2> QED
    BY <1>4, <2>4, <2>5, <2>6
<1> QED
  BY <1>0, <1>1, <1>2, <1>8, <1>9 DEF u

\* An edit of a dialog, of a row or of the form that the first edit makes (Edit).
LEMMA EditRest ==
    ASSUME TableSound, NEW p \in PagesOf(section) \ Filling, NEW d, NEW f, NEW t,
           OfVersions(section, d, past), FormSound(p, f, t, d, past), NEW g \in Edits(p, d, f)
    PROVE  FormSound(p, g, IF None \in {f, g} THEN {} ELSE t \cup Changed(p, f, g), d, past)
<1> DEFINE u == IF None \in {f, g} THEN {} ELSE t \cup Changed(p, f, g)
<1>0. p \in {"BotDetector", "RateLimiter", "IPReputation"} /\ None \notin Forms(p)
      /\ Inputs \subseteq Values /\ None \notin Values
  BY Places, SettingsAssumption DEF Filling, TableSound
<1>1. CASE p = "BotDetector"
  <2> DEFINE F == {"headers", "behaviour", "dns", "texts", "html", "times", "trust"}
  <2>0. Forms(p) = Version("bot") /\ Version("bot") = [F -> Values] /\ Fields("bot") = F
    BY <1>1, FormsAre DEF Version, Fields
  <2>1. CASE g = None
    BY <1>1, <2>1 DEF FormSound
  <2>2. CASE f = None /\ g # None
    <3>1. d # None /\ g = d.bot
      BY <1>1, <2>2 DEF Edits, RulesDialogOpened
    <3>2. d.bot \in past["bot"] /\ d.bot \in Version("bot")
      BY <1>1, <3>1, ReadVersions DEF Holding, PartOf
    <3>3. Based(g, u, "bot", past)
      BY <3>1, <3>2, BasedOn
    <3> QED
      BY <1>1, <2>0, <2>2, <3>1, <3>2, <3>3 DEF FormSound, PartOf
  <2>3. CASE f # None /\ g # None
    <3>1. f \in [F -> Values] /\ Based(f, t, "bot", past)
      BY <1>1, <2>0, <2>3 DEF FormSound, Holding, PartOf
    <3>2. g \in HeaderScoreEdits(f) \cup BehaviourScoreEdits(f)
      BY <1>1, <2>3 DEF Edits
    <3>3. g \in [F -> Values]
      BY <1>0, <3>1, <3>2 DEF HeaderScoreEdits, BehaviourScoreEdits
    <3>4. u = t \cup {x \in F : f[x] # g[x]}
      BY <1>1, <2>3, <3>1 DEF Changed
    <3> HIDE DEF u, F
    <3>5. Based(g, u, "bot", past)
      BY <2>0, <3>1, <3>4, BasedEdited
    <3>6. FormSound(p, g, u, d, past)
      BY <1>1, <2>0, <2>3, <3>3, <3>5 DEF FormSound, PartOf
    <3> QED
      BY <3>6 DEF u
  <2> QED
    BY <2>1, <2>2, <2>3
<1>2. CASE p = "RateLimiter"
  <2>1. d # None /\ g \in LimitRows(d, f)
    BY <1>2 DEF Edits, LimitCards
  <2>2. f # None => f \in [type : LimitTypes, vals : Values]
    BY <1>2, FormsAre DEF FormSound
  <2>3. StartEdits(d) \subseteq [type : LimitTypes, vals : Values]
    <3>1. \A q \in LimitTypes : d[q] \in [{"on", "vals"} -> Values]
      BY <1>2, <2>1, ReadVersions, FieldNames DEF Version
    <3>2. \A q \in LimitTypes : d[q].vals \in Values
      BY <3>1
    <3> QED
      BY <3>2 DEF StartEdits
  <2>4. g # None => g \in [type : LimitTypes, vals : Values]
    BY <1>0, <2>1, <2>2, <2>3 DEF LimitRows, LimitEdits, CancelEdit
  <2> QED
    BY <1>2, <2>4, FormsAre DEF FormSound, Holding
<1>3. CASE p = "IPReputation"
  <2> DEFINE V == {None} \cup Values
             F == {"maxmind", "spamhaus"}
             T == [config : {None} \cup [F -> V], dirty : SUBSET F]
             c == IF d = None THEN None ELSE d.reputation
             cur == CurrentConfig(c, f)
  <2>0. Forms(p) = T /\ Fields("reputation") = F
    BY <1>3, FormsAre DEF Fields
  <2>1. f \in T /\ f # None
    BY <1>3, <2>0 DEF FormSound
  <2>2. PICK card \in F, v \in Inputs :
          g = [config |-> [cur EXCEPT ![card] = v], dirty |-> f.dirty \cup {card}]
    BY <1>3 DEF Edits, ScoreEdits
  <2>3. c # None => c \in past["reputation"] /\ c \in [F -> Values]
    BY <1>3, <2>0, ReadVersions DEF Version
  <2>4. cur \in [F -> V] /\ None \notin [F -> V]
    <3>1. None \notin [F -> V]
      BY <2>0, FormsAre, SettingsAssumption
    <3> QED
      BY <2>1, <2>3, <3>1 DEF CurrentConfig
  <2>5. /\ g.config \in [F -> V] /\ g.config # None /\ g.dirty = f.dirty \cup {card}
        /\ \A x \in F \ {card} : g.config[x] = cur[x]
        /\ g \in T /\ g # None
    <3>1. g.config = [cur EXCEPT ![card] = v] /\ g.dirty = f.dirty \cup {card} /\ v \in Values
      BY <1>0, <2>2
    <3>2. [cur EXCEPT ![card] = v] \in [F -> V] /\ \A x \in F \ {card} : [cur EXCEPT ![card] = v][x] = cur[x]
      BY <2>4, <3>1
    <3>3. f.dirty \cup {card} \in SUBSET F
      BY <2>1
    <3> HIDE DEF cur
    <3>4. g \in T
      BY <2>2, <3>1, <3>2, <3>3
    <3> QED
      BY <1>0, <2>0, <2>4, <3>1, <3>2, <3>4
  <2>6. u = t \cup g.dirty
    BY <1>3, <2>1, <2>5 DEF Changed
  <2>7. /\ f.config = None => f.dirty = {}
        /\ f.config # None => Based(ReputationPayload(f.config), t, "reputation", past)
    BY <1>3 DEF FormSound
  <2>8. \A e \in [F -> V] : ReputationPayload(e) = [x \in F |-> IF e[x] = None THEN Blank ELSE e[x]]
    BY DEF ReputationPayload
  <2>9. Based(ReputationPayload(g.config), u, "reputation", past)
    <3>0. card \in u /\ t \subseteq u
      BY <2>5, <2>6
    <3>1. CASE f.config # None
      <4>1. cur = f.config
        BY <3>1 DEF CurrentConfig
      <4>2. \A x \in F \ {card} : ReputationPayload(g.config)[x] = ReputationPayload(f.config)[x]
        BY <2>4, <2>5, <2>8, <4>1
      <4> HIDE DEF cur, u, F
      <4> QED
        BY <2>0, <2>7, <3>0, <3>1, <4>2, BasedEdited
    <3>2. CASE f.config = None /\ c # None
      <4>1. cur = c
        BY <3>2 DEF CurrentConfig
      <4>2. \A x \in F \ {card} : ReputationPayload(g.config)[x] = c[x]
        BY <1>0, <2>3, <2>5, <2>8, <3>2, <4>1
      <4> HIDE DEF cur, u, F, c
      <4> QED
        BY <2>0, <2>3, <3>0, <3>2, <4>2, BasedOn
    <3>3. CASE f.config = None /\ c = None
      <4>1. cur = [maxmind |-> None, spamhaus |-> None]
        BY <3>3 DEF CurrentConfig
      <4> DEFINE e == [maxmind |-> Blank, spamhaus |-> Blank]
      <4>2. \A x \in F \ {card} : ReputationPayload(g.config)[x] = e[x]
        BY <2>5, <2>8, <4>1
      <4>3. e \in BuiltIn["reputation"]
        BY BuiltIns
      <4> HIDE DEF cur, u, F, e
      <4> QED
        BY <2>0, <3>0, <4>2, <4>3, BasedOn
    <3> QED
      BY <3>1, <3>2, <3>3
  <2> HIDE DEF T, u
  <2>10. FormSound(p, g, u, d, past)
    BY <1>3, <2>0, <2>5, <2>9 DEF FormSound, Holding
  <2> QED
    BY <2>10 DEF u
<1> QED
  BY <1>0, <1>1, <1>2, <1>3

\* The form of a page that has just been mounted (Open).
LEMMA OpenSound ==
    ASSUME TableSound, NEW p \in PagesOf(section), NEW d, OfVersions(section, d, past)
    PROVE  LET f == Filled(p, d, Opened(p)) IN
           FormSound(p, f, {}, d, past) /\ Follows(p, d, f, {})
<1> DEFINE o == Opened(p)
<1>0. p \in {"WAFEngine", "ScoringEngine", "AnomalyBehavior", "AppForm", "Challenged",
             "BotDetector", "IPReputation", "RateLimiter"} /\ None \notin Forms(p)
  BY Places DEF TableSound
<1>1. Blank \in Values /\ Default \in Values /\ Other \in Values
  BY DEF Values
<1>2. p = "AppForm" => o.tab = "basic"
  BY DEF Opened, AppOpened, WithTab
<1>3. CASE d # None /\ p \in Filling
  BY <1>2, <1>3, FillSound
<1>4. CASE ~(d # None /\ p \in Filling)
  <2>1. Filled(p, d, o) = o
    BY <1>0, <1>4 DEF Filled, Filling
  <2>2. Follows(p, d, o, {})
    BY <1>4 DEF Follows
  <2>3. FormSound(p, o, {}, d, past)
    <3>1. CASE p = "WAFEngine"
      <4>1. o = WAFInitial /\ WAFInitial \in Version("waf")
        BY <1>1, <3>1 DEF Opened, WAFInitial, Version, Fields
      <4>2. Based(WAFInitial, {}, "waf", past)
        BY BasedOn, BuiltIns
      <4> HIDE DEF o
      <4> QED
        BY <1>0, <3>1, <4>1, <4>2, FormsAre DEF FormSound, PartOf
    <3>2. CASE p \in {"ScoringEngine", "AnomalyBehavior"}
      BY <1>4, <3>2 DEF Opened, FormSound, Filling
    <3>3. CASE p \in {"BotDetector", "RateLimiter"}
      BY <3>3 DEF Opened, FormSound
    <3>4. CASE p = "Challenged"
      <4>1. o \in [texts : Values, html : Values, mode : {"basic", "custom"},
                   times : Values, attempts : Values, trust : Values]
        BY <1>1, <3>4 DEF Opened, ChallengedOpened
      <4> HIDE DEF o
      <4> QED
        BY <1>0, <3>4, <4>1, FormsAre DEF FormSound, Holding
    <3>5. CASE p = "IPReputation"
      <4>1. o = [config |-> None, dirty |-> {}]
        BY <3>5 DEF Opened, ReputationOpened
      <4>2. o \in Forms(p)
        BY <3>5, <4>1, FormsAre
      <4> QED
        BY <1>0, <3>5, <4>1, <4>2 DEF FormSound, Holding
    <3>6. CASE p = "AppForm"
      <4> DEFINE F == {"domain", "note", "scheme", "up", "ports", "health", "connection",
                       "headers", "cors"}
      <4>1. o = WithTab(defaultAppConfig, "basic")
        BY <3>6 DEF Opened, AppOpened
      <4>2. defaultAppConfig \in [F -> Values]
        <5>1. AppInitial \in [F -> Values]
          BY <1>1 DEF AppInitial
        <5> QED
          BY <1>1, <5>1 DEF defaultAppConfig
      <4>3. o = [x \in F \cup {"tab"} |-> IF x = "tab" THEN "basic" ELSE defaultAppConfig[x]]
        BY <4>1, <4>2 DEF WithTab
      <4> HIDE DEF o
      <4>4. o \in [domain : Values, note : Values, scheme : Values, up : Values,
                   ports : Values, health : Values, connection : Values,
                   headers : Values, cors : Values, tab : {"basic", "advanced"}]
        BY <4>2, <4>3
      <4>5. \A x \in F : o[x] = defaultAppConfig[x]
        BY <4>3
      <4>6. Fields("app") = F
        BY DEF Fields
      <4>7. Based(o, {}, "app", past)
        BY <4>5, <4>6, BasedOn, BuiltIns
      <4> QED
        BY <1>0, <3>6, <4>4, <4>7, FormsAre DEF FormSound, PartOf
    <3> QED
      BY <1>0, <3>1, <3>2, <3>3, <3>4, <3>5, <3>6
  <2> QED
    BY <2>1, <2>2, <2>3
<1> QED
  BY <1>3, <1>4

\* What a page sends is a body of its part, but for the fields of the edit (Save).
LEMMA SaveIsSound ==
    ASSUME SoundInv, NEW b \in Browsers, page[b] # None, NEW s \in Saves(b)
    PROVE  SaveSound(section, s, past) /\ (s.closes => page[b] \in {"BotDetector", "RateLimiter", "AppForm"})
<1> DEFINE p == page[b]
           d == cache[b].data
           f == form[b]
           t == touched[b]
<1>0. /\ TableSound /\ p \in PagesOf(section) /\ OfVersions(section, d, past) /\ FormSound(p, f, t, d, past)
      /\ Follows(p, d, f, t)
  BY DEF SoundInv, BrowserSound
<1>1. /\ p \in {"WAFEngine", "ScoringEngine", "AnomalyBehavior", "AppForm", "Challenged",
                "BotDetector", "IPReputation", "RateLimiter"}
      /\ None \notin Forms(p) /\ section \in Sections
  BY <1>0, Places DEF TableSound
<1>2. CASE p \in {"WAFEngine", "ScoringEngine", "AnomalyBehavior"}
  <2>1. /\ s.part = PartOf(p) /\ s.payload = f /\ s.fields = t /\ ~s.closes /\ f # None
    BY <1>0, <1>2 DEF Saves, PartOf, FormSound
  <2>2. /\ AsStored(s.part, s.payload) = f /\ s.part # "app" /\ s.part \in Parts(section)
    BY <1>0, <1>1, <1>2, <2>1, Places DEF AsStored, PartOf, Holding
  <2>3. f \in Version(PartOf(p)) /\ Based(f, t, PartOf(p), past)
    BY <1>0, <1>2, <2>1, FormsAre DEF FormSound, Holding, PartOf
  <2> QED
    BY <2>1, <2>2, <2>3 DEF SaveSound
<1>3. CASE p = "AppForm"
  <2> DEFINE F == {"domain", "note", "scheme", "up", "ports", "health", "connection",
                   "headers", "cors"}
             c == [x \in F |-> f[x]]
             a == AppStored(c)
  <2>1. f # None /\ Based(f, t, "app", past)
        /\ f \in [domain : Values, note : Values, scheme : Values, up : Values,
                  ports : Values, health : Values, connection : Values,
                  headers : Values, cors : Values, tab : {"basic", "advanced"}]
    BY <1>0, <1>3, FormsAre DEF FormSound, Holding, PartOf
  <2>2. Fields("app") = F /\ DOMAIN AppInitial = F
    BY FieldNames DEF Fields
  <2>3. s.part = "app" /\ s.payload = c /\ s.fields = t
    BY <1>3, <2>2 DEF Saves, AppSaves
  <2>4. section = "app" /\ "app" \in Parts(section)
    BY <1>0, <1>1, <1>3, Places DEF Holding, PartOf
  <2>5. c \in [F -> Values] /\ \A x \in F : c[x] = f[x]
    BY <2>1
  <2>6. \A v \in Values : OrDefault(v) \in Values
    BY DEF OrDefault, Values
  <2> HIDE DEF c
  <2>7. /\ a \in [F -> Values] /\ a.note = Blank
        /\ a.ports \in {c.ports, OrDefault(c.ports)}
        /\ \A x \in F \ {"note", "ports"} : a[x] = c[x]
    <3>1. Blank \in Values
      BY DEF Values
    <3> QED
      BY <2>5, <2>6, <3>1 DEF AppStored
  <2> HIDE DEF a, F
  <2>8. PICK base \in past["app"] \cup BuiltIn["app"] :
          \A x \in F \ t : Shared!Kept(f[x], base[x])
    BY <2>1, <2>2 DEF Based
  <2>9. base.note = Blank
    <3>1. defaultAppConfig.note = Blank
      BY DEF defaultAppConfig, AppInitial
    <3>2. \A v \in past["app"] : v.note = Blank
      BY <1>0, <2>4 DEF TableSound
    <3> QED
      BY <3>1, <3>2, BuiltIns
  <2>10. \A x \in F \ t : Shared!Kept(a[x], base[x])
    <3> SUFFICES ASSUME NEW x \in F \ t PROVE Shared!Kept(a[x], base[x])
      OBVIOUS
    <3>1. CASE x = "note"
      BY <2>7, <2>9, <3>1 DEF Shared!Kept
    <3>2. CASE x = "ports"
      BY <2>5, <2>7, <2>8, <3>2 DEF Shared!Kept, OrDefault
    <3>3. CASE x \notin {"note", "ports"}
      BY <2>5, <2>7, <2>8, <3>3
    <3> QED
      BY <3>1, <3>2, <3>3
  <2>11. AsStored(s.part, s.payload) = a
    BY <2>3 DEF AsStored, a
  <2>12. Based(a, t, "app", past)
    BY <2>2, <2>10 DEF Based
  <2> QED
    BY <1>3, <2>2, <2>3, <2>4, <2>7, <2>11, <2>12 DEF SaveSound, Version
<1>4. CASE p \in {"Challenged", "BotDetector"}
  <2> DEFINE F == {"headers", "behaviour", "dns", "texts", "html", "times", "trust"}
  <2>0. Fields("bot") = F /\ "bot" \in Parts(section) /\ Version("bot") = [F -> Values]
    BY <1>0, <1>1, <1>4, Places DEF Fields, Version, Holding, PartOf
  <2>1. d # None /\ d.bot \in past["bot"] /\ d.bot \in [F -> Values]
    <3>1. d # None
      BY <1>4 DEF Saves
    <3> QED
      BY <1>0, <1>4, <2>0, <3>1, ReadVersions DEF Holding, PartOf
  <2>2. CASE p = "Challenged"
    <3> DEFINE c == ChallengedPayload(d.bot, f)
    <3>1. f # None /\ t \cap {"html", "mode"} = {}
          /\ f \in [texts : Values, html : Values, mode : {"basic", "custom"},
                    times : Values, attempts : Values, trust : Values]
      BY <1>0, <2>2, FormsAre DEF FormSound
    <3>2. s.part = "bot" /\ s.payload = c /\ s.fields = t /\ ~s.closes
      BY <2>1, <2>2 DEF Saves
    <3> DEFINE w == ChallengedFilled(d.bot)
    <3>3. \A x \in {"texts", "html", "mode", "times", "trust"} \ t : f[x] = w[x]
      <4>1. w = Filled(p, d, f) /\ p \in Filling
        BY <2>1, <2>2 DEF Filled, Filling
      <4>2. DOMAIN w = {"texts", "html", "mode", "times", "attempts", "trust"}
        BY DEF ChallengedFilled
      <4> HIDE DEF w
      <4> QED
        BY <1>0, <2>1, <4>1, <4>2 DEF Follows
    <3>4. /\ w.texts = OrDefault(d.bot.texts) /\ w.times = OrDefault(d.bot.times)
          /\ w.html = d.bot.html /\ w.trust = d.bot.trust
          /\ w.mode = IF d.bot.html # Blank THEN "custom" ELSE "basic"
      BY DEF ChallengedFilled
    <3> HIDE DEF w
    <3>5. /\ c \in [F -> Values] /\ c.texts = f.texts /\ c.times = f.times /\ c.trust = f.trust
          /\ c.html = (IF f.mode = "custom" THEN f.html ELSE Blank)
          /\ \A x \in {"headers", "behaviour", "dns"} : c[x] = d.bot[x]
      <4>1. Blank \in Values
        BY DEF Values
      <4> QED
        BY <2>1, <3>1, <4>1 DEF ChallengedPayload
    <3> HIDE DEF c
    <3>6. c.html = d.bot.html
      BY <3>1, <3>3, <3>4, <3>5
    <3>7. \A x \in F \ t : c[x] \in {d.bot[x], OrDefault(d.bot[x])}
      BY <3>3, <3>4, <3>5, <3>6
    <3>8. Based(c, t, "bot", past)
      BY <2>0, <2>1, <3>7, BasedOn
    <3>9. AsStored(s.part, s.payload) = c
      BY <3>2 DEF AsStored
    <3> HIDE DEF F
    <3> QED
      BY <2>0, <3>2, <3>5, <3>8, <3>9 DEF SaveSound
  <2>3. CASE p = "BotDetector"
    <3>1. CASE s \in {[part |-> "bot", payload |-> DNSToggled(d.bot), fields |-> {"dns"}, closes |-> FALSE]}
      <4> DEFINE c == DNSToggled(d.bot)
      <4>1. c \in [F -> Values] /\ \A x \in F \ {"dns"} : c[x] = d.bot[x]
        BY <2>1 DEF DNSToggled, Flip, Values, On, Other, Blank, Default
      <4> HIDE DEF c
      <4>2. Based(c, {"dns"}, "bot", past)
        BY <2>0, <2>1, <4>1, BasedOn
      <4>3. s.part = "bot" /\ s.payload = c /\ s.fields = {"dns"} /\ ~s.closes
        BY <3>1 DEF c
      <4>4. AsStored(s.part, s.payload) = c
        BY <4>3 DEF AsStored
      <4> HIDE DEF F
      <4> QED
        BY <2>0, <4>1, <4>2, <4>3, <4>4 DEF SaveSound
    <3>2. CASE f # None /\ s = [part |-> "bot", payload |-> f, fields |-> t, closes |-> TRUE]
      <4>1. f \in Version("bot") /\ Based(f, t, "bot", past)
        BY <1>0, <2>3, <3>2, FormsAre DEF FormSound, Holding, PartOf
      <4>2. s.part = "bot" /\ s.payload = f /\ s.fields = t
        BY <3>2
      <4>3. AsStored(s.part, s.payload) = f
        BY <4>2 DEF AsStored
      <4> HIDE DEF F
      <4> QED
        BY <2>0, <2>3, <4>1, <4>2, <4>3 DEF SaveSound
    <3>3. \/ s \in {[part |-> "bot", payload |-> DNSToggled(d.bot), fields |-> {"dns"}, closes |-> FALSE]}
          \/ f # None /\ s = [part |-> "bot", payload |-> f, fields |-> t, closes |-> TRUE]
      BY <2>1, <2>3 DEF Saves
    <3> QED
      BY <3>1, <3>2, <3>3
  <2> QED
    BY <1>4, <2>2, <2>3
<1>5. CASE p = "RateLimiter"
  <2>0. /\ d # None /\ Parts(section) = LimitTypes \cup {"exclude"}
        /\ Fields("exclude") = Extensions \cup {"path"} /\ \A q \in LimitTypes : Fields(q) = {"on", "vals"}
        /\ "app" \notin Parts(section)
    <3>1. d # None
      BY <1>5 DEF Saves
    <3>2. Parts(section) = LimitTypes \cup {"exclude"}
      BY <1>0, <1>1, <1>5, Places
    <3> QED
      BY <3>1, <3>2, FieldNames, SettingsAssumption DEF AllSections
  <2>1. \A q \in LimitTypes \cup {"exclude"} : d[q] \in past[q] /\ d[q] \in Version(q)
    BY <1>0, <1>5, <2>0, ReadVersions
  <2>2. \A v \in Values : Flip(v) \in Values
    BY DEF Flip, Values, On, Other, Blank
  <2>3. CASE s \in LimitToggles(d)
    <3>1. PICK q \in LimitTypes :
            s = [part |-> q, payload |-> [d[q] EXCEPT !.on = Flip(@)], fields |-> {"on"}, closes |-> FALSE]
      BY <2>3 DEF LimitToggles
    <3> DEFINE v == d[q]
               c == [v EXCEPT !.on = Flip(@)]
    <3>2. v \in [{"on", "vals"} -> Values] /\ v \in past[q]
      BY <2>0, <2>1 DEF Version
    <3> HIDE DEF v
    <3>3. c \in [{"on", "vals"} -> Values] /\ c.vals = v.vals
      BY <2>2, <3>2
    <3>4. s.part = q /\ s.payload = c /\ s.fields = {"on"} /\ ~s.closes
      BY <3>1 DEF v
    <3> HIDE DEF c
    <3>5. Based(c, {"on"}, q, past)
      BY <2>0, <3>2, <3>3, BasedOn
    <3>6. AsStored(s.part, s.payload) = c
      BY <2>0, <3>4 DEF AsStored
    <3> QED
      BY <2>0, <3>3, <3>4, <3>5, <3>6 DEF SaveSound, Version
  <2>4. CASE s \in ExcludeCard(d)
    <3> DEFINE E == Extensions \cup {"path"}
    <3>1. PICK e \in E, v \in {On, Blank} : s = ExcludeSave(d, e, v)
      BY <2>4 DEF ExcludeCard, AddExtension, RemoveExtension, AddPath, RemovePath
    <3> DEFINE o == d.exclude
               c == [o EXCEPT ![e] = v]
    <3>2. o \in [E -> Values] /\ o \in past["exclude"]
      BY <2>0, <2>1 DEF Version
    <3>3. v \in Values
      BY DEF Values, On
    <3> HIDE DEF o
    <3>4. c \in [E -> Values] /\ \A x \in E \ {e} : c[x] = o[x]
      BY <3>2, <3>3
    <3>5. s.part = "exclude" /\ s.payload = c /\ s.fields = {e} /\ ~s.closes
      BY <3>1 DEF ExcludeSave, o
    <3> HIDE DEF c
    <3>6. Based(c, {e}, "exclude", past)
      BY <2>0, <3>2, <3>4, BasedOn
    <3>7. AsStored(s.part, s.payload) = c
      BY <3>5 DEF AsStored
    <3> QED
      BY <2>0, <3>4, <3>5, <3>6, <3>7 DEF SaveSound, Version
  <2>5. CASE f # None /\ s \in LimitSaves(d, f)
    <3>1. f \in [type : LimitTypes, vals : Values]
      BY <1>0, <1>5, <2>5, FormsAre DEF FormSound
    <3> DEFINE q == f.type
               v == d[q]
               c == [on |-> v.on, vals |-> f.vals]
    <3>2. q \in LimitTypes /\ f.vals \in Values
      BY <3>1
    <3>3. v \in [{"on", "vals"} -> Values] /\ v \in past[q]
      BY <2>0, <2>1, <3>2 DEF Version
    <3>4. s.part = q /\ s.payload = c /\ s.fields = {"vals"}
      BY <2>5 DEF LimitSaves
    <3> HIDE DEF v, q
    <3>5. c \in [{"on", "vals"} -> Values] /\ c.on = v.on
      BY <3>2, <3>3
    <3> HIDE DEF c
    <3>6. Based(c, {"vals"}, q, past)
      BY <2>0, <3>2, <3>3, <3>5, BasedOn
    <3>7. AsStored(s.part, s.payload) = c
      BY <2>0, <3>2, <3>4 DEF AsStored
    <3> QED
      BY <1>5, <2>0, <3>2, <3>4, <3>5, <3>6, <3>7 DEF SaveSound, Version
  <2>6. s \in LimitToggles(d) \cup ExcludeCard(d) \/ (f # None /\ s \in LimitSaves(d, f))
    BY <1>5, <2>0 DEF Saves
  <2> QED
    BY <2>3, <2>4, <2>5, <2>6
<1>6. CASE p = "IPReputation"
  <2> DEFINE F == {"maxmind", "spamhaus"}
             c == ReputationPayload(f.config)
  <2>0. Fields("reputation") = F /\ "reputation" \in Parts(section)
    BY <1>0, <1>1, <1>6, Places DEF Fields
  <2>1. PICK card \in f.dirty :
          s = [part |-> "reputation", payload |-> c, fields |-> t, closes |-> FALSE, clears |-> card]
    BY <1>6 DEF Saves
  <2>2. f # None /\ f \in [config : {None} \cup [F -> {None} \cup Values], dirty : SUBSET F]
    BY <1>0, <1>6, <2>0, FormsAre DEF FormSound
  <2>3. f.config # None /\ Based(c, t, "reputation", past)
    BY <1>0, <1>6, <2>1 DEF FormSound
  <2>4. c \in [F -> Values]
    <3>1. f.config \in [F -> {None} \cup Values] /\ Blank \in Values
      BY <2>2, <2>3 DEF Values
    <3> QED
      BY <3>1 DEF ReputationPayload
  <2> HIDE DEF c
  <2>5. s.part = "reputation" /\ s.payload = c /\ s.fields = t /\ ~s.closes
    BY <2>1
  <2>6. AsStored(s.part, s.payload) = c
    BY <2>5 DEF AsStored
  <2> HIDE DEF F
  <2> QED
    BY <2>0, <2>3, <2>4, <2>5, <2>6 DEF SaveSound, Version
<1> QED
  BY <1>1, <1>2, <1>3, <1>4, <1>5, <1>6

\* The settings an installation starts with are a version of every part.
LEMMA FirstTable ==
    ASSUME NEW s \in Sections
    PROVE  /\ Initial(s) = [p \in Parts(s) |-> Initial(s)[p]]
           /\ \A p \in Parts(s) : Initial(s)[p] \in Version(p)
           /\ s = "app" => Initial(s)["app"].note = Blank
<1>0. s \in AllSections
  BY SettingsAssumption
<1>1. Blank \in Values /\ Default \in Values /\ Other \in Values /\ On \in Values
  BY DEF Values, On
<1>2. /\ WAFInitial \in [DOMAIN WAFInitial -> Values]
      /\ ScoringInitial \in [DOMAIN ScoringInitial -> Values]
      /\ AnomalyInitial \in [DOMAIN AnomalyInitial -> Values]
  BY <1>1 DEF WAFInitial, ScoringInitial, AnomalyInitial
<1>3. /\ BotInitial \in [DOMAIN BotInitial -> Values]
      /\ ReputationInitial \in [DOMAIN ReputationInitial -> Values]
  BY <1>1 DEF BotInitial, ReputationInitial
<1>4. AppInitial \in [DOMAIN AppInitial -> Values] /\ AppInitial.note = Blank
  BY <1>1 DEF AppInitial
<1>5. /\ ExcludeInitial \in Version("exclude")
      /\ \A t \in LimitTypes : RateLimitInitial[t] \in Version(t)
  <2>1. ExcludeInitial \in [Extensions \cup {"path"} -> Values]
    BY <1>1 DEF ExcludeInitial
  <2>2. \A t \in LimitTypes : RateLimitInitial[t] \in [{"on", "vals"} -> Values]
    BY <1>1 DEF RateLimitInitial
  <2> QED
    BY <2>1, <2>2, FieldNames DEF Version
<1>6. CASE s = "ratelimit"
  <2>1. Initial(s) = [p \in Parts(s) |-> IF p = "exclude" THEN ExcludeInitial ELSE RateLimitInitial[p]]
    BY <1>6 DEF Initial, Parts
  <2> QED
    BY <1>5, <1>6, <2>1 DEF Parts
<1>7. CASE s # "ratelimit"
  <2>1. Parts(s) = {s}
    BY <1>7 DEF Parts
  <2>2. \/ s = "waf" /\ Initial(s) = [waf |-> WAFInitial]
        \/ s = "scoring" /\ Initial(s) = [scoring |-> ScoringInitial]
        \/ s = "anomaly" /\ Initial(s) = [anomaly |-> AnomalyInitial]
        \/ s = "app" /\ Initial(s) = [app |-> AppInitial]
        \/ s = "bot" /\ Initial(s) = [bot |-> BotInitial]
        \/ s = "reputation" /\ Initial(s) = [reputation |-> ReputationInitial]
    BY <1>0, <1>7 DEF AllSections, Initial
  <2>3. Initial(s) = [p \in Parts(s) |-> Initial(s)[p]]
    BY <2>1, <2>2
  <2> QED
    BY <1>2, <1>3, <1>4, <2>1, <2>2, <2>3, FieldNames DEF Version
<1> QED
  BY <1>6, <1>7

\* A sound table is a table of its section, so it is never mistaken for None.
LEMMA TableIsThere ==
    ASSUME TableSound
    PROVE  stored # None /\ OfVersions(section, stored, past)
<1>1. section \in Sections /\ stored = [p \in Parts(section) |-> stored[p]]
      /\ \A p \in Parts(section) : stored[p] \in past[p] /\ stored[p] \in Version(p)
  BY DEF TableSound
<1> DEFINE first == Initial(section)
<1>2. DOMAIN first = Parts(section) /\ \A p \in Parts(section) : DOMAIN first[p] = Fields(p)
  <2>1. first = [p \in Parts(section) |-> first[p]] /\ \A p \in Parts(section) : first[p] \in Version(p)
    BY <1>1, FirstTable
  <2> HIDE DEF first
  <2>2. DOMAIN first = Parts(section)
    BY <2>1
  <2>3. \A p \in Parts(section) : DOMAIN first[p] = Fields(p)
    BY <2>1 DEF Version
  <2> QED
    BY <2>2, <2>3
<1> HIDE DEF first
<1>3. Tables(section) = [DOMAIN first -> UNION {[DOMAIN first[p] -> Values] : p \in DOMAIN first}]
  BY DEF Tables, first
<1> DEFINE U == UNION {[DOMAIN first[p] -> Values] : p \in DOMAIN first}
<1>4. \A p \in Parts(section) : stored[p] \in U
  BY <1>1, <1>2 DEF Version
<1> HIDE DEF U
<1>5. stored \in [DOMAIN first -> U]
  BY <1>1, <1>2, <1>4
<1>6. None \notin Tables(section)
  BY <1>1, SettingsAssumption
<1> QED
  BY <1>1, <1>3, <1>5, <1>6 DEF U, OfVersions

\* Nothing has been read or changed at first.
LEMMA SoundInit == Init => SoundInv
<1> SUFFICES ASSUME Init PROVE SoundInv
  OBVIOUS
<1>1. TableSound
  <2>1. section \in Sections /\ stored = Initial(section) /\ past = [p \in DOMAIN stored |-> {stored[p]}]
    BY DEF Init
  <2>2. /\ stored = [p \in Parts(section) |-> stored[p]]
        /\ \A p \in Parts(section) : stored[p] \in Version(p)
        /\ section = "app" => stored["app"].note = Blank
    BY <2>1, FirstTable
  <2>3. DOMAIN stored = Parts(section)
    BY <2>2
  <2>4. section = "app" => "app" \in Parts(section)
    BY DEF Parts
  <2> QED
    BY <2>1, <2>2, <2>3, <2>4 DEF TableSound
<1>2. ClosesOnly /\ \A r \in reqs : SaveSound(section, r.save, past)
  BY DEF Init, ClosesOnly
<1>3. form = [b \in Browsers |-> form[b]] /\ touched = [b \in Browsers |-> touched[b]]
  BY DEF Init
<1>4. ASSUME NEW b \in Browsers
      PROVE  BrowserSound(section, page[b], cache[b].data, fetch[b], form[b], touched[b], past)
  BY DEF Init, BrowserSound, OfVersions
<1> QED
  BY <1>1, <1>2, <1>3, <1>4 DEF SoundInv

\* A step of one browser that leaves the table alone.
LEMMA OneBrowser ==
    ASSUME SoundInv, UNCHANGED <<section, stored, past>>, NEW b \in Browsers,
           form' = [c \in Browsers |-> form'[c]], touched' = [c \in Browsers |-> touched'[c]],
           \A c \in Browsers \ {b} : /\ page'[c] = page[c] /\ cache'[c] = cache[c]
                                     /\ fetch'[c] = fetch[c] /\ form'[c] = form[c]
                                     /\ touched'[c] = touched[c],
           BrowserSound(section, page'[b], cache'[b].data, fetch'[b], form'[b], touched'[b], past),
           ClosesOnly', \A r \in reqs' : SaveSound(section, r.save, past)
    PROVE  SoundInv'
<1>1. TableSound'
  BY DEF SoundInv, TableSound
<1>2. \A c \in Browsers :
        BrowserSound(section, page'[c], cache'[c].data, fetch'[c], form'[c], touched'[c], past)
  BY DEF SoundInv
<1> QED
  BY <1>1, <1>2 DEF SoundInv

\* A page is mounted (Open).
LEMMA SoundOpen ==
    ASSUME PagesInv, SoundInv, NEW b \in Browsers, NEW p \in PagesOf(section), Open(b, p)
    PROVE  SoundInv'
<1> DEFINE f == Filled(p, cache[b].data, Opened(p))
<1>1. /\ page[b] = None /\ page' = [page EXCEPT ![b] = p] /\ form' = [form EXCEPT ![b] = f]
      /\ touched' = [touched EXCEPT ![b] = {}] /\ fetch' = [fetch EXCEPT ![b] = Mounted(@)]
      /\ UNCHANGED <<section, stored, past, cache, reqs>>
  BY DEF Open, server
<1>2. TableSound /\ OfVersions(section, cache[b].data, past) /\ OfVersions(section, fetch[b].data, past)
      /\ (fetch[b].phase = "answered" => fetch[b].data # None)
  BY DEF SoundInv, BrowserSound
<1>3. FormSound(p, f, {}, cache[b].data, past) /\ Follows(p, cache[b].data, f, {})
  BY <1>2, OpenSound
<1> HIDE DEF f
<1>4. /\ page'[b] = p /\ form'[b] = f /\ touched'[b] = {} /\ fetch'[b] = Mounted(fetch[b])
      /\ form' = [c \in Browsers |-> form'[c]] /\ touched' = [c \in Browsers |-> touched'[c]]
      /\ \A c \in Browsers \ {b} : /\ page'[c] = page[c] /\ cache'[c] = cache[c]
                                   /\ fetch'[c] = fetch[c] /\ form'[c] = form[c]
                                   /\ touched'[c] = touched[c]
  BY <1>1 DEF SoundInv, PagesInv, VersionTypes
<1>5. BrowserSound(section, p, cache[b].data, Mounted(fetch[b]), f, {}, past)
  BY <1>2, <1>3 DEF BrowserSound, Mounted, OfVersions
<1>6. ClosesOnly'
  BY <1>1, <1>4 DEF ClosesOnly, SoundInv, PagesInv, LiveHasPage, VersionTypes, IsSave
<1>7. \A r \in reqs' : SaveSound(section, r.save, past)
  BY <1>1 DEF SoundInv
<1> QED
  BY <1>1, <1>4, <1>5, <1>6, <1>7, OneBrowser

\* A request that is no longer alive carries what it carried.
LEMMA LeftCarries ==
    ASSUME NEW r, IsSave(r)
    PROVE  LET q == [r EXCEPT !.live = FALSE] IN ~q.live /\ q.by = r.by /\ q.save = r.save
BY DEF IsSave

\* A page is unmounted (Leave).
LEMMA SoundLeave ==
    ASSUME PagesInv, SoundInv, NEW b \in Browsers, Leave(b)
    PROVE  SoundInv'
<1> DEFINE left(r) == IF r.by = b THEN [r EXCEPT !.live = FALSE] ELSE r
<1>1. /\ page' = [page EXCEPT ![b] = None] /\ form' = [form EXCEPT ![b] = None]
      /\ touched' = [touched EXCEPT ![b] = {}] /\ reqs' = {left(r) : r \in reqs}
      /\ UNCHANGED <<section, stored, past, cache, fetch>>
  BY DEF Leave, server
<1>2. \A r \in reqs : /\ left(r).save = r.save /\ left(r).by = r.by
                      /\ left(r).live => r.live /\ r.by # b
  BY LeftCarries DEF PagesInv, VersionTypes
<1> HIDE DEF left
<1>3. /\ page'[b] = None /\ form' = [c \in Browsers |-> form'[c]]
      /\ touched' = [c \in Browsers |-> touched'[c]]
      /\ \A c \in Browsers \ {b} : /\ page'[c] = page[c] /\ cache'[c] = cache[c]
                                   /\ fetch'[c] = fetch[c] /\ form'[c] = form[c]
                                   /\ touched'[c] = touched[c]
  BY <1>1 DEF SoundInv, PagesInv, VersionTypes
<1>4. BrowserSound(section, page'[b], cache'[b].data, fetch'[b], form'[b], touched'[b], past)
  BY <1>1, <1>3 DEF SoundInv, BrowserSound
<1>5. ClosesOnly'
  <2>1. \A r \in reqs : r.by \in Browsers
    BY DEF PagesInv, VersionTypes, IsSave
  <2>2. \A r \in reqs : r.live /\ r.save.closes => page[r.by] \in {"BotDetector", "RateLimiter", "AppForm"}
    BY DEF SoundInv, ClosesOnly
  <2>3. ASSUME NEW q \in reqs', q.live, q.save.closes
        PROVE  page'[q.by] \in {"BotDetector", "RateLimiter", "AppForm"}
    <3>1. PICK r \in reqs : q = left(r)
      BY <1>1
    <3>2. r.live /\ r.by # b /\ q.by = r.by /\ r.save.closes
      BY <1>2, <2>3, <3>1
    <3> QED
      BY <1>3, <2>1, <2>2, <3>2
  <2> QED
    BY <2>3 DEF ClosesOnly
<1>6. \A r \in reqs' : SaveSound(section, r.save, past)
  BY <1>1, <1>2 DEF SoundInv
<1> QED
  BY <1>1, <1>3, <1>4, <1>5, <1>6, OneBrowser

\* A read is dropped, begun or given up (Forget, ServerReads, FetchFails).
LEMMA SoundReads ==
    ASSUME PagesInv, SoundInv, NEW b \in Browsers, Forget(b) \/ ServerReads(b) \/ FetchFails(b)
    PROVE  SoundInv'
<1>1. UNCHANGED <<section, stored, past, page, form, touched, reqs>>
  BY DEF Forget, ServerReads, FetchFails, server
<1>2. /\ \A c \in Browsers \ {b} : cache'[c] = cache[c] /\ fetch'[c] = fetch[c]
      /\ \/ page[b] = None /\ fetch'[b] = fetch[b] /\ cache'[b] = Unloaded
         \/ cache'[b] = cache[b] /\ fetch'[b] \in {Idle, AnsweredWith(stored, version)}
  BY DEF Forget, ServerReads, FetchFails, PagesInv, VersionTypes
<1>3. stored # None /\ OfVersions(section, stored, past)
  BY TableIsThere DEF SoundInv
<1>4. BrowserSound(section, page'[b], cache'[b].data, fetch'[b], form'[b], touched'[b], past)
  BY <1>1, <1>2, <1>3 DEF SoundInv, BrowserSound, OfVersions, AnsweredWith
<1>5. ClosesOnly' /\ \A r \in reqs' : SaveSound(section, r.save, past)
  BY <1>1 DEF ClosesOnly, SoundInv
<1>6. form' = [c \in Browsers |-> form'[c]] /\ touched' = [c \in Browsers |-> touched'[c]]
  BY <1>1 DEF SoundInv
<1> QED
  BY <1>1, <1>2, <1>4, <1>5, <1>6, OneBrowser

\* An answer comes in (Deliver): the form is filled anew unless the data is the same.
LEMMA SoundDeliver ==
    ASSUME PagesInv, SoundInv, NEW b \in Browsers, Deliver(b)
    PROVE  SoundInv'
<1> DEFINE p == page[b]
           d == fetch[b].data
           fills == p \in Filling /\ d # cache[b].data
           f == IF fills THEN Filled(p, d, form[b]) ELSE form[b]
           t == IF fills THEN {} ELSE touched[b]
<1>0. /\ TableSound /\ p \in PagesOf(section) \cup {None} /\ OfVersions(section, d, past)
      /\ OfVersions(section, cache[b].data, past)
      /\ p # None => FormSound(p, form[b], touched[b], cache[b].data, past)
                     /\ Follows(p, cache[b].data, form[b], touched[b])
      /\ fetch[b].phase = "answered" => d # None
  BY DEF SoundInv, BrowserSound
<1>1. /\ fetch[b].phase = "answered" /\ d # None /\ cache' = [cache EXCEPT ![b] = Received(fetch[b])]
      /\ fetch' = [fetch EXCEPT ![b] = Idle]
      /\ UNCHANGED <<section, stored, past, page, reqs>>
  BY <1>0 DEF Deliver, server
<1>2. form' = [form EXCEPT ![b] = f] /\ touched' = [touched EXCEPT ![b] = t]
  BY DEF Deliver, SoundInv
<1>3. p # None => FormSound(p, f, t, d, past) /\ Follows(p, d, f, t)
  <2> SUFFICES ASSUME p # None PROVE FormSound(p, f, t, d, past) /\ Follows(p, d, f, t)
    OBVIOUS
  <2>1. CASE fills
    <3>1. p = "AppForm" => form[b].tab \in {"basic", "advanced"}
      <4>1. p = "AppForm" => form[b] \in Forms(p)
        BY <1>0 DEF FormSound
      <4> QED
        BY <2>1, <4>1, FormFields
    <3> QED
      BY <1>0, <1>1, <2>1, <3>1, FillSound
  <2>2. CASE ~fills
    <3>1. p \in Filling => d = cache[b].data
      BY <2>2
    <3>2. p \notin Filling => Follows(p, d, form[b], touched[b])
      BY DEF Follows
    <3>3. FormSound(p, form[b], touched[b], d, past)
      BY <1>0, <3>1 DEF FormSound, Filling
    <3> QED
      BY <1>0, <2>2, <3>1, <3>2, <3>3
  <2> QED
    BY <2>1, <2>2
<1> HIDE DEF f, t, fills
<1>4. /\ cache'[b].data = d /\ fetch'[b] = Idle /\ form'[b] = f /\ touched'[b] = t /\ page'[b] = p
      /\ form' = [c \in Browsers |-> form'[c]] /\ touched' = [c \in Browsers |-> touched'[c]]
      /\ \A c \in Browsers \ {b} : /\ page'[c] = page[c] /\ cache'[c] = cache[c]
                                   /\ fetch'[c] = fetch[c] /\ form'[c] = form[c]
                                   /\ touched'[c] = touched[c]
  BY <1>1, <1>2 DEF SoundInv, PagesInv, VersionTypes, Received
<1>5. BrowserSound(section, p, d, Idle, f, t, past)
  BY <1>0, <1>3 DEF BrowserSound, OfVersions
<1>6. ClosesOnly' /\ \A r \in reqs' : SaveSound(section, r.save, past)
  BY <1>1 DEF ClosesOnly, SoundInv
<1> QED
  BY <1>1, <1>4, <1>5, <1>6, OneBrowser

\* A control is used (Edit).
LEMMA SoundEdit ==
    ASSUME PagesInv, SoundInv, NEW b \in Browsers, Edit(b)
    PROVE  SoundInv'
<1> DEFINE p == page[b]
           d == cache[b].data
<1>0. /\ TableSound /\ p # None /\ p \in PagesOf(section) /\ OfVersions(section, d, past)
      /\ FormSound(p, form[b], touched[b], d, past) /\ Follows(p, d, form[b], touched[b])
  BY DEF SoundInv, BrowserSound, Edit
<1>1. PICK g \in Edits(p, d, form[b]) :
        /\ form' = [form EXCEPT ![b] = g]
        /\ touched' = [touched EXCEPT ![b] = IF None \in {form[b], g} THEN {}
                                             ELSE touched[b] \cup Changed(p, form[b], g)]
  BY DEF Edit, SoundInv
<1> DEFINE t == IF None \in {form[b], g} THEN {} ELSE touched[b] \cup Changed(p, form[b], g)
<1>2. UNCHANGED <<section, stored, past, cache, fetch, page, reqs>>
  BY DEF Edit, server
<1>3. FormSound(p, g, t, d, past) /\ Follows(p, d, g, t)
  <2>1. CASE p \in Filling
    <3>1. /\ None \notin {form[b], g}
          /\ FormSound(p, g, touched[b] \cup Changed(p, form[b], g), d, past)
          /\ Follows(p, d, g, touched[b] \cup Changed(p, form[b], g))
      BY <1>0, <2>1, EditFills
    <3> QED
      BY <3>1
  <2>2. CASE p \notin Filling
    BY <1>0, <2>2, EditRest DEF Follows
  <2> QED
    BY <2>1, <2>2
<1> HIDE DEF t
<1>4. /\ form'[b] = g /\ touched'[b] = t
      /\ form' = [c \in Browsers |-> form'[c]] /\ touched' = [c \in Browsers |-> touched'[c]]
      /\ \A c \in Browsers \ {b} : form'[c] = form[c] /\ touched'[c] = touched[c]
  BY <1>1 DEF SoundInv, t
<1>5. BrowserSound(section, page[b], cache[b].data, fetch[b], g, t, past)
  BY <1>0, <1>3 DEF SoundInv, BrowserSound
<1>6. ClosesOnly' /\ \A r \in reqs' : SaveSound(section, r.save, past)
  BY <1>2 DEF ClosesOnly, SoundInv
<1> QED
  BY <1>2, <1>4, <1>5, <1>6, OneBrowser

\* A save is sent (Save).
LEMMA SoundSave ==
    ASSUME PagesInv, SoundInv, NEW b \in Browsers, Save(b)
    PROVE  SoundInv'
<1>1. PICK s \in Saves(b) :
        reqs' = reqs \cup {[id |-> saves, by |-> b, live |-> TRUE, state |-> "sent", ver |-> 0, save |-> s]}
  BY DEF Save
<1> DEFINE new == [id |-> saves, by |-> b, live |-> TRUE, state |-> "sent", ver |-> 0, save |-> s]
<1>2. page[b] # None /\ UNCHANGED <<section, stored, past, cache, fetch, page, form, touched>>
  BY DEF Save, server, browser
<1>3. SaveSound(section, s, past) /\ (s.closes => page[b] \in {"BotDetector", "RateLimiter", "AppForm"})
  BY <1>2, SaveIsSound
<1>4. reqs' = reqs \cup {new} /\ new.by = b /\ new.save = s
  BY <1>1
<1> HIDE DEF new
<1>5. ClosesOnly'
  BY <1>2, <1>3, <1>4 DEF ClosesOnly, SoundInv
<1>6. \A r \in reqs' : SaveSound(section, r.save, past)
  BY <1>3, <1>4 DEF SoundInv
<1>7. BrowserSound(section, page'[b], cache'[b].data, fetch'[b], form'[b], touched'[b], past)
  BY <1>2 DEF SoundInv
<1>8. form' = [c \in Browsers |-> form'[c]] /\ touched' = [c \in Browsers |-> touched'[c]]
  BY <1>2 DEF SoundInv
<1> QED
  BY <1>2, <1>5, <1>6, <1>7, <1>8, OneBrowser

\* A save whose state changes is otherwise what it was.
LEMMA SaveCarries ==
    ASSUME NEW r, IsSave(r), NEW v
    PROVE  LET ok == [r EXCEPT !.state = "ok", !.ver = v]
               failed == [r EXCEPT !.state = "failed"]
           IN /\ ok.by = r.by /\ ok.live = r.live /\ ok.save = r.save
              /\ failed.by = r.by /\ failed.live = r.live /\ failed.save = r.save
BY DEF IsSave

\* What holds of a version of a table holds of every later one.
LEMMA SoundLater ==
    ASSUME NEW pa, NEW pb, NEW s, \A p : pa[p] \subseteq pb[p]
    PROVE  /\ \A d : OfVersions(s, d, pa) => OfVersions(s, d, pb)
           /\ \A v : SaveSound(s, v, pa) => SaveSound(s, v, pb)
           /\ \A p, d, q, f, t : BrowserSound(s, p, d, q, f, t, pa) => BrowserSound(s, p, d, q, f, t, pb)
<1>1. \A c, fields, p : Based(c, fields, p, pa) => Based(c, fields, p, pb)
  BY BasedLater
<1>2. \A d : OfVersions(s, d, pa) => OfVersions(s, d, pb)
  BY DEF OfVersions
<1>3. \A p, f, t, d : FormSound(p, f, t, d, pa) => FormSound(p, f, t, d, pb)
  BY <1>1 DEF FormSound
<1>4. \A v : SaveSound(s, v, pa) => SaveSound(s, v, pb)
  BY <1>1 DEF SaveSound
<1> QED
  BY <1>2, <1>3, <1>4 DEF BrowserSound

\* What a store does to the table: one part, of which the save is a version but for its edit.
LEMMA StoreSound ==
    ASSUME SoundInv, NEW r \in reqs,
           stored' = [stored EXCEPT ![r.save.part] = AsStored(r.save.part, r.save.payload)],
           past' = [past EXCEPT ![r.save.part] = @ \cup {stored'[r.save.part]}],
           section' = section
    PROVE  TableSound' /\ \A p : past[p] \subseteq past'[p]
<1> DEFINE q == r.save.part
           c == AsStored(r.save.part, r.save.payload)
<1>1. /\ q \in Parts(section) /\ c \in Version(q) /\ (q = "app" => c.note = Blank)
  BY DEF SoundInv, SaveSound
<1>2. TableSound
  BY DEF SoundInv
<1>3. /\ stored' = [stored EXCEPT ![q] = c] /\ stored'[q] = c
      /\ past' = [past EXCEPT ![q] = past[q] \cup {c}]
  BY <1>1, <1>2 DEF TableSound
<1> HIDE DEF q, c
<1>4. /\ past'[q] = past[q] \cup {c} /\ \A p \in Parts(section) \ {q} : past'[p] = past[p]
      /\ past' = [p \in Parts(section) |-> past'[p]] /\ stored' = [p \in Parts(section) |-> stored'[p]]
      /\ \A p \in Parts(section) \ {q} : stored'[p] = stored[p]
  BY <1>1, <1>2, <1>3 DEF TableSound
<1>5. section = "app" => Parts(section) = {"app"}
  BY DEF Parts
<1>6. TableSound'
  <2>1. /\ section \in Sections
        /\ \A p \in Parts(section) : stored'[p] \in past'[p] /\ past'[p] \subseteq Version(p)
        /\ section = "app" => \A v \in past'["app"] : v.note = Blank
    <3>1. section \in Sections /\ \A p \in Parts(section) : /\ stored[p] \in past[p]
                                                           /\ past[p] \subseteq Version(p)
      BY <1>2 DEF TableSound
    <3>2. \A p \in Parts(section) : stored'[p] \in past'[p] /\ past'[p] \subseteq Version(p)
      BY <1>1, <1>3, <1>4, <3>1
    <3>3. section = "app" => \A v \in past'["app"] : v.note = Blank
      <4>1. section = "app" => q = "app" /\ \A v \in past["app"] : v.note = Blank
        BY <1>1, <1>2, <1>5 DEF TableSound
      <4> QED
        BY <1>1, <1>4, <4>1
    <3> QED
      BY <3>1, <3>2, <3>3
  <2> QED
    BY <1>4, <2>1 DEF TableSound
<1>7. \A p : past[p] \subseteq past'[p]
  <2>1. \A p : past'[p] = past[p] \/ p = q
    BY <1>3
  <2> QED
    BY <1>4, <2>1
<1> QED
  BY <1>6, <1>7

\* The server stores or refuses a save (ServerStores), or it fails (SaveFails).
LEMMA SoundServerStores ==
    ASSUME PagesInv, SoundInv, NEW r \in reqs, ServerStores(r) \/ SaveFails(r)
    PROVE  SoundInv'
<1>1. PICK k : /\ reqs' = (reqs \ {r}) \cup {k}
               /\ k.by = r.by /\ k.live = r.live /\ k.save = r.save
  <2>1. IsSave(r)
    BY DEF PagesInv, VersionTypes
  <2>2. \/ reqs' = (reqs \ {r}) \cup {[r EXCEPT !.state = "ok", !.ver = version + 1]}
        \/ reqs' = (reqs \ {r}) \cup {[r EXCEPT !.state = "failed"]}
    BY DEF ServerStores, SaveFails
  <2> QED
    BY <2>1, <2>2, SaveCarries
<1>2. UNCHANGED <<section, cache, fetch, page, form, touched>>
  BY DEF ServerStores, SaveFails, browser
<1>3. TableSound' /\ \A p : past[p] \subseteq past'[p]
  <2>1. CASE UNCHANGED <<stored, past>>
    BY <1>2, <2>1 DEF SoundInv, TableSound
  <2>2. CASE ~UNCHANGED <<stored, past>>
    <3>1. /\ stored' = [stored EXCEPT ![r.save.part] = AsStored(r.save.part, r.save.payload)]
          /\ past' = [past EXCEPT ![r.save.part] = @ \cup {stored'[r.save.part]}]
      BY <2>2 DEF ServerStores, SaveFails, server
    <3> QED
      BY <1>2, <3>1, StoreSound
  <2> QED
    BY <2>1, <2>2
<1>4. ClosesOnly'
  BY <1>1, <1>2 DEF SoundInv, ClosesOnly
<1>5. \A b \in Browsers :
        BrowserSound(section, page[b], cache[b].data, fetch[b], form[b], touched[b], past')
  BY <1>3, SoundLater DEF SoundInv
<1>6. \A q \in reqs' : SaveSound(section, q.save, past')
  <2>1. \A q \in reqs : SaveSound(section, q.save, past')
    BY <1>3, SoundLater DEF SoundInv
  <2> QED
    BY <1>1, <2>1
<1> QED
  BY <1>2, <1>3, <1>4, <1>5, <1>6 DEF SoundInv

\* The answer of a save (SaveAnswered): a dialog is closed, a score is no longer marked.
LEMMA SoundSaveAnswered ==
    ASSUME PagesInv, SoundInv, NEW r \in reqs, SaveAnswered(r)
    PROVE  SoundInv'
<1> DEFINE b == r.by
           p == page[b]
           d == cache[b].data
           f == Settled(b, r)
           t == IF r.live /\ r.save.closes THEN {} ELSE touched[b]
           q == Refetched(p # None, cache[b], fetch[b])
<1>0. b \in Browsers /\ IsSave(r) /\ r.live \in BOOLEAN /\ (r.live => p # None) /\ p # "AppForm"
  BY DEF PagesInv, VersionTypes, LiveHasPage, IsSave, SaveAnswered
<1>1. /\ reqs' = reqs \ {r} /\ UNCHANGED <<section, stored, past, cache, page>>
      /\ fetch' = [fetch EXCEPT ![b] = q] /\ form' = [form EXCEPT ![b] = f]
      /\ touched' = [touched EXCEPT ![b] = t]
  BY DEF SaveAnswered, server
<1>2. /\ TableSound /\ p \in PagesOf(section) \cup {None} /\ OfVersions(section, d, past)
      /\ OfVersions(section, fetch[b].data, past)
      /\ fetch[b].phase = "answered" => fetch[b].data # None
      /\ p # None => FormSound(p, form[b], touched[b], d, past) /\ Follows(p, d, form[b], touched[b])
  BY <1>0 DEF SoundInv, BrowserSound
<1>3. p # None => FormSound(p, f, t, d, past) /\ Follows(p, d, f, t)
  <2> SUFFICES ASSUME p # None PROVE FormSound(p, f, t, d, past) /\ Follows(p, d, f, t)
    OBVIOUS
  <2>1. CASE r.live /\ r.save.closes
    <3>1. p \in {"BotDetector", "RateLimiter"}
      BY <1>0, <2>1 DEF SoundInv, ClosesOnly
    <3>2. f = None
      BY <2>1 DEF Settled
    <3> QED
      BY <3>1, <3>2 DEF FormSound, Follows, Filling
  <2>2. CASE ~(r.live /\ ~r.save.closes /\ p = "IPReputation") /\ ~(r.live /\ r.save.closes)
    <3>1. f = form[b] /\ t = touched[b]
      BY <1>0, <2>2 DEF Settled
    <3> QED
      BY <1>2, <3>1
  <2>3. CASE r.live /\ ~r.save.closes /\ p = "IPReputation"
    <3> DEFINE g == form[b]
    <3>1. f = [g EXCEPT !.dirty = @ \ {r.save.clears}] /\ t = touched[b]
      BY <2>3 DEF Settled
    <3>2. g # None /\ g \in Forms("IPReputation") /\ None \notin Forms("IPReputation")
      BY <1>2, <2>3, Places DEF FormSound, TableSound
    <3> HIDE DEF g, f, t
    <3>3. f \in Forms("IPReputation") /\ f.config = g.config /\ f.dirty \subseteq g.dirty
      <4> DEFINE C == {None} \cup ReputationConfigs
                 D == Fields("reputation")
      <4>1. Forms("IPReputation") = [config : C, dirty : SUBSET D]
        BY FormsAre
      <4> HIDE DEF C, D
      <4> QED
        BY <3>1, <3>2, <4>1
    <3>4. FormSound(p, f, t, d, past)
      BY <1>2, <2>3, <3>1, <3>2, <3>3 DEF FormSound, Holding, g
    <3>5. Follows(p, d, f, t)
      BY <2>3 DEF Follows, Filling
    <3> QED
      BY <3>4, <3>5
  <2> QED
    BY <2>1, <2>2, <2>3
<1>4. BrowserSound(section, p, d, q, f, t, past)
  <2>1. q \in {fetch[b], Sent}
    BY DEF Refetched
  <2> HIDE DEF q, f, t
  <2> QED
    BY <1>2, <1>3, <2>1 DEF BrowserSound, OfVersions
<1> HIDE DEF q, f, t, b
<1>5. /\ fetch'[b] = q /\ form'[b] = f /\ touched'[b] = t
      /\ form' = [c \in Browsers |-> form'[c]] /\ touched' = [c \in Browsers |-> touched'[c]]
      /\ \A c \in Browsers \ {b} : /\ fetch'[c] = fetch[c] /\ form'[c] = form[c]
                                   /\ touched'[c] = touched[c]
  BY <1>0, <1>1 DEF SoundInv, PagesInv, VersionTypes
<1>6. ClosesOnly' /\ \A k \in reqs' : SaveSound(section, k.save, past)
  BY <1>1 DEF ClosesOnly, SoundInv
<1> QED
  BY <1>0, <1>1, <1>4, <1>5, <1>6, OneBrowser

\* The answer of a saved application leads back to the list (AppSaved).
LEMMA SoundAppSaved ==
    ASSUME PagesInv, SoundInv, NEW r \in reqs, AppSaved(r)
    PROVE  SoundInv'
<1> DEFINE b == r.by
           left(k) == IF k.by = b THEN [k EXCEPT !.live = FALSE] ELSE k
           q == Refetched(TRUE, cache[b], fetch[b])
<1>0. b \in Browsers
  BY DEF PagesInv, VersionTypes, IsSave
<1>1. /\ page' = [page EXCEPT ![b] = None] /\ form' = [form EXCEPT ![b] = None]
      /\ touched' = [touched EXCEPT ![b] = {}] /\ reqs' = {left(k) : k \in reqs \ {r}}
      /\ fetch' = [fetch EXCEPT ![b] = q] /\ UNCHANGED <<section, stored, past, cache>>
  BY DEF AppSaved, server
<1>2. \A k \in reqs : /\ left(k).save = k.save /\ left(k).by = k.by
                      /\ left(k).live => k.live /\ k.by # b
  BY LeftCarries DEF PagesInv, VersionTypes
<1>3. q \in {fetch[b], Sent}
  BY DEF Refetched
<1> HIDE DEF left, q, b
<1>4. /\ page'[b] = None /\ fetch'[b] = q /\ form' = [c \in Browsers |-> form'[c]]
      /\ touched' = [c \in Browsers |-> touched'[c]]
      /\ \A c \in Browsers \ {b} : /\ page'[c] = page[c] /\ cache'[c] = cache[c]
                                   /\ fetch'[c] = fetch[c] /\ form'[c] = form[c]
                                   /\ touched'[c] = touched[c]
  BY <1>0, <1>1 DEF SoundInv, PagesInv, VersionTypes
<1>5. BrowserSound(section, page'[b], cache'[b].data, fetch'[b], form'[b], touched'[b], past)
  <2>1. BrowserSound(section, page[b], cache[b].data, fetch[b], form[b], touched[b], past)
    BY <1>0 DEF SoundInv
  <2> QED
    BY <1>1, <1>3, <1>4, <2>1 DEF BrowserSound, OfVersions
<1>6. ClosesOnly'
  <2>1. \A k \in reqs : k.by \in Browsers
    BY DEF PagesInv, VersionTypes, IsSave
  <2>2. \A k \in reqs : k.live /\ k.save.closes => page[k.by] \in {"BotDetector", "RateLimiter", "AppForm"}
    BY DEF SoundInv, ClosesOnly
  <2>3. ASSUME NEW j \in reqs', j.live, j.save.closes
        PROVE  page'[j.by] \in {"BotDetector", "RateLimiter", "AppForm"}
    <3>1. PICK k \in reqs : j = left(k)
      BY <1>1
    <3>2. k.live /\ k.by # b /\ j.by = k.by /\ k.save.closes
      BY <1>2, <2>3, <3>1
    <3> QED
      BY <1>4, <2>1, <2>2, <3>2
  <2> QED
    BY <2>3 DEF ClosesOnly
<1>7. \A k \in reqs' : SaveSound(section, k.save, past)
  BY <1>1, <1>2 DEF SoundInv
<1> QED
  BY <1>0, <1>1, <1>4, <1>5, <1>6, <1>7, OneBrowser

\* Every step keeps what the pages owe to the data.
LEMMA SoundStep == PagesInv /\ SoundInv /\ [Next]_vars => SoundInv'
<1> SUFFICES ASSUME PagesInv, SoundInv, [Next]_vars PROVE SoundInv'
  OBVIOUS
<1>1. ASSUME NEW b \in Browsers, NEW p \in PagesOf(section), Open(b, p) PROVE SoundInv'
  BY <1>1, SoundOpen
<1>2. ASSUME NEW b \in Browsers, Leave(b) PROVE SoundInv'
  BY <1>2, SoundLeave
<1>3. ASSUME NEW b \in Browsers, Forget(b) \/ ServerReads(b) \/ FetchFails(b) PROVE SoundInv'
  BY <1>3, SoundReads
<1>4. ASSUME NEW b \in Browsers, Deliver(b) PROVE SoundInv'
  BY <1>4, SoundDeliver
<1>5. ASSUME NEW b \in Browsers, Edit(b) PROVE SoundInv'
  BY <1>5, SoundEdit
<1>6. ASSUME NEW b \in Browsers, Save(b) PROVE SoundInv'
  BY <1>6, SoundSave
<1>7. ASSUME NEW r \in reqs, ServerStores(r) \/ SaveFails(r) PROVE SoundInv'
  BY <1>7, SoundServerStores
<1>8. ASSUME NEW r \in reqs, SaveAnswered(r) PROVE SoundInv'
  BY <1>8, SoundSaveAnswered
<1>9. ASSUME NEW r \in reqs, AppSaved(r) PROVE SoundInv'
  BY <1>9, SoundAppSaved
<1>10. ASSUME NEW r \in reqs, SaveRefused(r) PROVE SoundInv'
  <2>1. reqs' = reqs \ {r} /\ UNCHANGED <<section, stored, past, cache, fetch, page, form, touched>>
    BY <1>10 DEF SaveRefused, server, browser
  <2> QED
    BY <2>1 DEF SoundInv, TableSound, ClosesOnly
<1>11. CASE UNCHANGED vars
  BY <1>11 DEF vars, server, browser, SoundInv, TableSound, ClosesOnly
<1> QED
  BY <1>1, <1>2, <1>3, <1>4, <1>5, <1>6, <1>7, <1>8, <1>9, <1>10, <1>11 DEF Next

\* A form shows the data but for what was touched: an answer that brings other data
\* fills the form anew and forgets the edits (the effects of WAFEngine, ScoringEngine,
\* AnomalyBehavior, Challenged and AppForm), and no answer that does not can leave an
\* old value in a field.
THEOREM FormsFollowTheData == Spec => []FormFollowsCache
<1>1. SoundInv => FormFollowsCache
  <2> SUFFICES ASSUME SoundInv, NEW b \in Browsers, page[b] \in Filling, cache[b].data # None
               PROVE  LET g == Filled(page[b], cache[b].data, form[b]) IN
                      \A x \in DOMAIN g \ (touched[b] \cup {"tab"}) : form[b][x] = g[x]
    BY DEF FormFollowsCache
  <2>1. page[b] # None
    BY SettingsAssumption
  <2> QED
    BY <2>1 DEF SoundInv, BrowserSound, Follows
<1> QED
  BY PagesInit, PagesStep, SoundInit, SoundStep, <1>1, PTL DEF Spec

\* A store of the server is a store of the abstract specification.
LEMMA StoreIsShared ==
    ASSUME SoundInv, NEW r \in reqs, ServerStores(r)
    PROVE  [Shared!Next]_(Shared!vars)
<1>1. CASE UNCHANGED server
  BY <1>1 DEF server, Shared!vars, NothingLeft
<1>2. CASE ~UNCHANGED server
  <2> DEFINE q == r.save.part
             c == AsStored(r.save.part, r.save.payload)
  <2>1. /\ stored' = [stored EXCEPT ![q] = c] /\ edited' = r.save.fields
        /\ past' = [past EXCEPT ![q] = past[q] \cup {stored'[q]}] /\ section' = section
    BY <1>2 DEF ServerStores, server, SoundInv, TableSound
  <2>2. /\ q \in Parts(section) /\ c \in Version(q) /\ Based(c, r.save.fields, q, past)
        /\ TableSound
    BY DEF SoundInv, SaveSound
  <2> HIDE DEF q, c
  <2>3. /\ DOMAIN stored = Parts(section) /\ DOMAIN stored' = Parts(section)
        /\ DOMAIN past = Parts(section) /\ stored'[q] = c
        /\ \A p \in Parts(section) \ {q} : stored'[p] = stored[p] /\ past'[p] = past[p]
        /\ \A p \in Parts(section) : stored[p] \in past[p] /\ DOMAIN stored[p] = Fields(p)
        /\ past'[q] = past[q] \cup {c}
    BY <2>1, <2>2 DEF TableSound, Version
  <2>4. \E base \in past[q] \cup BuiltIn[q] : \A x \in DOMAIN stored[q] :
          IF x \in NothingLeft' THEN stored'[q][x] = stored[q][x]
          ELSE x \notin edited' => Shared!Kept(stored'[q][x], base[x])
    BY <2>1, <2>2, <2>3 DEF Based, NothingLeft
  <2>5. past' = [p \in DOMAIN past |-> past[p] \cup {stored'[p]}]
    <3>1. past' = [p \in Parts(section) |-> past'[p]]
      BY <2>1, <2>2 DEF TableSound
    <3>2. \A p \in Parts(section) : past'[p] = past[p] \cup {stored'[p]}
      <4>1. past'[q] = past[q] \cup {stored'[q]}
        BY <2>3
      <4>2. \A p \in Parts(section) \ {q} : past'[p] = past[p] /\ stored'[p] \in past[p]
        BY <2>3
      <4> QED
        BY <4>1, <4>2
    <3> QED
      BY <2>3, <3>1, <3>2
  <2>6. Shared!Store({q})
    BY <2>3, <2>4, <2>5 DEF Shared!Store
  <2>7. {q} \in SUBSET DOMAIN stored
    BY <2>2, <2>3
  <2> QED
    BY <2>6, <2>7 DEF Shared!Next
<1> QED
  BY <1>1, <1>2

\* The pages together keep the promise of SharedSettings: what is stored is one version
\* of a part with the fields of one edit replaced, however many browsers read, edit,
\* save and miss answers in between.
THEOREM PagesImplementSharedSettings == Spec => ImplementsSharedSettings
<1>1. Init => Shared!Init
  BY DEF Init, Shared!Init, NothingLeft
<1>2. SoundInv /\ [Next]_vars => [Shared!Next]_(Shared!vars)
  <2> SUFFICES ASSUME SoundInv, [Next]_vars PROVE [Shared!Next]_(Shared!vars)
    OBVIOUS
  <2>1. ASSUME NEW r \in reqs, ServerStores(r) PROVE [Shared!Next]_(Shared!vars)
    BY <2>1, StoreIsShared
  <2>2. CASE ~\E r \in reqs : ServerStores(r)
    <3>1. UNCHANGED server
      BY <2>2 DEF Next, vars, Open, Leave, Forget, ServerReads, Deliver, FetchFails, Edit, Save,
                  SaveFails, SaveAnswered, AppSaved, SaveRefused
    <3> QED
      BY <3>1 DEF server, Shared!vars, NothingLeft
  <2> QED
    BY <2>1, <2>2
<1> QED
  BY PagesInit, PagesStep, SoundInit, SoundStep, <1>1, <1>2, PTL
     DEF Spec, ImplementsSharedSettings, Shared!Spec
=============================================================================
