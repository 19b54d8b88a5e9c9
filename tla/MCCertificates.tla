--------------------------- MODULE MCCertificates ---------------------------
(***************************************************************************)
(* The certificates on the server and the page that follows them.  A       *)
(* behaviour is about one of them; the other stays as it starts.           *)
(*                                                                         *)
(* Bounds: one host under one zone.  For the server, two administrators    *)
(* and three requests or restarts.  For the page, two openings, two reads  *)
(* one change under way, and three clicks or faults: a wizard that goes to *)
(* its end, or a change with a refresh and a failure.                      *)
(***************************************************************************)
EXTENDS Certificates

CONSTANTS Pages, Slots, Changes, MaxEvents

VARIABLES part,
          stored, jobs, open, face, certs, marked, poll, reads, busy, sel, wizard, reqs, events

pageVars == <<stored, jobs, open, face, certs, marked, poll, reads, busy, sel, wizard, reqs, events>>
allVars == <<part, vars, pageVars>>

Page == INSTANCE CertificatePage WITH Names <- Hosts, Zone <- CHOOSE z \in Zones : TRUE

ASSUME Page!PageAssumption

MCParent == [h \in Hosts |-> "example"]

CertificatesInit == /\ part \in {"server", "page"} /\ Init /\ Page!Init

CertificatesNext == \/ part = "server" /\ Next /\ UNCHANGED <<part, pageVars>>
                    \/ part = "page" /\ Page!Next /\ UNCHANGED <<part, vars>>

\* Worker and handlers run on and acme.sh ends; intervals fire and reads are answered.
CertificatesSpec ==
    /\ CertificatesInit /\ [][CertificatesNext]_allVars
    /\ WF_vars(part = "server" /\ Worker)
    /\ \A w \in Admins : WF_vars(part = "server" /\ Continue(w))
    /\ \A k \in Slots :
         WF_pageVars(part = "page" /\ (Page!ServerLists(k) \/ Page!fetchCertificates(k)))
    /\ \A i \in Pages : WF_pageVars(part = "page" /\ Page!setInterval(i))
    /\ \A d \in Page!Domains : WF_pageVars(part = "page" /\ Page!JobEnds(d))

\* The page stops asking and shows what has settled, of CertificatePage.
PageComesToRest == part = "page" => Page!PageComesToRest
=============================================================================
