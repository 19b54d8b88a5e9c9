----------------------------- MODULE QueryCache -----------------------------
(***************************************************************************)
(* One query of the console's query client: what is cached of it and the   *)
(* request for it that is under way.  The client library is external; it   *)
(* is modelled from the options main.tsx gives it (no staleTime, so a      *)
(* mounted page always asks again; one retry; no refetch on focus) and     *)
(* from how the hooks invalidate and cancel.                               *)
(***************************************************************************)
EXTENDS Naturals

CONSTANT None         \* nothing loaded, no form, no dialog

Unloaded == [data |-> None, ver |-> 0]
Idle == [phase |-> "idle", data |-> None, ver |-> 0]
Sent == [Idle EXCEPT !.phase = "sent"]

\* The spinner or the skeleton: no data yet, and a request for it under way.
LoadingNow(c, f) == c.data = None /\ f.phase # "idle"

\* A page that uses the query is mounted.
Mounted(f) == IF f.phase = "idle" THEN Sent ELSE f

AnsweredWith(data, ver) == [phase |-> "answered", data |-> data, ver |-> ver]
Received(f) == [data |-> f.data, ver |-> f.ver]

\* Mutant: an invalidation joins the request that is under way.
RefetchedJoining(used, c, f) == IF used THEN Mounted(f) ELSE f

\* invalidateQueries: a query in use is fetched anew, and a request under way is
\* given up for it, unless there is no data yet: then that request goes on.
Refetched(used, c, f) == IF ~used \/ LoadingNow(c, f) THEN f ELSE Sent
=============================================================================
