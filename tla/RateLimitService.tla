-------------------------- MODULE RateLimitService --------------------------
(***************************************************************************)
(* service.RateLimitService: a configuration and a limiter behind one      *)
(* atomic pointer.  The reload goroutine, administrators and requests load *)
(* and store that pointer separately, each step an action.                 *)
(*                                                                         *)
(*   db       the basic profile stored in the settings table               *)
(*   state    the pointer: configuration and the limiter in use            *)
(*   limiters what each limiter has granted, and whether it was stopped    *)
(*   reload   the autoReload goroutine                                     *)
(*   admin    administrators in UpdateRateLimitConfig                      *)
(*   req      requests in Allow                                            *)
(*                                                                         *)
(* A limiter is reduced to what one bucket grants while no time passes;    *)
(* TokenBucket has the buckets.                                            *)
(***************************************************************************)
EXTENDS Integers, FiniteSets

CONSTANTS
    Admins, Requests,
    Profiles      \* values of a stored profile: how many requests it allows

ServiceAssumption ==
    Profiles \subseteq Nat /\ IsFiniteSet(Admins)

VARIABLES db, state, limiters, reload, admin, req, down

vars == <<db, state, limiters, reload, admin, req, down>>

\* At most one limiter per goroutine that swaps it is on its way out, so the
\* identity of a limiter nothing refers to any more can be used again.
Limiters == 1..(Cardinality(Admins) + 3)
Unused == [used |-> 0, stopped |-> TRUE]
Fresh == [used |-> 0, stopped |-> FALSE]

Holders == {reload} \cup {admin[a] : a \in Admins}
Held == {state.limiter} \cup {h.old : h \in {g \in Holders : g.pc \in {"store", "stop"}}}
Newest == CHOOSE l \in Limiters : l \notin Held

NoJob == [pc |-> "idle"]

Init ==
    /\ db \in Profiles
    /\ state = [cfg |-> db, limiter |-> 1]
    /\ limiters = [l \in Limiters |-> IF l = 1 THEN Fresh ELSE Unused]
    /\ reload = NoJob
    /\ admin = [a \in Admins |-> NoJob]
    /\ req = [r \in Requests |-> NoJob]
    /\ down = FALSE

\* The pointer is replaced by a new state with a new limiter.
Swap(cfg) ==
    /\ limiters' = [l \in Limiters |-> IF l = Newest THEN Fresh
                                       ELSE IF l \in Held THEN [limiters[l] EXCEPT !.used = 0]
                                       ELSE Unused]
    /\ state' = [cfg |-> cfg, limiter |-> Newest]

-----------------------------------------------------------------------------
(* autoReload, every 30 seconds *)

\* The stored configuration is read.  A failed read keeps the state: no step.
ReloadRead ==
    /\ reload.pc = "idle" /\ ~down
    /\ reload' = [pc |-> "load", cfg |-> db]
    /\ UNCHANGED <<db, state, limiters, admin, req, down>>

\* old := s.getState()
ReloadLoad ==
    /\ reload.pc = "load"
    /\ reload' = [pc |-> "store", cfg |-> reload.cfg, old |-> state.limiter]
    /\ UNCHANGED <<db, state, limiters, admin, req, down>>

\* Mutant: the new limiter comes with the configuration already in use.
ReloadStoreOldConfig ==
    /\ reload.pc = "store"
    /\ Swap(state.cfg)
    /\ reload' = [pc |-> "stop", old |-> reload.old]
    /\ UNCHANGED <<db, admin, req, down>>
\* A new limiter is created and the pointer stored.
ReloadStore ==
    /\ reload.pc = "store"
    /\ Swap(reload.cfg)
    /\ reload' = [pc |-> "stop", old |-> reload.old]
    /\ UNCHANGED <<db, admin, req, down>>

\* Mutant: the limiter now in use is stopped.
StopCurrent(l) == limiters' = [limiters EXCEPT ![state.limiter].stopped = TRUE]
\* RateLimiter.Stop
Stop(l) == limiters' = [limiters EXCEPT ![l].stopped = TRUE]

ReloadStop ==
    /\ reload.pc = "stop"
    /\ Stop(reload.old) /\ reload' = NoJob
    /\ UNCHANGED <<db, state, admin, req, down>>

-----------------------------------------------------------------------------
(* UpdateRateLimitConfig: read, merge, save, then InvalidateCache *)

\* The stored configuration is read and the submitted profile put into it; only the
\* profile Allow uses is kept here.
AdminRead(a) ==
    /\ admin[a].pc = "idle"
    /\ \E p \in Profiles : admin' = [admin EXCEPT ![a] = [pc |-> "save", cfg |-> p]]
    /\ UNCHANGED <<db, state, limiters, reload, req, down>>

AdminSave(a) ==
    /\ admin[a].pc = "save"
    /\ db' = admin[a].cfg
    /\ admin' = [admin EXCEPT ![a] = [pc |-> "load"]]
    /\ UNCHANGED <<state, limiters, reload, req, down>>

\* InvalidateCache: the state in use is loaded, configuration included.
InvalidateLoad(a) ==
    /\ admin[a].pc = "load"
    /\ admin' = [admin EXCEPT ![a] = [pc |-> "store", cfg |-> state.cfg, old |-> state.limiter]]
    /\ UNCHANGED <<db, state, limiters, reload, req, down>>

InvalidateStore(a) ==
    /\ admin[a].pc = "store"
    /\ Swap(admin[a].cfg)
    /\ admin' = [admin EXCEPT ![a] = [pc |-> "stop", old |-> admin[a].old]]
    /\ UNCHANGED <<db, reload, req, down>>

InvalidateStop(a) ==
    /\ admin[a].pc = "stop"
    /\ Stop(admin[a].old) /\ admin' = [admin EXCEPT ![a] = NoJob]
    /\ UNCHANGED <<db, state, reload, req, down>>

-----------------------------------------------------------------------------
(* Allow: the pointer is loaded for the configuration, then for the limiter *)

AllowConfig(r) ==
    /\ req[r].pc = "idle"
    /\ req' = [req EXCEPT ![r] = [pc |-> "limit", count |-> state.cfg]]
    /\ UNCHANGED <<db, state, limiters, reload, admin, down>>

\* A profile that allows nothing is no limit; otherwise the bucket decides.
AllowLimit(r) ==
    LET l == state.limiter
        ok == req[r].count > 0 => limiters[l].used < req[r].count
    IN /\ req[r].pc = "limit"
       /\ limiters' = IF ok /\ req[r].count > 0
                      THEN [limiters EXCEPT ![l].used = @ + 1] ELSE limiters
       /\ req' = [req EXCEPT ![r] = NoJob]
       /\ UNCHANGED <<db, state, reload, admin, down>>

\* RateLimitService.Stop at shutdown: the reload goroutine is told to return and
\* the limiter in use is stopped.
Shutdown ==
    /\ ~down /\ down' = TRUE
    /\ Stop(state.limiter)
    /\ UNCHANGED <<db, state, reload, admin, req>>

\* Time passes: the buckets are full again.
Tick ==
    /\ limiters' = [l \in Limiters |-> [limiters[l] EXCEPT !.used = 0]]
    /\ UNCHANGED <<db, state, reload, admin, req, down>>

Reload == ReloadRead \/ ReloadLoad \/ ReloadStore \/ ReloadStop
InvalidateCache(a) == InvalidateLoad(a) \/ InvalidateStore(a) \/ InvalidateStop(a)
Request(r) == AllowConfig(r) \/ AllowLimit(r)

Next ==
    \/ Reload
    \/ \E a \in Admins : AdminRead(a) \/ AdminSave(a) \/ InvalidateCache(a)
    \/ \E r \in Requests : Request(r)
    \/ Shutdown \/ Tick

\* The reload ticker fires and handlers that have started are scheduled.
Spec ==
    /\ Init /\ [][Next]_vars /\ WF_vars(Reload)
    /\ \A a \in Admins : WF_vars(AdminSave(a) \/ InvalidateCache(a))

-----------------------------------------------------------------------------
(* Properties *)

\* However reload and administrators swap the pointer under each other, nobody stops
\* the limiter that requests are using: its cleanup goroutine keeps running.
LimiterInUseRuns == ~down => ~limiters[state.limiter].stopped

\* Administrators and reload may overwrite each other's state with an older
\* configuration, but once the administrators rest the service uses what is stored.
StoredConfigIsApplied ==
    (<>[](~down /\ \A a \in Admins : admin[a].pc = "idle")) => <>[](state.cfg = db)
=============================================================================
