--------------------------- MODULE FloodProtector ---------------------------
(***************************************************************************)
(* One shard of ratelimit.FloodProtector under the requests of several     *)
(* goroutines.  FloodHandler.Handle takes the shard lock once per check,   *)
(* so each check is an action and other requests run in between.           *)
(*                                                                         *)
(*   count       basicAccess, attackCount and errorCount: for each counter *)
(*               a map from addresses to time stamps, oldest first         *)
(*   challenged  the penalties: address to expiry                          *)
(*   job         the request each goroutine is working on                  *)
(*   passed      history: when CheckBasicAccess let requests of an address *)
(*               through and counted them, since its last fresh start      *)
(*                                                                         *)
(* Configurations are saved and reloaded while requests run: the handler   *)
(* reads one when it starts (RateLimitService) and every check another one *)
(* (the getter of main.go, cached for ten seconds).  Each is a parameter   *)
(* of the action, any configuration that has been saved.                   *)
(*                                                                         *)
(* Time is relative to now: a time stamp is its age (Horizon stands for    *)
(* every age no window reaches), an expiry the time left (-1 is past).     *)
(***************************************************************************)
EXTENDS Integers, Sequences, FiniteSets

CONSTANTS
    IPs,        \* addresses that hash to this shard
    Requests,   \* goroutines that serve requests
    MaxKeys,    \* floodMaxKeysPerShard
    Configs,    \* rate limit configurations an administrator may save
    DefaultPenalty, \* penalty of a profile that configures none, per counter
    Horizon     \* bound on the ages told apart

Kinds == {"basic", "attack", "error"}

FloodAssumption ==
    /\ MaxKeys \in Nat /\ Horizon \in Nat /\ Configs # {}
    /\ DefaultPenalty \in [Kinds -> Nat \ {0}]
    /\ \A c \in Configs, k \in Kinds :
        /\ c[k].enabled \in BOOLEAN
        /\ c[k].limit \in Nat /\ c[k].window \in 0..Horizon /\ c[k].penalty \in Int

VARIABLES count, challenged, job, passed

vars == <<count, challenged, job, passed>>

Age == 0..Horizon
Labels == {"idle", "penalty", "attack", "error", "basic", "punish", "forward", "upstream"}

Idle == [pc |-> "idle", ip |-> "none", cfg |-> "none", kind |-> "none"]

\* delete(m, ip)
Without(m, ip) == [i \in DOMAIN m \ {ip} |-> m[i]]

\* m[ip] = v
With(m, ip, v) == [i \in DOMAIN m \cup {ip} |-> IF i = ip THEN v ELSE m[i]]

\* m[ip], nil when the key is absent
Stamps(m, ip) == IF ip \in DOMAIN m THEN m[ip] ELSE <<>>

\* The loop that compacts a list in place: each entry kept moves to the next free place.
Compacted(ts, kept) ==
    LET before(n) == {m \in kept : m < n} IN
    [k \in 1..Cardinality(kept) |-> ts[CHOOSE n \in kept : Cardinality(before(n)) = k - 1]]

\* Mutant: the edge of the window is one unit too early.
filterRecentEarly(ts, window) == Compacted(ts, {n \in 1..Len(ts) : ts[n] + 1 < window})
filterRecent(ts, window) == Compacted(ts, {n \in 1..Len(ts) : ts[n] < window})

\* Mutant: a penalty ends at its expiry instead of after it.
ExpiredEarly(left) == left <= 0
\* time.Now().After(expiry)
Expired(left) == left < 0

-----------------------------------------------------------------------------
Init ==
    /\ count = [k \in Kinds |-> [i \in {} |-> <<>>]]
    /\ challenged = [i \in {} |-> 0]
    /\ job = [r \in Requests |-> Idle]
    /\ passed = [i \in IPs |-> <<>>]

Goto(r, label) == job' = [job EXCEPT ![r].pc = label]

\* The guards at the top of Handle: an exempt request (a hard decision of another
\* module, a terminal IP rule, a passed challenge) or one for an excluded path
\* skips the flood checks; any other starts with the penalty.
Arrive(r, ip, why, cfg) ==
    /\ job[r].pc = "idle"
    /\ job' = [job EXCEPT ![r] =
         [pc |-> IF why = "none" THEN "penalty" ELSE "forward",
          ip |-> ip, cfg |-> cfg, kind |-> "none"]]
    /\ UNCHANGED <<count, challenged, passed>>

\* IsChallenged: a live penalty answers the request with a challenge; an expired
\* one is dropped together with every counter of the address.
IsChallenged(r) ==
    LET ip == job[r].ip IN
    /\ job[r].pc = "penalty"
    /\ IF ip \in DOMAIN challenged /\ ~Expired(challenged[ip])
       THEN /\ job' = [job EXCEPT ![r] = Idle]
            /\ UNCHANGED <<count, challenged, passed>>
       ELSE /\ Goto(r, "attack")
            /\ IF ip \in DOMAIN challenged
               THEN /\ challenged' = Without(challenged, ip)
                    /\ count' = [k \in Kinds |-> Without(count[k], ip)]
                    /\ passed' = [passed EXCEPT ![ip] = <<>>]
               ELSE UNCHANGED <<count, challenged, passed>>

\* What comes after the check of a counter.
Following(kind) == IF kind = "attack" THEN "error" ELSE IF kind = "error" THEN "basic" ELSE "forward"

\* The profile of a counter is off: Handle goes on to the next check.
SkipDisabled(r, kind) ==
    /\ job[r].pc = kind /\ ~job[r].cfg[kind].enabled
    /\ Goto(r, Following(kind))
    /\ UNCHANGED <<count, challenged, passed>>

\* A check refuses: Handle goes on to the penalty.
Refuse(r, kind) == job' = [job EXCEPT ![r].pc = "punish", ![r].kind = kind]

\* CheckAttackLimit and CheckErrorLimit: the filtered list is stored, for an
\* address that has none too.
CheckCounter(r, kind, limits) ==
    LET ip == job[r].ip
        kept == filterRecent(Stamps(count[kind], ip), limits[kind].window)
    IN /\ job[r].pc = kind /\ job[r].cfg[kind].enabled
       /\ count' = [count EXCEPT ![kind] = With(@, ip, kept)]
       /\ IF Len(kept) < limits[kind].limit THEN Goto(r, Following(kind)) ELSE Refuse(r, kind)
       /\ UNCHANGED <<challenged, passed>>

CheckAttackLimit(r, limits) == CheckCounter(r, "attack", limits)
CheckErrorLimit(r, limits) == CheckCounter(r, "error", limits)

\* CheckBasicAccess: at the limit the request is refused; below it the request is
\* counted, except when the shard is full and the address has nothing recent.
CheckBasicAccess(r, limits) ==
    LET ip == job[r].ip
        m == count["basic"]
        kept == filterRecent(Stamps(m, ip), limits["basic"].window)
    IN /\ job[r].pc = "basic" /\ job[r].cfg["basic"].enabled
       /\ \/ /\ Len(kept) >= limits["basic"].limit
             /\ count' = [count EXCEPT !["basic"] = With(m, ip, kept)]
             /\ Refuse(r, "basic")
             /\ UNCHANGED passed
          \/ /\ Len(kept) < limits["basic"].limit
             /\ Cardinality(DOMAIN m) >= MaxKeys /\ kept = <<>>
             /\ Goto(r, "forward")
             /\ UNCHANGED <<count, passed>>
          \/ /\ Len(kept) < limits["basic"].limit
             /\ ~(Cardinality(DOMAIN m) >= MaxKeys /\ kept = <<>>)
             /\ count' = [count EXCEPT !["basic"] = With(m, ip, Append(kept, 0))]
             /\ passed' = [passed EXCEPT ![ip] = Append(@, 0)]
             /\ Goto(r, "forward")
       /\ UNCHANGED challenged

PenaltyOf(c, kind) == IF c[kind].penalty > 0 THEN c[kind].penalty ELSE DefaultPenalty[kind]

\* SetChallenge after a refused check: the penalty runs from now on, whatever was
\* there before, and the request is answered.
SetChallenge(r) ==
    /\ job[r].pc = "punish"
    /\ challenged' = With(challenged, job[r].ip, PenaltyOf(job[r].cfg, job[r].kind))
    /\ job' = [job EXCEPT ![r] = Idle]
    /\ UNCHANGED <<count, passed>>

\* RecordAttack and RecordError: nothing is recorded in a full shard, nor for an
\* address whose list, old entries included, is already at the limit.
Record(kind, ip, limits) ==
    LET m == count[kind] IN
    IF Cardinality(DOMAIN m) >= MaxKeys \/ Len(Stamps(m, ip)) >= limits[kind].limit
    THEN UNCHANGED count
    ELSE count' = [count EXCEPT ![kind] = With(m, ip, Append(Stamps(m, ip), 0))]

\* ServeHTTP after the pipeline: an attack is recorded if the rule engine matched,
\* then the request is answered by the WAF itself or goes to the application.
RecordAttack(r, violation, proxied, limits) ==
    /\ job[r].pc = "forward"
    /\ IF violation THEN Record("attack", job[r].ip, limits) ELSE UNCHANGED count
    /\ IF proxied THEN Goto(r, "upstream") ELSE job' = [job EXCEPT ![r] = Idle]
    /\ UNCHANGED <<challenged, passed>>

\* proxyToUpstream: an answer of 400 or more is recorded.
RecordError(r, failed, limits) ==
    /\ job[r].pc = "upstream"
    /\ IF failed THEN Record("error", job[r].ip, limits) ELSE UNCHANGED count
    /\ job' = [job EXCEPT ![r] = Idle]
    /\ UNCHANGED <<challenged, passed>>

\* One counter of the shard after cleanup.
Cleaned(m, window) ==
    [i \in {j \in DOMAIN m : filterRecent(m[j], window) # <<>>} |-> filterRecent(m[i], window)]

\* The cleanup goroutine, every two minutes, one lock for all four maps.
cleanup(limits) ==
    /\ count' = [k \in Kinds |-> Cleaned(count[k], limits[k].window)]
    /\ challenged' = [i \in {j \in DOMAIN challenged : ~Expired(challenged[j])} |-> challenged[i]]
    /\ UNCHANGED <<job, passed>>

Older(age) == IF age < Horizon THEN age + 1 ELSE Horizon

\* A unit of time passes.
Tick ==
    /\ count' = [k \in Kinds |-> [i \in DOMAIN count[k] |->
                    [n \in 1..Len(count[k][i]) |-> Older(count[k][i][n])]]]
    /\ challenged' = [i \in DOMAIN challenged |->
                        IF Expired(challenged[i]) THEN challenged[i] ELSE challenged[i] - 1]
    /\ passed' = [i \in IPs |->
                    LET young == Compacted(passed[i], {n \in 1..Len(passed[i]) : passed[i][n] + 1 < Horizon})
                    IN [n \in 1..Len(young) |-> young[n] + 1]]
    /\ UNCHANGED job

Step(r) ==
    \/ IsChallenged(r)
    \/ \E k \in Kinds : SkipDisabled(r, k)
    \/ SetChallenge(r)
    \/ \E limits \in Configs :
        \/ CheckAttackLimit(r, limits) \/ CheckErrorLimit(r, limits) \/ CheckBasicAccess(r, limits)
        \/ \E violation, proxied \in BOOLEAN : RecordAttack(r, violation, proxied, limits)
        \/ \E failed \in BOOLEAN : RecordError(r, failed, limits)

Next ==
    \/ \E r \in Requests, ip \in IPs, why \in {"none", "exempt", "excluded"}, cfg \in Configs :
            Arrive(r, ip, why, cfg)
    \/ \E r \in Requests : Step(r)
    \/ \E limits \in Configs : cleanup(limits)
    \/ Tick

\* Goroutines are scheduled, the clock runs and the cleanup ticker fires.
Spec ==
    /\ Init /\ [][Next]_vars
    /\ \A r \in Requests : WF_vars(Step(r))
    /\ WF_vars(\E limits \in Configs : cleanup(limits)) /\ WF_vars(Tick)

-----------------------------------------------------------------------------
(* Properties *)

\* A penalty is served to the end: neither a request, nor another request's fresh
\* start, nor cleanup removes it before its expiry has passed.
PenaltyIsServed ==
    [][\A i \in DOMAIN challenged :
          i \notin DOMAIN challenged' => challenged[i] = -1]_vars

\* The sliding window of the basic counter: between two fresh starts no window holds
\* more requests that were let through than the limit, however the goroutines of one
\* address interleave, and whatever cleanup and the compaction in place have dropped.
\* Requests a full shard lets through without counting them are not among these.
WindowNeverExceeded ==
    \A i \in IPs : \E c \in Configs :
        Cardinality({n \in 1..Len(passed[i]) : \A d \in Configs : passed[i][n] < d["basic"].window})
            <= c["basic"].limit

=============================================================================
