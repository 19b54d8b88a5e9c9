------------------------------ MODULE MCLimits ------------------------------
(***************************************************************************)
(* What is kept between requests: the flood protector, the token bucket,   *)
(* the rate limit service that swaps one under its users, and the verdicts *)
(* and the history of a client.  They share no state.  Each behaviour      *)
(* exercises one of them and leaves the others as they start.              *)
(*                                                                         *)
(* Bounds: windows of one unit and limits of one or two, so that every     *)
(* list reaches its limit and every window and penalty runs out; three     *)
(* keys for a shard of two, the requests of one of them counted, two       *)
(* settings, one that is off and one that allows nothing; one              *)
(* administrator and one request against the reload goroutine, two         *)
(* configurations; two requests of one client at a time, a cached block of *)
(* two units and a history that lives for two, a queue of one, two edits   *)
(* and one fault.                                                          *)
(***************************************************************************)
EXTENDS RequestMemory

CONSTANTS IPs, Requests, MaxKeys, Configs, DefaultPenalty, Horizon,
          Keys, Watched, MaxPerShard, Settings, One, BucketTTL, BucketHorizon, MaxSpent,
          Admins, Profiles, Clients

VARIABLES part,
          count, challenged, job, passed,
          buckets, spent,
          db, state, limiters, reload, admin, req, down

Flood == INSTANCE FloodProtector
Bucket == INSTANCE TokenBucket WITH Horizon <- BucketHorizon
Service == INSTANCE RateLimitService WITH Requests <- Clients

ASSUME MemoryAssumption
ASSUME Flood!FloodAssumption
ASSUME Bucket!BucketAssumption
ASSUME Service!ServiceAssumption

Profile(e, l, w, p) == [enabled |-> e, limit |-> l, window |-> w, penalty |-> p]
MCConfigs ==
    {[basic |-> Profile(TRUE, 2, 1, 1), attack |-> Profile(TRUE, 1, 1, 0), error |-> Profile(FALSE, 1, 1, 0)],
     [basic |-> Profile(TRUE, 1, 1, -3), attack |-> Profile(FALSE, 1, 1, 0), error |-> Profile(TRUE, 1, 1, 0)]}
MCDefaultPenalty == [basic |-> 1, attack |-> 1, error |-> 1]

Setting(e, c, d) == [enabled |-> e, count |-> c, duration |-> d]
MCSettings == {Setting(TRUE, 2, 2), Setting(TRUE, 1, 1), Setting(FALSE, 1, 1), Setting(TRUE, 0, 1)}

floodVars == <<count, challenged, job, passed>>
bucketVars == <<buckets, spent>>
serviceVars == <<db, state, limiters, reload, admin, req, down>>
limitVars == <<part, floodVars, bucketVars, serviceVars, memoryVars>>

LimitsInit == /\ part \in {"flood", "bucket", "service", "memory"}
              /\ Init /\ Flood!Init /\ Bucket!Init /\ Service!Init
              /\ part # "service" => db = CHOOSE p \in Profiles : TRUE

LimitsNext ==
    \/ part = "flood" /\ Flood!Next /\ UNCHANGED <<part, bucketVars, serviceVars, memoryVars>>
    \/ part = "bucket" /\ Bucket!Next /\ UNCHANGED <<part, floodVars, serviceVars, memoryVars>>
    \/ part = "service" /\ Service!Next /\ UNCHANGED <<part, floodVars, bucketVars, memoryVars>>
    \/ part = "memory" /\ Next /\ UNCHANGED <<part, floodVars, bucketVars, serviceVars>>

\* The reload tickers fire, the cache writer runs, time passes, and a handler that has
\* started goes on to its end.
LimitsSpec ==
    /\ LimitsInit /\ [][LimitsNext]_limitVars
    /\ WF_serviceVars(part = "service" /\ Service!Reload)
    /\ \A a \in Admins :
         WF_serviceVars(part = "service" /\ (Service!AdminSave(a) \/ Service!InvalidateCache(a)))
    /\ WF_memoryVars(part = "memory" /\ writeWorker)
    /\ WF_memoryVars(part = "memory" /\ Tick)
    /\ WF_memoryVars(part = "memory" /\ autoReload)

\* A penalty is served to its end, of FloodProtector.
PenaltyIsServed == Flood!PenaltyIsServed

\* No window holds more counted requests than its limit, of FloodProtector.
WindowNeverExceeded == Flood!WindowNeverExceeded

\* The promise of the token bucket, of TokenBucket.
RateNeverExceeded == Bucket!RateNeverExceeded

\* Nobody stops the limiter in use, of RateLimitService.
LimiterInUseRuns == Service!LimiterInUseRuns

\* The service comes to use what is stored, of RateLimitService.
StoredConfigIsApplied == Service!StoredConfigIsApplied
=============================================================================
