----------------------------- MODULE TokenBucket -----------------------------
(***************************************************************************)
(* One shard of ratelimit.RateLimiter: the token buckets behind the rate   *)
(* limit of the pipeline and the WebSocket upgrade budget.  Every call     *)
(* holds the shard lock, so a call is one action.                          *)
(*                                                                         *)
(*   buckets  key to bucket.  Tokens are integers, One units to a token;   *)
(*            refill and access are the ages of lastRefill and lastAccess  *)
(*   spent    history, per watched key: requests let through (n), time     *)
(*            passed (t) and tokens that came by no refill (gift), so far.  *)
(*            It is kept when a bucket is dropped; a new stretch of time    *)
(*            begins at Horizon                                            *)
(*                                                                         *)
(* A tick is at least the 10 ms below which Allow does not refill.         *)
(***************************************************************************)
EXTENDS Integers, FiniteSets

CONSTANTS
    Keys,         \* bucket keys that hash to this shard
    Watched,      \* the keys among them whose requests are counted
    MaxPerShard,  \* maxPerShard
    Settings,     \* [enabled, count, duration] an administrator may configure
    One,          \* units of a token, a multiple of every duration
    BucketTTL,    \* bucketTTL
    Horizon,      \* bound on the ages told apart and on the time observed
    MaxSpent      \* bound on the requests let through in a stretch of time

\* A setting with which WebSocketLimiter.Allow asks the buckets at all.
Usable(s) == s.enabled /\ s.count > 0 /\ s.duration > 0

\* capacity and refill rate handed to RateLimiter.Allow, in units
Capacity(s) == s.count * One
Rate(s) == (s.count * One) \div s.duration

\* The last conjunct is about the bound: a bucket of the oldest age told apart is full,
\* so that no refill is lost to it.
BucketAssumption ==
    /\ Watched \subseteq Keys /\ MaxPerShard \in Nat \ {0} /\ One \in Nat \ {0}
    /\ BucketTTL \in Nat /\ Horizon \in Nat /\ Horizon > BucketTTL /\ MaxSpent \in Nat
    /\ Settings \subseteq [enabled : BOOLEAN, count : Int, duration : Int]
    /\ IsFiniteSet(Settings) /\ \E s \in Settings : Usable(s)
    /\ \A s \in Settings : Usable(s) => Capacity(s) <= Rate(s) * Horizon

VARIABLES buckets, spent

vars == <<buckets, spent>>

\* The largest capacity and the largest rate anyone may configure.
MaxCapacity == CHOOSE c \in {Capacity(s) : s \in {u \in Settings : Usable(u)}} :
                  \A s \in Settings : Usable(s) => Capacity(s) <= c
MaxRate == CHOOSE r \in {Rate(s) : s \in {u \in Settings : Usable(u)}} :
                  \A s \in Settings : Usable(s) => Rate(s) <= r

Bucket == [tokens : Nat, capacity : Nat, rate : Nat, refill : 0..Horizon, access : 0..Horizon]

Older(age) == IF age < Horizon THEN age + 1 ELSE age
Lesser(a, b) == IF a < b THEN a ELSE b

Afresh == [n |-> 0, t |-> 0, gift |-> 0]

-----------------------------------------------------------------------------
Init ==
    /\ buckets = [k \in {} |-> 0]
    /\ spent = [k \in Watched |-> Afresh]

\* maxPerShard / 10, at least one
EvictCount == IF MaxPerShard \div 10 < 1 THEN 1 ELSE MaxPerShard \div 10

\* evictOldest: the sets of keys it may delete, the oldest first, in the order of
\* the map where several are equally old.
evictOldest(E) ==
    /\ E \subseteq DOMAIN buckets /\ Cardinality(E) = EvictCount
    /\ \A e \in E, k \in DOMAIN buckets \ E : buckets[e].access >= buckets[k].access

\* New settings reach an existing bucket on its next use.
Reconfigure(b, cap, rate) ==
    [b EXCEPT !.capacity = cap, !.rate = rate,
              !.tokens = IF b.tokens > cap THEN cap ELSE @]

\* Mutant: lastRefill is not advanced, so the same time is paid out again.
RefillTwice(b) == [b EXCEPT !.tokens = Lesser(b.capacity, b.tokens + b.refill * b.rate)]
\* Tokens for the time since lastRefill, up to the capacity.
Refill(b) ==
    [b EXCEPT !.tokens = Lesser(b.capacity, b.tokens + b.refill * b.rate), !.refill = 0]

NewBucket(cap, rate) ==
    [tokens |-> cap, capacity |-> cap, rate |-> rate, refill |-> 0, access |-> 0]

\* The buckets m once b is stored for k.
Mutate(m, k, b) == [i \in DOMAIN m \cup {k} |-> IF i = k THEN b ELSE m[i]]

\* The bucket of k before the token is taken.
Current(k, cap, rate) ==
    LET found == IF k \in DOMAIN buckets THEN buckets[k] ELSE NewBucket(cap, rate)
    IN Refill(Reconfigure([found EXCEPT !.access = 0], cap, rate))

\* The buckets left for Allow: all of them unless the key is new and the shard is full.
Kept(k, kept) ==
    IF k \notin DOMAIN buckets /\ Cardinality(DOMAIN buckets) >= MaxPerShard
    THEN \E E \in SUBSET DOMAIN buckets :
            evictOldest(E) /\ kept = [i \in DOMAIN buckets \ E |-> buckets[i]]
    ELSE kept = buckets

Submaps == {[i \in D |-> buckets[i]] : D \in SUBSET DOMAIN buckets}

\* The history once only the buckets of kept are left: a bucket dropped before it was
\* full again makes its key a gift of what it lacked, since the next one starts full.
Drop(kept) ==
    [i \in Watched |->
        IF i \in DOMAIN buckets \ kept
        THEN [spent[i] EXCEPT !.gift = @ + (MaxCapacity - Refill(buckets[i]).tokens)]
        ELSE spent[i]]

\* The history after a call for k that lets the request through or not.
Spend(k, ok, kept) ==
    IF ok /\ k \in Watched THEN [Drop(DOMAIN kept) EXCEPT ![k].n = @ + 1] ELSE Drop(DOMAIN kept)

\* RateLimiter.Allow(key, count, count/duration).
Allow(k, s) ==
    LET b == Current(k, Capacity(s), Rate(s)) IN
    /\ k \in Watched => spent[k].n < MaxSpent
    /\ \E kept \in Submaps :
        /\ Kept(k, kept)
        /\ buckets' = Mutate(kept, k, IF b.tokens >= One THEN [b EXCEPT !.tokens = @ - One] ELSE b)
        /\ spent' = Spend(k, b.tokens >= One, kept)

\* WebSocketLimiter.Allow: disabled lets everything through and an impossible budget
\* nothing; neither touches the buckets.
WebSocketAllow(k, s) == Usable(s) /\ Allow(k, s)

\* The cleanup goroutine, once a minute.
cleanup ==
    LET kept == {j \in DOMAIN buckets : buckets[j].access <= BucketTTL} IN
    /\ buckets' = [i \in kept |-> buckets[i]]
    /\ spent' = Drop(kept)

Tick ==
    /\ buckets' = [i \in DOMAIN buckets |->
                    [buckets[i] EXCEPT !.refill = Older(@), !.access = Older(@)]]
    /\ spent' = [k \in Watched |->
                    IF spent[k].t < Horizon THEN [spent[k] EXCEPT !.t = @ + 1] ELSE Afresh]

Next ==
    \/ \E k \in Keys, s \in Settings : WebSocketAllow(k, s)
    \/ cleanup
    \/ Tick

\* The clock runs and the cleanup ticker fires.
Spec == Init /\ [][Next]_vars /\ WF_vars(Tick) /\ WF_vars(cleanup)

-----------------------------------------------------------------------------
(* Properties *)

\* The promise of a token bucket, over any stretch of time and with buckets dropped by
\* eviction and cleanup in between: a key is let through at most once per token of the
\* capacity, of what the rate adds in that time, and of what the dropped buckets of the
\* key still lacked (RateLimiter.Allow starts a new one full).
RateNeverExceeded ==
    \A k \in Watched : spent[k].n * One <= MaxCapacity + MaxRate * spent[k].t + spent[k].gift

=============================================================================
