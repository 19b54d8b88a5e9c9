---------------------------- MODULE LimitsProofs ----------------------------
(***************************************************************************)
(* What is kept between requests, whatever the number of addresses, keys,  *)
(* requests and administrators, the limits, the times to live, the faults  *)
(* and the edits: the limiter in use is not stopped, penalties are served, *)
(* no window holds and no bucket gives more than its limit, trust is       *)
(* rationed, cached verdicts fade, and reloads approach what is stored.    *)
(***************************************************************************)
EXTENDS MCLimits, FiniteSetTheorems, WellFoundedInduction, TLAPS

-----------------------------------------------------------------------------
(* RequestMemory: the trusted history *)

\* The history and its cooldown in Redis.
HistoryTypes == /\ history \in [n : Nat, left : 0..HistoryTTL]
                /\ cooldown \in BOOLEAN /\ cuts \in Nat

\* While a cooldown runs the credit it stands for is not yet paid for by age: without
\* this the bound of TrustIsRationed would not survive a credit.
Rationed == /\ cooldown => history.n <= (HistoryTTL - history.left) + 1 + cuts
            /\ ~cooldown => history.n <= (HistoryTTL - history.left) + cuts

MemoryInv == HistoryTypes /\ Rationed

\* What no action touches but the commands on the history.
trust == <<history, cooldown, cuts>>

\* The life of a history is a number.
LEMMA HistoryLives ==
    ASSUME MemoryAssumption
    PROVE  HistoryTTL \in Nat /\ HistoryTTL > 0
BY DEF MemoryAssumption

\* The first states of RequestMemory: nothing remembered.
LEMMA MemoryInit ==
    ASSUME MemoryAssumption
    PROVE  Init => MemoryInv
<1> SUFFICES ASSUME Init PROVE MemoryInv
  OBVIOUS
<1>1. history = [n |-> 0, left |-> 0] /\ cuts = 0
  BY DEF Init, NoHistory
<1>2. ~cooldown /\ cooldown \in BOOLEAN
  BY Zenon DEF Init
<1>3. HistoryTypes
  BY <1>1, <1>2, HistoryLives DEF HistoryTypes
<1>4. Rationed
  BY <1>1, <1>2, HistoryLives DEF Rationed
<1> QED
  BY <1>3, <1>4 DEF MemoryInv

\* A step that leaves the history alone.
LEMMA MemoryUntouched ==
    ASSUME MemoryInv, UNCHANGED trust
    PROVE  MemoryInv'
BY DEF MemoryInv, HistoryTypes, Rationed, trust

\* A history that is deleted or has expired (DEL of its key, EXPIRE, a Redis that lost it).
LEMMA MemoryForgotten ==
    ASSUME MemoryAssumption, MemoryInv, history' = NoHistory, cooldown' \in BOOLEAN, cuts' = 0
    PROVE  MemoryInv'
BY HistoryLives DEF MemoryInv, HistoryTypes, Rationed, NoHistory

\* The script that credits a clean request (IncrWithCooldown).
LEMMA MemoryCredited ==
    ASSUME MemoryAssumption, MemoryInv, IncrWithCooldown
    PROVE  MemoryInv'
<1>1. CASE cooldown
  BY <1>1, HistoryLives DEF MemoryInv, HistoryTypes, Rationed, IncrWithCooldown
<1>2. CASE ~cooldown /\ history.n = 0
  <2>1. history' = [n |-> 1, left |-> HistoryTTL] /\ cuts' = 0 /\ cooldown' = TRUE
    BY <1>2 DEF IncrWithCooldown, Credited
  <2> QED
    BY <2>1, HistoryLives DEF MemoryInv, HistoryTypes, Rationed
<1>3. CASE ~cooldown /\ history.n # 0
  <2>1. history' = [history EXCEPT !.n = @ + 1] /\ cuts' = cuts /\ cooldown' = TRUE
    BY <1>3 DEF IncrWithCooldown, Credited
  <2>2. history'.n = history.n + 1 /\ history'.left = history.left /\ history' \in [n : Nat, left : 0..HistoryTTL]
    BY <2>1 DEF MemoryInv, HistoryTypes
  <2> QED
    BY <1>3, <2>1, <2>2, HistoryLives DEF MemoryInv, HistoryTypes, Rationed
<1> QED
  BY <1>1, <1>2, <1>3

\* Time passes: one unit of age pays for the credit of the cooldown that ends.
LEMMA MemoryAges ==
    ASSUME MemoryAssumption, MemoryInv, Tick
    PROVE  MemoryInv'
<1> DEFINE aged == [history EXCEPT !.left = @ - 1]
<1>0. ~cooldown' /\ cooldown' \in BOOLEAN
  BY Zenon DEF Tick
<1>1. CASE history.left > 1
  <2>1. history' = aged
    BY <1>1 DEF Tick, Older
  <2>2. /\ history'.n = history.n /\ history'.left = history.left - 1
        /\ history' \in [n : Nat, left : 0..HistoryTTL]
    BY <1>1, <2>1, HistoryLives DEF MemoryInv, HistoryTypes
  <2>3. history' # NoHistory
    BY <1>1, <2>2 DEF MemoryInv, HistoryTypes, NoHistory
  <2>4. cuts' = cuts
    BY <2>3 DEF Tick
  <2>5. HistoryTypes'
    BY <1>0, <2>2, <2>4 DEF MemoryInv, HistoryTypes
  <2>6. history.n <= (HistoryTTL - history.left) + 1 + cuts
    BY HistoryLives DEF MemoryInv, HistoryTypes, Rationed
  <2>7. Rationed'
    BY <1>0, <2>2, <2>4, <2>6, HistoryLives DEF MemoryInv, HistoryTypes, Rationed
  <2> QED
    BY <2>5, <2>7 DEF MemoryInv
<1>2. CASE ~(history.left > 1)
  BY <1>0, <1>2, MemoryForgotten DEF Tick, Older
<1> QED
  BY <1>1, <1>2

\* The second key of a reset goes: the cooldown that is cut short is counted.
LEMMA MemoryCut ==
    ASSUME MemoryAssumption, MemoryInv, cooldown' = FALSE, UNCHANGED history,
           cuts' = IF cooldown /\ history.n > 0 THEN cuts + 1 ELSE cuts
    PROVE  MemoryInv'
<1>0. ~cooldown' /\ cooldown' \in BOOLEAN
  BY Zenon
<1>1. cuts' \in Nat /\ HistoryTypes'
  BY <1>0 DEF MemoryInv, HistoryTypes
<1>2. history.n <= (HistoryTTL - history.left) + cuts'
  <2>0. history \in [n : Nat, left : 0..HistoryTTL] /\ cuts \in Nat
    BY DEF MemoryInv, HistoryTypes
  <2>1. CASE cooldown /\ history.n > 0
    <3>1. cuts' = cuts + 1
      BY <2>1
    <3>2. history.n <= (HistoryTTL - history.left) + 1 + cuts
      BY <2>1 DEF MemoryInv, Rationed
    <3> QED
      BY <2>0, <3>1, <3>2, HistoryLives
  <2>2. CASE ~cooldown
    BY <2>2 DEF MemoryInv, HistoryTypes, Rationed
  <2>3. CASE ~(history.n > 0)
    BY <2>3, HistoryLives DEF MemoryInv, HistoryTypes, Rationed
  <2> QED
    BY <2>1, <2>2, <2>3
<1> QED
  BY <1>0, <1>1, <1>2 DEF MemoryInv, Rationed

\* Every step of RequestMemory keeps the invariant.
LEMMA MemoryStep ==
    ASSUME MemoryAssumption, MemoryInv, [Next]_memoryVars
    PROVE  MemoryInv'
<1>1. ASSUME NEW f \in Flows, Serve(f)
      PROVE  MemoryInv'
  <2>1. CASE \E exempt \in BOOLEAN, score \in {"none", "challenge"} : Arrive(f, exempt, score)
    BY <2>1, MemoryUntouched DEF Arrive, redis, trust
  <2>2. CASE CacheCheck(f)
    BY <2>2, MemoryUntouched DEF CacheCheck, Command, redis, trust
  <2>3. CASE \E score \in {"none", "challenge"} : RulesEngine(f, score)
    BY <2>3, MemoryUntouched DEF RulesEngine, redis, trust
  <2>4. CASE RecordCleanRequest(f)
    BY <2>4, MemoryUntouched, MemoryCredited DEF RecordCleanRequest, Command, redis, trust
  <2>5. CASE ResetHistory(f)
    <3>1. UNCHANGED trust \/ (history' = NoHistory /\ cuts' = 0 /\ UNCHANGED cooldown)
      BY <2>5 DEF ResetHistory, Command, redis, trust
    <3> QED
      BY <3>1, MemoryUntouched, MemoryForgotten DEF MemoryInv, HistoryTypes
  <2>6. CASE ResetCooldown(f)
    <3>1. \/ UNCHANGED trust
          \/ /\ cooldown' = FALSE /\ UNCHANGED history
             /\ cuts' = IF cooldown /\ history.n > 0 THEN cuts + 1 ELSE cuts
      BY <2>6 DEF ResetCooldown, Command, redis, trust
    <3> QED
      BY <3>1, MemoryUntouched, MemoryCut
  <2> QED
    BY <1>1, <2>1, <2>2, <2>3, <2>4, <2>5, <2>6 DEF Serve
<1>2. CASE writeWorker
  BY <1>2, MemoryUntouched DEF writeWorker, Command, redis, trust
<1>3. CASE reconnectLoop \/ RedisReturns
  BY <1>3, MemoryUntouched DEF reconnectLoop, RedisReturns, redis, trust
<1>4. CASE RedisFails
  BY <1>4, MemoryUntouched, MemoryForgotten DEF RedisFails, redis, trust
<1>5. CASE Tick
  BY <1>5, MemoryAges
<1>6. CASE EditRule \/ EditAccess \/ ReloadFails \/ autoReload
  BY <1>6, MemoryUntouched DEF EditRule, EditAccess, ReloadFails, autoReload, redis, trust
<1>7. CASE UNCHANGED memoryVars
  BY <1>7, MemoryUntouched DEF memoryVars, redis, trust
<1> QED
  BY <1>1, <1>2, <1>3, <1>4, <1>5, <1>6, <1>7 DEF Next

\* The trusted history is at most what its age allows, one credit per cooldown, and one
\* more for every reset that cut a cooldown short (IncrWithCooldown, ResetHistory).
THEOREM TrustStaysRationed ==
    ASSUME MemoryAssumption
    PROVE  Spec => []TrustIsRationed
<1>1. Init => MemoryInv
  BY MemoryInit
<1>2. MemoryInv /\ [Next]_memoryVars => MemoryInv'
  BY MemoryStep
<1>3. MemoryInv => TrustIsRationed
  BY HistoryLives DEF MemoryInv, HistoryTypes, Rationed, TrustIsRationed
<1> QED
  BY <1>1, <1>2, <1>3, PTL DEF Spec

-----------------------------------------------------------------------------
(* RequestMemory: a cached verdict fades *)

\* A verdict that is cached has some time to live, one that is queued may be cached.
VerdictTypes ==
    /\ queue \in Seq(Verdicts)
    /\ decision = NoVerdict \/ (decision \in [action : Verdicts, left : Nat] /\ decision.left > 0)

\* The lives of verdicts are numbers, and no verdict lives for nothing.
LEMMA VerdictsLive ==
    ASSUME MemoryAssumption, NEW action
    PROVE  TTL(action) \in Nat /\ TTL(action) > 0
BY DEF MemoryAssumption, TTL

\* What the worker takes off the queue (writeWorker).
LEMMA WorkerTakes ==
    ASSUME VerdictTypes, writeWorker
    PROVE  /\ queue' = Tail(queue) /\ queue' \in Seq(Verdicts) /\ Len(queue') = Len(queue) - 1
           /\ queue # <<>> /\ Len(queue) \in Nat
           /\ \/ decision' = decision
              \/ decision' = [action |-> Head(queue), left |-> TTL(Head(queue))] /\ Head(queue) \in Verdicts
BY DEF writeWorker, VerdictTypes, Command, redis

\* A request queues what the rule decides, if anything (RulesEngineHandler).
LEMMA RuleQueues ==
    ASSUME VerdictTypes, NEW f, NEW score, RulesEngine(f, score)
    PROVE  /\ queue' \in Seq(Verdicts) /\ decision' = decision
           /\ rule = "none" => queue' = queue
<1>1. rule = "none" => rule \notin Verdicts
  BY DEF Verdicts
<1> QED
  BY <1>1 DEF RulesEngine, VerdictTypes, redis

\* Time shortens the life of a cached verdict or ends it.
LEMMA VerdictAges ==
    ASSUME VerdictTypes, Tick
    PROVE  /\ queue' = queue /\ VerdictTypes'
           /\ decision'.left <= decision.left
           /\ decision # NoVerdict => decision'.left < decision.left
<1>1. queue' = queue /\ decision' = Older(decision, NoVerdict)
  BY DEF Tick
<1>2. CASE decision.left > 1
  <2>1. decision # NoVerdict
    BY <1>2 DEF NoVerdict
  <2>2. decision' = [decision EXCEPT !.left = decision.left - 1] /\ decision \in [action : Verdicts, left : Nat]
    BY <1>1, <1>2, <2>1 DEF VerdictTypes, Older
  <2>3. decision' \in [action : Verdicts, left : Nat] /\ decision'.left = decision.left - 1
    BY <1>2, <2>2
  <2> QED
    BY <1>1, <1>2, <2>2, <2>3 DEF VerdictTypes
<1>3. CASE ~(decision.left > 1)
  <2>1. decision' = NoVerdict /\ decision'.left = 0
    BY <1>1, <1>3 DEF Older, NoVerdict
  <2>2. decision.left \in Nat
    BY DEF VerdictTypes, NoVerdict
  <2> QED
    BY <1>1, <2>1, <2>2 DEF VerdictTypes
<1> QED
  BY <1>2, <1>3

\* The other steps queue nothing, and touch the cached verdict only to lose it.
LEMMA OthersCacheNothing ==
    ASSUME VerdictTypes, [Next]_memoryVars, ~writeWorker, ~Tick,
           ~\E f \in Flows, score \in {"none", "challenge"} : RulesEngine(f, score)
    PROVE  queue' = queue /\ (decision' = decision \/ decision' = NoVerdict)
<1>1. ASSUME NEW f \in Flows, Serve(f)
      PROVE  queue' = queue /\ decision' = decision
  <2>1. CASE \E exempt, score : Arrive(f, exempt, score)
    BY <2>1 DEF Arrive, redis
  <2>2. CASE CacheCheck(f)
    BY <2>2 DEF CacheCheck, Command, redis
  <2>3. CASE RecordCleanRequest(f)
    BY <2>3 DEF RecordCleanRequest, Command, IncrWithCooldown, redis
  <2>4. CASE ResetHistory(f)
    BY <2>4 DEF ResetHistory, Command, redis
  <2>5. CASE ResetCooldown(f)
    BY <2>5 DEF ResetCooldown, Command, redis
  <2> QED
    BY <1>1, <2>1, <2>2, <2>3, <2>4, <2>5 DEF Serve
<1>2. CASE reconnectLoop \/ RedisFails \/ RedisReturns
  BY <1>2 DEF reconnectLoop, RedisFails, RedisReturns, redis
<1>3. CASE EditRule \/ EditAccess \/ ReloadFails \/ autoReload
  BY <1>3 DEF EditRule, EditAccess, ReloadFails, autoReload, redis
<1>4. CASE UNCHANGED memoryVars
  BY <1>4 DEF memoryVars, redis
<1> QED
  BY <1>1, <1>2, <1>3, <1>4 DEF Next

\* What a step makes of verdicts that no rule stands behind any more.
Fading ==
    rule = "none" /\ rule' = "none" =>
        /\ Len(queue') <= Len(queue)
        /\ queue = <<>> => decision'.left <= decision.left
        /\ writeWorker => Len(queue') < Len(queue)
        /\ Tick /\ queue = <<>> /\ decision # NoVerdict => decision'.left < decision.left

\* Every step keeps the types and lets such verdicts fade.
LEMMA VerdictStep ==
    ASSUME MemoryAssumption, VerdictTypes, [Next]_memoryVars
    PROVE  VerdictTypes' /\ Fading
<1>1. Len(queue) \in Nat /\ decision.left \in Nat /\ NoVerdict.left = 0
  BY DEF VerdictTypes, NoVerdict
<1>2. writeWorker => ~Tick
  BY <1>1, WorkerTakes, VerdictAges
<1>3. CASE writeWorker
  <2>1. VerdictTypes'
    BY <1>3, WorkerTakes, VerdictsLive DEF VerdictTypes
  <2> QED
    BY <1>1, <1>2, <1>3, <2>1, WorkerTakes DEF Fading
<1>4. CASE Tick
  BY <1>1, <1>2, <1>4, VerdictAges DEF Fading
<1>5. CASE (\E f \in Flows, score \in {"none", "challenge"} : RulesEngine(f, score)) /\ ~writeWorker /\ ~Tick
  BY <1>1, <1>5, RuleQueues DEF Fading, VerdictTypes
<1>6. CASE /\ ~writeWorker /\ ~Tick
           /\ ~\E f \in Flows, score \in {"none", "challenge"} : RulesEngine(f, score)
  BY <1>1, <1>6, OthersCacheNothing DEF Fading, VerdictTypes
<1> QED
  BY <1>3, <1>4, <1>5, <1>6

\* Once no rule decides for the client nothing is queued or stored anew: the writer empties
\* the queue, and from then on time alone changes the cached verdict, towards its end
\* (RulesEngineHandler, writeWorker, DecisionCache.Set).  This is what VerdictFades rests on.
THEOREM VerdictsOnlyFade ==
    ASSUME MemoryAssumption
    PROVE  Spec => [][Fading]_memoryVars
<1>1. Init => VerdictTypes
  BY DEF Init, VerdictTypes
<1>2. VerdictTypes /\ [Next]_memoryVars => VerdictTypes' /\ Fading
  BY VerdictStep
<1>3. VerdictTypes /\ [Next]_memoryVars => [Fading]_memoryVars
  BY <1>2
<1> QED
  BY <1>1, <1>2, <1>3, PTL DEF Spec

-----------------------------------------------------------------------------
(* RateLimitService: the limiter in use is not stopped *)

\* What whoever swaps the limiter holds of it.
Holder == [pc : {"idle"}] \cup [pc : {"store"}, cfg : Profiles, old : Service!Limiters]
            \cup [pc : {"stop"}, old : Service!Limiters]

ServiceTypes ==
    /\ db \in Profiles /\ state \in [cfg : Profiles, limiter : Service!Limiters]
    /\ limiters \in [Service!Limiters -> [used : Nat, stopped : BOOLEAN]]
    /\ reload \in Holder \cup [pc : {"load"}, cfg : Profiles] /\ down \in BOOLEAN
    /\ admin \in [Admins -> Holder \cup [pc : {"load"}] \cup [pc : {"save"}, cfg : Profiles]]

\* Nobody who is about to stop a limiter holds the one in use: without this the
\* limiter in use could be stopped by the next step.
NoneStopsTheOneInUse ==
    /\ reload.pc = "stop" => reload.old # state.limiter
    /\ \A a \in Admins : admin[a].pc = "stop" => admin[a].old # state.limiter

ServiceInv == ServiceTypes /\ NoneStopsTheOneInUse /\ Service!LimiterInUseRuns

\* The instance counts as FiniteSets does.
LEMMA SameCount ==
    /\ \A S : Service!IsFiniteSet(S) <=> IsFiniteSet(S)
    /\ \A S : Service!Cardinality(S) = Cardinality(S)
<1>1. ASSUME NEW S PROVE Service!IsFiniteSet(S) <=> IsFiniteSet(S)
  BY Zenon DEF Service!IsFiniteSet, IsFiniteSet
<1>2. ASSUME NEW S PROVE Service!Cardinality(S) = Cardinality(S)
  BY Zenon DEF Service!Cardinality, Cardinality
<1> QED
  BY <1>1, <1>2

\* The administrators are a finite number.
LEMMA AdminsAreCounted ==
    ASSUME Service!ServiceAssumption
    PROVE  /\ IsFiniteSet(Admins) /\ Cardinality(Admins) \in Nat
           /\ Service!Limiters = 1..(Cardinality(Admins) + 3)
<1>1. IsFiniteSet(Admins)
  BY SameCount DEF Service!ServiceAssumption
<1>2. Cardinality(Admins) \in Nat
  BY <1>1, FS_CardinalityType
<1>3. Service!Limiters = 1..(Cardinality(Admins) + 3)
  BY SameCount DEF Service!Limiters
<1> QED
  BY <1>1, <1>2, <1>3

\* There are more limiters than anyone can hold, so a fresh one exists (Newest).
LEMMA NewestIsFree ==
    ASSUME Service!ServiceAssumption
    PROVE  Service!Newest \in Service!Limiters /\ Service!Newest \notin Service!Held
<1> DEFINE N == Cardinality(Admins)
           olds == {admin[a].old : a \in Admins}
           all == (olds \cup {reload.old}) \cup {state.limiter}
<1>1. IsFiniteSet(Admins) /\ N \in Nat
  BY AdminsAreCounted
<1>2. IsFiniteSet(olds) /\ Cardinality(olds) <= N /\ Cardinality(olds) \in Nat
  <2> DEFINE f == [a \in Admins |-> admin[a].old]
  <2>1. f \in Surjection(Admins, olds)
    BY DEF Surjection
  <2> QED
    BY <1>1, <2>1, FS_Surjection, FS_CardinalityType
<1> HIDE DEF N, olds
<1> DEFINE most == olds \cup {reload.old}
<1>3. IsFiniteSet(most) /\ Cardinality(most) <= N + 1 /\ Cardinality(most) \in Nat
  <2>1. IsFiniteSet(most) /\ Cardinality(most) \in {Cardinality(olds), Cardinality(olds) + 1}
    BY <1>2, FS_AddElement
  <2> QED
    BY <1>1, <1>2, <2>1
<1> HIDE DEF most
<1>4. IsFiniteSet(all) /\ Cardinality(all) <= N + 2 /\ Cardinality(all) \in Nat
  <2>1. IsFiniteSet(all) /\ Cardinality(all) \in {Cardinality(most), Cardinality(most) + 1}
    BY <1>3, FS_AddElement DEF most
  <2> QED
    BY <1>1, <1>3, <2>1
<1>5. IsFiniteSet(Service!Limiters) /\ Cardinality(Service!Limiters) = N + 3
  <2>1. IsFiniteSet(1..(N + 3)) /\ Cardinality(1..(N + 3)) = N + 3
    BY <1>1, FS_Interval
  <2> QED
    BY <2>1, AdminsAreCounted DEF N
<1>6. Service!Held \subseteq all
  BY DEF Service!Held, Service!Holders, olds, most
<1>7. ~(Service!Limiters \subseteq all)
  BY <1>1, <1>4, <1>5, FS_Subset
<1>8. \E l \in Service!Limiters : l \notin Service!Held
  BY <1>6, <1>7
<1> QED
  BY <1>8 DEF Service!Newest

\* The limiters after the pointer is swapped (Swap): the one now in use is fresh, and
\* whoever was about to stop one holds another.
LEMMA SwapBringsAFreshOne ==
    ASSUME Service!ServiceAssumption, ServiceInv, NEW c \in Profiles, Service!Swap(c)
    PROVE  /\ state' \in [cfg : Profiles, limiter : Service!Limiters]
           /\ limiters' \in [Service!Limiters -> [used : Nat, stopped : BOOLEAN]]
           /\ ~limiters'[state'.limiter].stopped
           /\ reload.pc \in {"store", "stop"} => reload.old # state'.limiter
           /\ \A a \in Admins : admin[a].pc \in {"store", "stop"} => admin[a].old # state'.limiter
<1> DEFINE new == Service!Newest
<1>1. new \in Service!Limiters /\ new \notin Service!Held
  BY NewestIsFree
<1>2. state' = [cfg |-> c, limiter |-> new]
  BY DEF Service!Swap
<1>3. limiters' = [l \in Service!Limiters |-> IF l = new THEN Service!Fresh
                       ELSE IF l \in Service!Held THEN [limiters[l] EXCEPT !.used = 0]
                       ELSE Service!Unused]
  BY DEF Service!Swap
<1>4. \A l \in Service!Limiters :
        limiters'[l] = IF l = new THEN Service!Fresh
                       ELSE IF l \in Service!Held THEN [limiters[l] EXCEPT !.used = 0]
                       ELSE Service!Unused
  BY <1>3
<1>5. ASSUME NEW l \in Service!Limiters
      PROVE  limiters'[l] \in [used : Nat, stopped : BOOLEAN]
  <2>1. Service!Fresh \in [used : Nat, stopped : BOOLEAN] /\ Service!Unused \in [used : Nat, stopped : BOOLEAN]
    BY DEF Service!Fresh, Service!Unused
  <2>2. [limiters[l] EXCEPT !.used = 0] \in [used : Nat, stopped : BOOLEAN]
    BY DEF ServiceInv, ServiceTypes
  <2> QED
    BY <1>4, <2>1, <2>2
<1>6. \A h \in Service!Holders : h.pc \in {"store", "stop"} => h.old \in Service!Held
  BY DEF Service!Held
<1>7. reload \in Service!Holders /\ \A a \in Admins : admin[a] \in Service!Holders
  BY DEF Service!Holders
<1> QED
  BY <1>1, <1>2, <1>3, <1>4, <1>5, <1>6, <1>7 DEF Service!Fresh

\* The first state of the service.
LEMMA ServiceStarts ==
    ASSUME Service!ServiceAssumption, Service!Init
    PROVE  ServiceInv
<1>1. 1 \in Service!Limiters
  BY AdminsAreCounted
<1> QED
  BY <1>1 DEF Service!Init, ServiceInv, ServiceTypes, NoneStopsTheOneInUse, Holder,
              Service!LimiterInUseRuns, Service!Fresh, Service!Unused, Service!NoJob

\* Every step of the service keeps the invariant.
LEMMA ServiceStep ==
    ASSUME Service!ServiceAssumption, ServiceInv, [Service!Next]_serviceVars
    PROVE  ServiceInv'
<1> USE DEF ServiceInv, ServiceTypes, NoneStopsTheOneInUse, Service!LimiterInUseRuns
<1>1. CASE Service!ReloadRead
  BY <1>1 DEF Service!ReloadRead, Holder
<1>2. CASE Service!ReloadLoad
  BY <1>2 DEF Service!ReloadLoad, Holder
<1>3. CASE Service!ReloadStore
  <2>1. reload.pc = "store" /\ reload.cfg \in Profiles /\ reload.old \in Service!Limiters
    BY <1>3 DEF Service!ReloadStore, Holder
  <2>2. Service!Swap(reload.cfg) /\ reload' = [pc |-> "stop", old |-> reload.old]
        /\ UNCHANGED <<db, admin, req, down>>
    BY <1>3 DEF Service!ReloadStore
  <2>3. ServiceTypes'
    BY <2>1, <2>2, SwapBringsAFreshOne DEF Holder
  <2> QED
    BY <2>1, <2>2, <2>3, SwapBringsAFreshOne
<1>4. CASE Service!ReloadStop
  <2>1. reload.old \in Service!Limiters /\ reload.old # state.limiter
    BY <1>4 DEF Service!ReloadStop, Holder
  <2> QED
    BY <1>4, <2>1 DEF Service!ReloadStop, Service!Stop, Service!NoJob, Holder
<1>5. ASSUME NEW a \in Admins, Service!AdminRead(a) \/ Service!AdminSave(a) \/ Service!InvalidateLoad(a)
      PROVE  ServiceInv'
  <2>1. CASE Service!AdminRead(a)
    BY <2>1 DEF Service!AdminRead, Holder
  <2>2. CASE Service!AdminSave(a)
    BY <2>2 DEF Service!AdminSave, Holder
  <2>3. CASE Service!InvalidateLoad(a)
    BY <2>3 DEF Service!InvalidateLoad, Holder
  <2> QED
    BY <1>5, <2>1, <2>2, <2>3
<1>6. ASSUME NEW a \in Admins, Service!InvalidateStore(a)
      PROVE  ServiceInv'
  <2>1. admin[a].pc = "store" /\ admin[a].cfg \in Profiles /\ admin[a].old \in Service!Limiters
    BY <1>6 DEF Service!InvalidateStore, Holder
  <2>2. Service!Swap(admin[a].cfg) /\ UNCHANGED <<db, reload, req, down>>
        /\ admin' = [admin EXCEPT ![a] = [pc |-> "stop", old |-> admin[a].old]]
    BY <1>6 DEF Service!InvalidateStore
  <2>3. ServiceTypes'
    BY <2>1, <2>2, SwapBringsAFreshOne DEF Holder
  <2> QED
    BY <2>1, <2>2, <2>3, SwapBringsAFreshOne
<1>7. ASSUME NEW a \in Admins, Service!InvalidateStop(a)
      PROVE  ServiceInv'
  <2>1. admin[a].old \in Service!Limiters /\ admin[a].old # state.limiter
    BY <1>7 DEF Service!InvalidateStop, Holder
  <2> QED
    BY <1>7, <2>1 DEF Service!InvalidateStop, Service!Stop, Service!NoJob, Holder
<1>8. ASSUME NEW r \in Clients, Service!Request(r)
      PROVE  ServiceInv'
  BY <1>8 DEF Service!Request, Service!AllowConfig, Service!AllowLimit
<1>9. CASE Service!Shutdown
  BY <1>9 DEF Service!Shutdown, Service!Stop
<1>10. CASE Service!Tick
  BY <1>10 DEF Service!Tick
<1>11. CASE UNCHANGED serviceVars
  BY <1>11 DEF serviceVars
<1> QED
  BY <1>1, <1>2, <1>3, <1>4, <1>5, <1>6, <1>7, <1>8, <1>9, <1>10, <1>11
  DEF Service!Next, Service!Reload, Service!InvalidateCache

-----------------------------------------------------------------------------
(* RateLimitService: the stored configuration comes to be used *)

AtRest == \A a \in Admins : admin[a].pc = "idle"

\* How many steps of autoReload it takes, while administrators rest, until the service uses
\* what is stored and nothing older is on its way to the pointer.
Distance ==
    IF state.cfg = db /\ (reload.pc \in {"load", "store"} => reload.cfg = db) THEN 0
    ELSE CASE reload.pc = "store" -> IF reload.cfg = db THEN 1 ELSE 5
           [] reload.pc = "load" -> IF reload.cfg = db THEN 2 ELSE 6
           [] reload.pc = "idle" -> 3
           [] reload.pc = "stop" -> 4

Approaching ==
    AtRest /\ AtRest' =>
        /\ Distance' <= Distance
        /\ Service!Reload /\ Distance > 0 => Distance' < Distance

\* Reload brings the service nearer to what is stored.
LEMMA ReloadApproaches ==
    ASSUME ServiceInv, Service!Reload
    PROVE  Distance' <= Distance /\ (Distance > 0 => Distance' < Distance)
<1>1. CASE Service!ReloadRead
  BY <1>1 DEF Service!ReloadRead, Distance
<1>2. CASE Service!ReloadLoad
  BY <1>2 DEF Service!ReloadLoad, Distance
<1>3. CASE Service!ReloadStore
  BY <1>3 DEF Service!ReloadStore, Service!Swap, Distance
<1>4. CASE Service!ReloadStop
  BY <1>4 DEF Service!ReloadStop, Service!NoJob, Distance
<1> QED
  BY <1>1, <1>2, <1>3, <1>4 DEF Service!Reload

\* Nobody else, while administrators rest, changes what is stored, used or on its way.
LEMMA ServiceApproaches ==
    ASSUME ServiceInv, [Service!Next]_serviceVars
    PROVE  Approaching
<1> SUFFICES ASSUME AtRest, AtRest'
             PROVE  Distance' <= Distance /\ (Service!Reload /\ Distance > 0 => Distance' < Distance)
  BY DEF Approaching
<1>1. Distance \in 0..6
  BY DEF Distance, ServiceInv, ServiceTypes, Holder
<1>2. CASE Service!Reload
  BY <1>2, ReloadApproaches
<1>3. ASSUME NEW a \in Admins, Service!AdminRead(a) \/ Service!AdminSave(a) \/ Service!InvalidateCache(a)
      PROVE  FALSE
  <2>1. admin[a].pc = "idle" /\ admin'[a].pc = "idle"
    BY DEF AtRest
  <2> QED
    BY <1>3, <2>1 DEF Service!AdminRead, Service!AdminSave, Service!InvalidateCache, Service!InvalidateLoad,
                      Service!InvalidateStore, Service!InvalidateStop, ServiceInv, ServiceTypes
<1>4. CASE /\ (\E r \in Clients : Service!Request(r)) \/ Service!Shutdown \/ Service!Tick \/ UNCHANGED serviceVars
           /\ ~Service!Reload
  <2>1. UNCHANGED <<db, state, reload>>
    BY <1>4 DEF Service!Request, Service!AllowConfig, Service!AllowLimit, Service!Shutdown, Service!Tick, serviceVars
  <2>2. Distance' = Distance
    BY <2>1 DEF Distance
  <2> QED
    BY <1>1, <1>4, <2>2
<1> QED
  BY <1>2, <1>3, <1>4 DEF Service!Next

-----------------------------------------------------------------------------
(* FloodProtector: a penalty is served to its end *)

Job == [pc : Flood!Labels, ip : IPs \cup {"none"}, cfg : Configs \cup {"none"},
        kind : Flood!Kinds \cup {"none"}]

\* A request that is to be punished carries the configuration and the counter its
\* penalty comes from, and a penalty is at most one unit past its end: without these a
\* penalty could be dropped that never ran.
FloodInv ==
    /\ job \in [Requests -> Job]
    /\ \A r \in Requests :
        /\ job[r].pc # "idle" => job[r].cfg \in Configs
        /\ job[r].pc = "punish" => job[r].kind \in Flood!Kinds
    /\ \A i \in DOMAIN challenged : challenged[i] \in Int /\ challenged[i] >= -1

\* The penalty a request is given runs for some time (PenaltyOf).
LEMMA PenaltiesRun ==
    ASSUME Flood!FloodAssumption, NEW c \in Configs, NEW k \in Flood!Kinds
    PROVE  Flood!PenaltyOf(c, k) \in Int /\ Flood!PenaltyOf(c, k) > 0
BY DEF Flood!FloodAssumption, Flood!PenaltyOf

\* The first state of the flood protector.
LEMMA FloodStarts ==
    ASSUME Flood!Init
    PROVE  FloodInv
BY DEF Flood!Init, Flood!Idle, FloodInv, Job, Flood!Labels

\* A step that gives a request its next label, or a counter to be punished for, and
\* leaves the penalties alone.
LEMMA JobMoves ==
    ASSUME FloodInv, NEW r \in Requests, job[r].pc # "idle", UNCHANGED challenged,
           NEW l \in Flood!Labels, NEW k \in Flood!Kinds,
           \/ job' = job
           \/ l # "punish" /\ Flood!Goto(r, l)
           \/ Flood!Refuse(r, k)
           \/ job' = [job EXCEPT ![r] = Flood!Idle]
    PROVE  FloodInv'
<1>1. CASE job' = job
  BY <1>1 DEF FloodInv
<1>2. CASE l # "punish" /\ Flood!Goto(r, l)
  BY <1>2 DEF FloodInv, Flood!Goto, Job
<1>3. CASE Flood!Refuse(r, k)
  <2> DEFINE refused == [job[r] EXCEPT !.pc = "punish", !.kind = k]
  <2>1. job' = [job EXCEPT ![r] = refused]
    BY <1>3 DEF FloodInv, Flood!Refuse, Job
  <2>2. /\ refused \in Job /\ refused.kind = k
        /\ refused.cfg = job[r].cfg
    BY DEF FloodInv, Job, Flood!Labels
  <2> HIDE DEF refused
  <2>3. /\ job' \in [Requests -> Job] /\ job'[r] = refused
        /\ \A q \in Requests \ {r} : job'[q] = job[q]
    BY <2>1, <2>2 DEF FloodInv
  <2> QED
    BY <2>2, <2>3 DEF FloodInv
<1>4. CASE job' = [job EXCEPT ![r] = Flood!Idle]
  BY <1>4 DEF FloodInv, Flood!Idle, Job, Flood!Labels
<1> QED
  BY <1>1, <1>2, <1>3, <1>4

\* A penalty that has not run out stays.
PenaltiesStay == \A i \in DOMAIN challenged : i \notin DOMAIN challenged' => challenged[i] = -1

\* The steps of one request keep the invariant and drop no penalty that runs.
LEMMA FloodServes ==
    ASSUME Flood!FloodAssumption, FloodInv, NEW r \in Requests, Flood!Step(r)
    PROVE  FloodInv' /\ PenaltiesStay
<1>1. CASE Flood!IsChallenged(r)
  <2>1. job[r].pc = "penalty"
    BY <1>1 DEF Flood!IsChallenged
  <2>2. CASE UNCHANGED challenged
    <3>1. Flood!Goto(r, "attack") \/ job' = [job EXCEPT ![r] = Flood!Idle]
      BY <1>1 DEF Flood!IsChallenged
    <3> QED
      BY <2>1, <2>2, <3>1, JobMoves DEF Flood!Labels, Flood!Kinds, PenaltiesStay
  <2>3. CASE challenged' # challenged
    <3>1. /\ job[r].ip \in DOMAIN challenged /\ Flood!Expired(challenged[job[r].ip])
          /\ challenged' = Flood!Without(challenged, job[r].ip) /\ Flood!Goto(r, "attack")
      BY <1>1, <2>3 DEF Flood!IsChallenged
    <3>2. /\ DOMAIN challenged' = DOMAIN challenged \ {job[r].ip}
          /\ \A i \in DOMAIN challenged' : challenged'[i] = challenged[i]
      BY <3>1 DEF Flood!Without
    <3>3. PenaltiesStay
      BY <3>1, <3>2 DEF FloodInv, PenaltiesStay, Flood!Expired
    <3>4. FloodInv'
      BY <2>1, <3>1, <3>2 DEF FloodInv, Flood!Goto, Job, Flood!Labels
    <3> QED
      BY <3>3, <3>4
  <2> QED
    BY <2>2, <2>3
<1>2. ASSUME NEW k \in Flood!Kinds, Flood!SkipDisabled(r, k)
      PROVE  FloodInv' /\ PenaltiesStay
  <2>1. Flood!Following(k) \in Flood!Labels \ {"punish"}
    BY DEF Flood!Following, Flood!Labels
  <2>2. job[r].pc # "idle" /\ Flood!Goto(r, Flood!Following(k)) /\ UNCHANGED challenged
    BY <1>2 DEF Flood!SkipDisabled, Flood!Kinds
  <2> QED
    BY <2>1, <2>2, JobMoves DEF PenaltiesStay
<1>3. CASE Flood!SetChallenge(r)
  <2> DEFINE p == Flood!PenaltyOf(job[r].cfg, job[r].kind)
             ip == job[r].ip
  <2>1. p \in Int /\ p > 0
    BY <1>3, PenaltiesRun DEF Flood!SetChallenge, FloodInv
  <2>2. challenged' = Flood!With(challenged, ip, p) /\ job' = [job EXCEPT ![r] = Flood!Idle]
    BY <1>3 DEF Flood!SetChallenge
  <2> HIDE DEF p
  <2>3. /\ DOMAIN challenged' = DOMAIN challenged \cup {ip}
        /\ \A i \in DOMAIN challenged' : challenged'[i] = IF i = ip THEN p ELSE challenged[i]
    BY <2>2 DEF Flood!With
  <2> QED
    BY <2>1, <2>2, <2>3 DEF FloodInv, PenaltiesStay, Flood!Idle, Job, Flood!Labels
<1>4. ASSUME NEW limits \in Configs, NEW k \in {"attack", "error"}, Flood!CheckCounter(r, k, limits)
      PROVE  FloodInv' /\ PenaltiesStay
  <2>1. Flood!Following(k) \in Flood!Labels \ {"punish"} /\ k \in Flood!Kinds
    BY DEF Flood!Following, Flood!Labels, Flood!Kinds
  <2>2. /\ job[r].pc # "idle" /\ UNCHANGED challenged
        /\ Flood!Goto(r, Flood!Following(k)) \/ Flood!Refuse(r, k)
    BY <1>4 DEF Flood!CheckCounter
  <2> QED
    BY <2>1, <2>2, JobMoves DEF PenaltiesStay
<1>5. ASSUME NEW limits \in Configs, Flood!CheckBasicAccess(r, limits)
      PROVE  FloodInv' /\ PenaltiesStay
  <2>1. /\ job[r].pc # "idle" /\ UNCHANGED challenged
        /\ Flood!Goto(r, "forward") \/ Flood!Refuse(r, "basic")
    BY <1>5 DEF Flood!CheckBasicAccess
  <2> QED
    BY <2>1, JobMoves DEF PenaltiesStay, Flood!Labels, Flood!Kinds
<1>6. ASSUME NEW limits \in Configs, NEW violation \in BOOLEAN, NEW proxied \in BOOLEAN,
             Flood!RecordAttack(r, violation, proxied, limits)
      PROVE  FloodInv' /\ PenaltiesStay
  <2>1. /\ job[r].pc # "idle" /\ UNCHANGED challenged
        /\ Flood!Goto(r, "upstream") \/ job' = [job EXCEPT ![r] = Flood!Idle]
    BY <1>6 DEF Flood!RecordAttack
  <2> QED
    BY <2>1, JobMoves DEF PenaltiesStay, Flood!Labels, Flood!Kinds
<1>7. ASSUME NEW limits \in Configs, NEW failed \in BOOLEAN, Flood!RecordError(r, failed, limits)
      PROVE  FloodInv' /\ PenaltiesStay
  <2>1. job[r].pc # "idle" /\ UNCHANGED challenged /\ job' = [job EXCEPT ![r] = Flood!Idle]
    BY <1>7 DEF Flood!RecordError
  <2> QED
    BY <2>1, JobMoves DEF PenaltiesStay, Flood!Labels, Flood!Kinds
<1> QED
  BY <1>1, <1>2, <1>3, <1>4, <1>5, <1>6, <1>7
  DEF Flood!Step, Flood!CheckAttackLimit, Flood!CheckErrorLimit

\* Every step of the flood protector keeps the invariant and drops no penalty that runs.
LEMMA FloodStep ==
    ASSUME Flood!FloodAssumption, FloodInv, [Flood!Next]_floodVars
    PROVE  FloodInv' /\ PenaltiesStay
<1>1. ASSUME NEW r \in Requests, NEW ip \in IPs, NEW why \in {"none", "exempt", "excluded"},
             NEW cfg \in Configs, Flood!Arrive(r, ip, why, cfg)
      PROVE  FloodInv' /\ PenaltiesStay
  BY <1>1 DEF Flood!Arrive, FloodInv, PenaltiesStay, Job, Flood!Labels
<1>2. ASSUME NEW limits \in Configs, Flood!cleanup(limits)
      PROVE  FloodInv' /\ PenaltiesStay
  <2>1. /\ DOMAIN challenged' = {j \in DOMAIN challenged : ~Flood!Expired(challenged[j])}
        /\ \A i \in DOMAIN challenged' : challenged'[i] = challenged[i]
    BY <1>2 DEF Flood!cleanup
  <2>2. job' = job
    BY <1>2 DEF Flood!cleanup
  <2> QED
    BY <2>1, <2>2 DEF FloodInv, PenaltiesStay, Flood!Expired
<1>3. CASE Flood!Tick
  <2>1. /\ DOMAIN challenged' = DOMAIN challenged
        /\ \A i \in DOMAIN challenged :
             challenged'[i] = IF Flood!Expired(challenged[i]) THEN challenged[i] ELSE challenged[i] - 1
    BY <1>3 DEF Flood!Tick
  <2>2. job' = job
    BY <1>3 DEF Flood!Tick
  <2> QED
    BY <2>1, <2>2 DEF FloodInv, PenaltiesStay, Flood!Expired
<1>4. CASE UNCHANGED floodVars
  BY <1>4 DEF floodVars, FloodInv, PenaltiesStay
<1> QED
  BY <1>1, <1>2, <1>3, <1>4, FloodServes DEF Flood!Next

-----------------------------------------------------------------------------
(* FloodProtector: the window of the basic counter *)

\* The flood protector counts as FiniteSets does.
LEMMA SameFloodCount ==
    /\ \A S : Flood!IsFiniteSet(S) <=> IsFiniteSet(S)
    /\ \A S : Flood!Cardinality(S) = Cardinality(S)
<1>1. ASSUME NEW S PROVE Flood!IsFiniteSet(S) <=> IsFiniteSet(S)
  BY Zenon DEF Flood!IsFiniteSet, IsFiniteSet
<1>2. ASSUME NEW S PROVE Flood!Cardinality(S) = Cardinality(S)
  BY Zenon DEF Flood!Cardinality, Cardinality
<1> QED
  BY <1>1, <1>2

\* The places of a list whose time stamps are younger than an age, and how many.
Younger(s, w) == {n \in 1..Len(s) : s[n] < w}
HowMany(s, w) == Cardinality(Younger(s, w))

\* A list has finitely many entries.
LEMMA Counts ==
    ASSUME NEW n \in Nat, NEW K \in SUBSET (1..n)
    PROVE  IsFiniteSet(K) /\ Cardinality(K) \in Nat /\ Cardinality(K) <= n
<1>1. IsFiniteSet(1..n) /\ Cardinality(1..n) = n
  BY FS_Interval
<1> QED
  BY <1>1, FS_Subset, FS_CardinalityType

\* The entries kept have the places from one to their number, one each.
LEMMA NewPlaces ==
    ASSUME NEW n \in Nat, NEW K \in SUBSET (1..n)
    PROVE  LET place == [i \in K |-> Cardinality({m \in K : m < i}) + 1]
           IN  place \in Bijection(K, 1..Cardinality(K))
<1> DEFINE B(i) == {m \in K : m < i}
           k == Cardinality(K)
           place == [i \in K |-> Cardinality(B(i)) + 1]
<1>1. IsFiniteSet(K) /\ k \in Nat
  BY Counts
<1>2. \A i \in K : IsFiniteSet(B(i)) /\ Cardinality(B(i)) \in Nat /\ Cardinality(B(i)) < k
  <2> TAKE i \in K
  <2>1. B(i) \subseteq K /\ i \notin B(i) /\ i \in K
    <3>1. i \in 1..n
      BY Zenon
    <3>2. ~(i < i)
      BY <3>1
    <3> QED
      BY <3>2, Zenon
  <2>2. IsFiniteSet(B(i)) /\ Cardinality(B(i)) <= k /\ Cardinality(B(i)) # k
    BY <1>1, <2>1, FS_Subset, Zenon
  <2>3. Cardinality(B(i)) \in Nat
    BY <2>2, FS_CardinalityType
  <2> QED
    BY <1>1, <2>2, <2>3
<1>3. \A i, j \in K : i < j => Cardinality(B(i)) # Cardinality(B(j))
  <2> SUFFICES ASSUME NEW i \in K, NEW j \in K, i < j PROVE Cardinality(B(i)) # Cardinality(B(j))
    OBVIOUS
  <2>1. B(i) \subseteq B(j) /\ B(i) # B(j)
    <3>1. i \in 1..n /\ j \in 1..n
      BY Zenon
    <3>2. \A m \in B(i) : m \in 1..n /\ m < i
      BY Zenon
    <3>3. \A m \in B(i) : m < j
      BY <3>1, <3>2
    <3>4. i \in B(j) /\ i \notin B(i)
      BY <3>1, <3>2
    <3> QED
      BY <3>3, <3>4
  <2>2. IsFiniteSet(B(j))
    BY <1>2
  <2> QED
    BY <2>1, <2>2, FS_Subset
<1>4. place \in Injection(K, 1..k)
  <2> HIDE DEF B, k
  <2>1. place \in [K -> 1..k]
    BY <1>1, <1>2
  <2>2. \A i, j \in K : place[i] = place[j] => i = j
    <3> SUFFICES ASSUME NEW i \in K, NEW j \in K, place[i] = place[j] PROVE i = j
      OBVIOUS
    <3>1. Cardinality(B(i)) = Cardinality(B(j))
      BY <1>2
    <3>2. i < j \/ j < i \/ i = j
      OBVIOUS
    <3> QED
      BY <1>3, <3>1, <3>2
  <2> QED
    BY <2>1, <2>2 DEF Injection, IsInjective
<1>5. IsFiniteSet(1..k) /\ Cardinality(1..k) = k
  BY <1>1, FS_Interval
<1>6. place \in Surjection(K, 1..k)
  BY <1>4, <1>5, FS_Injection
<1> QED
  BY <1>4, <1>6 DEF Bijection

\* What compaction leaves of a list (filterRecent): the entries kept, each of them once.
LEMMA Compaction ==
    ASSUME NEW S, NEW s \in Seq(S), NEW K \in SUBSET (1..Len(s))
    PROVE  LET t == Flood!Compacted(s, K) IN
           /\ t \in Seq(S) /\ Len(t) = Cardinality(K)
           /\ \A k \in 1..Len(t) : \E n \in K : t[k] = s[n]
           /\ \A w : HowMany(t, w) = Cardinality({n \in K : s[n] < w})
<1> DEFINE k == Cardinality(K)
           place == [i \in K |-> Cardinality({m \in K : m < i}) + 1]
           t == Flood!Compacted(s, K)
           from(j) == CHOOSE n \in K : Flood!Cardinality({m \in K : m < n}) = j - 1
<1>1. place \in Bijection(K, 1..k) /\ k \in Nat /\ Len(s) \in Nat /\ IsFiniteSet(K)
  <2>1. Len(s) \in Nat
    OBVIOUS
  <2> QED
    BY <2>1, NewPlaces, Counts
<1>2. t = [j \in 1..k |-> s[from(j)]]
  <2>1. t = [j \in 1..Flood!Cardinality(K) |-> s[from(j)]]
    BY Zenon DEF Flood!Compacted
  <2>2. Flood!Cardinality(K) = k
    BY SameFloodCount
  <2> HIDE DEF t, from, k
  <2> QED
    BY <2>1, <2>2
<1>3. \A j \in 1..k : from(j) \in K /\ place[from(j)] = j
  <2> TAKE j \in 1..k
  <2>1. PICK n \in K : place[n] = j
    BY <1>1 DEF Bijection, Surjection
  <2>2. Cardinality({m \in K : m < n}) = j - 1
    <3>1. Cardinality({m \in K : m < n}) \in Nat
      <4>1. {m \in K : m < n} \in SUBSET (1..Len(s))
        OBVIOUS
      <4> QED
        BY <1>1, <4>1, Counts
    <3> QED
      BY <1>1, <2>1, <3>1
  <2>3. from(j) \in K /\ Cardinality({m \in K : m < from(j)}) = j - 1
    <3>1. Flood!Cardinality({m \in K : m < n}) = j - 1
      BY <2>2, SameFloodCount
    <3>2. from(j) \in K /\ Flood!Cardinality({m \in K : m < from(j)}) = j - 1
      BY <3>1
    <3> QED
      BY <3>2, SameFloodCount
  <2> QED
    BY <1>1, <2>3
<1>4. \A i \in K : place[i] \in 1..k /\ from(place[i]) = i
  <2> TAKE i \in K
  <2>1. place[i] \in 1..k
    BY <1>1 DEF Bijection, Injection
  <2>2. from(place[i]) \in K /\ place[from(place[i])] = place[i]
    BY <1>3, <2>1
  <2> QED
    BY <1>1, <2>1, <2>2 DEF Bijection, Injection, IsInjective
<1> HIDE DEF from, place, k, t
<1>5. t \in Seq(S) /\ Len(t) = k
  <2>1. \A j \in 1..k : s[from(j)] \in S
    <3> TAKE j \in 1..k
    <3>1. from(j) \in 1..Len(s)
      BY <1>3
    <3> QED
      BY <3>1
  <2>2. t \in [1..k -> S]
    BY <1>2, <2>1
  <2> QED
    BY <1>1, <2>2
<1>6. \A j \in 1..k : t[j] = s[from(j)]
  BY <1>2
<1>7. \A w : HowMany(t, w) = Cardinality({n \in K : s[n] < w})
  <2> TAKE w
  <2> DEFINE Y == {n \in K : s[n] < w}
             f == [n \in Y |-> place[n]]
  <2>1. f \in Bijection(Y, Younger(t, w))
    <3>1. \A n \in Y : place[n] \in Younger(t, w)
      BY <1>4, <1>5, <1>6 DEF Younger
    <3>2. \A j \in Younger(t, w) : from(j) \in Y /\ place[from(j)] = j
      BY <1>3, <1>5, <1>6 DEF Younger
    <3>3. \A i, j \in Y : place[i] = place[j] => i = j
      BY <1>4
    <3>4. f \in Injection(Y, Younger(t, w))
      BY <3>1, <3>3 DEF Injection, IsInjective
    <3>5. f \in Surjection(Y, Younger(t, w))
      BY <3>1, <3>2 DEF Surjection
    <3> QED
      BY <3>4, <3>5 DEF Bijection
  <2>2. IsFiniteSet(Y)
    BY <1>1, FS_Subset
  <2> QED
    BY <2>1, <2>2, FS_Bijection DEF ExistsBijection, HowMany
<1>8. \A j \in 1..Len(t) : \E n \in K : t[j] = s[n]
  BY <1>3, <1>5, <1>6
<1> QED
  BY <1>5, <1>7, <1>8 DEF t, k

\* What stays of a list whose old entries are dropped: the young ones.
LEMMA Filtered ==
    ASSUME NEW s \in Seq(Flood!Age), NEW v \in 0..Horizon, Horizon \in Nat
    PROVE  LET t == Flood!filterRecent(s, v) IN
           /\ t \in Seq(Flood!Age) /\ Len(t) = HowMany(s, v)
           /\ \A w \in 0..v : HowMany(t, w) = HowMany(s, w)
<1> DEFINE K == Younger(s, v)
           t == Flood!filterRecent(s, v)
<1>1. K \in SUBSET (1..Len(s)) /\ t = Flood!Compacted(s, K)
  BY DEF Younger, Flood!filterRecent
<1>2. /\ t \in Seq(Flood!Age) /\ Len(t) = HowMany(s, v)
      /\ \A w : HowMany(t, w) = Cardinality({n \in K : s[n] < w})
  <2> HIDE DEF t, K
  <2>1. /\ t \in Seq(Flood!Age) /\ Len(t) = Cardinality(K)
        /\ \A w : HowMany(t, w) = Cardinality({n \in K : s[n] < w})
    BY <1>1, Compaction
  <2> QED
    BY <2>1 DEF HowMany, K
<1>3. ASSUME NEW w \in 0..v PROVE {n \in K : s[n] < w} = Younger(s, w)
  <2>1. \A n \in 1..Len(s) : s[n] \in Int
    BY DEF Flood!Age
  <2> QED
    BY <2>1 DEF Younger
<1> HIDE DEF t, K
<1>4. \A w \in 0..v : HowMany(t, w) = HowMany(s, w)
  BY <1>2, <1>3 DEF HowMany
<1> QED
  BY <1>2, <1>4 DEF t

\* A wider window holds no fewer entries.
LEMMA WiderHoldsMore ==
    ASSUME NEW s \in Seq(Flood!Age), NEW v \in Int, NEW w \in Int, v <= w, Horizon \in Nat
    PROVE  HowMany(s, v) \in Nat /\ HowMany(s, w) \in Nat /\ HowMany(s, v) <= HowMany(s, w)
<1>1. \A n \in 1..Len(s) : s[n] \in Int
  BY DEF Flood!Age
<1>2. Younger(s, v) \subseteq Younger(s, w) /\ Younger(s, w) \in SUBSET (1..Len(s)) /\ Len(s) \in Nat
  BY <1>1 DEF Younger
<1>3. IsFiniteSet(Younger(s, w))
  BY <1>2, Counts
<1> QED
  BY <1>2, <1>3, FS_Subset, FS_CardinalityType DEF HowMany

\* A request counted now is in every window that is not empty.
LEMMA CountedNow ==
    ASSUME NEW s \in Seq(Flood!Age), Horizon \in Nat, NEW w \in Nat
    PROVE  /\ Append(s, 0) \in Seq(Flood!Age)
           /\ HowMany(Append(s, 0), w) = HowMany(s, w) + (IF w > 0 THEN 1 ELSE 0)
<1> DEFINE t == Append(s, 0)
           n == Len(s)
<1>1. t \in Seq(Flood!Age) /\ n \in Nat /\ Len(t) = n + 1 /\ t[n + 1] = 0 /\ \A j \in 1..n : t[j] = s[j]
  BY DEF Flood!Age
<1>2. Younger(s, w) \in SUBSET (1..n)
  BY DEF Younger
<1>3. IsFiniteSet(Younger(s, w)) /\ n + 1 \notin Younger(s, w)
  BY <1>1, <1>2, Counts
<1>4. Younger(t, w) = IF w > 0 THEN Younger(s, w) \cup {n + 1} ELSE Younger(s, w)
  <2> HIDE DEF t, n
  <2>1. 1..(n + 1) = (1..n) \cup {n + 1}
    BY <1>1
  <2>2. n = Len(s)
    BY DEF n
  <2> QED
    BY <1>1, <2>1, <2>2 DEF Younger
<1> HIDE DEF t, n
<1>5. Cardinality(Younger(s, w) \cup {n + 1}) = Cardinality(Younger(s, w)) + 1
  BY <1>3, FS_AddElement
<1>6. Cardinality(Younger(s, w)) \in Nat
  BY <1>3, FS_CardinalityType
<1>7. HowMany(t, w) = HowMany(s, w) + (IF w > 0 THEN 1 ELSE 0)
  <2>1. CASE w > 0
    BY <1>4, <1>5, <2>1 DEF HowMany
  <2>2. CASE ~(w > 0)
    BY <1>4, <1>6, <2>2 DEF HowMany
  <2> QED
    BY <2>1, <2>2
<1> QED
  BY <1>1, <1>7 DEF t

\* A window of no width holds nothing.
LEMMA NothingInNoTime ==
    ASSUME NEW s \in Seq(Flood!Age), Horizon \in Nat
    PROVE  HowMany(s, 0) = 0
<1>1. Younger(s, 0) = {}
  <2>1. \A n \in 1..Len(s) : s[n] \in 0..Horizon
    BY DEF Flood!Age
  <2> QED
    BY <2>1 DEF Younger
<1> QED
  BY <1>1, FS_EmptySet DEF HowMany

\* The history of an address, and the list of a counter, one unit of time later (Tick).
HistoryThen(p) ==
    LET young == Flood!Compacted(p, {n \in 1..Len(p) : p[n] + 1 < Horizon})
    IN  [n \in 1..Len(young) |-> young[n] + 1]
ListThen(s) == [n \in 1..Len(s) |-> Flood!Older(s[n])]

\* A list one unit of time later.
LEMMA OneUnitLater ==
    ASSUME NEW s \in Seq(Flood!Age), Horizon \in Nat
    PROVE  /\ ListThen(s) \in Seq(Flood!Age)
           /\ \A w \in 1..Horizon : HowMany(ListThen(s), w) = HowMany(s, w - 1)
<1> DEFINE t == ListThen(s)
<1>1. \A n \in 1..Len(s) : s[n] \in 0..Horizon
  BY DEF Flood!Age
<1>2. /\ t \in [1..Len(s) -> Flood!Age] /\ Len(s) \in Nat
      /\ \A n \in 1..Len(s) : t[n] = Flood!Older(s[n])
  BY <1>1 DEF Flood!Older, Flood!Age, ListThen
<1>3. t \in Seq(Flood!Age) /\ Len(t) = Len(s)
  BY <1>2
<1> HIDE DEF t
<1>4. ASSUME NEW w \in 1..Horizon PROVE HowMany(t, w) = HowMany(s, w - 1)
  <2>1. \A n \in 1..Len(s) : t[n] < w <=> s[n] < w - 1
    BY <1>1, <1>2 DEF Flood!Older
  <2>2. Younger(t, w) = Younger(s, w - 1)
    BY <2>1, <1>3 DEF Younger
  <2> QED
    BY <2>2 DEF HowMany
<1> QED
  BY <1>3, <1>4 DEF t

\* The history of an address one unit of time later, without what every window has left.
LEMMA HistoryLater ==
    ASSUME NEW s \in Seq(Flood!Age), Horizon \in Nat
    PROVE  /\ HistoryThen(s) \in Seq(Flood!Age)
           /\ \A w \in 1..Horizon : HowMany(HistoryThen(s), w) = HowMany(s, w - 1)
<1> DEFINE K == {n \in 1..Len(s) : s[n] + 1 < Horizon}
           y == Flood!Compacted(s, K)
           t == HistoryThen(s)
<1>1. \A n \in 1..Len(s) : s[n] \in 0..Horizon
  BY DEF Flood!Age
<1>2. K \in SUBSET (1..Len(s)) /\ \A n \in K : s[n] \in 0..Horizon /\ s[n] + 1 < Horizon
  BY <1>1
<1>3. \A w \in 1..Horizon : {n \in K : s[n] < w - 1} = Younger(s, w - 1)
  BY <1>1 DEF Younger
<1>4. t = [n \in 1..Len(y) |-> y[n] + 1]
  BY DEF HistoryThen
<1> HIDE DEF K, t
<1>5. /\ y \in Seq(Flood!Age) /\ \A k \in 1..Len(y) : \E n \in K : y[k] = s[n]
      /\ \A w : HowMany(y, w) = Cardinality({n \in K : s[n] < w})
  <2>1. K \in SUBSET (1..Len(s))
    BY <1>2
  <2> HIDE DEF y
  <2>2. y = Flood!Compacted(s, K)
    BY DEF y
  <2> QED
    BY <2>1, <2>2, Compaction
<1> HIDE DEF y
<1>6. \A k \in 1..Len(y) : y[k] \in 0..Horizon /\ y[k] + 1 < Horizon
  BY <1>2, <1>5
<1>7. t \in [1..Len(y) -> Flood!Age] /\ Len(y) \in Nat
  BY <1>4, <1>5, <1>6 DEF Flood!Age
<1>8. t \in Seq(Flood!Age) /\ Len(t) = Len(y)
  BY <1>7
<1>9. ASSUME NEW w \in 1..Horizon PROVE HowMany(t, w) = HowMany(s, w - 1)
  <2>1. Younger(t, w) = Younger(y, w - 1)
    BY <1>4, <1>6, <1>8 DEF Younger
  <2>2. HowMany(y, w - 1) = HowMany(s, w - 1)
    BY <1>3, <1>5 DEF HowMany
  <2> QED
    BY <2>1, <2>2 DEF HowMany
<1> QED
  BY <1>8, <1>9 DEF t

\* The shortest window any configuration gives the basic counter.
ShortestWindow(W) ==
    /\ W \in 0..Horizon
    /\ \A c \in Configs : W <= c["basic"].window

\* What is kept of one address, p its history and s the list of the counter: the list
\* misses none of the requests that the shortest window, or a part of it, still holds,
\* and holds no more of them than some limit allows. A list longer than that is no
\* harm, and the history alone would not be inductive: a check counts only the list.
Held(p, s, W) ==
    /\ p \in Seq(Flood!Age) /\ s \in Seq(Flood!Age)
    /\ \A w \in 0..W : HowMany(p, w) <= HowMany(s, w)
    /\ \E c \in Configs : HowMany(s, W) <= c["basic"].limit

\* Nothing is held of an address that starts afresh.
LEMMA HeldAfresh ==
    ASSUME Flood!FloodAssumption
    PROVE  \A W : ShortestWindow(W) => Held(<<>>, <<>>, W)
<1>1. \A w : HowMany(<<>>, w) = 0
  <2> TAKE w
  <2>1. Younger(<<>>, w) = {}
    BY DEF Younger
  <2> QED
    BY <2>1, FS_EmptySet DEF HowMany
<1>2. <<>> \in Seq(Flood!Age)
  OBVIOUS
<1>3. PICK c \in Configs : c["basic"].limit \in Nat
  BY DEF Flood!FloodAssumption, Flood!Kinds
<1> SUFFICES ASSUME NEW W, ShortestWindow(W) PROVE Held(<<>>, <<>>, W)
  OBVIOUS
<1> QED
  BY <1>1, <1>2, <1>3 DEF Held

\* Dropping the entries of a window that some configuration has keeps what is held
\* (filterRecent).
LEMMA HeldFiltered ==
    ASSUME Flood!FloodAssumption, NEW W, ShortestWindow(W), NEW p, NEW s, Held(p, s, W),
           NEW c \in Configs
    PROVE  Held(p, Flood!filterRecent(s, c["basic"].window), W)
<1> DEFINE v == c["basic"].window
           t == Flood!filterRecent(s, v)
<1>1. v \in 0..Horizon /\ W <= v /\ Horizon \in Nat /\ W \in 0..Horizon
  BY DEF Flood!FloodAssumption, Flood!Kinds, ShortestWindow
<1>2. s \in Seq(Flood!Age)
  BY DEF Held
<1> HIDE DEF v
<1>3. t \in Seq(Flood!Age) /\ \A w \in 0..v : HowMany(t, w) = HowMany(s, w)
  BY <1>1, <1>2, Filtered
<1>4. W \in 0..v /\ \A w \in 0..W : w \in 0..v
  BY <1>1
<1> HIDE DEF t
<1>5. Held(p, t, W)
  BY <1>3, <1>4 DEF Held
<1> QED
  BY <1>5 DEF t, v

\* A request that is counted stays below the limit of the configuration that let it
\* through (CheckBasicAccess).
LEMMA HeldCounted ==
    ASSUME Flood!FloodAssumption, NEW W, ShortestWindow(W), NEW p, NEW s, Held(p, s, W),
           NEW c \in Configs,
           Len(Flood!filterRecent(s, c["basic"].window)) < c["basic"].limit
    PROVE  Held(Append(p, 0), Append(Flood!filterRecent(s, c["basic"].window), 0), W)
<1> DEFINE v == c["basic"].window
           t == Flood!filterRecent(s, v)
           l == c["basic"].limit
<1>1. v \in 0..Horizon /\ W <= v /\ Horizon \in Nat /\ W \in 0..Horizon /\ l \in Nat
  BY DEF Flood!FloodAssumption, Flood!Kinds, ShortestWindow
<1>2. s \in Seq(Flood!Age) /\ p \in Seq(Flood!Age)
  BY DEF Held
<1>3. Held(p, t, W) /\ Len(t) < l
  BY HeldFiltered
<1> HIDE DEF v, l
<1>4. t \in Seq(Flood!Age) /\ Len(t) = HowMany(s, v)
      /\ \A w \in 0..v : HowMany(t, w) = HowMany(s, w)
  BY <1>1, <1>2, Filtered
<1> HIDE DEF t
<1>5. /\ Append(p, 0) \in Seq(Flood!Age) /\ Append(t, 0) \in Seq(Flood!Age)
      /\ \A w \in Nat : /\ HowMany(Append(p, 0), w) = HowMany(p, w) + (IF w > 0 THEN 1 ELSE 0)
                        /\ HowMany(Append(t, 0), w) = HowMany(t, w) + (IF w > 0 THEN 1 ELSE 0)
  BY <1>1, <1>2, <1>4, CountedNow
<1>6. \A w \in 0..W : HowMany(p, w) <= HowMany(t, w)
  BY <1>3 DEF Held
<1>7. \A w \in 0..W : HowMany(p, w) \in Nat /\ HowMany(t, w) \in Nat
  BY <1>1, <1>2, <1>4, WiderHoldsMore
<1>8. \A w \in 0..W : HowMany(Append(p, 0), w) <= HowMany(Append(t, 0), w)
  BY <1>1, <1>5, <1>6, <1>7
<1>9. HowMany(t, W) <= Len(t) /\ HowMany(t, W) \in Nat /\ Len(t) \in Nat
  <2>1. HowMany(t, W) = HowMany(s, W)
    BY <1>1, <1>4
  <2>2. HowMany(s, W) <= HowMany(s, v) /\ HowMany(s, W) \in Nat /\ HowMany(s, v) \in Nat
    BY <1>1, <1>2, WiderHoldsMore
  <2> QED
    BY <1>4, <2>1, <2>2
<1>10. HowMany(Append(t, 0), W) <= l
  BY <1>1, <1>3, <1>5, <1>9
<1>11. Held(Append(p, 0), Append(t, 0), W)
  BY <1>5, <1>8, <1>10 DEF Held, l
<1> QED
  BY <1>11 DEF t, v

\* Time moves entries out of the window, of the list and of the history alike.
LEMMA HeldLater ==
    ASSUME Flood!FloodAssumption, NEW W, ShortestWindow(W), NEW p, NEW s, Held(p, s, W)
    PROVE  Held(HistoryThen(p), ListThen(s), W)
<1> DEFINE q == HistoryThen(p)
           t == ListThen(s)
<1>1. Horizon \in Nat /\ W \in 0..Horizon
  BY DEF Flood!FloodAssumption, ShortestWindow
<1>2. s \in Seq(Flood!Age) /\ p \in Seq(Flood!Age)
  BY DEF Held
<1>3. /\ q \in Seq(Flood!Age) /\ t \in Seq(Flood!Age)
      /\ \A w \in 1..Horizon : /\ HowMany(q, w) = HowMany(p, w - 1)
                               /\ HowMany(t, w) = HowMany(s, w - 1)
  BY <1>1, <1>2, HistoryLater, OneUnitLater
<1>4. \A w \in 0..W : HowMany(p, w) <= HowMany(s, w)
  BY DEF Held
<1>5. PICK c \in Configs : HowMany(s, W) <= c["basic"].limit
  BY DEF Held
<1>6. c["basic"].limit \in Nat
  BY DEF Flood!FloodAssumption, Flood!Kinds
<1> HIDE DEF q, t
<1>7. HowMany(q, 0) = 0 /\ HowMany(t, 0) = 0
  BY <1>1, <1>3, NothingInNoTime
<1>8. \A w \in 0..W : HowMany(q, w) <= HowMany(t, w)
  <2> TAKE w \in 0..W
  <2>1. CASE w = 0
    BY <1>7, <2>1
  <2>2. CASE w # 0
    <3>1. w \in 1..Horizon /\ w - 1 \in 0..W
      BY <1>1, <2>2
    <3> QED
      BY <1>3, <1>4, <3>1
  <2> QED
    BY <2>1, <2>2
<1>9. HowMany(t, W) <= c["basic"].limit
  <2>1. CASE W = 0
    BY <1>6, <1>7, <2>1
  <2>2. CASE W # 0
    <3>1. W \in 1..Horizon /\ W - 1 \in Int /\ W \in Int /\ W - 1 <= W
      BY <1>1, <2>2
    <3>2. HowMany(t, W) = HowMany(s, W - 1)
      BY <1>3, <3>1
    <3>3. /\ HowMany(s, W - 1) \in Nat /\ HowMany(s, W) \in Nat
          /\ HowMany(s, W - 1) <= HowMany(s, W)
      BY <1>1, <1>2, <3>1, WiderHoldsMore
    <3> QED
      BY <1>5, <1>6, <3>2, <3>3
  <2> QED
    BY <2>1, <2>2
<1>10. Held(q, t, W)
  BY <1>3, <1>8, <1>9 DEF Held
<1> QED
  BY <1>10 DEF q, t

\* Every address of the shard is held to some limit.
WindowInv(W) ==
    /\ count = [k \in Flood!Kinds |-> count[k]]
    /\ passed = [i \in IPs |-> passed[i]]
    /\ \A r \in Requests : job[r].pc # "idle" => job[r].ip \in IPs
    /\ \A i \in IPs : Held(passed[i], Flood!Stamps(count["basic"], i), W)

\* The entries of a list are ages.
LEMMA StampsAreAges ==
    ASSUME NEW s \in Seq(Flood!Age), Horizon \in Nat
    PROVE  \A n \in 1..Len(s) : s[n] \in 0..Horizon
BY DEF Flood!Age

\* What is held of an address implies the promise.
LEMMA HeldIsTheWindow ==
    ASSUME Flood!FloodAssumption, NEW W, ShortestWindow(W), WindowInv(W),
           \E c \in Configs : W = c["basic"].window
    PROVE  WindowNeverExceeded
<1> SUFFICES ASSUME NEW i \in IPs
             PROVE  \E c \in Configs :
                      Flood!Cardinality({n \in 1..Len(passed[i]) :
                        \A d \in Configs : passed[i][n] < d["basic"].window}) <= c["basic"].limit
  BY DEF WindowNeverExceeded, Flood!WindowNeverExceeded
<1> DEFINE p == passed[i]
           s == Flood!Stamps(count["basic"], i)
<1>1. Held(p, s, W)
  BY DEF WindowInv
<1>2. /\ Horizon \in Nat /\ W \in 0..Horizon
      /\ \A d \in Configs : W <= d["basic"].window /\ d["basic"].window \in 0..Horizon
  BY DEF Flood!FloodAssumption, Flood!Kinds, ShortestWindow
<1> HIDE DEF p, s
<1>3. p \in Seq(Flood!Age) /\ s \in Seq(Flood!Age)
  BY <1>1 DEF Held
<1>4. \A n \in 1..Len(p) : p[n] \in 0..Horizon
  BY <1>2, <1>3, StampsAreAges
<1>5. {n \in 1..Len(p) : \A d \in Configs : p[n] < d["basic"].window} = Younger(p, W)
  <2>1. \A n \in 1..Len(p) : (\A d \in Configs : p[n] < d["basic"].window) => p[n] < W
    OBVIOUS
  <2>2. \A n \in 1..Len(p) : p[n] < W => \A d \in Configs : p[n] < d["basic"].window
    <3> SUFFICES ASSUME NEW n \in 1..Len(p), p[n] < W, NEW d \in Configs
                 PROVE  p[n] < d["basic"].window
      OBVIOUS
    <3> QED
      BY <1>2, <1>4
  <2> QED
    BY <2>1, <2>2 DEF Younger
<1>6. HowMany(p, W) <= HowMany(s, W) /\ W \in 0..W
  BY <1>1, <1>2 DEF Held
<1>7. PICK c \in Configs : HowMany(s, W) <= c["basic"].limit
  BY <1>1 DEF Held
<1>8. HowMany(p, W) \in Nat /\ HowMany(s, W) \in Nat /\ c["basic"].limit \in Nat
  BY <1>2, <1>3, WiderHoldsMore DEF Flood!FloodAssumption, Flood!Kinds
<1>9. HowMany(p, W) <= c["basic"].limit
  BY <1>6, <1>7, <1>8
<1>10. Flood!Cardinality(Younger(p, W)) = HowMany(p, W)
  BY SameFloodCount DEF HowMany
<1> QED
  BY <1>5, <1>9, <1>10 DEF p

\* The first state holds nothing.
LEMMA WindowStarts ==
    ASSUME Flood!FloodAssumption, NEW W, ShortestWindow(W), Flood!Init
    PROVE  WindowInv(W)
<1>1. /\ count = [k \in Flood!Kinds |-> [i \in {} |-> <<>>]]
      /\ passed = [i \in IPs |-> <<>>]
      /\ job = [r \in Requests |-> Flood!Idle]
  BY DEF Flood!Init
<1>2. \A i \in IPs : Flood!Stamps(count["basic"], i) = <<>> /\ passed[i] = <<>>
  BY <1>1 DEF Flood!Stamps, Flood!Kinds
<1>3. Held(<<>>, <<>>, W)
  BY HeldAfresh
<1> QED
  BY <1>1, <1>2, <1>3 DEF WindowInv, Flood!Idle

\* A request keeps its address until it is answered.
Addressed == \A r \in Requests : job[r].pc # "idle" => job[r].ip \in IPs

LEMMA AddressesStay ==
    ASSUME FloodInv, Addressed, NEW r \in Requests, job[r].pc # "idle",
           \/ job' = job
           \/ \E l : Flood!Goto(r, l)
           \/ \E k : Flood!Refuse(r, k)
           \/ job' = [job EXCEPT ![r] = Flood!Idle]
    PROVE  Addressed'
<1>1. CASE job' = job
  BY <1>1 DEF Addressed
<1>2. CASE \E l : Flood!Goto(r, l)
  BY <1>2 DEF Addressed, FloodInv, Flood!Goto, Job
<1>3. CASE \E k : Flood!Refuse(r, k)
  <2>1. PICK k : Flood!Refuse(r, k)
    BY <1>3
  <2> DEFINE refused == [job[r] EXCEPT !.pc = "punish", !.kind = k]
  <2>2. job' = [job EXCEPT ![r] = refused] /\ job \in [Requests -> Job]
    BY <2>1 DEF FloodInv, Flood!Refuse
  <2>3. refused.ip = job[r].ip
    BY <2>2 DEF Job
  <2> HIDE DEF refused
  <2> QED
    BY <2>2, <2>3 DEF Addressed
<1>4. CASE job' = [job EXCEPT ![r] = Flood!Idle]
  BY <1>4 DEF Addressed, FloodInv, Flood!Idle
<1> QED
  BY <1>1, <1>2, <1>3, <1>4

\* Nothing is dropped of a list that is empty.
LEMMA NothingToDrop ==
    \A v : Flood!filterRecent(<<>>, v) = <<>>
<1> SUFFICES ASSUME NEW v PROVE Flood!filterRecent(<<>>, v) = <<>>
  OBVIOUS
<1>1. {n \in 1..Len(<<>>) : <<>>[n] < v} = {}
  OBVIOUS
<1>2. Flood!filterRecent(<<>>, v) = Flood!Compacted(<<>>, {})
  BY <1>1 DEF Flood!filterRecent
<1>3. Flood!Cardinality({}) = 0
  BY SameFloodCount, FS_EmptySet
<1> QED
  BY <1>2, <1>3 DEF Flood!Compacted

\* A step that changes what is kept of one address at most.
Kept == count = [k \in Flood!Kinds |-> count[k]] /\ passed = [i \in IPs |-> passed[i]]
Listed(i) == Flood!Stamps(count["basic"], i)

LEMMA OneAddress ==
    ASSUME NEW W, WindowInv(W), Kept', Addressed', NEW ip \in IPs,
           \A i \in IPs \ {ip} : passed'[i] = passed[i] /\ Listed(i)' = Listed(i),
           Held(passed'[ip], Listed(ip)', W)
    PROVE  WindowInv(W)'
BY DEF WindowInv, Kept, Addressed, Listed

\* The lists of a counter after one of them is stored.
LEMMA ListStored ==
    ASSUME NEW W, WindowInv(W), NEW kind \in Flood!Kinds, NEW ip, NEW s,
           count' = [count EXCEPT ![kind] = Flood!With(@, ip, s)]
    PROVE  /\ count' = [k \in Flood!Kinds |-> count'[k]]
           /\ \A i : Listed(i)' = IF kind = "basic" /\ i = ip THEN s ELSE Listed(i)
<1>1. count' = [k \in Flood!Kinds |-> count'[k]]
  BY DEF WindowInv
<1>2. count'["basic"] = IF kind = "basic" THEN Flood!With(count["basic"], ip, s) ELSE count["basic"]
  BY DEF WindowInv, Flood!Kinds
<1> QED
  BY <1>1, <1>2 DEF Listed, Flood!Stamps, Flood!With

\* The steps of one request.
LEMMA WindowServes ==
    ASSUME Flood!FloodAssumption, NEW W, ShortestWindow(W), FloodInv, WindowInv(W),
           NEW r \in Requests, Flood!Step(r)
    PROVE  WindowInv(W)'
<1> DEFINE ip == job[r].ip
<1>0. Addressed /\ Kept /\ \A i \in IPs : Held(passed[i], Listed(i), W)
  BY DEF WindowInv, Addressed, Kept, Listed
<1>1. ASSUME UNCHANGED <<count, passed>>, Addressed' PROVE WindowInv(W)'
  BY <1>1 DEF WindowInv, Addressed
<1>2. CASE Flood!IsChallenged(r)
  <2>1. job[r].pc # "idle" /\ ip \in IPs
    BY <1>0, <1>2 DEF Flood!IsChallenged, Addressed
  <2>2. Addressed'
    <3>1. (\E l : Flood!Goto(r, l)) \/ job' = [job EXCEPT ![r] = Flood!Idle]
      BY <1>2 DEF Flood!IsChallenged
    <3> QED
      BY <1>0, <2>1, <3>1, AddressesStay
  <2>3. CASE UNCHANGED <<count, passed>>
    BY <1>1, <2>2, <2>3
  <2>4. CASE ~UNCHANGED <<count, passed>>
    <3>0. PICK q \in IPs : q = ip
      BY <2>1
    <3>1. /\ count' = [k \in Flood!Kinds |-> Flood!Without(count[k], q)]
          /\ passed' = [passed EXCEPT ![q] = <<>>]
      BY <1>2, <2>4, <3>0 DEF Flood!IsChallenged
    <3>2. count'["basic"] = Flood!Without(count["basic"], q)
      BY <3>1 DEF Flood!Kinds
    <3>3. \A i : Listed(i)' = IF i = q THEN <<>> ELSE Listed(i)
      BY <3>2 DEF Listed, Flood!Stamps, Flood!Without
    <3>4. Kept' /\ \A i \in IPs : passed'[i] = IF i = q THEN <<>> ELSE passed[i]
      BY <1>0, <3>1 DEF Kept
    <3>5. Held(passed'[q], Listed(q)', W)
      BY <3>3, <3>4, HeldAfresh
    <3> QED
      BY <2>2, <3>3, <3>4, <3>5, OneAddress
  <2> QED
    BY <2>3, <2>4
<1>3. ASSUME NEW k \in Flood!Kinds, Flood!SkipDisabled(r, k) PROVE WindowInv(W)'
  <2>1. job[r].pc # "idle" /\ (\E l : Flood!Goto(r, l)) /\ UNCHANGED <<count, passed>>
    BY <1>3 DEF Flood!SkipDisabled, Flood!Kinds
  <2> QED
    BY <1>0, <1>1, <2>1, AddressesStay
<1>4. CASE Flood!SetChallenge(r)
  <2>1. job[r].pc # "idle" /\ job' = [job EXCEPT ![r] = Flood!Idle] /\ UNCHANGED <<count, passed>>
    BY <1>4 DEF Flood!SetChallenge
  <2> QED
    BY <1>0, <1>1, <2>1, AddressesStay
<1>5. ASSUME NEW kind \in {"attack", "error"}, NEW s, NEW q,
             UNCHANGED passed, Addressed',
             count' = [count EXCEPT ![kind] = Flood!With(@, q, s)]
      PROVE  WindowInv(W)'
  <2>1. kind \in Flood!Kinds /\ kind # "basic"
    BY DEF Flood!Kinds
  <2>2. count' = [k \in Flood!Kinds |-> count'[k]] /\ \A i : Listed(i)' = Listed(i)
    BY <1>5, <2>1, ListStored
  <2> QED
    BY <1>0, <1>5, <2>2 DEF WindowInv, Addressed, Kept, Listed
<1>6. ASSUME NEW limits \in Configs, NEW k \in {"attack", "error"}, Flood!CheckCounter(r, k, limits)
      PROVE  WindowInv(W)'
  <2>1. /\ job[r].pc # "idle" /\ UNCHANGED passed
        /\ (\E l : Flood!Goto(r, l)) \/ Flood!Refuse(r, k)
        /\ \E s : count' = [count EXCEPT ![k] = Flood!With(@, ip, s)]
    BY <1>6 DEF Flood!CheckCounter
  <2>2. Addressed'
    BY <1>0, <2>1, AddressesStay
  <2> QED
    BY <1>5, <2>1, <2>2
<1>7. ASSUME NEW limits \in Configs, Flood!CheckBasicAccess(r, limits)
      PROVE  WindowInv(W)'
  <2> DEFINE s == Listed(ip)
             t == Flood!filterRecent(s, limits["basic"].window)
  <2>1. /\ job[r].pc # "idle" /\ ip \in IPs
        /\ (\E l : Flood!Goto(r, l)) \/ Flood!Refuse(r, "basic")
    BY <1>0, <1>7 DEF Flood!CheckBasicAccess, Addressed
  <2>2. Addressed'
    BY <1>0, <2>1, AddressesStay
  <2>3. Held(passed[ip], s, W) /\ "basic" \in Flood!Kinds
    BY <1>0, <2>1 DEF Flood!Kinds
  <2>4. CASE UNCHANGED <<count, passed>>
    BY <1>1, <2>2, <2>4
  <2>5. CASE /\ count' = [count EXCEPT !["basic"] = Flood!With(@, ip, t)]
             /\ UNCHANGED passed
    <3>1. Held(passed'[ip], t, W)
      BY <2>3, <2>5, HeldFiltered
    <3> HIDE DEF t, ip
    <3>2. count' = [k \in Flood!Kinds |-> count'[k]] /\ \A i : Listed(i)' = IF i = ip THEN t ELSE Listed(i)
      BY <2>3, <2>5, ListStored
    <3> QED
      BY <1>0, <2>1, <2>2, <2>5, <3>1, <3>2, OneAddress DEF Kept
  <2>6. CASE /\ Len(t) < limits["basic"].limit
             /\ count' = [count EXCEPT !["basic"] = Flood!With(@, ip, Append(t, 0))]
             /\ passed' = [passed EXCEPT ![ip] = Append(@, 0)]
    <3>1. Held(Append(passed[ip], 0), Append(t, 0), W)
      BY <2>3, <2>6, HeldCounted
    <3> HIDE DEF t, ip
    <3>2. /\ count' = [k \in Flood!Kinds |-> count'[k]]
          /\ \A i : Listed(i)' = IF i = ip THEN Append(t, 0) ELSE Listed(i)
      BY <2>3, <2>6, ListStored
    <3>3. /\ passed' = [i \in IPs |-> passed'[i]]
          /\ \A i \in IPs : passed'[i] = IF i = ip THEN Append(passed[ip], 0) ELSE passed[i]
      BY <1>0, <2>1, <2>6 DEF Kept
    <3> QED
      BY <2>1, <2>2, <3>1, <3>2, <3>3, OneAddress DEF Kept
  <2> QED
    BY <1>7, <2>4, <2>5, <2>6, Zenon DEF Flood!CheckBasicAccess, Listed
<1>8. ASSUME NEW limits \in Configs, NEW kind \in {"attack", "error"}, UNCHANGED passed, Addressed',
             UNCHANGED count \/ Flood!Record(kind, ip, limits)
      PROVE  WindowInv(W)'
  <2>1. UNCHANGED count \/ \E s : count' = [count EXCEPT ![kind] = Flood!With(@, ip, s)]
    BY <1>8 DEF Flood!Record
  <2> QED
    BY <1>1, <1>5, <1>8, <2>1
<1>9. ASSUME NEW limits \in Configs, NEW violation \in BOOLEAN, NEW proxied \in BOOLEAN,
             Flood!RecordAttack(r, violation, proxied, limits)
      PROVE  WindowInv(W)'
  <2>1. /\ job[r].pc # "idle" /\ UNCHANGED passed
        /\ (\E l : Flood!Goto(r, l)) \/ job' = [job EXCEPT ![r] = Flood!Idle]
        /\ UNCHANGED count \/ Flood!Record("attack", ip, limits)
    BY <1>9 DEF Flood!RecordAttack
  <2> HIDE DEF ip
  <2> QED
    BY <1>0, <1>8, <2>1, AddressesStay
<1>10. ASSUME NEW limits \in Configs, NEW failed \in BOOLEAN, Flood!RecordError(r, failed, limits)
      PROVE  WindowInv(W)'
  <2>1. /\ job[r].pc # "idle" /\ UNCHANGED passed /\ job' = [job EXCEPT ![r] = Flood!Idle]
        /\ UNCHANGED count \/ Flood!Record("error", ip, limits)
    BY <1>10 DEF Flood!RecordError
  <2> HIDE DEF ip
  <2> QED
    BY <1>0, <1>8, <2>1, AddressesStay
<1> QED
  BY <1>2, <1>3, <1>4, <1>6, <1>7, <1>9, <1>10
  DEF Flood!Step, Flood!CheckAttackLimit, Flood!CheckErrorLimit

\* Every step of the flood protector.
LEMMA WindowStep ==
    ASSUME Flood!FloodAssumption, NEW W, ShortestWindow(W), FloodInv, WindowInv(W),
           [Flood!Next]_floodVars
    PROVE  WindowInv(W)'
<1>0. Addressed /\ Kept /\ \A i \in IPs : Held(passed[i], Listed(i), W)
  BY DEF WindowInv, Addressed, Kept, Listed
<1>1. ASSUME NEW r \in Requests, NEW ip \in IPs, NEW why \in {"none", "exempt", "excluded"},
             NEW cfg \in Configs, Flood!Arrive(r, ip, why, cfg)
      PROVE  WindowInv(W)'
  BY <1>1 DEF Flood!Arrive, FloodInv, WindowInv
<1>2. ASSUME NEW limits \in Configs, Flood!cleanup(limits)
      PROVE  WindowInv(W)'
  <2> DEFINE v == limits["basic"].window
  <2>1. /\ count' = [k \in Flood!Kinds |-> count'[k]] /\ UNCHANGED <<job, passed>>
        /\ count'["basic"] = Flood!Cleaned(count["basic"], v)
    BY <1>2 DEF Flood!cleanup, Flood!Kinds
  <2>2. \A i \in IPs : Listed(i)' = Flood!filterRecent(Listed(i), v)
    <3> TAKE i \in IPs
    <3>1. CASE i \notin DOMAIN count["basic"]
      <4>1. Listed(i) = <<>> /\ Listed(i)' = <<>>
        BY <2>1, <3>1 DEF Listed, Flood!Stamps, Flood!Cleaned
      <4>2. Flood!filterRecent(<<>>, v) = <<>>
        BY NothingToDrop
      <4> QED
        BY <4>1, <4>2
    <3>2. CASE i \in DOMAIN count["basic"]
      BY <2>1, <3>2 DEF Listed, Flood!Stamps, Flood!Cleaned
    <3> QED
      BY <3>1, <3>2
  <2>3. \A i \in IPs : Held(passed[i], Flood!filterRecent(Listed(i), v), W)
    BY <1>0, HeldFiltered
  <2> HIDE DEF v
  <2> QED
    BY <1>0, <2>1, <2>2, <2>3 DEF WindowInv, Addressed, Kept, Listed
<1>3. CASE Flood!Tick
  <2>1. /\ count' = [k \in Flood!Kinds |-> count'[k]] /\ passed' = [i \in IPs |-> passed'[i]]
        /\ UNCHANGED job
        /\ count'["basic"] = [i \in DOMAIN count["basic"] |-> ListThen(count["basic"][i])]
        /\ \A i \in IPs : passed'[i] = HistoryThen(passed[i])
    BY <1>3 DEF Flood!Tick, Flood!Kinds, ListThen, HistoryThen
  <2>2. \A i \in IPs : Listed(i)' = ListThen(Listed(i))
    <3>1. ListThen(<<>>) = <<>>
      BY DEF ListThen
    <3> QED
      BY <2>1, <3>1 DEF Listed, Flood!Stamps
  <2>3. \A i \in IPs : Held(HistoryThen(passed[i]), ListThen(Listed(i)), W)
    BY <1>0, HeldLater
  <2> QED
    BY <1>0, <2>1, <2>2, <2>3 DEF WindowInv, Addressed, Listed
<1>4. CASE UNCHANGED floodVars
  BY <1>4 DEF floodVars, WindowInv
<1> QED
  BY <1>1, <1>2, <1>3, <1>4, WindowServes DEF Flood!Next

-----------------------------------------------------------------------------
(* TokenBucket: the rate is never exceeded *)

\* The instance tells finite sets as FiniteSets does.
LEMMA SameBucketCount ==
    ASSUME NEW S
    PROVE  Bucket!IsFiniteSet(S) <=> IsFiniteSet(S)
BY Zenon DEF Bucket!IsFiniteSet, IsFiniteSet

\* A non-empty set of numbers has a least element.
LEMMA Least ==
    ASSUME NEW S, S \subseteq Nat, S # {}
    PROVE  \E m \in S : \A x \in S : m <= x
<1> DEFINE R == OpToRel(<, Nat)
<1>1. PICK m \in S : \A y \in S : ~(<<y, m>> \in R)
  BY NatLessThanWellFounded, WFMin, Zenon
<1>2. \A x \in S : m <= x
  <2> TAKE x \in S
  <2>1. ~(<<x, m>> \in R)
    BY <1>1
  <2>2. ~(x < m)
    BY <2>1 DEF OpToRel
  <2> QED
    BY <2>2
<1> QED
  BY <1>2

\* A non-empty finite set of numbers has a greatest element.
LEMMA Greatest ==
    ASSUME NEW S, S \subseteq Nat, S # {}, IsFiniteSet(S)
    PROVE  \E m \in S : \A x \in S : x <= m
<1> DEFINE Top(T) == \E m \in T : \A x \in T : x <= m
           Bad(n) == \E T \in SUBSET Nat : /\ T # {} /\ IsFiniteSet(T) /\ Cardinality(T) = n
                                           /\ ~Top(T)
           Sizes == {n \in Nat : Bad(n)}
<1> SUFFICES ASSUME ~Top(S) PROVE FALSE
  OBVIOUS
<1>1. Sizes # {}
  BY FS_CardinalityType
<1>2. PICK n \in Sizes : \A k \in Sizes : n <= k
  <2> HIDE DEF Sizes
  <2>1. Sizes \subseteq Nat
    BY DEF Sizes
  <2> QED
    BY <1>1, <2>1, Least
<1>3. PICK T \in SUBSET Nat : T # {} /\ IsFiniteSet(T) /\ Cardinality(T) = n /\ ~Top(T)
  BY <1>2
<1>4. PICK x \in T : TRUE
  BY <1>3
<1> DEFINE Rest == T \ {x}
<1>5. IsFiniteSet(Rest) /\ Cardinality(Rest) = n - 1 /\ Cardinality(Rest) \in Nat
  BY <1>3, <1>4, FS_RemoveElement, FS_CardinalityType
<1>6. CASE Rest = {}
  BY <1>3, <1>4, <1>6
<1>7. CASE Rest # {}
  <2>1. Cardinality(Rest) \notin Sizes
    <3>1. n \in Nat
      BY <1>2
    <3> HIDE DEF Sizes, Rest
    <3> QED
      BY <1>2, <1>5, <3>1
  <2>2. PICK m \in Rest : \A y \in Rest : y <= m
    BY <1>3, <1>5, <1>7, <2>1
  <2>3. \A y \in T : y <= x \/ y <= m
    BY <2>2, <1>3, <1>4
  <2> QED
    BY <1>3, <1>4, <2>2, <2>3
<1> QED
  BY <1>6, <1>7

\* What a key has been let through for, and what its bucket holds, is covered: C is a
\* capacity and what R adds in the time the bucket has been paid for.
Covered(C, R, n, t, tokens, refill) ==
    /\ refill > t => n = 0
    /\ refill <= t => n * One + tokens <= C + R * (t - refill)

\* Time passes: the bucket is not paid for it yet.
LEMMA CoveredTick ==
    ASSUME NEW C \in Nat, NEW R \in Nat, NEW n \in Nat, NEW t \in Nat, NEW tokens \in Nat,
           NEW refill \in Nat, NEW later \in Nat, One \in Nat, tokens <= C,
           later = refill + 1 \/ (later = refill /\ t < refill),
           Covered(C, R, n, t, tokens, refill)
    PROVE  Covered(C, R, n, t + 1, tokens, later)
<1>1. CASE later = refill + 1
  <2>1. (t + 1) - later = t - refill
    BY <1>1
  <2>2. (later > t + 1 <=> refill > t) /\ (later <= t + 1 <=> refill <= t)
    BY <1>1
  <2> QED
    BY <2>1, <2>2 DEF Covered
<1>2. CASE later = refill /\ t < refill
  <2>1. n = 0 /\ n * One = 0
    BY <1>2 DEF Covered
  <2>2. later <= t + 1 => R * ((t + 1) - later) = 0
    <3>1. later <= t + 1 => (t + 1) - later = 0
      BY <1>2
    <3> QED
      BY <3>1
  <2> QED
    BY <2>1, <2>2 DEF Covered
<1> QED
  BY <1>1, <1>2

\* The bucket is refilled for the time since it was last (Refill).
LEMMA CoveredRefill ==
    ASSUME NEW C \in Nat, NEW R \in Nat, NEW n \in Nat, NEW t \in Nat, NEW tokens \in Nat,
           NEW refill \in Nat, NEW rate \in Nat, NEW full \in Nat, One \in Nat,
           rate <= R, full <= C, full <= tokens + refill * rate,
           Covered(C, R, n, t, tokens, refill)
    PROVE  Covered(C, R, n, t, full, 0)
<1>1. t - 0 = t /\ n * One \in Nat /\ R * t \in Nat
  OBVIOUS
<1>2. CASE refill > t
  BY <1>1, <1>2 DEF Covered
<1>3. CASE refill <= t
  <2>1. n * One + tokens <= C + R * (t - refill)
    BY <1>3 DEF Covered
  <2>2. refill * rate <= refill * R /\ refill * rate \in Nat /\ refill * R \in Nat
    OBVIOUS
  <2>3. R * (t - refill) + refill * R = R * t /\ R * (t - refill) \in Nat
    BY <1>3
  <2> QED
    BY <1>1, <2>1, <2>2, <2>3 DEF Covered
<1> QED
  BY <1>2, <1>3

\* A request takes a token.
LEMMA CoveredTake ==
    ASSUME NEW C \in Nat, NEW R \in Nat, NEW n \in Nat, NEW t \in Nat, NEW tokens \in Nat,
           NEW m \in Nat, m <= n + 1, One \in Nat \ {0}, tokens >= One,
           Covered(C, R, n, t, tokens, 0)
    PROVE  Covered(C, R, m, t, tokens - One, 0)
<1>1. m * One <= (n + 1) * One /\ (n + 1) * One = n * One + One /\ n * One \in Nat /\ m * One \in Nat
  OBVIOUS
<1>2. n * One + tokens <= C + R * (t - 0) /\ R * (t - 0) \in Nat
  BY DEF Covered
<1> QED
  BY <1>1, <1>2 DEF Covered

\* A bucket is dropped: a gift of what it lacked of C covers the full one that follows.
LEMMA CoveredDropped ==
    ASSUME NEW C \in Nat, NEW g \in Nat, NEW R \in Nat, NEW n \in Nat, NEW t \in Nat,
           NEW tokens \in Nat, NEW refill \in Nat, NEW held \in Nat, NEW rate \in Nat,
           One \in Nat, held <= C, held <= tokens + refill * rate, rate <= R,
           Covered(C + g, R, n, t, tokens, refill)
    PROVE  n * One <= (g + (C - held)) + R * t
<1>1. n * One \in Nat /\ R * t \in Nat
  OBVIOUS
<1>2. CASE refill > t
  BY <1>1, <1>2 DEF Covered
<1>3. CASE refill <= t
  <2> DEFINE D == C + g
  <2>1. D \in Nat /\ held <= D
    OBVIOUS
  <2>2. Covered(D, R, n, t, tokens, refill)
    OBVIOUS
  <2> HIDE DEF D
  <2>3. Covered(D, R, n, t, held, 0)
    BY <2>1, <2>2, CoveredRefill
  <2>4. Covered(C + g, R, n, t, held, 0)
    BY <2>3 DEF D
  <2>5. t - 0 = t
    OBVIOUS
  <2> QED
    BY <1>1, <2>4, <2>5 DEF Covered
<1> QED
  BY <1>2, <1>3

\* C and R are the largest capacity and the largest rate anyone may configure.
Bounds(C, R) ==
    /\ C \in Nat /\ R \in Nat /\ C = Bucket!MaxCapacity /\ R = Bucket!MaxRate
    /\ \A s \in Settings : Bucket!Usable(s) =>
        /\ Bucket!Capacity(s) \in Nat /\ Bucket!Capacity(s) <= C
        /\ Bucket!Rate(s) \in Nat /\ Bucket!Rate(s) <= R

\* There are such bounds: the settings are finitely many and one can be used.
LEMMA BoundsExist ==
    ASSUME Bucket!BucketAssumption
    PROVE  \E C, R : Bounds(C, R)
<1> DEFINE used == {s \in Settings : Bucket!Usable(s)}
           caps == {Bucket!Capacity(s) : s \in used}
           rates == {Bucket!Rate(s) : s \in used}
<1>1. \A s \in used : Bucket!Capacity(s) \in Nat /\ Bucket!Rate(s) \in Nat /\ s.enabled
  <2> TAKE s \in used
  <2>1. s.count \in Nat /\ s.duration \in Nat \ {0} /\ One \in Nat /\ s.enabled
    BY DEF Bucket!BucketAssumption, Bucket!Usable
  <2>2. s.count * One \in Nat
    BY <2>1
  <2>3. \A a \in Nat, d \in Nat \ {0} : a \div d \in Nat
    OBVIOUS
  <2> QED
    BY <2>1, <2>2, <2>3 DEF Bucket!Capacity, Bucket!Rate
<1>2. IsFiniteSet(used) /\ used # {}
  <2>1. IsFiniteSet(Settings)
    BY SameBucketCount DEF Bucket!BucketAssumption
  <2>2. used # {}
    BY DEF Bucket!BucketAssumption
  <2> QED
    BY <2>1, <2>2, FS_Subset
<1> HIDE DEF used
<1>3. IsFiniteSet(caps) /\ IsFiniteSet(rates)
  <2>1. [s \in used |-> Bucket!Capacity(s)] \in Surjection(used, caps)
    BY DEF Surjection
  <2>2. [s \in used |-> Bucket!Rate(s)] \in Surjection(used, rates)
    BY DEF Surjection
  <2> QED
    BY <1>2, <2>1, <2>2, FS_Surjection
<1>4. caps # {} /\ rates # {} /\ caps \subseteq Nat /\ rates \subseteq Nat
  BY <1>1, <1>2
<1> HIDE DEF caps, rates
<1> DEFINE C == Bucket!MaxCapacity
           R == Bucket!MaxRate
<1>5. C \in caps /\ \A s \in Settings : Bucket!Usable(s) => Bucket!Capacity(s) <= C
  <2>1. PICK c \in caps : \A x \in caps : x <= c
    BY <1>3, <1>4, Greatest
  <2>2. \A s \in Settings : Bucket!Usable(s) => Bucket!Capacity(s) <= c
    BY <2>1 DEF caps, used
  <2> QED
    BY <2>1, <2>2 DEF Bucket!MaxCapacity, caps, used
<1>6. R \in rates /\ \A s \in Settings : Bucket!Usable(s) => Bucket!Rate(s) <= R
  <2>1. PICK c \in rates : \A x \in rates : x <= c
    BY <1>3, <1>4, Greatest
  <2>2. \A s \in Settings : Bucket!Usable(s) => Bucket!Rate(s) <= c
    BY <2>1 DEF rates, used
  <2> QED
    BY <2>1, <2>2 DEF Bucket!MaxRate, rates, used
<1>7. C \in Nat /\ R \in Nat
  BY <1>4, <1>5, <1>6
<1> HIDE DEF C, R
<1>8. \A u \in Settings : Bucket!Usable(u) => Bucket!Capacity(u) \in Nat /\ Bucket!Rate(u) \in Nat
  BY <1>1 DEF used
<1>9. Bounds(C, R)
  BY <1>5, <1>6, <1>7, <1>8 DEF Bounds, C, R
<1> QED
  BY <1>9

\* What the counting of a key knows: requests let through, time passed, tokens given.
Ledger == [n : Nat, t : Nat, gift : Nat]

\* A key with a bucket is covered together with what the bucket holds; without one, what
\* it was let through for has been paid by time and gifts alone, so that the full bucket
\* it gets next is all it has ahead.
Paid(C, R, k) ==
    /\ k \in DOMAIN buckets =>
        Covered(C + spent[k].gift, R, spent[k].n, spent[k].t, buckets[k].tokens, buckets[k].refill)
    /\ k \notin DOMAIN buckets => spent[k].n * One <= spent[k].gift + R * spent[k].t

\* A bucket as the settings can have made it.
Fit(C, R, b) ==
    /\ b \in Bucket!Bucket /\ b.refill = b.access
    /\ b.tokens <= C /\ b.capacity <= C /\ b.rate <= R

BucketInv(C, R) ==
    /\ spent \in [Watched -> Ledger] /\ \A k \in Watched : spent[k].t <= BucketHorizon
    /\ DOMAIN buckets \subseteq Keys
    /\ \A k \in DOMAIN buckets : Fit(C, R, buckets[k])
    /\ \A k \in Watched : Paid(C, R, k)

\* The first state: no bucket, nothing spent.
LEMMA BucketStarts ==
    ASSUME NEW C, NEW R, Bounds(C, R), Bucket!BucketAssumption, Bucket!Init
    PROVE  BucketInv(C, R)
<1>1. One \in Nat /\ BucketHorizon \in Nat /\ R \in Nat
  BY DEF Bucket!BucketAssumption, Bounds
<1>2. DOMAIN buckets = {}
  BY DEF Bucket!Init
<1>3. \A k \in Watched : spent[k].n = 0 /\ spent[k].t = 0 /\ spent[k].gift = 0
  BY DEF Bucket!Init, Bucket!Afresh
<1>4. spent \in [Watched -> Ledger]
  BY DEF Bucket!Init, Bucket!Afresh, Ledger
<1>5. 0 * One <= 0 + R * 0
  BY <1>1
<1>6. \A k \in Watched : Paid(C, R, k)
  BY <1>2, <1>3, <1>5 DEF Paid
<1> QED
  BY <1>1, <1>2, <1>3, <1>4, <1>6 DEF BucketInv

\* A bucket under new settings (Reconfigure).
LEMMA Reconfigured ==
    ASSUME NEW r \in Bucket!Bucket, NEW cap \in Nat, NEW rate \in Nat
    PROVE  LET c == Bucket!Reconfigure(r, cap, rate) IN
           /\ c \in Bucket!Bucket /\ c.capacity = cap /\ c.rate = rate
           /\ c.refill = r.refill /\ c.access = r.access
           /\ c.tokens <= cap /\ c.tokens <= r.tokens
<1> DEFINE c == Bucket!Reconfigure(r, cap, rate)
           held == IF r.tokens > cap THEN cap ELSE r.tokens
<1>1. c = [r EXCEPT !.capacity = cap, !.rate = rate, !.tokens = held]
  BY DEF Bucket!Reconfigure, Bucket!Bucket
<1>2. held \in Nat /\ held <= cap /\ held <= r.tokens
  BY DEF Bucket!Bucket
<1> HIDE DEF c, held
<1>3. c \in Bucket!Bucket /\ c.capacity = cap /\ c.rate = rate /\ c.refill = r.refill
      /\ c.access = r.access /\ c.tokens = held
  BY <1>1, <1>2 DEF Bucket!Bucket
<1> QED
  BY <1>2, <1>3 DEF c

\* A bucket paid for the time since it was last (Refill).
LEMMA Refilled ==
    ASSUME NEW r \in Bucket!Bucket, BucketHorizon \in Nat
    PROVE  LET c == Bucket!Refill(r) IN
           /\ c \in Bucket!Bucket /\ c.refill = 0 /\ c.access = r.access
           /\ c.capacity = r.capacity /\ c.rate = r.rate
           /\ c.tokens <= r.capacity /\ c.tokens <= r.tokens + r.refill * r.rate
<1> DEFINE c == Bucket!Refill(r)
           sum == r.tokens + r.refill * r.rate
           full == IF r.capacity < sum THEN r.capacity ELSE sum
<1>1. c = [r EXCEPT !.tokens = full, !.refill = 0]
  BY DEF Bucket!Refill, Bucket!Bucket, Bucket!Lesser
<1>2. r.capacity \in Nat /\ r.tokens \in Nat /\ r.refill \in Nat /\ r.rate \in Nat /\ r.refill * r.rate \in Nat
  BY DEF Bucket!Bucket
<1>3. full \in Nat /\ full <= r.capacity /\ full <= sum
  BY <1>2
<1>4. \A z \in 0..BucketHorizon :
        LET d == [r EXCEPT !.tokens = full, !.refill = z]
        IN  /\ d \in Bucket!Bucket /\ d.refill = z /\ d.access = r.access /\ d.tokens = full
            /\ d.capacity = r.capacity /\ d.rate = r.rate
  <2> HIDE DEF full
  <2> TAKE z \in 0..BucketHorizon
  <2> QED
    BY <1>3 DEF Bucket!Bucket
<1>5. 0 \in 0..BucketHorizon
  OBVIOUS
<1> HIDE DEF c, full
<1>6. /\ c \in Bucket!Bucket /\ c.refill = 0 /\ c.access = r.access /\ c.tokens = full
      /\ c.capacity = r.capacity /\ c.rate = r.rate
  BY <1>1, <1>4, <1>5
<1> QED
  BY <1>3, <1>6 DEF c

\* The bucket of a key before the token is taken (Current): as settings s make it,
\* refilled, and never with more than it may hold.
LEMMA CurrentBucket ==
    ASSUME NEW C, NEW R, Bounds(C, R), Bucket!BucketAssumption, BucketInv(C, R),
           NEW k \in Keys, NEW s \in Settings, Bucket!Usable(s),
           NEW b, b = Bucket!Current(k, Bucket!Capacity(s), Bucket!Rate(s))
    PROVE  /\ Fit(C, R, b) /\ b.refill = 0
           /\ k \in Watched => Covered(C + spent[k].gift, R, spent[k].n, spent[k].t, b.tokens, 0)
<1> DEFINE cap == Bucket!Capacity(s)
           rate == Bucket!Rate(s)
           found == IF k \in DOMAIN buckets THEN buckets[k] ELSE Bucket!NewBucket(cap, rate)
           touched == [found EXCEPT !.access = 0]
           fitted == Bucket!Reconfigure(touched, cap, rate)
<1>1. /\ C \in Nat /\ R \in Nat /\ cap \in Nat /\ cap <= C /\ rate \in Nat /\ rate <= R
      /\ One \in Nat \ {0} /\ BucketHorizon \in Nat
  BY DEF Bounds, Bucket!BucketAssumption
<1>2. b = Bucket!Refill(fitted)
  BY DEF Bucket!Current
<1> HIDE DEF cap, rate
<1>3. k \in Watched => spent[k].n \in Nat /\ spent[k].t \in Nat /\ spent[k].gift \in Nat
  BY DEF BucketInv, Ledger
<1>4. /\ found \in Bucket!Bucket
      /\ k \in Watched =>
           Covered(C + spent[k].gift, R, spent[k].n, spent[k].t, found.tokens, found.refill)
  <2>1. CASE k \in DOMAIN buckets
    BY <2>1 DEF BucketInv, Fit, Paid
  <2>2. CASE k \notin DOMAIN buckets
    <3>1. found = Bucket!NewBucket(cap, rate)
      BY <2>2
    <3> HIDE DEF found
    <3>2. found \in Bucket!Bucket /\ found.tokens = cap /\ found.refill = 0
      BY <1>1, <3>1 DEF Bucket!NewBucket, Bucket!Bucket
    <3>3. ASSUME k \in Watched
          PROVE  Covered(C + spent[k].gift, R, spent[k].n, spent[k].t, cap, 0)
      <4>1. spent[k].n * One <= spent[k].gift + R * spent[k].t
        BY <2>2, <3>3 DEF BucketInv, Paid
      <4>2. spent[k].n * One \in Nat /\ R * spent[k].t \in Nat /\ spent[k].t - 0 = spent[k].t
        BY <1>1, <1>3, <3>3
      <4> QED
        BY <1>1, <1>3, <3>3, <4>1, <4>2 DEF Covered
    <3> QED
      BY <3>2, <3>3
  <2> QED
    BY <2>1, <2>2
<1> HIDE DEF found
<1>5. /\ touched \in Bucket!Bucket /\ touched.tokens = found.tokens
      /\ touched.refill = found.refill /\ touched.access = 0
  BY <1>1, <1>4 DEF Bucket!Bucket
<1> HIDE DEF touched
<1>6. /\ fitted \in Bucket!Bucket /\ fitted.capacity = cap /\ fitted.rate = rate
      /\ fitted.refill = found.refill /\ fitted.access = 0 /\ fitted.tokens <= found.tokens
  <2>1. cap \in Nat /\ rate \in Nat /\ touched \in Bucket!Bucket
    BY <1>1, <1>5
  <2>2. /\ fitted \in Bucket!Bucket /\ fitted.capacity = cap /\ fitted.rate = rate
        /\ fitted.refill = touched.refill /\ fitted.access = touched.access
        /\ fitted.tokens <= cap /\ fitted.tokens <= touched.tokens
    BY <2>1, Reconfigured
  <2> HIDE DEF fitted
  <2> QED
    BY <1>5, <2>2
<1> HIDE DEF fitted
<1>7. /\ b \in Bucket!Bucket /\ b.refill = 0 /\ b.access = 0 /\ b.capacity = cap /\ b.rate = rate
      /\ b.tokens <= cap /\ b.tokens <= fitted.tokens + found.refill * rate
  BY <1>1, <1>2, <1>6, Refilled
<1>8. /\ b.tokens \in Nat /\ fitted.tokens \in Nat /\ found.tokens \in Nat /\ found.refill \in Nat
  BY <1>1, <1>4, <1>6, <1>7 DEF Bucket!Bucket
<1>9. b.tokens <= C /\ b.tokens <= found.tokens + found.refill * rate
  <2>1. found.refill * rate \in Nat
    BY <1>1, <1>8
  <2> QED
    BY <1>1, <1>6, <1>7, <1>8, <2>1
<1>10. ASSUME k \in Watched
       PROVE  Covered(C + spent[k].gift, R, spent[k].n, spent[k].t, b.tokens, 0)
  <2> DEFINE D == C + spent[k].gift
  <2>1. D \in Nat /\ b.tokens <= D
    BY <1>1, <1>3, <1>8, <1>9, <1>10
  <2>2. Covered(D, R, spent[k].n, spent[k].t, found.tokens, found.refill)
    BY <1>4, <1>10
  <2> HIDE DEF D
  <2>3. Covered(D, R, spent[k].n, spent[k].t, b.tokens, 0)
    BY <1>1, <1>3, <1>8, <1>9, <1>10, <2>1, <2>2, CoveredRefill
  <2> QED
    BY <2>3 DEF D
<1>11. Fit(C, R, b)
  BY <1>1, <1>7, <1>9 DEF Fit
<1> QED
  BY <1>7, <1>10, <1>11

\* Buckets are dropped (evictOldest, cleanup): their keys are given what they lacked,
\* the others keep their ledger, and every key stays paid for.
LEMMA DropPays ==
    ASSUME NEW C, NEW R, Bounds(C, R), Bucket!BucketAssumption, BucketInv(C, R),
           NEW kept, NEW i \in Watched
    PROVE  LET d == Bucket!Drop(kept)[i] IN
           /\ d \in Ledger /\ d.n = spent[i].n /\ d.t = spent[i].t
           /\ i \notin DOMAIN buckets \ kept => d = spent[i]
           /\ i \notin DOMAIN buckets \/ i \notin kept => d.n * One <= d.gift + R * d.t
<1> DEFINE d == Bucket!Drop(kept)[i]
<1>1. /\ C \in Nat /\ R \in Nat /\ One \in Nat /\ BucketHorizon \in Nat /\ C = Bucket!MaxCapacity
      /\ spent[i] \in Ledger /\ Paid(C, R, i)
  BY DEF Bounds, Bucket!BucketAssumption, BucketInv
<1>2. CASE i \in DOMAIN buckets \ kept
  <2> DEFINE b == buckets[i]
             held == Bucket!Refill(b).tokens
  <2>1. Fit(C, R, b) /\ Covered(C + spent[i].gift, R, spent[i].n, spent[i].t, b.tokens, b.refill)
    BY <1>1, <1>2 DEF BucketInv, Paid
  <2>2. /\ b.tokens \in Nat /\ b.refill \in Nat /\ b.rate \in Nat /\ b.rate <= R
        /\ held \in Nat /\ held <= C /\ held <= b.tokens + b.refill * b.rate
    <3>1. b \in Bucket!Bucket /\ b.capacity <= C /\ b.rate <= R
      BY <2>1 DEF Fit
    <3> HIDE DEF b
    <3>2. /\ Bucket!Refill(b) \in Bucket!Bucket /\ held <= b.capacity
          /\ held <= b.tokens + b.refill * b.rate
      BY <1>1, <3>1, Refilled
    <3>3. held \in Nat /\ b.capacity \in Nat /\ b.tokens \in Nat /\ b.refill \in Nat /\ b.rate \in Nat
      BY <1>1, <3>1, <3>2 DEF Bucket!Bucket
    <3> QED
      BY <1>1, <3>1, <3>2, <3>3
  <2>3. d = [spent[i] EXCEPT !.gift = @ + (C - held)]
    BY <1>1, <1>2 DEF Bucket!Drop
  <2> DEFINE e == spent[i]
  <2> HIDE DEF b, held, d, e
  <2>4. e \in Ledger /\ d = [e EXCEPT !.gift = @ + (C - held)]
    BY <1>1, <2>3 DEF e
  <2>5. d \in Ledger /\ d.n = e.n /\ d.t = e.t /\ d.gift = e.gift + (C - held)
    BY <1>1, <2>2, <2>4 DEF Ledger
  <2>6. e.n \in Nat /\ e.t \in Nat /\ e.gift \in Nat
    BY <2>4 DEF Ledger
  <2>7. Covered(C + e.gift, R, e.n, e.t, b.tokens, b.refill)
    BY <2>1 DEF e
  <2>8. e.n * One <= (e.gift + (C - held)) + R * e.t
    BY <1>1, <2>2, <2>6, <2>7, CoveredDropped
  <2> QED
    BY <1>2, <2>5, <2>8 DEF d, e
<1>3. CASE i \notin DOMAIN buckets \ kept
  <2>1. d = spent[i]
    BY <1>3 DEF Bucket!Drop
  <2> QED
    BY <1>1, <1>3, <2>1 DEF Paid
<1> QED
  BY <1>2, <1>3

\* A call of the limiter (Allow): the key it serves stays covered, whether or not it is
\* let through, and so do the others, those whose bucket is evicted included.
LEMMA BucketAllows ==
    ASSUME NEW C, NEW R, Bounds(C, R), Bucket!BucketAssumption, BucketInv(C, R),
           NEW k \in Keys, NEW s \in Settings, Bucket!WebSocketAllow(k, s)
    PROVE  BucketInv(C, R)'
<1> DEFINE b == Bucket!Current(k, Bucket!Capacity(s), Bucket!Rate(s))
           ok == b.tokens >= One
           taken == IF ok THEN [b EXCEPT !.tokens = @ - One] ELSE b
<1>1. Bucket!Usable(s)
  BY DEF Bucket!WebSocketAllow
<1>2. /\ Fit(C, R, b) /\ b.refill = 0
      /\ k \in Watched => Covered(C + spent[k].gift, R, spent[k].n, spent[k].t, b.tokens, 0)
  BY <1>1, CurrentBucket
<1>3. PICK kept \in Bucket!Submaps :
        /\ Bucket!Kept(k, kept) /\ buckets' = Bucket!Mutate(kept, k, taken)
        /\ spent' = Bucket!Spend(k, ok, kept)
  BY DEF Bucket!WebSocketAllow, Bucket!Allow
<1>4. DOMAIN kept \subseteq DOMAIN buckets /\ \A i \in DOMAIN kept : kept[i] = buckets[i]
  BY <1>3 DEF Bucket!Submaps
<1>5. k \in DOMAIN buckets => k \in DOMAIN kept
  BY <1>3 DEF Bucket!Kept
<1> HIDE DEF b
<1>6. /\ C \in Nat /\ R \in Nat /\ One \in Nat \ {0} /\ BucketHorizon \in Nat
      /\ DOMAIN buckets \subseteq Keys
  BY DEF Bounds, Bucket!BucketAssumption, BucketInv
<1>7. b.tokens \in Nat /\ b \in Bucket!Bucket /\ b.access = 0 /\ b.tokens <= C /\ b.capacity <= C /\ b.rate <= R
  BY <1>2 DEF Bucket!Bucket, Fit
<1>8. /\ taken \in Bucket!Bucket /\ taken.refill = 0 /\ taken.access = 0
      /\ taken.capacity = b.capacity /\ taken.rate = b.rate
      /\ taken.tokens = IF ok THEN b.tokens - One ELSE b.tokens
  BY <1>2, <1>6, <1>7 DEF Bucket!Bucket
<1> DEFINE dropped == Bucket!Drop(DOMAIN kept)
<1>9. /\ DOMAIN dropped = Watched
      /\ DOMAIN spent' = Watched /\ spent' = [i \in Watched |-> spent'[i]]
      /\ spent' = IF ok /\ k \in Watched THEN [dropped EXCEPT ![k].n = @ + 1] ELSE dropped
  BY <1>3 DEF Bucket!Spend, Bucket!Drop
<1> HIDE DEF ok, taken, dropped
<1>10. ASSUME NEW i \in Watched
       PROVE  /\ dropped[i] \in Ledger /\ dropped[i].n = spent[i].n /\ dropped[i].t = spent[i].t
              /\ i \notin DOMAIN buckets \ DOMAIN kept => dropped[i] = spent[i]
              /\ i \notin DOMAIN buckets \/ i \notin DOMAIN kept =>
                   dropped[i].n * One <= dropped[i].gift + R * dropped[i].t
  BY DropPays DEF dropped
<1>11. /\ DOMAIN buckets' = DOMAIN kept \cup {k} /\ buckets'[k] = taken
       /\ \A i \in DOMAIN kept \ {k} : buckets'[i] = buckets[i]
  BY <1>3, <1>4 DEF Bucket!Mutate
<1>12. ASSUME NEW i \in Watched, i # k
       PROVE  spent'[i] = dropped[i]
  BY <1>9, <1>12
<1>13. ASSUME k \in Watched
       PROVE  /\ spent'[k] \in Ledger /\ spent'[k].t = spent[k].t /\ spent'[k].gift = spent[k].gift
              /\ spent'[k].n = IF ok THEN spent[k].n + 1 ELSE spent[k].n
  <2> DEFINE e == spent[k]
  <2>1. e \in Ledger /\ dropped[k] = e
    BY <1>5, <1>10, <1>13
  <2>2. spent'[k] = IF ok THEN [e EXCEPT !.n = @ + 1] ELSE e
    BY <1>9, <1>13, <2>1
  <2> HIDE DEF e
  <2>3. [e EXCEPT !.n = @ + 1] \in Ledger
    BY <2>1 DEF Ledger
  <2>4. LET f == [e EXCEPT !.n = @ + 1] IN f.n = e.n + 1 /\ f.t = e.t /\ f.gift = e.gift
    BY <2>1 DEF Ledger
  <2> QED
    BY <2>1, <2>2, <2>3, <2>4 DEF e
<1>14. spent' \in [Watched -> Ledger]
  <2>1. \A i \in Watched : spent'[i] \in Ledger
    BY <1>10, <1>12, <1>13
  <2> QED
    BY <1>9, <2>1
<1>15. \A i \in Watched : spent'[i].t <= BucketHorizon
  BY <1>10, <1>12, <1>13 DEF BucketInv
<1>16. ASSUME NEW i \in DOMAIN buckets'
       PROVE  Fit(C, R, buckets'[i])
  <2>1. CASE i = k
    <3>1. taken.tokens <= C
      BY <1>6, <1>7, <1>8
    <3> QED
      BY <1>7, <1>8, <1>11, <2>1, <3>1 DEF Fit
  <2>2. CASE i # k
    BY <1>4, <1>11, <2>2 DEF BucketInv
  <2> QED
    BY <2>1, <2>2
<1>17. ASSUME k \in Watched
       PROVE  Paid(C, R, k)'
  <2> DEFINE D == C + spent[k].gift
  <2>1. spent[k].n \in Nat /\ spent[k].t \in Nat /\ spent[k].gift \in Nat /\ D \in Nat
    BY <1>6, <1>17 DEF BucketInv, Ledger
  <2>2. Covered(D, R, spent[k].n, spent[k].t, b.tokens, 0)
    BY <1>2, <1>17
  <2> HIDE DEF D
  <2>3. Covered(D, R, spent'[k].n, spent[k].t, taken.tokens, 0)
    <3>1. CASE ok
      <4>1. b.tokens >= One
        BY <3>1 DEF ok
      <4>2. spent[k].n + 1 \in Nat /\ spent[k].n + 1 <= spent[k].n + 1
        BY <2>1
      <4>3. Covered(D, R, spent[k].n + 1, spent[k].t, b.tokens - One, 0)
        BY <1>6, <1>7, <2>1, <2>2, <4>1, <4>2, CoveredTake
      <4> QED
        BY <1>8, <1>13, <1>17, <3>1, <4>3
    <3>2. CASE ~ok
      BY <1>8, <1>13, <1>17, <2>2, <3>2
    <3> QED
      BY <3>1, <3>2
  <2>4. k \in DOMAIN buckets' /\ buckets'[k] = taken
    BY <1>11
  <2> QED
    BY <1>8, <1>13, <1>17, <2>3, <2>4 DEF Paid, D
<1>18. ASSUME NEW i \in Watched, i # k
       PROVE  Paid(C, R, i)'
  <2>1. CASE i \in DOMAIN kept
    <3>1. i \in DOMAIN buckets /\ i \in DOMAIN buckets' /\ buckets'[i] = buckets[i] /\ spent'[i] = spent[i]
      BY <1>4, <1>10, <1>11, <1>12, <1>18, <2>1
    <3> QED
      BY <3>1 DEF BucketInv, Paid
  <2>2. CASE i \notin DOMAIN kept
    <3>1. i \notin DOMAIN buckets' /\ spent'[i] = dropped[i]
      BY <1>11, <1>12, <1>18, <2>2
    <3> QED
      BY <1>10, <2>2, <3>1 DEF Paid
  <2> QED
    BY <2>1, <2>2
<1>19. DOMAIN buckets' \subseteq Keys
  BY <1>4, <1>6, <1>11
<1> QED
  BY <1>14, <1>15, <1>16, <1>17, <1>18, <1>19 DEF BucketInv

\* The cleanup goroutine: the key of a bucket it drops is given what the bucket lacked.
LEMMA BucketCleaned ==
    ASSUME NEW C, NEW R, Bounds(C, R), Bucket!BucketAssumption, BucketInv(C, R), Bucket!cleanup
    PROVE  BucketInv(C, R)'
<1> DEFINE kept == {j \in DOMAIN buckets : buckets[j].access <= BucketTTL}
<1>1. /\ DOMAIN buckets' = kept /\ \A i \in kept : buckets'[i] = buckets[i]
      /\ spent' = Bucket!Drop(kept)
  BY DEF Bucket!cleanup
<1>2. kept \subseteq DOMAIN buckets
  OBVIOUS
<1> HIDE DEF kept
<1>3. ASSUME NEW i \in Watched
      PROVE  /\ spent'[i] \in Ledger /\ spent'[i].t = spent[i].t
             /\ i \notin DOMAIN buckets \ kept => spent'[i] = spent[i]
             /\ i \notin DOMAIN buckets \/ i \notin kept =>
                  spent'[i].n * One <= spent'[i].gift + R * spent'[i].t
  BY <1>1, DropPays
<1>4. spent' \in [Watched -> Ledger]
  <2>1. spent' = [i \in Watched |-> spent'[i]]
    BY <1>1 DEF Bucket!Drop
  <2> QED
    BY <1>3, <2>1
<1>5. ASSUME NEW i \in Watched
      PROVE  Paid(C, R, i)'
  <2>1. CASE i \in kept
    BY <1>1, <1>2, <1>3, <2>1 DEF BucketInv, Paid
  <2>2. CASE i \notin kept
    BY <1>1, <1>3, <2>2 DEF Paid
  <2> QED
    BY <2>1, <2>2
<1> QED
  BY <1>1, <1>2, <1>3, <1>4, <1>5 DEF BucketInv

\* A unit of time passes, or a new stretch of time begins.
LEMMA BucketAges ==
    ASSUME NEW C, NEW R, Bounds(C, R), Bucket!BucketAssumption, BucketInv(C, R), Bucket!Tick
    PROVE  BucketInv(C, R)'
<1>1. C \in Nat /\ R \in Nat /\ One \in Nat /\ BucketHorizon \in Nat
  BY DEF Bounds, Bucket!BucketAssumption
<1>2. /\ DOMAIN buckets' = DOMAIN buckets
      /\ \A i \in DOMAIN buckets :
           buckets'[i] = [buckets[i] EXCEPT !.refill = Bucket!Older(@), !.access = Bucket!Older(@)]
  BY DEF Bucket!Tick
<1>3. ASSUME NEW i \in Watched
      PROVE  spent'[i] = IF spent[i].t < BucketHorizon THEN [spent[i] EXCEPT !.t = @ + 1]
                         ELSE Bucket!Afresh
  BY <1>3 DEF Bucket!Tick
<1>4. ASSUME NEW i \in Watched
      PROVE  /\ spent[i].n \in Nat /\ spent[i].t \in Nat /\ spent[i].gift \in Nat
             /\ spent'[i] \in Ledger /\ spent'[i].t <= BucketHorizon
             /\ spent[i].t < BucketHorizon => /\ spent'[i].n = spent[i].n
                                              /\ spent'[i].t = spent[i].t + 1
                                              /\ spent'[i].gift = spent[i].gift
             /\ ~(spent[i].t < BucketHorizon) =>
                  spent'[i].n = 0 /\ spent'[i].t = 0 /\ spent'[i].gift = 0
  <2> DEFINE u == spent[i]
  <2>1. u \in Ledger /\ u.t <= BucketHorizon
    BY <1>4 DEF BucketInv
  <2>2. spent'[i] = IF u.t < BucketHorizon THEN [u EXCEPT !.t = @ + 1]
                    ELSE [n |-> 0, t |-> 0, gift |-> 0]
    BY <1>3, <1>4 DEF Bucket!Afresh
  <2> HIDE DEF u
  <2>3. CASE u.t < BucketHorizon
    BY <1>1, <2>1, <2>2, <2>3 DEF u, Ledger
  <2>4. CASE ~(u.t < BucketHorizon)
    BY <1>1, <2>1, <2>2, <2>4 DEF u, Ledger
  <2> QED
    BY <2>3, <2>4
<1>5. spent' \in [Watched -> Ledger]
  <2>1. spent' = [i \in Watched |-> spent'[i]]
    BY DEF Bucket!Tick
  <2> QED
    BY <1>4, <2>1
<1>6. ASSUME NEW i \in DOMAIN buckets
      PROVE  /\ Fit(C, R, buckets'[i]) /\ buckets'[i].tokens = buckets[i].tokens
             /\ buckets'[i].refill = Bucket!Older(buckets[i].refill)
  <2> DEFINE b == buckets[i]
             later == Bucket!Older(b.refill)
  <2>1. Fit(C, R, b) /\ b \in Bucket!Bucket /\ b.access = b.refill
    BY <1>6 DEF BucketInv, Fit
  <2>2. buckets'[i] = [b EXCEPT !.refill = later, !.access = later]
    BY <1>2, <1>6, <2>1 DEF Bucket!Bucket
  <2> HIDE DEF b
  <2>3. later \in 0..BucketHorizon
    BY <1>1, <2>1 DEF Bucket!Bucket, Bucket!Older
  <2> HIDE DEF later
  <2>4. LET c == [b EXCEPT !.refill = later, !.access = later] IN
        /\ c \in Bucket!Bucket /\ c.refill = later /\ c.access = later
        /\ c.tokens = b.tokens /\ c.capacity = b.capacity /\ c.rate = b.rate
    BY <2>1, <2>3 DEF Bucket!Bucket
  <2> QED
    BY <2>1, <2>2, <2>4 DEF Fit, b, later
<1>7. ASSUME NEW i \in Watched, i \in DOMAIN buckets
      PROVE  Covered(C + spent'[i].gift, R, spent'[i].n, spent'[i].t,
                     buckets'[i].tokens, buckets'[i].refill)
  <2> DEFINE n == spent[i].n
             t == spent[i].t
             D == C + spent[i].gift
             held == buckets[i].tokens
             refill == buckets[i].refill
             later == Bucket!Older(refill)
  <2>1. n \in Nat /\ t \in Nat /\ D \in Nat
    BY <1>1, <1>4, <1>7
  <2>2. /\ held \in Nat /\ held <= C /\ held <= D /\ refill \in Nat /\ refill <= BucketHorizon
        /\ Covered(D, R, n, t, held, refill)
    <3>1. Fit(C, R, buckets[i]) /\ Paid(C, R, i)
      BY <1>7 DEF BucketInv
    <3>2. held \in Nat /\ held <= C /\ refill \in Nat /\ refill <= BucketHorizon
      BY <1>1, <3>1 DEF Fit, Bucket!Bucket
    <3>3. Covered(D, R, n, t, held, refill)
      BY <1>7, <3>1 DEF Paid
    <3>4. spent[i].gift \in Nat
      BY <1>4, <1>7
    <3> QED
      BY <1>1, <3>2, <3>3, <3>4
  <2>3. later \in Nat /\ (later = refill + 1 \/ (later = refill /\ refill = BucketHorizon))
    BY <1>1, <2>2 DEF Bucket!Older
  <2>4. CASE t < BucketHorizon
    <3>1. spent'[i].n = n /\ spent'[i].t = t + 1 /\ C + spent'[i].gift = D
      BY <1>4, <1>7, <2>4
    <3>2. later = refill + 1 \/ (later = refill /\ t < refill)
      BY <2>3, <2>4
    <3> HIDE DEF n, t, D, held, refill, later
    <3>3. Covered(D, R, n, t + 1, held, later)
      BY <1>1, <2>1, <2>2, <2>3, <3>2, CoveredTick
    <3> QED
      BY <1>6, <1>7, <3>1, <3>3 DEF held, later, refill
  <2>5. CASE ~(t < BucketHorizon)
    <3>1. spent'[i].n = 0 /\ spent'[i].t = 0 /\ C + spent'[i].gift = C
      BY <1>1, <1>4, <1>7, <2>5
    <3> HIDE DEF held, refill, later
    <3>2. later <= 0 => 0 * One + held <= C + R * (0 - later)
      <4>1. 0 * One = 0 /\ R * 0 = 0
        BY <1>1
      <4>2. later <= 0 => 0 - later = 0
        BY <2>3
      <4> QED
        BY <1>1, <2>2, <4>1, <4>2
    <3> QED
      BY <1>6, <1>7, <3>1, <3>2 DEF Covered, held, refill, later
  <2> QED
    BY <2>4, <2>5
<1>8. ASSUME NEW i \in Watched, i \notin DOMAIN buckets
      PROVE  spent'[i].n * One <= spent'[i].gift + R * spent'[i].t
  <2>1. /\ spent[i].n * One <= spent[i].gift + R * spent[i].t
        /\ spent[i].n \in Nat /\ spent[i].t \in Nat /\ spent[i].gift \in Nat
    BY <1>4, <1>8 DEF BucketInv, Paid
  <2>2. R * spent[i].t <= R * (spent[i].t + 1) /\ spent[i].n * One \in Nat /\ R * spent[i].t \in Nat
        /\ R * (spent[i].t + 1) \in Nat
    BY <1>1, <2>1
  <2>3. 0 * One <= 0 + R * 0
    BY <1>1
  <2>4. CASE spent[i].t < BucketHorizon
    <3>1. spent'[i].n = spent[i].n /\ spent'[i].t = spent[i].t + 1 /\ spent'[i].gift = spent[i].gift
      BY <1>4, <1>8, <2>4
    <3> QED
      BY <2>1, <2>2, <3>1
  <2>5. CASE ~(spent[i].t < BucketHorizon)
    <3>1. spent'[i].n = 0 /\ spent'[i].t = 0 /\ spent'[i].gift = 0
      BY <1>4, <1>8, <2>5
    <3> QED
      BY <2>3, <3>1
  <2> QED
    BY <2>4, <2>5
<1>9. \A i \in Watched : Paid(C, R, i)'
  BY <1>2, <1>7, <1>8 DEF Paid
<1>10. \A i \in DOMAIN buckets' : Fit(C, R, buckets'[i])
  BY <1>2, <1>6
<1> QED
  BY <1>2, <1>4, <1>5, <1>9, <1>10 DEF BucketInv

\* Every step of the bucket keeps every key covered.
LEMMA BucketStep ==
    ASSUME NEW C, NEW R, Bounds(C, R), Bucket!BucketAssumption, BucketInv(C, R),
           [Bucket!Next]_bucketVars
    PROVE  BucketInv(C, R)'
<1>1. CASE UNCHANGED bucketVars
  BY <1>1 DEF bucketVars, BucketInv, Paid
<1> QED
  BY <1>1, BucketAllows, BucketCleaned, BucketAges DEF Bucket!Next

\* A key that is covered was not let through too often.
LEMMA CoveredIsKept ==
    ASSUME NEW C, NEW R, Bounds(C, R), Bucket!BucketAssumption, BucketInv(C, R)
    PROVE  RateNeverExceeded
<1> SUFFICES ASSUME NEW k \in Watched
             PROVE  spent[k].n * One <= C + R * spent[k].t + spent[k].gift
  BY DEF RateNeverExceeded, Bucket!RateNeverExceeded, Bounds
<1>1. /\ C \in Nat /\ R \in Nat /\ One \in Nat /\ BucketHorizon \in Nat
      /\ spent[k].n \in Nat /\ spent[k].t \in Nat /\ spent[k].gift \in Nat
  BY DEF Bounds, Bucket!BucketAssumption, BucketInv, Ledger
<1>2. spent[k].n * One \in Nat /\ R * spent[k].t \in Nat
  BY <1>1
<1>3. CASE k \notin DOMAIN buckets
  <2>1. spent[k].n * One <= spent[k].gift + R * spent[k].t
    BY <1>3 DEF BucketInv, Paid
  <2> QED
    BY <1>1, <1>2, <2>1
<1>4. CASE k \in DOMAIN buckets
  <2> DEFINE held == buckets[k].tokens
             refill == buckets[k].refill
  <2>1. /\ held \in Nat /\ refill \in Nat
        /\ Covered(C + spent[k].gift, R, spent[k].n, spent[k].t, held, refill)
    BY <1>1, <1>4 DEF BucketInv, Paid, Fit, Bucket!Bucket
  <2> HIDE DEF held, refill
  <2>2. CASE refill > spent[k].t
    BY <1>1, <1>2, <2>1, <2>2 DEF Covered
  <2>3. CASE refill <= spent[k].t
    <3>1. R * (spent[k].t - refill) <= R * spent[k].t /\ R * (spent[k].t - refill) \in Nat
      BY <1>1, <2>1, <2>3
    <3> QED
      BY <1>1, <1>2, <2>1, <2>3, <3>1 DEF Covered
  <2> QED
    BY <1>1, <2>1, <2>2, <2>3
<1> QED
  BY <1>3, <1>4


-----------------------------------------------------------------------------
(* The composition *)

\* However reload and administrators swap the limiter under each other (autoReload,
\* UpdateRateLimitConfig, InvalidateCache), nobody stops the one requests are using.
THEOREM TheLimiterInUseRuns ==
    ASSUME Service!ServiceAssumption
    PROVE  LimitsSpec => []LimiterInUseRuns
<1>1. LimitsInit => ServiceInv
  BY ServiceStarts DEF LimitsInit
<1>2. [LimitsNext]_limitVars => [Service!Next]_serviceVars
  BY DEF LimitsNext, limitVars, serviceVars
<1>3. ServiceInv /\ [LimitsNext]_limitVars => ServiceInv'
  BY <1>2, ServiceStep
<1>4. ServiceInv => LimiterInUseRuns
  BY DEF ServiceInv, LimiterInUseRuns
<1> QED
  BY <1>1, <1>3, <1>4, PTL DEF LimitsSpec

\* While administrators rest, every step of autoReload brings the service nearer to the
\* stored configuration, and no request, no step of the clock and not the shutdown takes it
\* away again: what UpdateRateLimitConfig and autoReload overwrote of each other is put
\* right within six steps.  This is what StoredConfigIsApplied rests on.
THEOREM ReloadApproachesTheStored ==
    ASSUME Service!ServiceAssumption
    PROVE  LimitsSpec => [][Approaching]_serviceVars
<1>1. LimitsInit => ServiceInv
  BY ServiceStarts DEF LimitsInit
<1>2. [LimitsNext]_limitVars => [Service!Next]_serviceVars
  BY DEF LimitsNext, limitVars, serviceVars
<1>3. ServiceInv /\ [LimitsNext]_limitVars => ServiceInv' /\ [Approaching]_serviceVars
  BY <1>2, ServiceStep, ServiceApproaches
<1> QED
  BY <1>1, <1>3, PTL DEF LimitsSpec

\* No request, fresh start or cleanup drops a penalty of the flood protector before it
\* has run to its end (IsChallenged, SetChallenge, cleanup).
THEOREM PenaltiesAreServed ==
    ASSUME Flood!FloodAssumption
    PROVE  LimitsSpec => PenaltyIsServed
<1>1. LimitsInit => FloodInv
  BY FloodStarts DEF LimitsInit
<1>2. [LimitsNext]_limitVars => [Flood!Next]_floodVars
  BY DEF LimitsNext, limitVars, floodVars
<1>3. FloodInv /\ [LimitsNext]_limitVars => FloodInv' /\ PenaltiesStay
  BY <1>2, FloodStep
<1>4. FloodInv /\ [LimitsNext]_limitVars
        => [\A i \in DOMAIN challenged : i \notin DOMAIN challenged' => challenged[i] = -1]_(Flood!vars)
  BY <1>3 DEF PenaltiesStay
<1> QED
  BY <1>1, <1>3, <1>4, PTL DEF LimitsSpec, PenaltyIsServed, Flood!PenaltyIsServed

\* The sliding window of the basic counter, for any number of addresses and requests,
\* any shard size and any configurations: however checks, fresh starts, cleanup and time
\* interleave, no window holds more counted requests than a limit allows
\* (CheckBasicAccess, filterRecent, IsChallenged, cleanup).
THEOREM TheWindowIsKept ==
    ASSUME Flood!FloodAssumption
    PROVE  LimitsSpec => []WindowNeverExceeded
<1>1. PICK W : ShortestWindow(W) /\ \E c \in Configs : W = c["basic"].window
  <2> DEFINE S == {c["basic"].window : c \in Configs}
  <2>1. \A c \in Configs : c["basic"].window \in 0..Horizon
    BY DEF Flood!FloodAssumption, Flood!Kinds
  <2>2. S \subseteq Nat /\ S # {} /\ S \subseteq 0..Horizon
    BY <2>1 DEF Flood!FloodAssumption
  <2> HIDE DEF S
  <2>3. PICK W \in S : \A x \in S : W <= x
    BY <2>2, Least
  <2> QED
    BY <2>2, <2>3 DEF ShortestWindow, S
<1>2. LimitsInit => FloodInv /\ WindowInv(W)
  BY <1>1, FloodStarts, WindowStarts DEF LimitsInit
<1>3. [LimitsNext]_limitVars => [Flood!Next]_floodVars
  BY DEF LimitsNext, limitVars, floodVars
<1>4. FloodInv /\ WindowInv(W) /\ [LimitsNext]_limitVars => FloodInv' /\ WindowInv(W)'
  BY <1>1, <1>3, FloodStep, WindowStep
<1>5. WindowInv(W) => WindowNeverExceeded
  BY <1>1, HeldIsTheWindow
<1> QED
  BY <1>2, <1>4, <1>5, PTL DEF LimitsSpec

\* The promise of the token bucket, for any number of keys, any shard size and whatever
\* an administrator reconfigures (RateLimiter.Allow, cleanup, evictOldest): over any
\* stretch of time the requests of a key stay within the largest capacity, what the
\* largest rate adds, and what its dropped buckets lacked.
THEOREM TheRateIsKept ==
    ASSUME Bucket!BucketAssumption
    PROVE  LimitsSpec => []RateNeverExceeded
<1>1. PICK C, R : Bounds(C, R)
  BY BoundsExist
<1>2. LimitsInit => BucketInv(C, R)
  BY <1>1, BucketStarts DEF LimitsInit
<1>3. [LimitsNext]_limitVars => [Bucket!Next]_bucketVars
  BY DEF LimitsNext, limitVars, bucketVars
<1>4. BucketInv(C, R) /\ [LimitsNext]_limitVars => BucketInv(C, R)'
  BY <1>1, <1>3, BucketStep
<1>5. BucketInv(C, R) => RateNeverExceeded
  BY <1>1, CoveredIsKept
<1> QED
  BY <1>2, <1>4, <1>5, PTL DEF LimitsSpec
=============================================================================
