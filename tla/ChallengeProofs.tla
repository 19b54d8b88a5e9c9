--------------------------- MODULE ChallengeProofs ---------------------------
(***************************************************************************)
(* Theorems about Challenge, for any number of challenges, addresses and   *)
(* verifications under way.                                                *)
(***************************************************************************)
EXTENDS Challenge, FiniteSetTheorems, TLAPS

-----------------------------------------------------------------------------
(* The inductive invariant *)

Open == [left : Int, attempts : Nat]

\* What the argument needs of the types.
Shapes ==
    /\ challenges \in [DOMAIN challenges -> Open] /\ DOMAIN challenges \subseteq Ids
    /\ earned \in [Ids -> Nat]
    /\ DOMAIN job = Verifiers
    /\ \A v \in Verifiers : job[v] = [pc |-> job[v].pc, id |-> job[v].id, ip |-> job[v].ip, good |-> job[v].good]

\* A verification past the deletion has closed its challenge, and nobody opens one that a
\* verification still refers to.
SolvedIsClosed == \A v \in Verifiers : job[v].pc \in {"record", "answer"} => job[v].id \notin DOMAIN challenges

ChallengeInv == Shapes /\ SolvedIsClosed /\ RedeemedIsClosed /\ ExhaustedIsClosed

-----------------------------------------------------------------------------
(* Steps of a verification *)

\* A verification moves on; the store is as before or lost the challenge it works on, and a
\* verification that was to delete an exhausted challenge has done so.
LEMMA MoveKeeps ==
    ASSUME ChallengeInv, NEW v \in Verifiers, NEW j,
           j = [pc |-> j.pc, id |-> j.id, ip |-> j.ip, good |-> j.good],
           job' = [job EXCEPT ![v] = j],
           \/ challenges' = challenges /\ job[v].pc # "exhaust"
           \/ challenges' = Without(challenges, job[v].id),
           j.pc \in {"record", "answer"} => j.id \notin DOMAIN challenges',
           \/ earned' = earned
           \/ job[v].pc = "answer" /\ earned' = [earned EXCEPT ![job[v].id] = earned[job[v].id] + 1]
    PROVE  ChallengeInv'
<1>1. /\ DOMAIN challenges' \subseteq DOMAIN challenges
      /\ \A i \in DOMAIN challenges' : challenges'[i] = challenges[i]
      /\ challenges' \in [DOMAIN challenges' -> Open]
      /\ job[v].pc = "exhaust" => job[v].id \notin DOMAIN challenges'
  BY DEF ChallengeInv, Shapes, Without
<1>2. \A u \in Verifiers : job'[u] = IF u = v THEN j ELSE job[u]
  BY DEF ChallengeInv, Shapes
<1>3. Shapes'
  BY <1>1, <1>2 DEF ChallengeInv, Shapes
<1>4. SolvedIsClosed'
  BY <1>1, <1>2 DEF ChallengeInv, SolvedIsClosed
<1>5. RedeemedIsClosed'
  BY <1>1 DEF ChallengeInv, Shapes, SolvedIsClosed, RedeemedIsClosed
<1>6. ExhaustedIsClosed'
  <2> SUFFICES ASSUME NEW i \in DOMAIN challenges', challenges'[i].attempts >= MaxRetries
               PROVE  \E u \in Verifiers : job'[u].pc = "exhaust" /\ job'[u].id = i
    BY DEF ExhaustedIsClosed
  <2>1. PICK u \in Verifiers : job[u].pc = "exhaust" /\ job[u].id = i
    BY <1>1 DEF ChallengeInv, ExhaustedIsClosed
  <2>2. u # v
    BY <1>1, <2>1
  <2> QED
    BY <1>2, <2>1, <2>2
<1> QED
  BY <1>3, <1>4, <1>5, <1>6 DEF ChallengeInv

\* IncrementAttempts: the verification that uses the last attempt goes on to delete.
LEMMA CountKeeps ==
    ASSUME ChallengeInv, NEW v \in Verifiers, VerifyCount(v)
    PROVE  ChallengeInv'
<1> DEFINE i == job[v].id
           last == challenges[i].attempts + 1 >= MaxRetries
           j == IF last THEN [job[v] EXCEPT !.pc = "exhaust"] ELSE Idle
<1>1. CASE i \notin DOMAIN challenges
  <2>1. job' = [job EXCEPT ![v] = Idle] /\ challenges' = challenges /\ earned' = earned
    BY <1>1 DEF VerifyCount
  <2>2. /\ Idle = [pc |-> Idle.pc, id |-> Idle.id, ip |-> Idle.ip, good |-> Idle.good]
        /\ Idle.pc \notin {"record", "answer"} /\ job[v].pc # "exhaust"
    BY DEF Idle, VerifyCount
  <2> QED
    BY <2>1, <2>2, MoveKeeps
<1>2. CASE i \in DOMAIN challenges
  <2>1. /\ challenges' = [challenges EXCEPT ![i].attempts = challenges[i].attempts + 1]
        /\ job' = [job EXCEPT ![v] = j] /\ earned' = earned /\ job[v].pc = "count"
    BY <1>2 DEF VerifyCount
  <2>2. challenges[i] \in Open
    BY <1>2 DEF ChallengeInv, Shapes
  <2>3. /\ DOMAIN challenges' = DOMAIN challenges
        /\ challenges' \in [DOMAIN challenges' -> Open]
        /\ \A k \in DOMAIN challenges : k # i => challenges'[k] = challenges[k]
        /\ challenges'[i].attempts = challenges[i].attempts + 1
    BY <1>2, <2>1, <2>2 DEF ChallengeInv, Shapes, Open
  <2>4. /\ j = [pc |-> j.pc, id |-> j.id, ip |-> j.ip, good |-> j.good]
        /\ j.pc \notin {"record", "answer"}
        /\ last => j.pc = "exhaust" /\ j.id = i
    <3> DEFINE whole(x) == x = [pc |-> x.pc, id |-> x.id, ip |-> x.ip, good |-> x.good]
               on == [job[v] EXCEPT !.pc = "exhaust"]
    <3>1. whole(Idle) /\ Idle.pc = "idle"
      BY DEF Idle
    <3>2. whole(job[v])
      BY DEF ChallengeInv, Shapes
    <3>3. whole(on) /\ on.pc = "exhaust" /\ on.id = i
      BY <3>2
    <3>4. (last /\ j = on) \/ (~last /\ j = Idle)
      OBVIOUS
    <3> HIDE DEF on, last, j, i
    <3> QED
      BY <3>1, <3>3, <3>4
  <2> HIDE DEF j
  <2>5. \A u \in Verifiers : job'[u] = IF u = v THEN j ELSE job[u]
    BY <2>1 DEF ChallengeInv, Shapes
  <2>6. Shapes'
    BY <2>1, <2>3, <2>4, <2>5 DEF ChallengeInv, Shapes
  <2>7. SolvedIsClosed' /\ RedeemedIsClosed'
    BY <2>1, <2>3, <2>4, <2>5 DEF ChallengeInv, SolvedIsClosed, RedeemedIsClosed
  <2>8. ExhaustedIsClosed'
    <3> SUFFICES ASSUME NEW k \in DOMAIN challenges', challenges'[k].attempts >= MaxRetries
                 PROVE  \E u \in Verifiers : job'[u].pc = "exhaust" /\ job'[u].id = k
      BY DEF ExhaustedIsClosed
    <3>1. CASE k = i
      BY <2>3, <2>4, <2>5, <3>1
    <3>2. CASE k # i
      <4>1. PICK u \in Verifiers : job[u].pc = "exhaust" /\ job[u].id = k
        BY <2>3, <3>2 DEF ChallengeInv, ExhaustedIsClosed
      <4> QED
        BY <2>1, <2>5, <4>1
    <3> QED
      BY <3>1, <3>2
  <2> QED
    BY <2>6, <2>7, <2>8 DEF ChallengeInv
<1> QED
  BY <1>1, <1>2

\* The other steps of handleWAFVerify.
LEMMA VerifyKeeps ==
    ASSUME ChallengeInv, NEW v \in Verifiers, Verify(v)
    PROVE  ChallengeInv'
<1> DEFINE whole(j) == j = [pc |-> j.pc, id |-> j.id, ip |-> j.ip, good |-> j.good]
<1>1. whole(job[v]) /\ whole(Idle) /\ Idle.pc = "idle"
  BY DEF ChallengeInv, Shapes, Idle
<1>2. CASE VerifyLimit(v)
  <2>1. PICK j : /\ job' = [job EXCEPT ![v] = j] /\ whole(j) /\ j.pc \notin {"record", "answer"}
    <3> DEFINE to == IF job[v].good THEN "delete" ELSE "count"
               on == [job[v] EXCEPT !.pc = to]
    <3>1. job' = [job EXCEPT ![v] = Idle] \/ job' = [job EXCEPT ![v] = on]
      BY <1>2 DEF VerifyLimit
    <3>2. whole(on) /\ on.pc \notin {"record", "answer"}
      BY <1>1
    <3> HIDE DEF on
    <3> QED
      BY <1>1, <3>1, <3>2
  <2>2. challenges' = challenges /\ earned' = earned /\ job[v].pc # "exhaust"
    BY <1>2 DEF VerifyLimit
  <2> QED
    BY <2>1, <2>2, MoveKeeps
<1>3. CASE VerifyCount(v)
  BY <1>3, CountKeeps
<1>4. CASE VerifyExhaust(v)
  <2>1. /\ job' = [job EXCEPT ![v] = Idle] /\ challenges' = Without(challenges, job[v].id)
        /\ earned' = earned
    BY <1>4 DEF VerifyExhaust
  <2> QED
    BY <1>1, <2>1, MoveKeeps
<1>5. CASE VerifyDelete(v)
  <2> DEFINE j == [job[v] EXCEPT !.pc = "record"]
  <2>1. /\ job' = [job EXCEPT ![v] = j] /\ challenges' = Without(challenges, job[v].id)
        /\ earned' = earned
    BY <1>5 DEF VerifyDelete
  <2>2. whole(j) /\ j.id = job[v].id
    BY <1>1
  <2>3. job[v].id \notin DOMAIN challenges'
    BY <2>1 DEF Without
  <2> HIDE DEF j
  <2> QED
    BY <2>1, <2>2, <2>3, MoveKeeps
<1>6. CASE RecordSolve(v)
  <2> DEFINE j == [job[v] EXCEPT !.pc = "answer"]
  <2>1. /\ job' = [job EXCEPT ![v] = j] /\ challenges' = challenges /\ earned' = earned
        /\ job[v].pc = "record"
    BY <1>6 DEF RecordSolve
  <2>2. whole(j) /\ j.id = job[v].id
    BY <1>1
  <2>3. job[v].id \notin DOMAIN challenges'
    BY <2>1 DEF ChallengeInv, SolvedIsClosed
  <2> HIDE DEF j
  <2> QED
    BY <2>1, <2>2, <2>3, MoveKeeps
<1>7. ASSUME NEW agent \in Agents, NEW found \in Movements, NEW lacks \in Behaviours, VerifyAnswer(v, agent, found, lacks)
      PROVE  ChallengeInv'
  <2>1. /\ job' = [job EXCEPT ![v] = Idle] /\ challenges' = challenges
        /\ job[v].pc = "answer" /\ earned' = [earned EXCEPT ![job[v].id] = earned[job[v].id] + 1]
    BY <1>7 DEF VerifyAnswer
  <2> QED
    BY <1>1, <2>1, MoveKeeps
<1> QED
  BY <1>2, <1>3, <1>4, <1>5, <1>6, <1>7 DEF Verify

\* A verification begins.
LEMMA LookupKeeps ==
    ASSUME ChallengeInv, NEW v \in Verifiers, NEW i, NEW p, NEW good, VerifyLookup(v, i, p, good)
    PROVE  ChallengeInv'
<1> DEFINE j == [pc |-> "limit", id |-> i, ip |-> p, good |-> good]
<1>1. /\ job' = [job EXCEPT ![v] = j] /\ challenges' = challenges /\ earned' = earned
      /\ job[v].pc # "exhaust"
  BY DEF VerifyLookup
<1>2. j = [pc |-> j.pc, id |-> j.id, ip |-> j.ip, good |-> j.good] /\ j.pc = "limit"
  OBVIOUS
<1> HIDE DEF j
<1> QED
  BY <1>1, <1>2, MoveKeeps

-----------------------------------------------------------------------------
(* The store *)

\* A new challenge has an identifier nobody refers to, and no attempt used.
LEMMA CreateKeeps ==
    ASSUME ChallengeInv, NEW i \in Ids, Create(i)
    PROVE  ChallengeInv'
<1> DEFINE new == [left |-> TTL, attempts |-> 0]
<1>1. PICK kept \in SUBSET DOMAIN challenges :
        challenges' = With([k \in kept |-> challenges[k]], i, new)
  BY DEF Create
<1>2. job' = job /\ earned' = [earned EXCEPT ![i] = 0] /\ \A v \in Verifiers : job[v].id # i
  BY DEF Create, FreshId
<1>3. new \in Open /\ ~(new.attempts >= MaxRetries)
  BY ChallengeAssumption DEF Open
<1> HIDE DEF new
<1>4. /\ DOMAIN challenges' = kept \cup {i} /\ challenges'[i] = new
      /\ \A k \in kept : k # i => challenges'[k] = challenges[k]
      /\ challenges' \in [DOMAIN challenges' -> Open]
  BY <1>1, <1>3 DEF With, ChallengeInv, Shapes
<1>5. Shapes'
  BY <1>2, <1>4 DEF ChallengeInv, Shapes
<1>6. SolvedIsClosed' /\ RedeemedIsClosed'
  BY <1>2, <1>4 DEF Shapes, ChallengeInv, SolvedIsClosed, RedeemedIsClosed
<1>7. ExhaustedIsClosed'
  BY <1>2, <1>3, <1>4 DEF ChallengeInv, ExhaustedIsClosed
<1> QED
  BY <1>5, <1>6, <1>7 DEF ChallengeInv

\* Cleanup and time drop challenges or shorten their time, and touch no attempt.
LEMMA TimeKeeps ==
    ASSUME ChallengeInv, cleanup \/ Tick
    PROVE  ChallengeInv'
<1>1. job' = job /\ earned' = earned
  BY DEF cleanup, Tick
<1>2. /\ DOMAIN challenges' \subseteq DOMAIN challenges
      /\ \A i \in DOMAIN challenges' : challenges'[i].attempts = challenges[i].attempts
      /\ challenges' \in [DOMAIN challenges' -> Open]
  <2>1. \A i \in DOMAIN challenges : challenges[i] \in Open
    BY DEF ChallengeInv, Shapes
  <2>2. CASE cleanup
    BY <2>1, <2>2 DEF cleanup, Expired
  <2>3. CASE Tick
    <3> DEFINE old(i) == [challenges[i] EXCEPT !.left = IF Expired(challenges[i].left) THEN challenges[i].left
                                                        ELSE challenges[i].left - 1]
    <3>1. \A i \in DOMAIN challenges : old(i) \in Open /\ old(i).attempts = challenges[i].attempts
      BY <2>1 DEF Open
    <3>2. challenges' = [i \in DOMAIN challenges |-> old(i)]
      BY <2>3 DEF Tick
    <3> HIDE DEF old
    <3> QED
      BY <3>1, <3>2
  <2> QED
    BY <2>2, <2>3
<1>3. Shapes'
  BY <1>1, <1>2 DEF ChallengeInv, Shapes
<1>4. SolvedIsClosed' /\ RedeemedIsClosed' /\ ExhaustedIsClosed'
  BY <1>1, <1>2 DEF ChallengeInv, SolvedIsClosed, RedeemedIsClosed, ExhaustedIsClosed
<1> QED
  BY <1>3, <1>4 DEF ChallengeInv

-----------------------------------------------------------------------------
(* The theorems *)

\* Nothing is open at the start.
LEMMA InitKeeps == Init => ChallengeInv
  BY DEF Init, Idle, ChallengeInv, Shapes, SolvedIsClosed, RedeemedIsClosed, ExhaustedIsClosed

\* Every step keeps the invariant.
LEMMA StepKeeps == ChallengeInv /\ [Next]_vars => ChallengeInv'
<1> SUFFICES ASSUME ChallengeInv, [Next]_vars PROVE ChallengeInv'
  OBVIOUS
<1>1. CASE Next
  BY <1>1, CreateKeeps, LookupKeeps, VerifyKeeps, TimeKeeps DEF Next
<1>2. CASE UNCHANGED vars
  BY <1>2 DEF vars, ChallengeInv, Shapes, SolvedIsClosed, RedeemedIsClosed, ExhaustedIsClosed
<1> QED
  BY <1>1, <1>2

\* The inductive invariant: a verification past the deletion has closed its challenge.
THEOREM ChallengeInvariant == Spec => []ChallengeInv
<1> QED
  BY InitKeeps, StepKeeps, PTL DEF Spec

\* A challenge that earned a cookie is never open again, whatever wrong answers to it are
\* still being counted (handleWAFVerify, Store.IncrementAttempts).
THEOREM RedeemedChallengesAreClosed == Spec => []RedeemedIsClosed
<1>1. ChallengeInv => RedeemedIsClosed
  BY DEF ChallengeInv
<1> QED
  BY <1>1, ChallengeInvariant, PTL

\* A challenge with all its attempts used is gone or about to be deleted, with any number
\* of verifications between the count and the deletion.
THEOREM ExhaustedChallengesAreClosed == Spec => []ExhaustedIsClosed
<1>1. ChallengeInv => ExhaustedIsClosed
  BY DEF ChallengeInv
<1> QED
  BY <1>1, ChallengeInvariant, PTL

-----------------------------------------------------------------------------
(* The limit on solves *)

\* Verifications of an address that passed the limit and have not been counted.
Passing(p) == {v \in Verifiers : job[v].ip = p /\ job[v].pc \in {"delete", "record"}}

\* Each record counts at least one solve, and each verification is a whole record.
SolveShapes ==
    /\ DOMAIN job = Verifiers
    /\ \A v \in Verifiers : job[v] = [pc |-> job[v].pc, id |-> job[v].id, ip |-> job[v].ip, good |-> job[v].good]
    /\ \A p \in DOMAIN solves : solves[p] \in [n : Nat, age : Int]

SolveInv == SolveShapes /\ SolvesNearlyLimited

\* Subsets of the verifiers are counted, and no set of them is larger than all.
LEMMA PassingIsCounted ==
    ASSUME NEW S, S \subseteq Verifiers
    PROVE  /\ IsFiniteSet(S) /\ Cardinality(S) \in Nat /\ Cardinality(Verifiers) \in Nat
           /\ Cardinality(S) <= Cardinality(Verifiers)
BY ChallengeAssumption, FS_Subset, FS_CardinalityType

\* A step that lets nobody more through for an address (a set of those that pass becomes
\* smaller) and counts no solve of it keeps its share of the bound.
LEMMA FewerPassing ==
    ASSUME NEW S, NEW T, T \subseteq Verifiers, S \subseteq T, NEW n \in Nat, NEW m \in Nat,
           m + Cardinality(T) <= SolveMax - 1 + Cardinality(Verifiers), n <= m
    PROVE  n + Cardinality(S) <= SolveMax - 1 + Cardinality(Verifiers)
<1>1. Cardinality(S) \in Nat /\ Cardinality(T) \in Nat /\ Cardinality(S) <= Cardinality(T)
      /\ Cardinality(Verifiers) \in Nat
  BY PassingIsCounted, FS_Subset
<1> QED
  BY <1>1, ChallengeAssumption

\* What the limit lets through is at most everybody (VerifyLimit).
LEMMA AllPassing ==
    ASSUME NEW S, S \subseteq Verifiers, NEW n \in Nat, n < SolveMax
    PROVE  n + Cardinality(S) <= SolveMax - 1 + Cardinality(Verifiers)
BY PassingIsCounted, ChallengeAssumption

\* A verification that is counted passes no more (RecordSolve).
LEMMA CountedPassing ==
    ASSUME NEW S, S \subseteq Verifiers, NEW v \in S
    PROVE  /\ Cardinality(S \ {v}) = Cardinality(S) - 1
           /\ Cardinality(S) <= Cardinality(Verifiers)
BY PassingIsCounted, FS_RemoveElement

\* A step that leaves the solves alone and lets no verification through.
LEMMA SolvesUntouched ==
    ASSUME SolveInv, SolveShapes', UNCHANGED solves,
           \A v \in Verifiers : job'[v].pc \in {"delete", "record"} =>
                job[v].pc \in {"delete", "record"} /\ job[v].ip = job'[v].ip
    PROVE  SolveInv'
<1> SUFFICES ASSUME NEW p \in DOMAIN solves'
             PROVE  solves'[p].n + Cardinality(Passing(p)') <= SolveMax - 1 + Cardinality(Verifiers)
  BY DEF SolveInv, SolvesNearlyLimited, Passing
<1>1. Passing(p)' \subseteq Passing(p) /\ Passing(p) \subseteq Verifiers
  BY DEF Passing
<1>2. solves[p].n + Cardinality(Passing(p)) <= SolveMax - 1 + Cardinality(Verifiers)
  BY DEF SolveInv, SolvesNearlyLimited, Passing
<1>3. solves[p].n \in Nat /\ solves'[p].n = solves[p].n
  BY DEF SolveInv, SolveShapes
<1> QED
  BY <1>1, <1>2, <1>3, FewerPassing

\* A verification moves on by one step that changes its own record only.
LEMMA OneMoves ==
    ASSUME SolveShapes, NEW v \in Verifiers, NEW j,
           j = [pc |-> j.pc, id |-> j.id, ip |-> j.ip, good |-> j.good],
           job' = [job EXCEPT ![v] = j],
           \A p \in DOMAIN solves' : solves'[p] \in [n : Nat, age : Int]
    PROVE  SolveShapes' /\ \A u \in Verifiers : job'[u] = IF u = v THEN j ELSE job[u]
BY DEF SolveShapes

\* IsSolveRateLimited: whoever passes finds fewer solves than the limit, or no record.
LEMMA LimitKeepsSolves ==
    ASSUME SolveInv, NEW v \in Verifiers, VerifyLimit(v)
    PROVE  SolveInv'
<1> DEFINE q == job[v].ip
           to == IF job[v].good THEN "delete" ELSE "count"
           on == [job[v] EXCEPT !.pc = to]
           stops == q \in DOMAIN solves' /\ solves'[q].n >= SolveMax
           j == IF stops THEN Idle ELSE on
<1>1. /\ DOMAIN solves' \subseteq DOMAIN solves
      /\ \A p \in DOMAIN solves' : solves'[p] = solves[p]
  BY DEF VerifyLimit, Without
<1>2. job' = [job EXCEPT ![v] = j]
  BY DEF VerifyLimit
<1>3. /\ on = [pc |-> on.pc, id |-> on.id, ip |-> on.ip, good |-> on.good] /\ on.ip = q
      /\ Idle = [pc |-> Idle.pc, id |-> Idle.id, ip |-> Idle.ip, good |-> Idle.good] /\ Idle.pc = "idle"
  BY DEF SolveInv, SolveShapes, Idle
<1>4. (stops /\ j = Idle) \/ (~stops /\ j = on)
  OBVIOUS
<1> HIDE DEF on, stops, j
<1>5. j = [pc |-> j.pc, id |-> j.id, ip |-> j.ip, good |-> j.good]
  BY <1>3, <1>4
<1>6. SolveShapes' /\ \A u \in Verifiers : job'[u] = IF u = v THEN j ELSE job[u]
  BY <1>1, <1>2, <1>5, OneMoves DEF SolveInv, SolveShapes
<1>7. ASSUME NEW p \in DOMAIN solves'
      PROVE  solves'[p].n + Cardinality(Passing(p)') <= SolveMax - 1 + Cardinality(Verifiers)
  <2>1. /\ Passing(p)' \subseteq Verifiers /\ Passing(p) \subseteq Verifiers
        /\ solves'[p].n \in Nat /\ solves'[p] = solves[p] /\ p \in DOMAIN solves
    BY <1>1 DEF Passing, SolveInv, SolveShapes
  <2>2. CASE p = q /\ ~stops
    <3>1. solves'[p].n < SolveMax
      BY <2>1, <2>2, ChallengeAssumption DEF stops
    <3> QED
      BY <2>1, <3>1, AllPassing
  <2>3. CASE p # q \/ stops
    <3>1. Passing(p)' \subseteq Passing(p)
      BY <1>3, <1>4, <1>6, <2>3 DEF Passing
    <3>2. solves[p].n + Cardinality(Passing(p)) <= SolveMax - 1 + Cardinality(Verifiers)
      BY <2>1 DEF SolveInv, SolvesNearlyLimited, Passing
    <3> QED
      BY <2>1, <3>1, <3>2, FewerPassing
  <2> QED
    BY <2>2, <2>3
<1> QED
  BY <1>6, <1>7 DEF SolveInv, SolvesNearlyLimited, Passing

\* RecordSolve: the solve moves from those that pass to those that are counted.
LEMMA RecordKeepsSolves ==
    ASSUME SolveInv, NEW v \in Verifiers, RecordSolve(v)
    PROVE  SolveInv'
<1> DEFINE q == job[v].ip
           j == [job[v] EXCEPT !.pc = "answer"]
           N == Cardinality(Verifiers)
<1>1. job' = [job EXCEPT ![v] = j] /\ job[v].pc = "record"
  BY DEF RecordSolve
<1>2. j = [pc |-> j.pc, id |-> j.id, ip |-> j.ip, good |-> j.good] /\ j.pc = "answer"
  BY DEF SolveInv, SolveShapes
<1> HIDE DEF j
<1>3. /\ DOMAIN solves' = DOMAIN solves \cup {q}
      /\ \A p \in DOMAIN solves : p # q => solves'[p] = solves[p]
      /\ \/ solves'[q] = [n |-> 1, age |-> 0]
         \/ q \in DOMAIN solves /\ solves'[q] = [solves[q] EXCEPT !.n = @ + 1]
  BY DEF RecordSolve, With
<1>4. \A p \in DOMAIN solves' : solves'[p] \in [n : Nat, age : Int]
  BY <1>3 DEF SolveInv, SolveShapes
<1>5. SolveShapes' /\ \A u \in Verifiers : job'[u] = IF u = v THEN j ELSE job[u]
  BY <1>1, <1>2, <1>4, OneMoves DEF SolveInv
<1>6. ASSUME NEW p \in DOMAIN solves'
      PROVE  solves'[p].n + Cardinality(Passing(p)') <= SolveMax - 1 + N
  <2>1. Passing(p)' = Passing(p) \ {v} /\ Passing(p) \subseteq Verifiers
    BY <1>2, <1>5 DEF Passing
  <2>2. CASE p # q
    <3>1. /\ p \in DOMAIN solves /\ solves'[p] = solves[p] /\ solves[p].n \in Nat
          /\ solves[p].n + Cardinality(Passing(p)) <= SolveMax - 1 + N
      BY <1>3, <2>2 DEF SolveInv, SolveShapes, SolvesNearlyLimited, Passing
    <3> HIDE DEF N
    <3> QED
      BY <2>1, <3>1, FewerPassing DEF N
  <2>3. CASE p = q
    <3>1. v \in Passing(p)
      BY <1>1, <2>3 DEF Passing
    <3>2. /\ Cardinality(Passing(p)') = Cardinality(Passing(p)) - 1
          /\ Cardinality(Passing(p)) <= N /\ Cardinality(Passing(p)) \in Nat /\ N \in Nat
      BY <2>1, <3>1, CountedPassing, PassingIsCounted
    <3>3. CASE solves'[q] = [n |-> 1, age |-> 0]
      BY <2>3, <3>2, <3>3, ChallengeAssumption
    <3>4. CASE q \in DOMAIN solves /\ solves'[q] = [solves[q] EXCEPT !.n = @ + 1]
      <4>1. solves[q] \in [n : Nat, age : Int] /\ solves[q].n + Cardinality(Passing(q)) <= SolveMax - 1 + N
        BY <3>4 DEF SolveInv, SolveShapes, SolvesNearlyLimited, Passing
      <4>2. solves'[q].n = solves[q].n + 1
        BY <3>4, <4>1
      <4> QED
        BY <2>3, <3>2, <4>1, <4>2, ChallengeAssumption
    <3> QED
      BY <1>3, <3>3, <3>4
  <2> QED
    BY <2>2, <2>3
<1> QED
  BY <1>5, <1>6 DEF SolveInv, SolvesNearlyLimited, Passing

\* The other steps of a verification count no solve and let nobody through.
LEMMA OthersKeepSolves ==
    ASSUME SolveInv, NEW v \in Verifiers,
           \/ VerifyCount(v) \/ VerifyExhaust(v) \/ VerifyDelete(v)
           \/ \E i, p, good : VerifyLookup(v, i, p, good)
           \/ \E agent, found, lacks : VerifyAnswer(v, agent, found, lacks)
    PROVE  SolveInv'
<1> DEFINE whole(x) == x = [pc |-> x.pc, id |-> x.id, ip |-> x.ip, good |-> x.good]
           exhaust == [job[v] EXCEPT !.pc = "exhaust"]
           record == [job[v] EXCEPT !.pc = "record"]
           new(i, p, good) == [pc |-> "limit", id |-> i, ip |-> p, good |-> good]
<1>1. whole(Idle) /\ Idle.pc = "idle"
  BY DEF Idle
<1>2. whole(job[v])
  BY DEF SolveInv, SolveShapes
<1>3. /\ whole(exhaust) /\ exhaust.pc = "exhaust"
      /\ whole(record) /\ record.pc = "record" /\ record.ip = job[v].ip
  BY <1>2
<1>4. \A i, p, good : whole(new(i, p, good)) /\ new(i, p, good).pc = "limit"
  OBVIOUS
<1>5. solves' = solves
  BY DEF VerifyCount, VerifyExhaust, VerifyDelete, VerifyLookup, VerifyAnswer
<1>6. \/ job' = [job EXCEPT ![v] = Idle]
      \/ job' = [job EXCEPT ![v] = exhaust]
      \/ job' = [job EXCEPT ![v] = record] /\ job[v].pc = "delete"
      \/ \E i, p, good : job' = [job EXCEPT ![v] = new(i, p, good)]
  BY DEF VerifyCount, VerifyExhaust, VerifyDelete, VerifyLookup, VerifyAnswer
<1> HIDE DEF exhaust, record, new
<1>7. PICK j : /\ job' = [job EXCEPT ![v] = j] /\ whole(j)
               /\ j.pc \in {"delete", "record"} => job[v].pc = "delete" /\ j.ip = job[v].ip
  BY <1>1, <1>3, <1>4, <1>6
<1>8. SolveShapes' /\ \A u \in Verifiers : job'[u] = IF u = v THEN j ELSE job[u]
  BY <1>5, <1>7, OneMoves DEF SolveInv, SolveShapes
<1> QED
  BY <1>5, <1>7, <1>8, SolvesUntouched

\* Every step keeps the bound on solves.
LEMMA StepKeepsSolves ==
    ASSUME SolveInv, [Next]_vars
    PROVE  SolveInv'
<1>1. ASSUME NEW i \in Ids, Create(i)
      PROVE  SolveInv'
  BY <1>1, SolvesUntouched DEF Create, SolveInv, SolveShapes
<1>2. ASSUME NEW v \in Verifiers, NEW i \in Ids, NEW p \in IPs, NEW good \in BOOLEAN,
             VerifyLookup(v, i, p, good)
      PROVE  SolveInv'
  BY <1>2, OthersKeepSolves
<1>3. ASSUME NEW v \in Verifiers, Verify(v)
      PROVE  SolveInv'
  BY <1>3, LimitKeepsSolves, RecordKeepsSolves, OthersKeepSolves DEF Verify
<1>4. CASE cleanup \/ Tick
  <2>1. /\ DOMAIN solves' \subseteq DOMAIN solves /\ job' = job
        /\ \A p \in DOMAIN solves' : solves'[p] \in [n : Nat, age : Int] /\ solves'[p].n = solves[p].n
    <3>1. CASE cleanup
      BY <3>1 DEF cleanup, SolveInv, SolveShapes
    <3>2. CASE Tick
      <4> DEFINE old(p) == [solves[p] EXCEPT !.age = IF solves[p].age > SolveWindow THEN solves[p].age
                                                     ELSE solves[p].age + 1]
      <4>1. \A p \in DOMAIN solves : old(p) \in [n : Nat, age : Int] /\ old(p).n = solves[p].n
        BY DEF SolveInv, SolveShapes
      <4>2. solves' = [p \in DOMAIN solves |-> old(p)] /\ job' = job
        BY <3>2 DEF Tick
      <4> HIDE DEF old
      <4> QED
        BY <4>1, <4>2
    <3> QED
      BY <1>4, <3>1, <3>2
  <2> QED
    BY <2>1 DEF SolveInv, SolveShapes, SolvesNearlyLimited
<1>5. CASE UNCHANGED vars
  BY <1>5 DEF vars, SolveInv, SolveShapes, SolvesNearlyLimited
<1> QED
  BY <1>1, <1>2, <1>3, <1>4, <1>5 DEF Next

\* However many verifications pass the limit together (IsSolveRateLimited) before their
\* solves are counted (RecordSolve), they exceed it by less than their number.
THEOREM SolvesAreNearlyLimited == Spec => []SolvesNearlyLimited
<1>1. Init => SolveInv
  BY DEF Init, Idle, SolveInv, SolveShapes, SolvesNearlyLimited
<1>2. SolveInv /\ [Next]_vars => SolveInv'
  BY StepKeepsSolves
<1>3. SolveInv => SolvesNearlyLimited
  BY DEF SolveInv
<1> QED
  BY <1>1, <1>2, <1>3, PTL DEF Spec

-----------------------------------------------------------------------------
(* The cookies a challenge earns *)

\* The verifications under way of a challenge.
Working(i) == {v \in Verifiers : job[v].id = i /\ job[v].pc # "idle"}

\* The verifications of an address whose cookie is still to be signed.
Answering(p) == {v \in Verifiers : job[v].ip = p /\ job[v].pc = "answer"}

\* A smaller share of the verifiers on a smaller count stays below the same bound.
LEMMA FewerCounted ==
    ASSUME NEW S, NEW T, T \subseteq Verifiers, S \subseteq T, NEW n \in Nat, NEW m \in Nat, n <= m,
           NEW B \in Int, m + Cardinality(T) <= B
    PROVE  n + Cardinality(S) <= B
<1>1. Cardinality(S) \in Nat /\ Cardinality(T) \in Nat /\ Cardinality(S) <= Cardinality(T)
  BY PassingIsCounted, FS_Subset
<1> QED
  BY <1>1

\* What a step of handleWAFVerify does to the verification: it ends, or goes on with the
\* same challenge and address, and only a solve that was recorded is answered next.
LEMMA VerifyMoves ==
    ASSUME Shapes, NEW v \in Verifiers, Verify(v)
    PROVE  \E j : /\ \A u \in Verifiers : job'[u] = IF u = v THEN j ELSE job[u]
                  /\ j.pc = "idle" \/ (j.id = job[v].id /\ j.ip = job[v].ip /\ job[v].pc # "idle")
                  /\ j.pc = "answer" => job[v].pc = "record"
<1> DEFINE goes(pc) == [job[v] EXCEPT !.pc = pc]
<1>1. Idle.pc = "idle"
  BY DEF Idle
<1>2. \A pc : goes(pc).pc = pc /\ goes(pc).id = job[v].id /\ goes(pc).ip = job[v].ip
  BY DEF Shapes
<1>3. \/ job' = [job EXCEPT ![v] = Idle]
      \/ \E pc \in {"delete", "count", "exhaust", "record"} : job' = [job EXCEPT ![v] = goes(pc)]
      \/ job' = [job EXCEPT ![v] = goes("answer")] /\ job[v].pc = "record"
  <2>1. CASE VerifyLimit(v)
    BY <2>1 DEF VerifyLimit
  <2>2. CASE VerifyCount(v)
    BY <2>2 DEF VerifyCount
  <2>3. CASE VerifyExhaust(v)
    BY <2>3 DEF VerifyExhaust
  <2>4. CASE VerifyDelete(v)
    BY <2>4 DEF VerifyDelete
  <2>5. CASE RecordSolve(v)
    BY <2>5 DEF RecordSolve
  <2>6. CASE \E agent \in Agents, found \in Movements, lacks \in Behaviours : VerifyAnswer(v, agent, found, lacks)
    BY <2>6 DEF VerifyAnswer
  <2> QED
    BY <2>1, <2>2, <2>3, <2>4, <2>5, <2>6 DEF Verify
<1>4. job[v].pc # "idle"
  BY DEF Verify, VerifyLimit, VerifyCount, VerifyExhaust, VerifyDelete, RecordSolve, VerifyAnswer
<1> HIDE DEF goes
<1>5. PICK j : /\ job' = [job EXCEPT ![v] = j]
               /\ j.pc = "idle" \/ (j.id = job[v].id /\ j.ip = job[v].ip)
               /\ j.pc = "answer" => job[v].pc = "record"
  BY <1>1, <1>2, <1>3
<1>6. \A u \in Verifiers : job'[u] = IF u = v THEN j ELSE job[u]
  BY <1>5 DEF Shapes
<1> QED
  BY <1>4, <1>5, <1>6

\* What a step does to the cookies of a challenge and to the verifications of it: neither
\* grows, or the challenge is open, or a cookie is signed by one of them, or it is new.
LEMMA EarnedSteps ==
    ASSUME Shapes, [Next]_vars, NEW i \in Ids
    PROVE  \/ earned'[i] = earned[i] /\ Working(i)' \subseteq Working(i)
           \/ earned'[i] = earned[i] /\ i \in DOMAIN challenges
           \/ \E v \in Working(i) : earned'[i] = earned[i] + 1 /\ Working(i)' = Working(i) \ {v}
           \/ earned'[i] = 0
<1>1. ASSUME NEW k \in Ids, Create(k)
      PROVE  (earned'[i] = earned[i] /\ Working(i)' \subseteq Working(i)) \/ earned'[i] = 0
  BY <1>1 DEF Create, Working, Shapes
<1>2. ASSUME NEW v \in Verifiers, NEW k \in Ids, NEW p \in IPs, NEW good \in BOOLEAN, VerifyLookup(v, k, p, good)
      PROVE  \/ earned'[i] = earned[i] /\ Working(i)' \subseteq Working(i)
             \/ earned'[i] = earned[i] /\ i \in DOMAIN challenges
  <2>1. CASE i = k
    BY <1>2, <2>1 DEF VerifyLookup
  <2>2. CASE i # k
    <3>1. \A u \in Verifiers : job'[u] = IF u = v THEN [pc |-> "limit", id |-> k, ip |-> p, good |-> good] ELSE job[u]
      BY <1>2 DEF VerifyLookup, Shapes
    <3>2. earned' = earned
      BY <1>2 DEF VerifyLookup
    <3> QED
      BY <2>2, <3>1, <3>2 DEF Working
  <2> QED
    BY <2>1, <2>2
<1>3. ASSUME NEW v \in Verifiers, Verify(v)
      PROVE  \/ earned'[i] = earned[i] /\ Working(i)' \subseteq Working(i)
             \/ \E u \in Working(i) : earned'[i] = earned[i] + 1 /\ Working(i)' = Working(i) \ {u}
  <2>1. PICK j : /\ \A u \in Verifiers : job'[u] = IF u = v THEN j ELSE job[u]
                 /\ j.pc = "idle" \/ (j.id = job[v].id /\ j.ip = job[v].ip /\ job[v].pc # "idle")
    BY <1>3, VerifyMoves
  <2>2. Working(i)' \subseteq Working(i)
    BY <2>1 DEF Working
  <2>3. CASE earned' = earned
    BY <2>2, <2>3
  <2>4. CASE \E agent \in Agents, found \in Movements, lacks \in Behaviours : VerifyAnswer(v, agent, found, lacks)
    <3>1. /\ earned' = [earned EXCEPT ![job[v].id] = earned[job[v].id] + 1]
          /\ job' = [job EXCEPT ![v] = Idle] /\ job[v].pc = "answer"
      BY <2>4 DEF VerifyAnswer
    <3>2. CASE job[v].id # i
      BY <2>2, <3>1, <3>2 DEF Shapes
    <3>3. CASE job[v].id = i
      <4>1. earned'[i] = earned[i] + 1 /\ v \in Working(i)
        BY <3>1, <3>3 DEF Shapes, Working
      <4>2. \A u \in Verifiers : job'[u] = IF u = v THEN Idle ELSE job[u]
        BY <3>1 DEF Shapes
      <4>3. Working(i)' = Working(i) \ {v}
        BY <4>2 DEF Working, Idle
      <4> QED
        BY <4>1, <4>3
    <3> QED
      BY <3>2, <3>3
  <2>5. earned' = earned \/ \E agent \in Agents, found \in Movements, lacks \in Behaviours : VerifyAnswer(v, agent, found, lacks)
    BY <1>3 DEF Verify, VerifyLimit, VerifyCount, VerifyExhaust, VerifyDelete, RecordSolve
  <2> QED
    BY <2>3, <2>4, <2>5
<1>4. CASE cleanup \/ Tick \/ UNCHANGED vars
  BY <1>4 DEF cleanup, Tick, vars, Working
<1> QED
  BY <1>1, <1>2, <1>3, <1>4 DEF Next

\* Every step keeps it: a challenge nobody has redeemed may get a verification more, one
\* that has earned a cookie is closed, and each cookie costs a verification.
LEMMA StepKeepsEarned ==
    ASSUME ChallengeInv, EarnedOncePerVerifier, [Next]_vars
    PROVE  EarnedOncePerVerifier'
<1> DEFINE N == Cardinality(Verifiers)
<1> SUFFICES ASSUME NEW i \in Ids
             PROVE  earned'[i] + Cardinality(Working(i)') <= N
  BY DEF EarnedOncePerVerifier, Working
<1>1. /\ Working(i) \subseteq Verifiers /\ Working(i)' \subseteq Verifiers
      /\ earned[i] \in Nat /\ earned[i] + Cardinality(Working(i)) <= N
  BY DEF Working, ChallengeInv, Shapes, EarnedOncePerVerifier
<1>2. /\ Cardinality(Working(i)) \in Nat /\ Cardinality(Working(i)') \in Nat /\ N \in Nat
      /\ Cardinality(Working(i)') <= N
  BY <1>1, PassingIsCounted
<1> HIDE DEF N
<1>3. CASE earned'[i] = earned[i] /\ Working(i)' \subseteq Working(i)
  BY <1>1, <1>2, <1>3, FewerCounted
<1>4. CASE earned'[i] = earned[i] /\ i \in DOMAIN challenges
  BY <1>2, <1>4 DEF ChallengeInv, RedeemedIsClosed
<1>5. CASE \E v \in Working(i) : earned'[i] = earned[i] + 1 /\ Working(i)' = Working(i) \ {v}
  BY <1>1, <1>2, <1>5, CountedPassing
<1>6. CASE earned'[i] = 0
  BY <1>2, <1>6
<1> QED
  BY <1>3, <1>4, <1>5, <1>6, EarnedSteps DEF ChallengeInv

-----------------------------------------------------------------------------
(* The cookies of an address *)

N == Cardinality(Verifiers)

\* How many cookies the solves counted for an address allow it: those that were to be
\* answered when its record began were counted in an earlier one.
Allowed(p) == IF p \in DOMAIN solves THEN solves[p].n + N - 1 ELSE SolveMax + 2 * (N - 1)

IssuedShapes ==
    /\ issued \in [IPs -> Nat]
    /\ \A v \in Verifiers : job[v].pc # "idle" => job[v].ip \in IPs

IssuedInv == IssuedShapes /\ \A p \in IPs : issued[p] + Cardinality(Answering(p)) <= Allowed(p)

\* No record allows more than the bound, since none counts more solves than the limit and
\* the goroutines (SolvesNearlyLimited).
LEMMA AllowedIsBounded ==
    ASSUME SolveInv, NEW p
    PROVE  N \in Nat \ {0} /\ Allowed(p) \in Int /\ Allowed(p) <= SolveMax + 2 * (N - 1)
<1>1. N \in Nat \ {0}
  BY ChallengeAssumption, PassingIsCounted, FS_EmptySet DEF N
<1>2. CASE p \in DOMAIN solves
  <2>1. Passing(p) \subseteq Verifiers /\ solves[p].n \in Nat /\ solves[p].n + Cardinality(Passing(p)) <= SolveMax - 1 + N
    BY <1>2 DEF Passing, N, SolveInv, SolveShapes, SolvesNearlyLimited
  <2>2. Cardinality(Passing(p)) \in Nat
    BY <2>1, PassingIsCounted
  <2> QED
    BY <1>1, <1>2, <2>1, <2>2, ChallengeAssumption DEF Allowed
<1>3. CASE p \notin DOMAIN solves
  BY <1>1, <1>3, ChallengeAssumption DEF Allowed
<1> QED
  BY <1>1, <1>2, <1>3

\* What a step does to the cookies of an address, to its verifications that are to be
\* answered and to what its solves allow.
Still(p) == issued'[p] = issued[p] /\ Answering(p)' \subseteq Answering(p)
Kept(p) == p \in DOMAIN solves' => p \in DOMAIN solves /\ solves'[p].n = solves[p].n

LEMMA IssuedSteps ==
    ASSUME Shapes, SolveShapes, IssuedShapes, [Next]_vars, NEW p \in IPs
    PROVE  \/ Still(p) /\ Kept(p)
           \/ \E v \in Answering(p) :
                issued'[p] = issued[p] + 1 /\ Answering(p)' = Answering(p) \ {v} /\ Kept(p)
           \/ issued'[p] = 0 /\ p \in DOMAIN solves' /\ solves'[p].n = 1
           \/ \E v \in Verifiers :
                /\ issued'[p] = issued[p] /\ Answering(p)' \subseteq Answering(p) \cup {v}
                /\ p \in DOMAIN solves /\ p \in DOMAIN solves' /\ solves'[p].n = solves[p].n + 1
<1>1. ASSUME NEW i \in Ids, Create(i)
      PROVE  Still(p) /\ Kept(p)
  BY <1>1 DEF Create, Answering, Still, Kept
<1>2. ASSUME NEW v \in Verifiers, NEW i \in Ids, NEW q \in IPs, NEW good \in BOOLEAN, VerifyLookup(v, i, q, good)
      PROVE  Still(p) /\ Kept(p)
  <2>1. \A u \in Verifiers : job'[u] = IF u = v THEN [pc |-> "limit", id |-> i, ip |-> q, good |-> good] ELSE job[u]
    BY <1>2 DEF VerifyLookup, Shapes
  <2>2. issued' = issued /\ solves' = solves
    BY <1>2 DEF VerifyLookup
  <2> QED
    BY <2>1, <2>2 DEF Answering, Still, Kept
<1>3. ASSUME NEW v \in Verifiers, VerifyLimit(v) \/ VerifyCount(v) \/ VerifyExhaust(v) \/ VerifyDelete(v)
      PROVE  Still(p) /\ Kept(p)
  <2>1. PICK j : /\ \A u \in Verifiers : job'[u] = IF u = v THEN j ELSE job[u]
                 /\ j.pc = "answer" => job[v].pc = "record"
    BY <1>3, VerifyMoves DEF Verify
  <2>2. job[v].pc # "record" /\ issued' = issued
    BY <1>3 DEF VerifyLimit, VerifyCount, VerifyExhaust, VerifyDelete
  <2>3. DOMAIN solves' \subseteq DOMAIN solves /\ \A q \in DOMAIN solves' : solves'[q] = solves[q]
    BY <1>3 DEF VerifyLimit, VerifyCount, VerifyExhaust, VerifyDelete, Without
  <2> QED
    BY <2>1, <2>2, <2>3 DEF Answering, Still, Kept
<1>4. ASSUME NEW v \in Verifiers, RecordSolve(v)
      PROVE  \/ Still(p) /\ Kept(p)
             \/ issued'[p] = 0 /\ p \in DOMAIN solves' /\ solves'[p].n = 1
             \/ /\ issued'[p] = issued[p] /\ Answering(p)' \subseteq Answering(p) \cup {v}
                /\ p \in DOMAIN solves /\ p \in DOMAIN solves' /\ solves'[p].n = solves[p].n + 1
  <2> DEFINE q == job[v].ip
             begins == q \notin DOMAIN solves \/ SolveExpired(q)
  <2>1. PICK j : /\ \A u \in Verifiers : job'[u] = IF u = v THEN j ELSE job[u]
                 /\ j.pc = "idle" \/ j.ip = q
    BY <1>4, VerifyMoves DEF Verify
  <2>2. /\ Answering(p)' \subseteq Answering(p) \cup {v}
        /\ p # q => Answering(p)' \subseteq Answering(p)
    BY <2>1 DEF Answering
  <2>3. /\ solves' = IF begins THEN With(solves, q, [n |-> 1, age |-> 0])
                     ELSE [solves EXCEPT ![q].n = solves[q].n + 1]
        /\ issued' = IF begins THEN [issued EXCEPT ![q] = 0] ELSE issued
    BY <1>4 DEF RecordSolve
  <2> HIDE DEF begins
  <2>4. CASE p # q
    BY <2>2, <2>3, <2>4 DEF Still, Kept, With, IssuedShapes
  <2>5. CASE p = q /\ begins
    BY <2>3, <2>5 DEF With, IssuedShapes
  <2>6. CASE p = q /\ ~begins
    <3>1. p \in DOMAIN solves
      BY <2>6 DEF begins
    <3>2. solves[p] \in [n : Nat, age : Int]
      BY <3>1 DEF SolveShapes
    <3> QED
      BY <2>2, <2>3, <2>6, <3>1, <3>2
  <2> QED
    BY <2>4, <2>5, <2>6
<1>5. ASSUME NEW v \in Verifiers, NEW agent \in Agents, NEW found \in Movements, NEW lacks \in Behaviours, VerifyAnswer(v, agent, found, lacks)
      PROVE  \/ Still(p) /\ Kept(p)
             \/ v \in Answering(p) /\ issued'[p] = issued[p] + 1 /\ Answering(p)' = Answering(p) \ {v} /\ Kept(p)
  <2>1. /\ issued' = [issued EXCEPT ![job[v].ip] = issued[job[v].ip] + 1] /\ solves' = solves
        /\ job' = [job EXCEPT ![v] = Idle] /\ job[v].pc = "answer"
    BY <1>5 DEF VerifyAnswer
  <2>2. \A u \in Verifiers : job'[u] = IF u = v THEN Idle ELSE job[u]
    BY <2>1 DEF Shapes
  <2>3. Answering(p)' = Answering(p) \ {v}
    BY <2>2 DEF Answering, Idle
  <2>4. Kept(p)
    BY <2>1 DEF Kept
  <2>5. CASE job[v].ip = p
    BY <2>1, <2>3, <2>4, <2>5 DEF Answering, IssuedShapes
  <2>6. CASE job[v].ip # p
    BY <2>1, <2>3, <2>4, <2>6 DEF Still, IssuedShapes
  <2> QED
    BY <2>5, <2>6
<1>6. CASE cleanup
  BY <1>6 DEF cleanup, Answering, Still, Kept
<1>7. CASE Tick
  <2> DEFINE old(q) == [solves[q] EXCEPT !.age = IF solves[q].age > SolveWindow THEN solves[q].age
                                                 ELSE solves[q].age + 1]
  <2>1. \A q \in DOMAIN solves : old(q).n = solves[q].n
    BY DEF SolveShapes
  <2>2. solves' = [q \in DOMAIN solves |-> old(q)] /\ issued' = issued /\ job' = job
    BY <1>7 DEF Tick
  <2> HIDE DEF old
  <2> QED
    BY <2>1, <2>2 DEF Answering, Still, Kept
<1>8. CASE UNCHANGED vars
  BY <1>8 DEF vars, Answering, Still, Kept
<1>9. ASSUME NEW v \in Verifiers, Verify(v)
      PROVE  \/ VerifyLimit(v) \/ VerifyCount(v) \/ VerifyExhaust(v) \/ VerifyDelete(v)
             \/ RecordSolve(v)
             \/ \E agent \in Agents, found \in Movements, lacks \in Behaviours : VerifyAnswer(v, agent, found, lacks)
  BY <1>9 DEF Verify
<1>10. ASSUME NEW v \in Verifiers, Verify(v)
       PROVE  \/ Still(p) /\ Kept(p)
              \/ v \in Answering(p) /\ issued'[p] = issued[p] + 1 /\ Answering(p)' = Answering(p) \ {v} /\ Kept(p)
              \/ issued'[p] = 0 /\ p \in DOMAIN solves' /\ solves'[p].n = 1
              \/ /\ issued'[p] = issued[p] /\ Answering(p)' \subseteq Answering(p) \cup {v}
                 /\ p \in DOMAIN solves /\ p \in DOMAIN solves' /\ solves'[p].n = solves[p].n + 1
  BY <1>3, <1>4, <1>5, <1>9, <1>10
<1> QED
  BY <1>1, <1>2, <1>6, <1>7, <1>8, <1>10 DEF Next

\* An address is counted as it was, and only a cookie that is signed adds to it.
LEMMA ShapesOfIssued ==
    ASSUME Shapes, IssuedShapes, [Next]_vars
    PROVE  IssuedShapes'
<1>1. issued' \in [IPs -> Nat]
  <2>1. \/ issued' = issued
        \/ \E q : issued' = [issued EXCEPT ![q] = 0] \/ issued' = [issued EXCEPT ![q] = issued[q] + 1]
    BY DEF Next, Create, VerifyLookup, Verify, VerifyLimit, VerifyCount, VerifyExhaust, VerifyDelete,
           RecordSolve, VerifyAnswer, cleanup, Tick, vars
  <2> QED
    BY <2>1 DEF IssuedShapes
<1>2. ASSUME NEW v \in Verifiers, NEW i \in Ids, NEW q \in IPs, NEW good \in BOOLEAN, VerifyLookup(v, i, q, good)
      PROVE  IssuedShapes'
  <2>1. \A u \in Verifiers : job'[u] = IF u = v THEN [pc |-> "limit", id |-> i, ip |-> q, good |-> good] ELSE job[u]
    BY <1>2 DEF VerifyLookup, Shapes
  <2> QED
    BY <1>1, <2>1 DEF IssuedShapes
<1>3. ASSUME NEW v \in Verifiers, Verify(v)
      PROVE  IssuedShapes'
  BY <1>1, <1>3, VerifyMoves DEF IssuedShapes
<1>4. CASE job' = job
  BY <1>1, <1>4 DEF IssuedShapes
<1>5. \/ job' = job
      \/ \E v \in Verifiers, i \in Ids, q \in IPs, good \in BOOLEAN : VerifyLookup(v, i, q, good)
      \/ \E v \in Verifiers : Verify(v)
  BY DEF Next, Create, cleanup, Tick, vars
<1> QED
  BY <1>2, <1>3, <1>4, <1>5

\* A cookie costs one of those to be answered, a solve that is counted allows one more of
\* them, and a record that begins allows one for each goroutine.
LEMMA StepKeepsIssued ==
    ASSUME Shapes, SolveInv, IssuedInv, [Next]_vars
    PROVE  IssuedInv'
<1>1. IssuedShapes' /\ SolveInv'
  BY ShapesOfIssued, StepKeepsSolves DEF IssuedInv
<1> SUFFICES ASSUME NEW p \in IPs
             PROVE  issued'[p] + Cardinality(Answering(p)') <= Allowed(p)'
  BY <1>1 DEF IssuedInv
<1>2. /\ Answering(p) \subseteq Verifiers /\ Answering(p)' \subseteq Verifiers
      /\ issued[p] \in Nat /\ issued'[p] \in Nat
      /\ issued[p] + Cardinality(Answering(p)) <= Allowed(p)
  BY <1>1 DEF Answering, IssuedInv, IssuedShapes
<1>3. /\ N \in Nat \ {0} /\ Allowed(p) \in Int /\ Allowed(p) <= SolveMax + 2 * (N - 1)
      /\ Allowed(p)' \in Int
  <2>1. Allowed(p)' \in Int
    BY <1>1, ChallengeAssumption, PassingIsCounted DEF Allowed, SolveInv, SolveShapes, N
  <2> QED
    BY <2>1, AllowedIsBounded
<1>4. /\ Cardinality(Answering(p)) \in Nat /\ Cardinality(Answering(p)') \in Nat
      /\ Cardinality(Answering(p)') <= N
  BY <1>2, PassingIsCounted DEF N
<1>5. Kept(p) => Allowed(p) <= Allowed(p)'
  BY <1>3, ChallengeAssumption DEF Kept, Allowed, N
<1>6. p \in DOMAIN solves' => Allowed(p)' = solves'[p].n + N - 1 /\ solves'[p].n \in Nat
  BY <1>1 DEF Allowed, N, SolveInv, SolveShapes
<1>7. p \in DOMAIN solves => Allowed(p) = solves[p].n + N - 1 /\ solves[p].n \in Nat
  BY DEF Allowed, SolveInv, SolveShapes
<1> HIDE DEF N
<1>8. CASE Still(p) /\ Kept(p)
  <2>1. issued[p] + Cardinality(Answering(p)) <= Allowed(p)'
    BY <1>2, <1>3, <1>4, <1>5, <1>8
  <2>2. issued'[p] <= issued[p] /\ Answering(p)' \subseteq Answering(p)
    BY <1>2, <1>8 DEF Still
  <2> QED
    BY <1>2, <1>3, <2>1, <2>2, FewerCounted
<1>9. CASE \E v \in Answering(p) :
             issued'[p] = issued[p] + 1 /\ Answering(p)' = Answering(p) \ {v} /\ Kept(p)
  <2>1. Cardinality(Answering(p)') = Cardinality(Answering(p)) - 1
    BY <1>2, <1>9, CountedPassing
  <2> QED
    BY <1>2, <1>3, <1>4, <1>5, <1>9, <2>1
<1>10. CASE issued'[p] = 0 /\ p \in DOMAIN solves' /\ solves'[p].n = 1
  BY <1>3, <1>4, <1>6, <1>10
<1>11. CASE \E v \in Verifiers :
              /\ issued'[p] = issued[p] /\ Answering(p)' \subseteq Answering(p) \cup {v}
              /\ p \in DOMAIN solves /\ p \in DOMAIN solves' /\ solves'[p].n = solves[p].n + 1
  <2>1. PICK v \in Verifiers : Answering(p)' \subseteq Answering(p) \cup {v}
    BY <1>11
  <2>2. Cardinality(Answering(p) \cup {v}) <= Cardinality(Answering(p)) + 1
    BY <1>2, PassingIsCounted, FS_AddElement
  <2>3. Cardinality(Answering(p)') <= Cardinality(Answering(p) \cup {v})
    BY <1>2, <2>1, PassingIsCounted, FS_Subset
  <2>4. Cardinality(Answering(p) \cup {v}) \in Nat
    BY <1>2, PassingIsCounted
  <2> QED
    BY <1>2, <1>3, <1>4, <1>6, <1>7, <1>11, <2>2, <2>3, <2>4
<1> QED
  BY <1>8, <1>9, <1>10, <1>11, IssuedSteps DEF ChallengeInv, IssuedInv, SolveInv

\* However verifications interleave, a challenge earns at most one cookie per goroutine
\* and an address no more in a window than the limit and the goroutines under way
\* (handleWAFVerify, RecordSolve).
THEOREM SignedCookiesAreRationed == Spec => []CookiesAreRationed
<1> DEFINE Inv == ChallengeInv /\ SolveInv /\ IssuedInv /\ EarnedOncePerVerifier
<1>1. Init => Inv
  <2> SUFFICES ASSUME Init PROVE Inv
    OBVIOUS
  <2>1. ChallengeInv /\ SolveInv
    BY InitKeeps DEF Init, Idle, SolveInv, SolveShapes, SolvesNearlyLimited
  <2>2. /\ \A v \in Verifiers : job[v].pc = "idle"
        /\ \A i \in Ids : earned[i] = 0
        /\ issued = [p \in IPs |-> 0]
    BY DEF Init, Idle
  <2>3. Cardinality({}) = 0 /\ N \in Nat
    BY FS_EmptySet, PassingIsCounted DEF N
  <2>4. EarnedOncePerVerifier
    <3> SUFFICES ASSUME NEW i \in Ids
                 PROVE  earned[i] + Cardinality({v \in Verifiers : job[v].id = i /\ job[v].pc # "idle"}) <= N
      BY DEF EarnedOncePerVerifier, N
    <3>1. {v \in Verifiers : job[v].id = i /\ job[v].pc # "idle"} = {}
      BY <2>2
    <3> QED
      BY <2>2, <2>3, <3>1
  <2>5. IssuedInv
    <3> SUFFICES ASSUME NEW p \in IPs PROVE issued[p] + Cardinality(Answering(p)) <= Allowed(p)
      BY <2>2 DEF IssuedInv, IssuedShapes
    <3>1. Answering(p) = {} /\ p \notin DOMAIN solves
      BY <2>2 DEF Answering, Init
    <3>2. N # 0
      BY <2>1, AllowedIsBounded
    <3> QED
      BY <2>2, <2>3, <3>1, <3>2, ChallengeAssumption DEF Allowed
  <2> QED
    BY <2>1, <2>4, <2>5
<1>2. Inv /\ [Next]_vars => Inv'
  BY StepKeeps, StepKeepsSolves, StepKeepsIssued, StepKeepsEarned DEF ChallengeInv
<1>3. Inv => CookiesAreRationed
  <2> SUFFICES ASSUME Inv, NEW p \in IPs
               PROVE  issued[p] + Cardinality(Answering(p)) <= SolveMax + 2 * (N - 1)
    BY DEF CookiesAreRationed, IssuedNearlyLimited, Answering, N
  <2>1. Answering(p) \subseteq Verifiers /\ issued[p] \in Nat /\ issued[p] + Cardinality(Answering(p)) <= Allowed(p)
    BY DEF Answering, IssuedInv, IssuedShapes
  <2> QED
    BY <2>1, AllowedIsBounded, PassingIsCounted, ChallengeAssumption
<1> QED
  BY <1>1, <1>2, <1>3, PTL DEF Spec

-----------------------------------------------------------------------------
(* The cookie as it was signed *)

\* The length and the elements of two sequences put together.
LEMMA Concatenation ==
    ASSUME NEW S, NEW c \in Seq(S), NEW e \in Seq(S)
    PROVE  /\ Len(c \o e) = Len(c) + Len(e)
           /\ \A i \in 1..(Len(c) + Len(e)) : (c \o e)[i] = IF i <= Len(c) THEN c[i] ELSE e[i - Len(c)]
OBVIOUS

\* Two joined texts that are the same end in the same moment and level, and begin with
\* the same address unless one of the addresses has more colons.
LEMMA JoinedTexts ==
    ASSUME NEW p \in Seq(STRING), NEW q \in Seq(STRING),
           NEW a \in Seq(STRING), NEW b \in Seq(STRING),
           NEW x \in Int, NEW y \in Int, NEW l \in Int, NEW m \in Int,
           Payload(p, a, x, l) = Payload(q, b, y, m)
    PROVE  x = y /\ l = m /\ (Len(p) = Len(q) => p = q /\ a = b)
<1> DEFINE S == STRING \cup Int
           t == Payload(p, a, x, l)
           u == Payload(q, b, y, m)
           k == Len(p) + Len(a)
           n == Len(q) + Len(b)
<1>1. /\ p \in Seq(S) /\ q \in Seq(S) /\ a \in Seq(S) /\ b \in Seq(S)
      /\ <<x, l>> \in Seq(S) /\ <<y, m>> \in Seq(S)
  OBVIOUS
<1>2. /\ p \o a \in Seq(S) /\ Len(p \o a) = k
      /\ \A i \in 1..k : (p \o a)[i] = IF i <= Len(p) THEN p[i] ELSE a[i - Len(p)]
  BY <1>1
<1>3. /\ q \o b \in Seq(S) /\ Len(q \o b) = n
      /\ \A i \in 1..n : (q \o b)[i] = IF i <= Len(q) THEN q[i] ELSE b[i - Len(q)]
  BY <1>1
<1>4. /\ Len(t) = k + 2 /\ t[k + 1] = x /\ t[k + 2] = l
      /\ \A i \in 1..k : t[i] = (p \o a)[i]
  <2> DEFINE c == p \o a
             e == <<x, l>>
  <2>1. c \in Seq(S) /\ Len(c) = k /\ k \in Nat /\ t = c \o e
    BY <1>1, <1>2 DEF Payload
  <2>9. e \in Seq(S) /\ Len(e) = 2 /\ e[1] = x /\ e[2] = l
    BY <1>1
  <2> HIDE DEF c, e, k, t, S
  <2>2. /\ Len(t) = k + 2
        /\ \A i \in 1..(k + 2) : t[i] = IF i <= k THEN c[i] ELSE e[i - k]
    BY <2>1, <2>9, Concatenation
  <2>3. \A i \in 1..k : t[i] = c[i]
    BY <2>1, <2>2
  <2>4. t[k + 1] = e[1] /\ t[k + 2] = e[2]
    <3>1. /\ k + 1 \in 1..(k + 2) /\ ~(k + 1 <= k) /\ (k + 1) - k = 1
          /\ k + 2 \in 1..(k + 2) /\ ~(k + 2 <= k) /\ (k + 2) - k = 2
      BY <2>1
    <3> QED
      BY <2>2, <3>1
  <2> QED
    BY <2>2, <2>3, <2>4, <2>9 DEF c
<1>5. /\ Len(u) = n + 2 /\ u[n + 1] = y /\ u[n + 2] = m
      /\ \A i \in 1..n : u[i] = (q \o b)[i]
  <2> DEFINE c == q \o b
             e == <<y, m>>
  <2>1. c \in Seq(S) /\ Len(c) = n /\ n \in Nat /\ u = c \o e
    BY <1>1, <1>3 DEF Payload
  <2>9. e \in Seq(S) /\ Len(e) = 2 /\ e[1] = y /\ e[2] = m
    BY <1>1
  <2> HIDE DEF c, e, n, u, S
  <2>2. /\ Len(u) = n + 2
        /\ \A i \in 1..(n + 2) : u[i] = IF i <= n THEN c[i] ELSE e[i - n]
    BY <2>1, <2>9, Concatenation
  <2>3. \A i \in 1..n : u[i] = c[i]
    BY <2>1, <2>2
  <2>4. u[n + 1] = e[1] /\ u[n + 2] = e[2]
    <3>1. /\ n + 1 \in 1..(n + 2) /\ ~(n + 1 <= n) /\ (n + 1) - n = 1
          /\ n + 2 \in 1..(n + 2) /\ ~(n + 2 <= n) /\ (n + 2) - n = 2
      BY <2>1
    <3> QED
      BY <2>2, <3>1
  <2> QED
    BY <2>2, <2>3, <2>4, <2>9 DEF c
<1>6. t = u /\ k \in Nat /\ n \in Nat
  BY <1>1
<1> HIDE DEF t, u
<1>7. k = n
  <2> HIDE DEF k, n
  <2> QED
    BY <1>4, <1>5, <1>6
<1>8. x = y /\ l = m
  <2> HIDE DEF k, n
  <2> QED
    BY <1>4, <1>5, <1>6, <1>7
<1>9. ASSUME Len(p) = Len(q)
      PROVE  p = q /\ a = b
  <2>1. Len(a) = Len(b) /\ Len(p) \in Nat /\ Len(a) \in Nat
    BY <1>1, <1>7, <1>9
  <2>2. \A i \in 1..Len(p) : p[i] = q[i]
    <3> TAKE i \in 1..Len(p)
    <3>1. i \in 1..k /\ i \in 1..n /\ i <= Len(q)
      BY <1>9, <2>1
    <3>2. (p \o a)[i] = p[i] /\ (q \o b)[i] = q[i]
      BY <1>2, <1>3, <3>1
    <3> QED
      BY <1>4, <1>5, <1>6, <3>1, <3>2
  <2>3. \A i \in 1..Len(a) : a[i] = b[i]
    <3> TAKE i \in 1..Len(a)
    <3> DEFINE j == i + Len(p)
    <3>1. j \in 1..k /\ j \in 1..n /\ ~(j <= Len(p)) /\ ~(j <= Len(q)) /\ j - Len(p) = i /\ j - Len(q) = i
      BY <1>9, <2>1
    <3> HIDE DEF j
    <3>2. (p \o a)[j] = a[i] /\ (q \o b)[j] = b[i]
      BY <1>2, <1>3, <3>1
    <3> QED
      BY <1>4, <1>5, <1>6, <3>1, <3>2
  <2> QED
    BY <1>1, <1>9, <2>1, <2>2, <2>3
<1> QED
  BY <1>8, <1>9

\* The cookie was signed for an address that solves challenges, with a level.
CookieInv ==
    /\ cookie \in [ip : Seq(STRING), agent : Seq(STRING), level : Int, age : Int]
    /\ \A v \in Verifiers : job[v].pc # "idle" => job[v].ip \in Seq(STRING)

\* A step keeps the cookie whole: it is signed (VerifyAnswer), grows older or is forgotten.
LEMMA StepKeepsCookie ==
    ASSUME Shapes, CookieInv, [Next]_vars
    PROVE  CookieInv'
<1>1. IPs \subseteq Seq(STRING) /\ Agents \subseteq Seq(STRING)
  BY ChallengeAssumption
<1>2. NoCookie \in [ip : Seq(STRING), agent : Seq(STRING), level : Int, age : Int]
  BY DEF NoCookie
<1>3. ASSUME NEW v \in Verifiers, Verify(v)
      PROVE  CookieInv'
  <2>1. \A u \in Verifiers : job'[u].pc # "idle" =>
          job[u].pc # "idle" /\ job'[u].ip = job[u].ip
    BY <1>3, VerifyMoves
  <2>2. CASE \E agent \in Agents, found \in Movements, lacks \in Behaviours : VerifyAnswer(v, agent, found, lacks)
    <3>1. PICK agent \in Agents, found \in Movements, lacks \in Behaviours : VerifyAnswer(v, agent, found, lacks)
      BY <2>2
    <3>2. /\ cookie' = [ip |-> job[v].ip, agent |-> agent, level |-> TrustOf(found, lacks), age |-> 0]
          /\ job[v].pc = "answer"
      BY <3>1 DEF VerifyAnswer
    <3>3. TrustOf(found, lacks) \in Int
      BY DEF TrustOf, ComputeTrustLevel
    <3>4. job[v].ip \in Seq(STRING)
      BY <3>2 DEF CookieInv
    <3> QED
      BY <1>1, <2>1, <3>2, <3>3, <3>4 DEF CookieInv
  <2>3. CASE cookie' = cookie
    BY <2>1, <2>3 DEF CookieInv
  <2> QED
    BY <1>3, <2>2, <2>3 DEF Verify, VerifyLimit, VerifyCount, VerifyExhaust, VerifyDelete, RecordSolve
<1>4. ASSUME NEW v \in Verifiers, NEW i \in Ids, NEW q \in IPs, NEW good \in BOOLEAN,
             VerifyLookup(v, i, q, good)
      PROVE  CookieInv'
  <2>1. /\ job' = [job EXCEPT ![v] = [pc |-> "limit", id |-> i, ip |-> q, good |-> good]]
        /\ cookie' = cookie
    BY <1>4 DEF VerifyLookup
  <2>2. \A u \in Verifiers : job'[u].ip = IF u = v THEN q ELSE job[u].ip
    BY <2>1 DEF Shapes
  <2>3. \A u \in Verifiers : u # v => job'[u].pc = job[u].pc
    BY <2>1 DEF Shapes
  <2> QED
    BY <1>1, <2>1, <2>2, <2>3 DEF CookieInv
<1>5. CASE job' = job /\ cookie' = cookie
  BY <1>5 DEF CookieInv
<1>6. CASE Tick
  <2> DEFINE older == [cookie EXCEPT !.age = cookie.age + 1]
  <2>1. job' = job /\ (cookie' = NoCookie \/ cookie' = older)
    BY <1>6 DEF Tick
  <2>2. older \in [ip : Seq(STRING), agent : Seq(STRING), level : Int, age : Int]
    BY DEF CookieInv
  <2> HIDE DEF older
  <2> QED
    BY <1>2, <2>1, <2>2 DEF CookieInv
<1> QED
  BY <1>3, <1>4, <1>5, <1>6 DEF Next, Create, cleanup, vars

\* Whatever is shown for a cookie, from whatever address and agent, the validator accepts
\* only the trust level and the moment that were signed; and where the addresses have the
\* same number of colons, only the address and the agent (ChallengeValidator.verifyCookie).
THEOREM AcceptedCookiesAreAsSigned == Spec => []AcceptedAsSigned
<1>1. Init => CookieInv
  BY DEF Init, CookieInv, NoCookie, Idle
<1>2. ChallengeInv /\ CookieInv /\ [Next]_vars => CookieInv'
  BY StepKeepsCookie DEF ChallengeInv
<1>3. CookieInv => AcceptedAsSigned
  <2> SUFFICES ASSUME CookieInv, NEW p \in Visitors, NEW agent \in Agents,
                      NEW duration \in Durations, NEW shown \in Shown(cookie),
                      verifyCookie(Signature(cookie), shown, p, agent, duration)
               PROVE  /\ shown.level = cookie.level /\ shown.age = cookie.age /\ cookie.age <= duration
                      /\ Len(p) = Len(cookie.ip) => p = cookie.ip /\ agent = cookie.agent
    BY DEF AcceptedAsSigned
  <2>1. /\ cookie.ip \in Seq(STRING) /\ cookie.agent \in Seq(STRING)
        /\ cookie.level \in Int /\ cookie.age \in Int
        /\ p \in Seq(STRING) /\ agent \in Seq(STRING)
    BY ChallengeAssumption DEF CookieInv
  <2>2. shown.level \in Int /\ shown.age \in Int
    BY <2>1 DEF Shown
  <2>3. /\ Payload(p, agent, shown.age, shown.level)
             = Payload(cookie.ip, cookie.agent, cookie.age, cookie.level)
        /\ shown.age <= duration
    BY DEF verifyCookie, Signature
  <2>4. /\ shown.age = cookie.age /\ shown.level = cookie.level
        /\ Len(p) = Len(cookie.ip) => p = cookie.ip /\ agent = cookie.agent
    BY <2>1, <2>2, <2>3, JoinedTexts
  <2> QED
    BY <2>3, <2>4
<1> QED
  BY <1>1, <1>2, <1>3, ChallengeInvariant, PTL DEF Spec
=============================================================================
