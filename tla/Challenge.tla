------------------------------ MODULE Challenge ------------------------------
(***************************************************************************)
(* The slider challenge: the store of open challenges, handleWAFVerify and *)
(* the cookie it issues, and the validator that reads the cookie back.     *)
(* Every access to the store takes a lock of its own, so the handler is a  *)
(* sequence of actions and verifications of one challenge interleave.      *)
(*                                                                         *)
(*   challenges  open challenges: the time to live left and the attempts   *)
(*   solves      solveTracker: successful solves of an address and the age *)
(*               of the window they are counted in                         *)
(*   job         the /__waf_verify request each goroutine works on         *)
(*   cookie      the cookie issued last: whom it was signed for, the trust *)
(*               level and its age                                         *)
(*   earned      history: the cookies a challenge has earned               *)
(*   issued      history: the cookies an address was given since it began  *)
(*               a solve record                                            *)
(*                                                                         *)
(* An address and a user agent are the sequences of their pieces between   *)
(* the colons, which also join the parts of the text that is signed.       *)
(***************************************************************************)
EXTENDS Integers, FiniteSets, Sequences

CONSTANTS
    Ids,          \* challenge identifiers
    Verifiers,    \* goroutines that serve /__waf_verify
    IPs,          \* addresses that solve challenges
    Visitors,     \* addresses a cookie is shown from
    Agents,       \* User-Agent headers
    MaxSize,      \* MaxChallenges
    MaxRetries, TTL,
    SolveMax, SolveWindow,
    Durations,    \* ChallengeDuration an administrator may configure
    Skew,         \* challengeClockSkew
    Movements,    \* what the analysis of a trajectory may find missing
    Behaviours    \* what the interaction signals may lack

Findings == {"few", "speed", "straight", "jitter", "direction", "timing", "accel", "pause"}
Lacks == {"mouse", "early", "passive"}

ASSUME ChallengeAssumption ==
    /\ MaxSize \in Nat \ {0} /\ MaxRetries \in Nat \ {0} /\ TTL \in Nat
    /\ SolveMax \in Nat \ {0} /\ SolveWindow \in Nat /\ Skew \in Nat
    /\ IPs \subseteq Visitors /\ Visitors \subseteq Seq(STRING) /\ Agents \subseteq Seq(STRING)
    /\ Durations \subseteq Nat /\ IsFiniteSet(Ids)
    /\ IsFiniteSet(Verifiers) /\ Verifiers # {}
    /\ Movements \subseteq SUBSET Findings /\ Behaviours \subseteq SUBSET Lacks

VARIABLES challenges, solves, job, cookie, earned, issued

vars == <<challenges, solves, job, cookie, earned, issued>>

-----------------------------------------------------------------------------
(* Trust level.  Scores are in twentieths, confidence in two hundredths.     *)

Penalty(found, finding, points) == IF finding \in found THEN points ELSE 0
AtLeastZero(n) == IF n < 0 THEN 0 ELSE n

\* AnalyzeTrajectory: "few" is a trajectory under MinPoints; each other finding
\* stands for a measure (speed variance, straightness, ...) below its minimum.
AnalyzeTrajectory(found) ==
    AtLeastZero(20 - (  Penalty(found, "few", 8) + Penalty(found, "speed", 6)
                      + Penalty(found, "straight", 4) + Penalty(found, "jitter", 4)
                      + Penalty(found, "direction", 3) + Penalty(found, "timing", 4)
                      + Penalty(found, "accel", 4) + Penalty(found, "pause", 3)))

AnalyzeSignals(lacks) ==
    AtLeastZero(20 - (  Penalty(lacks, "mouse", 4) + Penalty(lacks, "early", 6)
                      + Penalty(lacks, "passive", 2)))

\* ComputeTrustLevel with the default thresholds 0.40, 0.60 and 0.80.
ComputeTrustLevel(trajectoryScore, signalsScore) ==
    LET confidence == 7 * trajectoryScore + 3 * signalsScore
    IN IF confidence < 80 THEN 0
       ELSE IF confidence < 120 THEN 1
       ELSE IF confidence < 160 THEN 2 ELSE 3

TrustOf(found, lacks) == ComputeTrustLevel(AnalyzeTrajectory(found), AnalyzeSignals(lacks))

-----------------------------------------------------------------------------
NoCookie == [ip |-> <<>>, agent |-> <<>>, level |-> 0, age |-> 0]
Idle == [pc |-> "idle", id |-> "none", ip |-> <<>>, good |-> FALSE]

\* An identifier is random and never used twice; one nothing refers to any more
\* stands for a new one.
FreshId(i) == i \notin DOMAIN challenges /\ \A v \in Verifiers : job[v].id # i

Expired(left) == left < 0

Without(m, k) == [i \in DOMAIN m \ {k} |-> m[i]]
With(m, k, x) == [i \in DOMAIN m \cup {k} |-> IF i = k THEN x ELSE m[i]]

Init ==
    /\ challenges = [i \in {} |-> 0] /\ solves = [i \in {} |-> 0]
    /\ job = [v \in Verifiers |-> Idle]
    /\ cookie = NoCookie
    /\ earned = [i \in Ids |-> 0] /\ issued = [p \in IPs |-> 0]

\* evictLocked: the expired challenges go, and if that is not enough the oldest tenth,
\* at least one.
evictLocked(kept) ==
    LET live == {i \in DOMAIN challenges : ~Expired(challenges[i].left)}
        tenth == IF MaxSize \div 10 < 1 THEN 1 ELSE MaxSize \div 10
    IN IF Cardinality(live) < MaxSize THEN kept = live
       ELSE /\ kept \subseteq live /\ Cardinality(live \ kept) = tenth
            /\ \A o \in live \ kept, y \in kept : challenges[o].left <= challenges[y].left

\* serveChallenge: a challenge page is shown and its challenge stored.
Create(i) ==
    /\ FreshId(i)
    /\ \E kept \in SUBSET DOMAIN challenges :
        /\ IF Cardinality(DOMAIN challenges) >= MaxSize THEN evictLocked(kept)
                                                       ELSE kept = DOMAIN challenges
        /\ challenges' = With([k \in kept |-> challenges[k]], i, [left |-> TTL, attempts |-> 0])
    /\ earned' = [earned EXCEPT ![i] = 0]
    /\ UNCHANGED <<solves, job, cookie, issued>>

-----------------------------------------------------------------------------
(* handleWAFVerify *)

\* A verification arrives and looks its challenge up; unknown or expired ends it.
VerifyLookup(v, i, p, good) ==
    /\ job[v].pc = "idle"
    /\ i \in DOMAIN challenges /\ ~Expired(challenges[i].left)
    /\ job' = [job EXCEPT ![v] = [pc |-> "limit", id |-> i, ip |-> p, good |-> good]]
    /\ UNCHANGED <<challenges, solves, cookie, earned, issued>>

SolveExpired(p) == solves[p].age > SolveWindow

\* Mutant: one solve too many.
VerifyLimitLate(v) ==
    LET p == job[v].ip IN
    /\ job[v].pc = "limit"
    /\ job' = [job EXCEPT ![v] =
         IF p \in DOMAIN solves /\ solves[p].n > SolveMax + 1 THEN Idle
         ELSE [@ EXCEPT !.pc = IF job[v].good THEN "delete" ELSE "count"]]
    /\ UNCHANGED <<challenges, solves, cookie, earned, issued>>
\* IsSolveRateLimited drops a window that has passed; a limited address is refused.
\* The answer is then compared, without a lock.
VerifyLimit(v) ==
    LET p == job[v].ip IN
    /\ job[v].pc = "limit"
    /\ IF p \in DOMAIN solves /\ SolveExpired(p)
       THEN solves' = Without(solves, p) ELSE UNCHANGED solves
    /\ job' = [job EXCEPT ![v] =
         IF p \in DOMAIN solves' /\ solves'[p].n >= SolveMax THEN Idle
         ELSE [@ EXCEPT !.pc = IF job[v].good THEN "delete" ELSE "count"]]
    /\ UNCHANGED <<challenges, cookie, earned, issued>>

\* Mutant: the challenge goes one attempt late.
VerifyCountLate(v) ==
    LET i == job[v].id IN
    /\ job[v].pc = "count"
    /\ IF i \in DOMAIN challenges
       THEN /\ challenges' = [challenges EXCEPT ![i].attempts = @ + 1]
            /\ job' = [job EXCEPT ![v] = IF challenges[i].attempts >= MaxRetries
                                         THEN [@ EXCEPT !.pc = "exhaust"] ELSE Idle]
       ELSE job' = [job EXCEPT ![v] = Idle] /\ UNCHANGED challenges
    /\ UNCHANGED <<solves, cookie, earned, issued>>
\* A wrong answer: IncrementAttempts, -1 for a challenge that has gone meanwhile.
VerifyCount(v) ==
    LET i == job[v].id IN
    /\ job[v].pc = "count"
    /\ IF i \in DOMAIN challenges
       THEN /\ challenges' = [challenges EXCEPT ![i].attempts = @ + 1]
            /\ job' = [job EXCEPT ![v] = IF challenges[i].attempts + 1 >= MaxRetries
                                         THEN [@ EXCEPT !.pc = "exhaust"] ELSE Idle]
       ELSE job' = [job EXCEPT ![v] = Idle] /\ UNCHANGED challenges
    /\ UNCHANGED <<solves, cookie, earned, issued>>

VerifyExhaust(v) ==
    /\ job[v].pc = "exhaust"
    /\ challenges' = Without(challenges, job[v].id)
    /\ job' = [job EXCEPT ![v] = Idle]
    /\ UNCHANGED <<solves, cookie, earned, issued>>

\* Mutant: a solved challenge stays until it expires.
VerifyDeleteNothing(v) ==
    /\ job[v].pc = "delete"
    /\ job' = [job EXCEPT ![v].pc = "record"]
    /\ UNCHANGED <<challenges, solves, cookie, earned, issued>>
\* A right answer: the challenge is deleted,
VerifyDelete(v) ==
    /\ job[v].pc = "delete"
    /\ challenges' = Without(challenges, job[v].id)
    /\ job' = [job EXCEPT ![v].pc = "record"]
    /\ UNCHANGED <<solves, cookie, earned, issued>>

\* Mutant: only the first solve of an address is counted.
RecordSolveOnce(v) ==
    LET p == job[v].ip
        begins == p \notin DOMAIN solves \/ SolveExpired(p)
    IN
    /\ job[v].pc = "record"
    /\ solves' = IF begins THEN With(solves, p, [n |-> 1, age |-> 0]) ELSE solves
    /\ issued' = IF begins THEN [issued EXCEPT ![p] = 0] ELSE issued
    /\ job' = [job EXCEPT ![v].pc = "answer"]
    /\ UNCHANGED <<challenges, cookie, earned>>
\* the solve is counted,
RecordSolve(v) ==
    LET p == job[v].ip
        begins == p \notin DOMAIN solves \/ SolveExpired(p)
    IN
    /\ job[v].pc = "record"
    /\ solves' = IF begins THEN With(solves, p, [n |-> 1, age |-> 0])
                 ELSE [solves EXCEPT ![p].n = @ + 1]
    /\ issued' = IF begins THEN [issued EXCEPT ![p] = 0] ELSE issued
    /\ job' = [job EXCEPT ![v].pc = "answer"]
    /\ UNCHANGED <<challenges, cookie, earned>>

\* Mutant: the level is not in the signed text.
PayloadWithoutLevel(p, agent, age, level) == p \o agent \o <<age>>
\* The text that is signed, "address:user agent:moment:level".  It is not told where the
\* address ends and the agent begins.
Payload(p, agent, age, level) == p \o agent \o <<age, level>>

\* The signature of a cookie; its moment is as long ago as the cookie is old.
Signature(c) == Payload(c.ip, c.agent, c.age, c.level)

\* and a cookie is signed for the address, the user agent, the moment and the trust level.
VerifyAnswer(v, agent, found, lacks) ==
    /\ job[v].pc = "answer"
    /\ cookie' = [ip |-> job[v].ip, agent |-> agent, level |-> TrustOf(found, lacks), age |-> 0]
    /\ earned' = [earned EXCEPT ![job[v].id] = @ + 1]
    /\ issued' = [issued EXCEPT ![job[v].ip] = @ + 1]
    /\ job' = [job EXCEPT ![v] = Idle]
    /\ UNCHANGED <<challenges, solves>>

-----------------------------------------------------------------------------
(* ChallengeValidator *)

\* verifyCookie: three parts with a full signature, a level from 0 to 3, a time stamp
\* neither too old nor in the future, and the signature of the text that the address and
\* the agent of this request make with them.
verifyCookie(signature, shown, p, agent, duration) ==
    /\ shown.parts = 3 /\ shown.level \in 0..3
    /\ shown.age <= duration /\ -shown.age <= Skew
    /\ Payload(p, agent, shown.age, shown.level) = signature

\* What a client may show for the cookie it holds: the cookie, one of the old format,
\* or one whose level or time stamp is no longer what was signed.
Shown(c) ==
    {[parts |-> n, level |-> c.level + l, age |-> c.age + a] : n \in {2, 3}, l \in 0..1, a \in -1..0}

-----------------------------------------------------------------------------
\* Mutant: the solve records are left to IsSolveRateLimited.
cleanupChallenges ==
    /\ challenges' = [i \in {k \in DOMAIN challenges : ~Expired(challenges[k].left)} |-> challenges[i]]
    /\ UNCHANGED <<solves, job, cookie, earned, issued>>
\* The cleanup goroutine, every 30 seconds.
cleanup ==
    /\ challenges' = [i \in {k \in DOMAIN challenges : ~Expired(challenges[k].left)} |-> challenges[i]]
    /\ solves' = [p \in {q \in DOMAIN solves : ~SolveExpired(q)} |-> solves[p]]
    /\ UNCHANGED <<job, cookie, earned, issued>>

\* A unit of time passes; a cookie past every duration is not told from no cookie.
Tick ==
    /\ challenges' = [i \in DOMAIN challenges |->
            [challenges[i] EXCEPT !.left = IF Expired(@) THEN @ ELSE @ - 1]]
    /\ solves' = [p \in DOMAIN solves |->
            [solves[p] EXCEPT !.age = IF @ > SolveWindow THEN @ ELSE @ + 1]]
    /\ cookie' = IF cookie = NoCookie \/ \A d \in Durations : cookie.age > d THEN NoCookie
                 ELSE [cookie EXCEPT !.age = @ + 1]
    /\ UNCHANGED <<job, earned, issued>>

Verify(v) ==
    \/ VerifyLimit(v) \/ VerifyCount(v) \/ VerifyExhaust(v)
    \/ VerifyDelete(v) \/ RecordSolve(v)
    \/ \E agent \in Agents, found \in Movements, lacks \in Behaviours :
            VerifyAnswer(v, agent, found, lacks)

Next ==
    \/ \E i \in Ids : Create(i)
    \/ \E v \in Verifiers, i \in Ids, p \in IPs, good \in BOOLEAN : VerifyLookup(v, i, p, good)
    \/ \E v \in Verifiers : Verify(v)
    \/ cleanup \/ Tick

\* Goroutines that serve a request are scheduled; the clock and the ticker run.
Spec ==
    /\ Init /\ [][Next]_vars
    /\ \A v \in Verifiers : WF_vars(Verify(v))
    /\ WF_vars(cleanup) /\ WF_vars(Tick)

-----------------------------------------------------------------------------
(* Properties *)

\* A challenge with all its attempts used is gone, or the verification that used the
\* last one is about to delete it: no interleaving leaves it open for more guesses.
ExhaustedIsClosed ==
    \A i \in DOMAIN challenges : challenges[i].attempts >= MaxRetries =>
        \E v \in Verifiers : job[v].pc = "exhaust" /\ job[v].id = i

\* Once a verification has been answered with a cookie, its challenge is not open
\* any more, whatever wrong answers to it are still under way.
RedeemedIsClosed == \A i \in DOMAIN challenges : earned[i] = 0

\* Verifications that pass the limit together can exceed it, by at most the number of
\* goroutines less one: the limit on solves per window holds up to that.
SolvesNearlyLimited ==
    \A p \in DOMAIN solves :
        solves[p].n + Cardinality({v \in Verifiers : job[v].ip = p /\ job[v].pc \in {"delete", "record"}})
            <= SolveMax - 1 + Cardinality(Verifiers)

\* "a downgrade cannot bypass the trust level" (verifyCookie): of all that can be shown
\* for a cookie, from any address and with any agent, only the trust level that was earned
\* at the moment it was earned is accepted, and only while the configured duration lasts.
\* The text can be taken for that of another address only where one of the two has more
\* colons, which IPv4 addresses have not: else it is the address that solved the
\* challenge, and the agent it solved it with.
AcceptedAsSigned ==
    \A p \in Visitors, agent \in Agents, duration \in Durations : \A shown \in Shown(cookie) :
        cookie # NoCookie /\ verifyCookie(Signature(cookie), shown, p, agent, duration) =>
            /\ shown.level = cookie.level /\ shown.age = cookie.age /\ cookie.age <= duration
            /\ Len(p) = Len(cookie.ip) => p = cookie.ip /\ agent = cookie.agent

\* A solution sent many times over earns at most one cookie per goroutine: those that
\* looked its challenge up before the first of them deleted it.
EarnedOncePerVerifier ==
    \A i \in Ids :
        earned[i] + Cardinality({v \in Verifiers : job[v].id = i /\ job[v].pc # "idle"})
            <= Cardinality(Verifiers)

\* In one window of its solves an address is given no more cookies than the limit, those
\* that passed the limit together and those still to be answered when the window began.
IssuedNearlyLimited ==
    \A p \in IPs :
        issued[p] + Cardinality({v \in Verifiers : job[v].ip = p /\ job[v].pc = "answer"})
            <= SolveMax + 2 * (Cardinality(Verifiers) - 1)

\* The cookies handleWAFVerify signs are rationed by the challenges and by the limit on
\* solves, however verifications interleave.
CookiesAreRationed == EarnedOncePerVerifier /\ IssuedNearlyLimited

\* A challenge that is neither solved nor exhausted is reclaimed, and so is the record
\* of an address that stops solving.
ExpiredIsReclaimed ==
    /\ \A i \in Ids : (i \in DOMAIN challenges /\ Expired(challenges[i].left))
                        ~> (i \notin DOMAIN challenges \/ ~Expired(challenges[i].left))
    /\ \A p \in IPs : (p \in DOMAIN solves /\ SolveExpired(p))
                        ~> (p \notin DOMAIN solves \/ ~SolveExpired(p))
=============================================================================
