---------------------------- MODULE RequestMemory ----------------------------
(***************************************************************************)
(* What the WAF remembers of a client from one request to the next: the    *)
(* verdict of a custom rule and the trusted history, both in Redis, and    *)
(* the access rules, in a snapshot that a ticker replaces.  Requests of    *)
(* the client overlap, Redis and the database fail, administrators edit.   *)
(*                                                                         *)
(* All requests have one decision key and one address.  The time is        *)
(* counted in units of the cooldown of the trusted history.                *)
(***************************************************************************)
EXTENDS Integers, Sequences

CONSTANTS Flows,        \* goroutines that serve the client
          TTLBlock, TTLChallenge,   \* life of a cached verdict
          HistoryTTL,   \* life of the trusted history
          QueueSize,    \* capacity of the channel to the cache writer
          MaxEdits,     \* bound: edits of the rule and of the access rules
          MaxFaults     \* bound: failures of Redis and of the database

MemoryAssumption == {TTLBlock, TTLChallenge, HistoryTTL, QueueSize} \subseteq Nat \ {0}

VARIABLES rule,         \* what the custom rules decide for the client
          access,       \* what the stored access rules decide for it
          snapshot,     \* what the access rules in memory decide
          up, enabled,  \* Redis answers; the client takes it to be there
          decision,     \* waf:decision:<key>: the verdict and its time to live
          queue,        \* writeCh
          history,      \* th:<ip>: the counter and its time to live
          cooldown,     \* th:cooldown:<ip> is set
          cuts,         \* history: cooldowns deleted since the counter was created
          flow,         \* per goroutine: where it is and its strictest decision
          edits, faults

redis == <<decision, history, cooldown, cuts>>
rules == <<rule, access, snapshot>>
memoryVars == <<rules, up, enabled, redis, queue, flow, edits, faults>>

Verdicts == {"block", "challenge"}
NoVerdict == [action |-> "none", left |-> 0]
NoHistory == [n |-> 0, left |-> 0]
Resting == [pc |-> "idle", action |-> "none"]

\* AddDecision keeps the stricter of two verdicts.
Stricter(a, b) == IF "block" \in {a, b} THEN "block"
                  ELSE IF "challenge" \in {a, b} THEN "challenge" ELSE "none"

TTL(action) == IF action = "block" THEN TTLBlock ELSE TTLChallenge

Init ==
    /\ rule = "none" /\ access = "none" /\ snapshot = "none"
    /\ up = TRUE /\ enabled = TRUE
    /\ decision = NoVerdict /\ queue = <<>>
    /\ history = NoHistory /\ cooldown = FALSE /\ cuts = 0
    /\ flow = [f \in Flows |-> Resting]
    /\ edits = 0 /\ faults = 0

-----------------------------------------------------------------------------
(***************************************************************************)
(* Redis                                                                   *)
(***************************************************************************)

\* A command that fails makes the client ping; it gives Redis up when that fails too.
checkHealth == enabled' \in BOOLEAN

Command(effect) ==
    \/ ~enabled /\ UNCHANGED <<redis, enabled>>
    \/ enabled /\ up /\ effect /\ UNCHANGED enabled
    \/ enabled /\ ~up /\ checkHealth /\ UNCHANGED redis

reconnectLoop == /\ ~enabled /\ up /\ enabled' = TRUE
                 /\ UNCHANGED <<rules, up, redis, queue, flow, edits, faults>>

Fault == faults < MaxFaults /\ faults' = faults + 1

\* Redis goes, with its keys or without, and comes back.
RedisFails ==
    /\ Fault /\ up /\ up' = FALSE
    /\ \/ UNCHANGED redis
       \/ decision' = NoVerdict /\ history' = NoHistory /\ cooldown' = FALSE /\ cuts' = 0
    /\ UNCHANGED <<rules, enabled, queue, flow, edits>>
RedisReturns == /\ ~up /\ up' = TRUE
                /\ UNCHANGED <<rules, enabled, redis, queue, flow, edits, faults>>

Older(k, empty) == IF k.left > 1 THEN [k EXCEPT !.left = @ - 1] ELSE empty
Tick == /\ decision' = Older(decision, NoVerdict)
        /\ history' = Older(history, NoHistory)
        /\ cooldown' = FALSE
        /\ cuts' = IF history' = NoHistory THEN 0 ELSE cuts
        /\ UNCHANGED <<rules, up, enabled, queue, flow, edits, faults>>

-----------------------------------------------------------------------------
(***************************************************************************)
(* A request                                                               *)
(***************************************************************************)
Goto(f, pc, action) == flow' = [flow EXCEPT ![f] = [pc |-> pc, action |-> action]]

\* IPAccessHandler.  A match in the snapshot is terminal; a client with a valid
\* challenge cookie passes the cache and the rules by and is only scored.
Arrive(f, passed, score) ==
    /\ flow[f].pc = "idle"
    /\ IF snapshot # "none" THEN Goto(f, "answer", snapshot)
       ELSE IF passed THEN Goto(f, "answer", score) ELSE Goto(f, "cache", "none")
    /\ UNCHANGED <<rules, up, enabled, redis, queue, edits, faults>>

\* Mutant: a verdict found in the cache is stored anew.
CacheCheckRefreshing(f) ==
    /\ flow[f].pc = "cache"
    /\ Command(decision' = [decision EXCEPT !.left = IF @ = 0 THEN 0 ELSE TTL(decision.action)]
               /\ UNCHANGED <<history, cooldown, cuts>>)
    /\ Goto(f, "rules", IF enabled /\ up THEN decision.action ELSE "none")
    /\ UNCHANGED <<rules, up, queue, edits, faults>>
CacheCheck(f) ==
    /\ flow[f].pc = "cache"
    /\ Command(UNCHANGED redis)
    /\ Goto(f, "rules", IF enabled /\ up THEN decision.action ELSE "none")
    /\ UNCHANGED <<rules, up, queue, edits, faults>>

\* RulesEngineHandler: the cached verdict does not end the phase, so the rules are
\* evaluated; a matching one is final, and its verdict is queued for the cache.  Else
\* the request is scored.
RulesEngine(f, score) ==
    /\ flow[f].pc = "rules"
    /\ Goto(f, "answer", Stricter(flow[f].action, IF rule = "none" THEN score ELSE rule))
    /\ queue' = IF rule \in Verdicts /\ enabled /\ Len(queue) < QueueSize
                THEN Append(queue, rule) ELSE queue
    /\ UNCHANGED <<rules, up, enabled, redis, edits, faults>>

Credited == IF history.n = 0 THEN history' = [n |-> 1, left |-> HistoryTTL] /\ cuts' = 0
            ELSE history' = [history EXCEPT !.n = @ + 1] /\ UNCHANGED cuts
\* Mutant: every clean request is credited.
IncrWithoutCooldown == Credited /\ cooldown' = TRUE /\ UNCHANGED decision
\* The script: one credit per cooldown; only the first one sets the time to live.
IncrWithCooldown ==
    /\ IF cooldown THEN UNCHANGED <<history, cuts>> ELSE Credited
    /\ cooldown' = TRUE /\ UNCHANGED decision

RecordCleanRequest(f) ==
    /\ flow[f].pc = "answer" /\ flow[f].action = "none"
    /\ Command(IncrWithCooldown)
    /\ Goto(f, "idle", "none")
    /\ UNCHANGED <<rules, up, queue, edits, faults>>

\* ResetHistory: nothing without Redis, else two commands.
ResetHistory(f) ==
    /\ flow[f].pc = "answer" /\ flow[f].action # "none"
    /\ Command(history' = NoHistory /\ cuts' = 0 /\ UNCHANGED <<decision, cooldown>>)
    /\ Goto(f, IF enabled THEN "reset" ELSE "idle", "none")
    /\ UNCHANGED <<rules, up, queue, edits, faults>>
ResetCooldown(f) ==
    /\ flow[f].pc = "reset"
    /\ Command(/\ cooldown' = FALSE
               /\ cuts' = IF cooldown /\ history.n > 0 THEN cuts + 1 ELSE cuts
               /\ UNCHANGED <<decision, history>>)
    /\ Goto(f, "idle", "none")
    /\ UNCHANGED <<rules, up, queue, edits, faults>>

writeWorker ==
    /\ queue # <<>> /\ queue' = Tail(queue)
    /\ Command(/\ decision' = [action |-> Head(queue), left |-> TTL(Head(queue))]
               /\ UNCHANGED <<history, cooldown, cuts>>)
    /\ UNCHANGED <<rules, up, flow, edits, faults>>

-----------------------------------------------------------------------------
(***************************************************************************)
(* Administrators and the reload of the access rules                       *)
(***************************************************************************)
Edit == edits < MaxEdits /\ edits' = edits + 1

EditRule == /\ Edit /\ rule' \in {"none", "allow", "block", "challenge"} \ {rule}
            /\ UNCHANGED <<access, snapshot, up, enabled, redis, queue, flow, faults>>
EditAccess == /\ Edit /\ access' \in {"none", "block"} \ {access}
              /\ UNCHANGED <<rule, snapshot, up, enabled, redis, queue, flow, faults>>

\* loadSnapshot without the database gives an empty snapshot.
loadSnapshot(failed) == IF failed THEN "none" ELSE access

\* Mutant: with no rules in memory there is nothing to reload.
autoReloadUnlessEmpty ==
    /\ snapshot # "none" /\ snapshot' = loadSnapshot(FALSE)
    /\ UNCHANGED <<rule, access, up, enabled, redis, queue, flow, edits, faults>>
autoReload ==
    /\ snapshot' = loadSnapshot(FALSE)
    /\ UNCHANGED <<rule, access, up, enabled, redis, queue, flow, edits, faults>>
\* The empty snapshot replaces the one in use all the same.
ReloadFails ==
    /\ Fault /\ snapshot' = loadSnapshot(TRUE)
    /\ UNCHANGED <<rule, access, up, enabled, redis, queue, flow, edits>>

\* A block by score is remembered as a challenge is, so one of them is enough.
Serve(f) == \/ \E passed \in BOOLEAN, score \in {"none", "challenge"} : Arrive(f, passed, score)
            \/ CacheCheck(f)
            \/ \E score \in {"none", "challenge"} : RulesEngine(f, score)
            \/ RecordCleanRequest(f) \/ ResetHistory(f) \/ ResetCooldown(f)

Next == \/ \E f \in Flows : Serve(f)
        \/ writeWorker \/ reconnectLoop \/ RedisFails \/ RedisReturns \/ Tick
        \/ EditRule \/ EditAccess \/ ReloadFails \/ autoReload

\* The writer and the reload ticker run, and time passes.
Fairness == /\ WF_memoryVars(writeWorker) /\ WF_memoryVars(Tick)
            /\ WF_memoryVars(autoReload)
Spec == Init /\ [][Next]_memoryVars /\ Fairness

-----------------------------------------------------------------------------
(***************************************************************************)
(* Properties                                                              *)
(***************************************************************************)

\* One credit per cooldown: the trusted history is at most what its age allows, and one
\* more for every reset that lost the race for its second key (IncrWithCooldown,
\* ResetHistory).
TrustIsRationed == history.n <= (HistoryTTL - history.left) + 1 + cuts

\* The verdict of a rule that is taken away is forgotten, however often the client
\* comes back meanwhile (DecisionCache.Get and Set; nothing invalidates the key).
VerdictFades ==
    rule = "none" ~> (decision = NoVerdict /\ queue = <<>>) \/ rule # "none"

\* A stored access rule is enforced in the end, also after reloads that found no
\* database and emptied the snapshot (loadSnapshot, autoReload).
AccessIsEnforced ==
    \A a \in {"none", "block"} : access = a ~> snapshot = a \/ access # a
=============================================================================
