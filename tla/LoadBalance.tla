----------------------------- MODULE LoadBalance -----------------------------
(***************************************************************************)
(* The load-balance group (src/protocol/group/load_balance.go) with the    *)
(* health checks it triggers (src/protocol/group/healthcheck.go, urlTest). *)
(*                                                                         *)
(* Dial stands for calls of DialContext and ListenPacket, which are the    *)
(* same loop: read which outbounds have a test record, choose one, dial it *)
(* and, when that fails, drop its record, exclude it and go round again.   *)
(* Health checks run beside the dials and write the same records.  Records *)
(* are kept as a set (delay and age are not used here), keys stand for     *)
(* network, source and destination, outbounds are not groups themselves    *)
(* (RealTag is the outbound), and lastSelected, which only Now() reads, is *)
(* left out.                                                               *)
(***************************************************************************)
EXTENDS Naturals, FiniteSets

CONSTANTS
    Outbound,       \* the outbounds of the group
    Position,       \* their place in the list
    Dial,           \* calls
    Key,            \* what a call is distinguished by
    Supports,       \* the outbounds that support the network of a key
    Rank,           \* the order rendezvousPick prefers them in, by key
    Strategies,     \* strategies considered
    RRModulus,      \* rrCounter is kept modulo this number
    MaxChecks,      \* bound on check goroutines that were not scheduled yet
    NoOutbound, NoKey

ASSUME BalanceAssumption ==
    /\ IsFiniteSet(Outbound) /\ NoOutbound \notin Outbound
    /\ Position \in [Outbound -> Nat]
    /\ \A o, p \in Outbound : Position[o] = Position[p] => o = p
    /\ Supports \in [Key -> SUBSET Outbound]
    /\ Rank \in [Key -> [Outbound -> Nat]]
    /\ \A k \in Key : \A o, p \in Outbound : Rank[k][o] = Rank[k][p] => o = p
    /\ Strategies \subseteq {"round-robin", "consistent-hashing", "sticky-sessions"}
    /\ RRModulus \in Nat \ {0} /\ \A n \in 1..Cardinality(Outbound) : RRModulus % n = 0
    /\ MaxChecks \in Nat

VARIABLES
    strategy,       \* the strategy of this group
    history,        \* outbounds with a test record
    checking,       \* the flag urlTest runs under
    testing,        \* outbounds the running check has not heard of yet
    checks,         \* "go CheckOutbounds(true)" goroutines not scheduled yet
    rrCounter,
    stickyCache,
    pc,             \* where each call is
    key,            \* its key
    excluded,       \* outbounds it has failed with
    scanned,        \* outbounds candidates() has looked at
    available,      \* those of them that had a record
    detour,         \* the outbound it dials
    triggeredCheck,
    restored        \* excluded outbounds that a check found working since
                    \* (a history variable: the code has none)

check == <<checking, testing>>
balancer == <<rrCounter, stickyCache>>
loop == <<excluded, scanned, available, detour, triggeredCheck>>
vars == <<strategy, history, check, checks, balancer, pc, key, loop, restored>>

Init ==
    /\ strategy \in Strategies
    /\ history = {}
    /\ checking = FALSE
    /\ testing = {}
    /\ checks = 0
    /\ rrCounter = 0
    /\ stickyCache = [k \in Key |-> NoOutbound]
    /\ pc = [d \in Dial |-> "idle"]
    /\ key = [d \in Dial |-> NoKey]
    /\ excluded = [d \in Dial |-> {}]
    /\ scanned = [d \in Dial |-> {}]
    /\ available = [d \in Dial |-> {}]
    /\ detour = [d \in Dial |-> NoOutbound]
    /\ triggeredCheck = [d \in Dial |-> FALSE]
    /\ restored = [d \in Dial |-> {}]

-----------------------------------------------------------------------------
\* One round of the loop.  candidates() reads the records one by one.
Supported(d) == Supports[key[d]]

Running(d) == pc[d] \in {"scan", "dial"}

Call(d, k) ==
    /\ pc[d] = "idle"
    /\ key' = [key EXCEPT ![d] = k]
    /\ pc' = [pc EXCEPT ![d] = "scan"]
    /\ UNCHANGED <<strategy, history, check, checks, balancer, loop, restored>>

Scan(d, o) ==
    /\ pc[d] = "scan"
    /\ o \in Supported(d) \ scanned[d]
    /\ \A p \in Supported(d) \ scanned[d] : Position[o] <= Position[p]
    /\ scanned' = [scanned EXCEPT ![d] = @ \cup {o}]
    /\ available' = [available EXCEPT ![d] = IF o \in history THEN @ \cup {o} ELSE @]
    /\ UNCHANGED <<strategy, history, check, checks, balancer, pc, key, excluded,
                   detour, triggeredCheck, restored>>

\* Mutant: only outbounds with a record are candidates.
MutantCandidates(d) == available[d] \ excluded[d]

\* The outbounds with a record, all of them when there is none; then the
\* excluded ones are filtered out.
Candidates(d) ==
    (IF available[d] # {} THEN available[d] ELSE Supported(d)) \ excluded[d]

selectRoundRobin(S, n) ==
    CHOOSE o \in S : Cardinality({p \in S : Position[p] < Position[o]}) = n % Cardinality(S)

rendezvousPick(k, S) == CHOOSE o \in S : \A p \in S : Rank[k][p] <= Rank[k][o]

\* Mutant: the sticky entry is used without a look at the candidates.
MutantSelectOutbound(d) ==
    LET k == key[d] IN
    IF strategy = "round-robin" THEN selectRoundRobin(Candidates(d), rrCounter)
    ELSE IF strategy = "sticky-sessions" THEN stickyCache[k]
         ELSE rendezvousPick(k, Candidates(d))

\* Mutant: loadSticky returns the outbound of an entry that is no candidate.
MutantLoadSticky(d) ==
    LET k == key[d] IN
    IF strategy = "round-robin" THEN selectRoundRobin(Candidates(d), rrCounter)
    ELSE IF strategy = "sticky-sessions" /\ stickyCache[k] # NoOutbound
         THEN stickyCache[k]
         ELSE rendezvousPick(k, Candidates(d))

selectOutbound(d) ==
    LET k == key[d] IN
    IF strategy = "round-robin" THEN selectRoundRobin(Candidates(d), rrCounter)
    ELSE IF strategy = "sticky-sessions" /\ stickyCache[k] \in Candidates(d)
         THEN stickyCache[k]
         ELSE rendezvousPick(k, Candidates(d))

\* The slices of candidates() are gone once an outbound is chosen.
EndScan(d) ==
    /\ scanned' = [scanned EXCEPT ![d] = {}]
    /\ available' = [available EXCEPT ![d] = {}]

\* The locals of a call that returns are gone.
Return(d, label) ==
    /\ pc' = [pc EXCEPT ![d] = label]
    /\ key' = [key EXCEPT ![d] = NoKey]
    /\ EndScan(d)
    /\ detour' = [detour EXCEPT ![d] = NoOutbound]
    /\ excluded' = [excluded EXCEPT ![d] = {}]
    /\ restored' = [restored EXCEPT ![d] = {}]
    /\ triggeredCheck' = [triggeredCheck EXCEPT ![d] = FALSE]

Scanned(d) == pc[d] = "scan" /\ scanned[d] = Supported(d)

Select(d) ==
    /\ Scanned(d)
    /\ Candidates(d) # {}
    /\ detour' = [detour EXCEPT ![d] = selectOutbound(d)]
    /\ rrCounter' = IF strategy = "round-robin" THEN (rrCounter + 1) % RRModulus ELSE rrCounter
    /\ pc' = [pc EXCEPT ![d] = "dial"]
    /\ EndScan(d)
    /\ UNCHANGED <<strategy, history, check, checks, stickyCache, key,
                   excluded, triggeredCheck, restored>>

\* No candidate is left: the last error, or "missing supported outbound".
Exhausted(d) ==
    /\ Scanned(d)
    /\ Candidates(d) = {}
    /\ Return(d, "error")
    /\ UNCHANGED <<strategy, history, check, checks, balancer>>

DialSucceeds(d) ==
    /\ pc[d] = "dial"
    /\ Return(d, "connected")
    /\ stickyCache' = IF strategy = "sticky-sessions"
                      THEN [stickyCache EXCEPT ![key[d]] = detour[d]]
                      ELSE stickyCache
    /\ UNCHANGED <<strategy, history, check, checks, rrCounter>>

\* Mutant: the failed outbound stays a candidate once it has a record again.
MutantExclude(d) == UNCHANGED excluded

Exclude(d) == excluded' = [excluded EXCEPT ![d] = @ \cup {detour[d]}]

\* Mutant: the record of the failed outbound stays.
MutantDropRecord(d) == UNCHANGED history

DropRecord(d) == history' = history \ {detour[d]}

\* The first failure of a call starts a forced check in a goroutine.
DialFails(d) ==
    /\ pc[d] = "dial"
    /\ triggeredCheck[d] \/ checks < MaxChecks
    /\ DropRecord(d)
    /\ stickyCache' = IF strategy = "sticky-sessions"
                      THEN [stickyCache EXCEPT ![key[d]] = NoOutbound]
                      ELSE stickyCache
    /\ Exclude(d)
    /\ checks' = IF triggeredCheck[d] THEN checks ELSE checks + 1
    /\ triggeredCheck' = [triggeredCheck EXCEPT ![d] = TRUE]
    /\ detour' = [detour EXCEPT ![d] = NoOutbound]
    /\ pc' = [pc EXCEPT ![d] = "scan"]
    /\ UNCHANGED <<strategy, check, rrCounter, key, scanned, available, restored>>

-----------------------------------------------------------------------------
\* Health checks.  A forced one tests every outbound; a periodic one those
\* without a record or with one older than the interval.  A check that finds
\* another one running does nothing.
CheckOutbounds(S) ==
    /\ ~checking
    /\ checking' = TRUE
    /\ testing' = S

ForcedCheck ==
    /\ checks > 0
    /\ checks' = checks - 1
    /\ \/ CheckOutbounds(Outbound)
       \/ checking /\ UNCHANGED check
    /\ UNCHANGED <<strategy, history, balancer, pc, key, loop, restored>>

PeriodicCheck(old) ==
    /\ CheckOutbounds((Outbound \ history) \cup old)
    /\ UNCHANGED <<strategy, history, checks, balancer, pc, key, loop, restored>>

\* One outbound's test ends, with a record or without.
TestSucceeds(o) ==
    /\ o \in testing
    /\ testing' = testing \ {o}
    /\ history' = history \cup {o}
    /\ restored' = [d \in Dial |-> restored[d] \cup ({o} \cap excluded[d])]
    /\ UNCHANGED <<strategy, checking, checks, balancer, pc, key, loop>>

TestFails(o) ==
    /\ o \in testing
    /\ testing' = testing \ {o}
    /\ history' = history \ {o}
    /\ UNCHANGED <<strategy, checking, checks, balancer, pc, key, loop, restored>>

CheckEnds ==
    /\ checking
    /\ testing = {}
    /\ checking' = FALSE
    /\ UNCHANGED <<strategy, history, testing, checks, balancer, pc, key, loop, restored>>

\* A sticky entry passes its ten minutes.
StickyExpires(k) ==
    /\ stickyCache[k] # NoOutbound
    /\ stickyCache' = [stickyCache EXCEPT ![k] = NoOutbound]
    /\ UNCHANGED <<strategy, history, check, checks, rrCounter, pc, key,
                   loop, restored>>

-----------------------------------------------------------------------------
Round(d) ==
    \/ \E o \in Outbound : Scan(d, o)
    \/ Select(d) \/ Exhausted(d)
    \/ DialSucceeds(d) \/ DialFails(d)

Checker ==
    \/ ForcedCheck
    \/ CheckEnds
    \/ \E o \in Outbound : TestSucceeds(o) \/ TestFails(o)

Next ==
    \/ \E d \in Dial : Round(d) \/ \E k \in Key : Call(d, k)
    \/ Checker
    \/ \E old \in SUBSET history : PeriodicCheck(old)
    \/ \E k \in Key : StickyExpires(k)

Spec == Init /\ [][Next]_vars

\* Calls go on (dialling ends), and check goroutines get to run.  Nothing is
\* assumed of the outcomes, nor of the progress of a check.
FairSpec ==
    /\ Spec
    /\ \A d \in Dial : WF_vars(Round(d))
    /\ WF_vars(ForcedCheck)

-----------------------------------------------------------------------------
TypeOK ==
    /\ strategy \in Strategies
    /\ history \in SUBSET Outbound
    /\ checking \in BOOLEAN
    /\ testing \in SUBSET Outbound
    /\ checks \in 0..MaxChecks
    /\ rrCounter \in 0..(RRModulus - 1)
    /\ stickyCache \in [Key -> Outbound \cup {NoOutbound}]
    /\ pc \in [Dial -> {"idle", "scan", "dial", "connected", "error"}]
    /\ key \in [Dial -> Key \cup {NoKey}]
    /\ {excluded, scanned, available, restored} \subseteq [Dial -> SUBSET Outbound]
    /\ detour \in [Dial -> Outbound \cup {NoOutbound}]
    /\ triggeredCheck \in [Dial -> BOOLEAN]

\* "失败时自动重试切换到其他出站": on failure another outbound is tried
\* (README.md section 5.2).  A call reports an error only when every outbound
\* that supports its network has failed.
GivesUp(d) == pc[d] # "error" /\ pc'[d] = "error"

RetryCoversAll ==
    [][\A d \in Dial : GivesUp(d) => Supported(d) \subseteq excluded[d]]_vars

\* What the loop keeps of it: a call gives up before it has tried every outbound
\* only when a health check found an outbound working again that this call had
\* failed with, so that the records name excluded outbounds only
\* (load_balance.go:203-210, 225-233, 276-292).
GivesUpOnlyOnRecovery ==
    [][\A d \in Dial : GivesUp(d) =>
          Supported(d) \subseteq excluded[d] \/ restored[d] # {}]_vars

\* No call dials an outbound it has failed with before, or one that does not
\* support its network, even when another call with the same key has stored
\* that outbound as the sticky one in the meantime (load_balance.go:204, 346-351).
NoFailedRedial ==
    \A d \in Dial : pc[d] = "dial" => detour[d] \in Supported(d) \ excluded[d]

\* Every call returns however often the checks bring records back, because an
\* outbound that failed is out for the rest of the call (load_balance.go:229).
CallReturns == \A d \in Dial : Running(d) ~> ~Running(d)

\* A record of an outbound that a running call failed with was written after
\* that failure, by a check: no failure leaves the record it refutes behind,
\* whatever other calls and the check do meanwhile (load_balance.go:225, 264).
FailureOutdatesRecord ==
    \A d \in Dial : (history \cup available[d]) \cap excluded[d] \subseteq restored[d]

-----------------------------------------------------------------------------
\* The inductive invariant: where a call can be and what it holds there, and how
\* records and failures are related.  A round starts from nothing.
LoopInv(d) ==
    /\ Running(d) => key[d] \in Key
    /\ pc[d] = "scan" => available[d] \subseteq Supported(d)
    /\ pc[d] # "scan" => available[d] = {}

\* What every step of a call, of a check and of the sticky cache preserves
\* (load_balance.go:192-292), from which what a call may dial and when it may
\* give up follow.
IInv == TypeOK /\ (\A d \in Dial : LoopInv(d)) /\ NoFailedRedial /\ FailureOutdatesRecord
==============================================================================
