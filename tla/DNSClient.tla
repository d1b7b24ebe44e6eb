------------------------------ MODULE DNSClient ------------------------------
(***************************************************************************)
(* Client.Exchange and the cache in front of it (src/dns/client.go): the   *)
(* per-question lock that makes concurrent callers wait for the first one, *)
(* the response cache, the rejected-response cache (RDRC) and queries that *)
(* a transport issues itself to resolve the address of its server.         *)
(*                                                                         *)
(* A request runs Exchange once.  An answer is the request that obtained   *)
(* it and how the collector of addresses judged it; records and TTLs are   *)
(* left out except that a TTL of zero is not stored and that a stored      *)
(* answer expires.                                                         *)
(***************************************************************************)
EXTENDS Naturals, FiniteSets

CONSTANTS
    Req,            \* requests
    Question,       \* questions asked
    Transport,      \* DNS servers
    Subnet,         \* client subnets attached to queries, NoSubnet included
    NoSubnet,
    Independent,    \* dns.independent_cache
    Calls,          \* the arguments Exchange is called with
    NoReq, NoEntry

VARIABLES
    pc,         \* where each request is in Exchange
    req,        \* its arguments
    cond,       \* the channel it waits on, named by the request that made it
    closed,     \* channels that were closed
    lock,       \* cacheLock / transportCacheLock: the channel under each key
    cache,      \* cache / transportCache
    rdrc,       \* rejected (transport, question) pairs
    expired,    \* requests whose context is done
    result      \* what Exchange returned

vars == <<pc, req, cond, closed, lock, cache, rdrc, expired, result>>

\* Exchange's arguments: parent is the request whose transport asks this one
\* while it dials its server, checked says that a responseChecker is given.
Args == [question : Question, transport : Transport, subnet : Subnet,
         checked : BOOLEAN, disableCache : BOOLEAN, parent : Req \cup {NoReq}]

ASSUME ClientAssumption ==
    /\ NoSubnet \in Subnet
    /\ Independent \in BOOLEAN
    /\ NoReq \notin Req
    /\ NoEntry \notin Args
    /\ Calls \subseteq Args

\* An answer of a server: one an address limit accepts, one it does not (other
\* addresses, an empty answer, NXDOMAIN), or one with an error code.
Verdicts == {"accepted", "unacceptable", "servfail"}
Answers == [kind : Verdicts, question : Question, transport : Transport,
            subnet : Subnet]
Failure(k) == [kind |-> k]
Failures == [kind : {"ctxError", "loopback", "rejectedCached", "rejected", "error"}]
NoResult == [kind |-> "noresult"]

\* Mutant: the independent cache forgets the client subnet.
MutantKeyOf(a) ==
    IF Independent THEN <<a.question, a.transport, NoSubnet>> ELSE <<a.question>>

\* transportCacheKey, or the question alone in the global cache.
KeyOf(a) ==
    IF Independent THEN <<a.question, a.transport, a.subnet>> ELSE <<a.question>>

Keys == IF Independent THEN Question \X Transport \X Subnet
                       ELSE {<<q>> : q \in Question}

\* Mutant: a query with a client subnet uses the global cache as well.
MutantCacheable(a) == ~a.disableCache

\* A query with a client subnet is not simple for the global cache.
Cacheable(a) == ~a.disableCache /\ (a.subnet = NoSubnet \/ Independent)

Key(r) == KeyOf(req[r])

Init ==
    /\ pc = [r \in Req |-> "idle"]
    /\ req = [r \in Req |-> NoEntry]
    /\ cond = [r \in Req |-> NoReq]
    /\ closed = {}
    /\ lock = [k \in Keys |-> NoReq]
    /\ cache = [k \in Keys |-> NoEntry]
    /\ rdrc = {}
    /\ expired = {}
    /\ result = [r \in Req |-> NoResult]

-----------------------------------------------------------------------------
\* Mutant: whoever returns deletes the channel, not only the one that stored it.
MutantFinish(r, outcome) ==
    /\ pc' = [pc EXCEPT ![r] = "done"]
    /\ result' = [result EXCEPT ![r] = outcome]
    /\ lock' = [lock EXCEPT ![Key(r)] = NoReq]
    /\ closed' = IF \E k \in Keys : lock[k] = r THEN closed \cup {r} ELSE closed

\* Returning from Exchange.  The request that stored the channel removes it
\* from the map and closes it, on every path (the deferred function).
Finish(r, outcome) ==
    /\ pc' = [pc EXCEPT ![r] = "done"]
    /\ result' = [result EXCEPT ![r] = outcome]
    /\ lock' = [k \in Keys |-> IF lock[k] = r THEN NoReq ELSE lock[k]]
    /\ closed' = IF \E k \in Keys : lock[k] = r THEN closed \cup {r} ELSE closed

Active(r) == pc[r] \notin {"idle", "done"}
Children(r) == {c \in Req : Active(c) /\ req[c].parent = r}

\* A request arrives.  A nested one comes from the transport of a request that
\* is exchanging and is not nested itself (NestingBound = 1), and its context
\* derives from that request's.
Arrives(r, a) ==
    /\ pc[r] = "idle"
    /\ a.parent # NoReq => /\ pc[a.parent] = "exchange"
                           /\ req[a.parent].parent = NoReq
                           /\ Children(a.parent) = {}
    /\ req' = [req EXCEPT ![r] = a]
    /\ expired' = IF a.parent \in expired THEN expired \cup {r} ELSE expired

\* Lookup looks into the cache before it calls Exchange, without the lock.
LookupHit(r, a) ==
    /\ Arrives(r, a)
    /\ Cacheable(a)
    /\ cache[KeyOf(a)] # NoEntry
    /\ pc' = [pc EXCEPT ![r] = "done"]
    /\ result' = [result EXCEPT ![r] = cache[KeyOf(a)]]
    /\ UNCHANGED <<cond, closed, lock, cache, rdrc>>

\* Exchange up to LoadOrStore: no lock, the lock, or a channel to wait on.
Begin(r, a) ==
    /\ Arrives(r, a)
    /\ \/ /\ ~Cacheable(a)
          /\ pc' = [pc EXCEPT ![r] = "check"]
          /\ UNCHANGED <<cond, lock>>
       \/ /\ Cacheable(a)
          /\ lock[KeyOf(a)] = NoReq
          /\ lock' = [lock EXCEPT ![KeyOf(a)] = r]
          /\ pc' = [pc EXCEPT ![r] = "load"]
          /\ UNCHANGED cond
       \/ /\ Cacheable(a)
          /\ lock[KeyOf(a)] # NoReq
          /\ cond' = [cond EXCEPT ![r] = lock[KeyOf(a)]]
          /\ pc' = [pc EXCEPT ![r] = "waiting"]
          /\ UNCHANGED lock
    /\ UNCHANGED <<closed, cache, rdrc, result>>

\* The wait: the channel is closed, or the context is done.  The woken request
\* does not take the lock.
Wake(r) ==
    /\ pc[r] = "waiting"
    /\ cond[r] \in closed
    /\ pc' = [pc EXCEPT ![r] = "load"]
    /\ UNCHANGED <<req, cond, closed, lock, cache, rdrc, expired, result>>

\* Mutant: the wait has no ctx.Done alternative.
MutantWaitAborted(r) == FALSE

WaitAborted(r) ==
    /\ pc[r] = "waiting"
    /\ r \in expired
    /\ Finish(r, Failure("ctxError"))
    /\ UNCHANGED <<req, cond, cache, rdrc, expired>>

\* loadResponse: a cached answer is returned as it is.
LoadHit(r) ==
    /\ pc[r] = "load"
    /\ cache[Key(r)] # NoEntry
    /\ Finish(r, cache[Key(r)])
    /\ UNCHANGED <<req, cond, cache, rdrc, expired>>

LoadMiss(r) ==
    /\ pc[r] = "load"
    /\ cache[Key(r)] = NoEntry
    /\ pc' = [pc EXCEPT ![r] = "check"]
    /\ UNCHANGED <<req, cond, closed, lock, cache, rdrc, expired, result>>

\* A query that comes back to the transport that asks it is refused.
Loops(r) == req[r].parent # NoReq /\ req[req[r].parent].transport = req[r].transport

KnownRejected(r) ==
    /\ Cacheable(req[r])
    /\ req[r].checked
    /\ <<req[r].transport, req[r].question>> \in rdrc

CheckRefuses(r) ==
    /\ pc[r] = "check"
    /\ Loops(r) \/ KnownRejected(r)
    /\ Finish(r, Failure(IF Loops(r) THEN "loopback" ELSE "rejectedCached"))
    /\ UNCHANGED <<req, cond, cache, rdrc, expired>>

CheckPasses(r) ==
    /\ pc[r] = "check"
    /\ ~Loops(r) /\ ~KnownRejected(r)
    /\ pc' = [pc EXCEPT ![r] = "exchange"]
    /\ UNCHANGED <<req, cond, closed, lock, cache, rdrc, expired, result>>

\* Mutant: a failure is cached like an answer.
MutantExchangeFails(r) ==
    /\ pc[r] = "exchange"
    /\ Children(r) = {}
    /\ Finish(r, Failure("error"))
    /\ cache' = IF Cacheable(req[r]) THEN [cache EXCEPT ![Key(r)] = Failure("error")] ELSE cache
    /\ UNCHANGED <<req, cond, rdrc, expired>>

\* transport.Exchange fails, or ends with its context.
ExchangeFails(r) ==
    /\ pc[r] = "exchange"
    /\ Children(r) = {}
    /\ Finish(r, Failure("error"))
    /\ UNCHANGED <<req, cond, cache, rdrc, expired>>

\* Only NOERROR and NXDOMAIN are worth caching, as answers or as rejections.
Storable(r, v) == Cacheable(req[r]) /\ v # "servfail"

\* The address limit rejects everything but an acceptable NOERROR answer.
ExchangeRejected(r, v) ==
    /\ pc[r] = "exchange"
    /\ Children(r) = {}
    /\ req[r].checked
    /\ v # "accepted"
    /\ rdrc' = IF Storable(r, v)
               THEN rdrc \cup {<<req[r].transport, req[r].question>>}
               ELSE rdrc
    /\ Finish(r, Failure("rejected"))
    /\ UNCHANGED <<req, cond, cache, expired>>

\* A positive TTL lets storeCache store the answer.
ExchangeAnswers(r, v, positiveTTL) ==
    LET answer == [kind |-> v, question |-> req[r].question,
                   transport |-> req[r].transport, subnet |-> req[r].subnet]
    IN  /\ pc[r] = "exchange"
        /\ Children(r) = {}
        /\ req[r].checked => v = "accepted"
        /\ cache' = IF Storable(r, v) /\ positiveTTL
                    THEN [cache EXCEPT ![Key(r)] = answer]
                    ELSE cache
        /\ Finish(r, answer)
        /\ UNCHANGED <<req, cond, rdrc, expired>>

-----------------------------------------------------------------------------
\* Contexts end (with the contexts derived from them), entries expire, the
\* cache is cleared on a network change or by the API.
Expire(r) ==
    /\ Active(r)
    /\ r \notin expired
    /\ expired' = expired \cup {r} \cup Children(r)
    /\ UNCHANGED <<pc, req, cond, closed, lock, cache, rdrc, result>>

EntryExpires(k) ==
    /\ cache[k] # NoEntry
    /\ cache' = [cache EXCEPT ![k] = NoEntry]
    /\ UNCHANGED <<pc, req, cond, closed, lock, rdrc, expired, result>>

ClearCache ==
    /\ \E k \in Keys : cache[k] # NoEntry
    /\ cache' = [k \in Keys |-> NoEntry]
    /\ UNCHANGED <<pc, req, cond, closed, lock, rdrc, expired, result>>

RejectionExpires(e) ==
    /\ rdrc' = rdrc \ {e}
    /\ UNCHANGED <<pc, req, cond, closed, lock, cache, expired, result>>

Steps(r) ==
    \/ Wake(r) \/ WaitAborted(r)
    \/ LoadHit(r) \/ LoadMiss(r)
    \/ CheckRefuses(r) \/ CheckPasses(r)
    \/ ExchangeFails(r)
    \/ \E v \in Verdicts : ExchangeRejected(r, v)
    \/ \E v \in Verdicts, positiveTTL \in BOOLEAN : ExchangeAnswers(r, v, positiveTTL)

Next ==
    \/ \E r \in Req :
          \/ \E a \in Calls : LookupHit(r, a) \/ Begin(r, a)
          \/ Steps(r)
          \/ Expire(r)
    \/ \E k \in Keys : EntryExpires(k)
    \/ ClearCache
    \/ \E e \in rdrc : RejectionExpires(e)

Spec == Init /\ [][Next]_vars

\* Goroutines run; the context of an exchange has a deadline (Exchange sets one
\* when the caller has none), and a transport returns once it has passed (the
\* stream transports that do not are the subject of DNSRacer's Deaf).  Callers
\* need not set a deadline before that, and need not come at all.
Fairness ==
    \A r \in Req :
        /\ WF_vars(Steps(r))
        /\ WF_vars(pc[r] = "exchange" /\ Expire(r))

FairSpec == Spec /\ Fairness

-----------------------------------------------------------------------------
TypeOK ==
    /\ pc \in [Req -> {"idle", "waiting", "load", "check", "exchange", "done"}]
    /\ req \in [Req -> Args \cup {NoEntry}]
    /\ cond \in [Req -> Req \cup {NoReq}]
    /\ closed \in SUBSET Req
    /\ lock \in [Keys -> Req \cup {NoReq}]
    /\ cache \in [Keys -> Answers \cup {NoEntry}]
    /\ rdrc \in SUBSET (Transport \X Question)
    /\ expired \in SUBSET Req
    /\ result \in [Req -> Answers \cup Failures \cup {NoResult}]

\* The lock of a key is held by a request for that key that is still running,
\* and whoever waits, waits for a channel that is closed or whose owner is
\* still running: no return path leaves a lock behind (client.go:219-247).
LockOwned ==
    /\ \A k \in Keys : lock[k] # NoReq =>
          Active(lock[k]) /\ pc[lock[k]] # "waiting" /\ Key(lock[k]) = k
    /\ \A r \in Req : pc[r] = "waiting" /\ cond[r] \notin closed =>
          lock[Key(r)] = cond[r]

\* No answer crosses over: what a request is given was asked for its question,
\* with its client subnet, and of its own server when the cache is independent
\* (README 3.4, client.go:205-217, 453-478).
CacheIsolation ==
    \A r \in Req : result[r].kind \in Verdicts =>
        /\ result[r].question = req[r].question
        /\ result[r].subnet = req[r].subnet
        /\ Independent => result[r].transport = req[r].transport

\* Every request returns, also when it waits for another one, and even when the
\* one it waits for is the query it was issued for: the deadline of the
\* exchange breaks that cycle (client.go:221-226, 270-272).
RequestReturns == \A r \in Req : Active(r) ~> pc[r] = "done"

\* A query that loops back into the transport that issued it is refused as a
\* loopback, or answered from the cache (client.go:258-261).
LoopbackRefused ==
    \A r \in Req : pc[r] = "done" /\ Loops(r) =>
        result[r].kind \in Verdicts \cup {"loopback"}

-----------------------------------------------------------------------------
\* Why they hold, as an inductive invariant.

\* A request has arguments from its arrival on and a result only at its return;
\* only requests that use the cache wait or look into it.
RequestInv ==
    \A r \in Req :
        /\ pc[r] = "idle" => result[r] = NoResult
        /\ pc[r] # "idle" => req[r] \in Args
        /\ pc[r] \in {"waiting", "load"} => Cacheable(req[r])
        /\ pc[r] = "waiting" => cond[r] \in Req

\* A stored answer lies under the key of the query that obtained it, and in the
\* global cache it was obtained without a client subnet.
EntryInv ==
    \A k \in Keys : cache[k] # NoEntry =>
        /\ KeyOf(cache[k]) = k
        /\ Independent \/ cache[k].subnet = NoSubnet

IInv ==
    /\ TypeOK
    /\ RequestInv
    /\ LockOwned
    /\ EntryInv
    /\ CacheIsolation
==============================================================================
