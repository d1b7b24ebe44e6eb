--------------------------- MODULE DNSClientProofs ---------------------------
(***************************************************************************)
(* Theorems about DNSClient, for any sets of requests, questions, servers  *)
(* and client subnets, with either cache.                                  *)
(***************************************************************************)
EXTENDS DNSClient, TLAPS

\* Keys, and what may be stored under them.
LEMMA KeyFacts ==
    /\ \A a \in Args : KeyOf(a) \in Keys
    /\ \A a \in Answers : KeyOf(a) \in Keys
    /\ NoResult.kind \notin Verdicts
    /\ \A k : Failure(k).kind = k
    /\ \A k \in {"ctxError", "loopback", "rejectedCached", "rejected", "error"} :
          Failure(k) \in Failures /\ k \notin Verdicts
<1>1. \A a \in Args : KeyOf(a) \in Keys
  BY ClientAssumption DEF Args, KeyOf, Keys
<1>2. \A a \in Answers : KeyOf(a) \in Keys
  BY ClientAssumption DEF Answers, KeyOf, Keys
<1>3. NoResult.kind \notin Verdicts
  BY DEF NoResult, Verdicts
<1>4. /\ \A k : Failure(k).kind = k
      /\ \A k \in {"ctxError", "loopback", "rejectedCached", "rejected", "error"} :
            Failure(k) \in Failures /\ k \notin Verdicts
  BY DEF Failure, Failures, Verdicts
<1> QED BY <1>1, <1>2, <1>3, <1>4

\* A query and an answer with the same key agree on the question, and in the
\* independent cache on the server and the subnet.
LEMMA SameKey ==
    ASSUME NEW a \in Args, NEW b \in Answers, KeyOf(a) = KeyOf(b)
    PROVE  /\ a.question = b.question
           /\ Independent => a.transport = b.transport /\ a.subnet = b.subnet
<1>1. CASE Independent
  BY <1>1 DEF KeyOf
<1>2. CASE ~Independent
  BY <1>2 DEF KeyOf
<1> QED BY <1>1, <1>2

\* Init establishes the invariant.
LEMMA InitInv == Init => IInv
<1> SUFFICES ASSUME Init PROVE IInv
  OBVIOUS
<1>1. TypeOK
  BY DEF Init, TypeOK
<1>2. RequestInv
  BY DEF Init, RequestInv
<1>3. LockOwned
  BY DEF Init, LockOwned
<1>4. EntryInv
  BY DEF Init, EntryInv
<1>5. CacheIsolation
  BY KeyFacts DEF Init, CacheIsolation
<1> QED BY <1>1, <1>2, <1>3, <1>4, <1>5 DEF IInv

\* A cached answer is fit for any query that uses the cache and has its key.
LEMMA CachedAnswerFits ==
    ASSUME TypeOK, EntryInv, NEW a \in Args, Cacheable(a), cache[KeyOf(a)] # NoEntry
    PROVE  /\ cache[KeyOf(a)] \in Answers
           /\ cache[KeyOf(a)].question = a.question
           /\ cache[KeyOf(a)].subnet = a.subnet
           /\ Independent => cache[KeyOf(a)].transport = a.transport
<1> DEFINE k == KeyOf(a)
<1>1. k \in Keys
  BY KeyFacts
<1>2. cache[k] \in Answers
  BY <1>1 DEF TypeOK
<1>3. KeyOf(cache[k]) = k /\ (Independent \/ cache[k].subnet = NoSubnet)
  BY <1>1 DEF EntryInv
<1>4. /\ a.question = cache[k].question
      /\ Independent => a.transport = cache[k].transport /\ a.subnet = cache[k].subnet
  BY <1>2, <1>3, SameKey
<1>5. ~Independent => a.subnet = NoSubnet
  BY DEF Cacheable
<1> QED BY <1>2, <1>3, <1>4, <1>5

\* Returning from Exchange keeps every lock owned: the owner takes its channel
\* out of the map and closes it, anyone else touches neither.
LEMMA FinishKeeps ==
    ASSUME IInv, NEW r \in Req, Active(r), NEW o \in Answers \cup Failures,
           Finish(r, o), req' = req, cond' = cond,
           o.kind \in Verdicts =>
              /\ o.question = req[r].question
              /\ o.subnet = req[r].subnet
              /\ Independent => o.transport = req[r].transport
    PROVE  /\ pc' \in [Req -> {"idle", "waiting", "load", "check", "exchange", "done"}]
           /\ closed' \in SUBSET Req
           /\ lock' \in [Keys -> Req \cup {NoReq}]
           /\ result' \in [Req -> Answers \cup Failures \cup {NoResult}]
           /\ RequestInv'
           /\ LockOwned'
           /\ CacheIsolation'
<1> USE DEF IInv
<1>1. /\ pc' \in [Req -> {"idle", "waiting", "load", "check", "exchange", "done"}]
      /\ closed' \in SUBSET Req
      /\ lock' \in [Keys -> Req \cup {NoReq}]
      /\ result' \in [Req -> Answers \cup Failures \cup {NoResult}]
  BY DEF Finish, TypeOK
<1>2. RequestInv'
  BY DEF Finish, TypeOK, RequestInv, Active, Cacheable
<1>3. \A k \in Keys : lock'[k] # NoReq => lock'[k] = lock[k] /\ lock[k] # r
  BY DEF Finish
<1>4. (\A k \in Keys : lock[k] # NoReq =>
          Active(lock[k]) /\ pc[lock[k]] # "waiting" /\ Key(lock[k]) = k)'
  BY <1>3 DEF Finish, TypeOK, LockOwned, Active, Key, KeyOf
<1>5. (\A w \in Req : pc[w] = "waiting" /\ cond[w] \notin closed => lock[Key(w)] = cond[w])'
  <2> SUFFICES ASSUME NEW w \in Req, pc'[w] = "waiting", cond'[w] \notin closed'
               PROVE  lock'[Key(w)'] = cond'[w]
    OBVIOUS
  <2>1. pc[w] = "waiting" /\ cond[w] \notin closed
    BY DEF Finish, TypeOK
  <2>2. Key(w)' = Key(w) /\ Key(w) \in Keys
    BY <2>1, KeyFacts DEF RequestInv, Key, KeyOf
  <2>3. lock[Key(w)] = cond[w]
    BY <2>1 DEF LockOwned
  <2>4. lock[Key(w)] # r
    BY <2>2, <2>3 DEF Finish
  <2> QED BY <2>2, <2>3, <2>4 DEF Finish
<1>6. LockOwned'
  BY <1>4, <1>5 DEF LockOwned
<1>7. CacheIsolation'
  <2> SUFFICES ASSUME NEW w \in Req, result'[w].kind \in Verdicts
               PROVE  /\ result'[w].question = req'[w].question
                      /\ result'[w].subnet = req'[w].subnet
                      /\ Independent => result'[w].transport = req'[w].transport
    BY DEF CacheIsolation
  <2>1. CASE w = r
    BY <2>1 DEF Finish, TypeOK
  <2>2. CASE w # r
    <3>1. result'[w] = result[w]
      BY <2>2 DEF Finish, TypeOK
    <3> QED BY <3>1 DEF CacheIsolation
  <2> QED BY <2>1, <2>2
<1> QED BY <1>1, <1>2, <1>6, <1>7

\* A request that returns a failure keeps the invariant.
LEMMA FailureKeeps ==
    ASSUME IInv, NEW r \in Req, Active(r),
           NEW k \in {"ctxError", "loopback", "rejectedCached", "rejected", "error"},
           Finish(r, Failure(k)), UNCHANGED <<req, cond, cache, expired>>,
           rdrc' \in SUBSET (Transport \X Question)
    PROVE  IInv'
<1>1. Failure(k) \in Failures /\ Failure(k).kind \notin Verdicts
  BY KeyFacts
<1>2. /\ pc' \in [Req -> {"idle", "waiting", "load", "check", "exchange", "done"}]
      /\ closed' \in SUBSET Req
      /\ lock' \in [Keys -> Req \cup {NoReq}]
      /\ result' \in [Req -> Answers \cup Failures \cup {NoResult}]
      /\ RequestInv' /\ LockOwned' /\ CacheIsolation'
  BY <1>1, FinishKeeps
<1>3. TypeOK'
  BY <1>2 DEF IInv, TypeOK
<1>4. EntryInv'
  BY DEF IInv, EntryInv, KeyOf
<1> QED BY <1>2, <1>3, <1>4 DEF IInv

\* A step that moves a request on inside Exchange, without touching a lock or the
\* cache, keeps the invariant.
LEMMA MoveKeeps ==
    ASSUME IInv, NEW r \in Req, Active(r), NEW label \in {"load", "check", "exchange"},
           label = "load" => pc[r] = "waiting",
           pc' = [pc EXCEPT ![r] = label],
           UNCHANGED <<req, cond, closed, lock, cache, rdrc, expired, result>>
    PROVE  IInv'
<1> USE DEF IInv
<1>1. TypeOK'
  BY DEF TypeOK
<1>2. RequestInv'
  BY DEF TypeOK, RequestInv, Active, Cacheable
<1>3. LockOwned'
  <2>1. (\A k \in Keys : lock[k] # NoReq =>
            Active(lock[k]) /\ pc[lock[k]] # "waiting" /\ Key(lock[k]) = k)'
    BY DEF TypeOK, LockOwned, Active, Key, KeyOf
  <2>2. (\A w \in Req : pc[w] = "waiting" /\ cond[w] \notin closed => lock[Key(w)] = cond[w])'
    BY DEF TypeOK, LockOwned, Key, KeyOf
  <2> QED BY <2>1, <2>2 DEF LockOwned
<1>4. EntryInv'
  BY DEF EntryInv, KeyOf
<1>5. CacheIsolation'
  BY DEF CacheIsolation
<1> QED BY <1>1, <1>2, <1>3, <1>4, <1>5

\* A step of the environment on the cache, the rejections or the contexts keeps
\* the invariant when it only forgets cached answers.
LEMMA EnvironmentKeeps ==
    ASSUME IInv, UNCHANGED <<pc, req, cond, closed, lock, result>>,
           cache' \in [Keys -> Answers \cup {NoEntry}],
           \A k \in Keys : cache'[k] \in {cache[k], NoEntry},
           rdrc' \subseteq rdrc, expired' \in SUBSET Req
    PROVE  IInv'
<1> USE DEF IInv
<1>1. TypeOK'
  BY DEF TypeOK
<1>2. RequestInv'
  BY DEF RequestInv, Cacheable
<1>3. LockOwned'
  BY DEF LockOwned, Active, Key, KeyOf
<1>4. EntryInv'
  BY DEF EntryInv, KeyOf
<1>5. CacheIsolation'
  BY DEF CacheIsolation
<1> QED BY <1>1, <1>2, <1>3, <1>4, <1>5

\* A request that arrives holds nothing yet.
LEMMA IdleHoldsNothing ==
    ASSUME IInv, NEW r \in Req, pc[r] = "idle"
    PROVE  \A k \in Keys : lock[k] # r
BY ClientAssumption DEF IInv, LockOwned, Active

\* Every step preserves the invariant.
LEMMA NextInv == IInv /\ [Next]_vars => IInv'
<1> SUFFICES ASSUME IInv, [Next]_vars PROVE IInv'
  OBVIOUS
<1>1. ASSUME NEW r \in Req, NEW a \in Calls, LookupHit(r, a) PROVE IInv'
  <2>0. a \in Args /\ pc[r] = "idle"
    BY <1>1, ClientAssumption DEF LookupHit, Arrives
  <2>1. /\ cache[KeyOf(a)] \in Answers
        /\ cache[KeyOf(a)].question = a.question
        /\ cache[KeyOf(a)].subnet = a.subnet
        /\ Independent => cache[KeyOf(a)].transport = a.transport
    BY <1>1, <2>0, CachedAnswerFits DEF IInv, LookupHit
  <2>2. TypeOK'
    BY <1>1, <2>0, <2>1 DEF LookupHit, Arrives, IInv, TypeOK
  <2>3. RequestInv'
    BY <1>1, <2>0 DEF LookupHit, Arrives, IInv, TypeOK, RequestInv, Cacheable
  <2>4. LockOwned'
    <3>1. (\A k \in Keys : lock[k] # NoReq =>
              Active(lock[k]) /\ pc[lock[k]] # "waiting" /\ Key(lock[k]) = k)'
      BY <1>1, <2>0, IdleHoldsNothing
         DEF LookupHit, Arrives, IInv, TypeOK, LockOwned, Active, Key, KeyOf
    <3>2. (\A w \in Req : pc[w] = "waiting" /\ cond[w] \notin closed => lock[Key(w)] = cond[w])'
      BY <1>1, <2>0 DEF LookupHit, Arrives, IInv, TypeOK, LockOwned, Key, KeyOf
    <3> QED BY <3>1, <3>2 DEF LockOwned
  <2>5. EntryInv'
    BY <1>1 DEF LookupHit, IInv, EntryInv, KeyOf
  <2>6. CacheIsolation'
    <3> SUFFICES ASSUME NEW w \in Req, result'[w].kind \in Verdicts
                 PROVE  /\ result'[w].question = req'[w].question
                        /\ result'[w].subnet = req'[w].subnet
                        /\ Independent => result'[w].transport = req'[w].transport
      BY DEF CacheIsolation
    <3>1. CASE w = r
      BY <3>1, <1>1, <2>0, <2>1 DEF LookupHit, Arrives, IInv, TypeOK
    <3>2. CASE w # r
      <4>1. result'[w] = result[w] /\ req'[w] = req[w]
        BY <3>2, <1>1 DEF LookupHit, Arrives, IInv, TypeOK
      <4> QED BY <4>1 DEF IInv, CacheIsolation
    <3> QED BY <3>1, <3>2
  <2> QED BY <2>2, <2>3, <2>4, <2>5, <2>6 DEF IInv
<1>2. ASSUME NEW r \in Req, NEW a \in Calls, Begin(r, a) PROVE IInv'
  <2>0. a \in Args /\ pc[r] = "idle" /\ KeyOf(a) \in Keys
    BY <1>2, ClientAssumption, KeyFacts DEF Begin, Arrives
  <2>1. pc' \in [Req -> {"idle", "waiting", "load", "check", "exchange", "done"}]
    BY <1>2 DEF Begin, IInv, TypeOK
  <2>2. TypeOK'
    BY <1>2, <2>0, <2>1 DEF Begin, Arrives, IInv, TypeOK
  <2>3. RequestInv'
    BY <1>2, <2>0 DEF Begin, Arrives, IInv, TypeOK, RequestInv, Cacheable
  <2>4. LockOwned'
    <3>1. (\A k \in Keys : lock[k] # NoReq =>
              Active(lock[k]) /\ pc[lock[k]] # "waiting" /\ Key(lock[k]) = k)'
      BY <1>2, <2>0, IdleHoldsNothing
         DEF Begin, Arrives, IInv, TypeOK, LockOwned, Active, Key, KeyOf
    <3>2. (\A w \in Req : pc[w] = "waiting" /\ cond[w] \notin closed => lock[Key(w)] = cond[w])'
      <4> SUFFICES ASSUME NEW w \in Req, pc'[w] = "waiting", cond'[w] \notin closed'
                   PROVE  lock'[KeyOf(req'[w])] = cond'[w]
        BY DEF Key, KeyOf
      <4>1. CASE w = r
        BY <4>1, <1>2 DEF Begin, Arrives, IInv, TypeOK
      <4>2. CASE w # r
        <5>1. /\ pc[w] = "waiting" /\ cond'[w] = cond[w] /\ req'[w] = req[w]
              /\ cond[w] \notin closed
          BY <4>2, <1>2 DEF Begin, Arrives, IInv, TypeOK
        <5>2. lock[KeyOf(req[w])] = cond[w] /\ cond[w] # NoReq /\ KeyOf(req[w]) \in Keys
          BY <5>1, KeyFacts, ClientAssumption DEF IInv, LockOwned, RequestInv, Key
        <5>3. lock'[KeyOf(req[w])] = lock[KeyOf(req[w])]
          BY <5>2, <1>2 DEF Begin, IInv, TypeOK
        <5> QED BY <5>1, <5>2, <5>3
      <4> QED BY <4>1, <4>2
    <3> QED BY <3>1, <3>2 DEF LockOwned
  <2>5. EntryInv'
    BY <1>2 DEF Begin, IInv, EntryInv, KeyOf
  <2>6. CacheIsolation'
    <3> SUFFICES ASSUME NEW w \in Req, result'[w].kind \in Verdicts
                 PROVE  /\ result'[w].question = req'[w].question
                        /\ result'[w].subnet = req'[w].subnet
                        /\ Independent => result'[w].transport = req'[w].transport
      BY DEF CacheIsolation
    <3>1. result' = result /\ result[r] = NoResult
      BY <1>2, <2>0 DEF Begin, IInv, RequestInv
    <3>2. w # r
      BY <3>1, KeyFacts
    <3>3. req'[w] = req[w]
      BY <3>2, <1>2 DEF Begin, Arrives, IInv, TypeOK
    <3> QED BY <3>1, <3>3 DEF IInv, CacheIsolation
  <2> QED BY <2>2, <2>3, <2>4, <2>5, <2>6 DEF IInv
<1>3. ASSUME NEW r \in Req, Wake(r) PROVE IInv'
  BY <1>3, MoveKeeps DEF Wake, Active
<1>4. ASSUME NEW r \in Req, LoadMiss(r) PROVE IInv'
  BY <1>4, MoveKeeps DEF LoadMiss, Active
<1>5. ASSUME NEW r \in Req, CheckPasses(r) PROVE IInv'
  BY <1>5, MoveKeeps DEF CheckPasses, Active
<1>6. ASSUME NEW r \in Req, WaitAborted(r) PROVE IInv'
  <2>1. Active(r)
    BY <1>6 DEF WaitAborted, Active
  <2> QED BY <1>6, <2>1, FailureKeeps DEF WaitAborted, IInv, TypeOK
<1>7. ASSUME NEW r \in Req, CheckRefuses(r) PROVE IInv'
  <2>1. Active(r)
    BY <1>7 DEF CheckRefuses, Active
  <2> DEFINE k == IF Loops(r) THEN "loopback" ELSE "rejectedCached"
  <2>2. k \in {"loopback", "rejectedCached"} /\ Finish(r, Failure(k))
    BY <1>7 DEF CheckRefuses
  <2>3. UNCHANGED <<req, cond, cache, expired>> /\ rdrc' \in SUBSET (Transport \X Question)
    BY <1>7 DEF CheckRefuses, IInv, TypeOK
  <2> HIDE DEF k
  <2> QED BY <2>1, <2>2, <2>3, FailureKeeps
<1>8. ASSUME NEW r \in Req, ExchangeFails(r) PROVE IInv'
  <2>1. Active(r)
    BY <1>8 DEF ExchangeFails, Active
  <2> QED BY <1>8, <2>1, FailureKeeps DEF ExchangeFails, IInv, TypeOK
<1>9. ASSUME NEW r \in Req, LoadHit(r) PROVE IInv'
  <2>1. Active(r) /\ req[r] \in Args /\ Cacheable(req[r])
    BY <1>9 DEF LoadHit, Active, IInv, RequestInv
  <2>2. /\ cache[Key(r)] \in Answers
        /\ cache[Key(r)].question = req[r].question
        /\ cache[Key(r)].subnet = req[r].subnet
        /\ Independent => cache[Key(r)].transport = req[r].transport
    BY <1>9, <2>1, CachedAnswerFits DEF IInv, LoadHit, Key
  <2>3. /\ pc' \in [Req -> {"idle", "waiting", "load", "check", "exchange", "done"}]
        /\ closed' \in SUBSET Req
        /\ lock' \in [Keys -> Req \cup {NoReq}]
        /\ result' \in [Req -> Answers \cup Failures \cup {NoResult}]
        /\ RequestInv' /\ LockOwned' /\ CacheIsolation'
    BY <1>9, <2>1, <2>2, FinishKeeps DEF LoadHit
  <2>4. TypeOK'
    BY <1>9, <2>3 DEF LoadHit, IInv, TypeOK
  <2>5. EntryInv'
    BY <1>9 DEF LoadHit, IInv, EntryInv, KeyOf
  <2> QED BY <2>3, <2>4, <2>5 DEF IInv
<1>10. ASSUME NEW r \in Req, NEW v \in Verdicts, ExchangeRejected(r, v) PROVE IInv'
  <2>1. Active(r) /\ req[r] \in Args
    BY <1>10 DEF ExchangeRejected, Active, IInv, RequestInv
  <2>2. rdrc' \in SUBSET (Transport \X Question)
    BY <1>10, <2>1 DEF ExchangeRejected, IInv, TypeOK, Args
  <2> QED BY <1>10, <2>1, <2>2, FailureKeeps DEF ExchangeRejected
<1>11. ASSUME NEW r \in Req, NEW v \in Verdicts, NEW ttl \in BOOLEAN,
              ExchangeAnswers(r, v, ttl)
       PROVE  IInv'
  <2> DEFINE answer == [kind |-> v, question |-> req[r].question,
                        transport |-> req[r].transport, subnet |-> req[r].subnet]
  <2>1. Active(r) /\ req[r] \in Args
    BY <1>11 DEF ExchangeAnswers, Active, IInv, RequestInv
  <2>2. answer \in Answers /\ KeyOf(answer) = Key(r) /\ Key(r) \in Keys
    BY <2>1, KeyFacts DEF Answers, Args, Key, KeyOf
  <2>3. Finish(r, answer) /\ req' = req /\ cond' = cond /\ rdrc' = rdrc /\ expired' = expired
    BY <1>11 DEF ExchangeAnswers
  <2>4. /\ pc' \in [Req -> {"idle", "waiting", "load", "check", "exchange", "done"}]
        /\ closed' \in SUBSET Req
        /\ lock' \in [Keys -> Req \cup {NoReq}]
        /\ result' \in [Req -> Answers \cup Failures \cup {NoResult}]
        /\ RequestInv' /\ LockOwned' /\ CacheIsolation'
    BY <2>1, <2>2, <2>3, FinishKeeps
  <2>5. \/ cache' = cache
        \/ Cacheable(req[r]) /\ cache' = [cache EXCEPT ![Key(r)] = answer]
    BY <1>11 DEF ExchangeAnswers, Storable
  <2>6. TypeOK'
    BY <2>2, <2>3, <2>4, <2>5 DEF IInv, TypeOK
  <2>7. EntryInv'
    <3>1. CASE cache' = cache
      BY <3>1 DEF IInv, EntryInv, KeyOf
    <3>2. CASE Cacheable(req[r]) /\ cache' = [cache EXCEPT ![Key(r)] = answer]
      <4> SUFFICES ASSUME NEW k \in Keys, cache'[k] # NoEntry
                   PROVE  KeyOf(cache'[k]) = k /\ (Independent \/ cache'[k].subnet = NoSubnet)
        BY DEF EntryInv, KeyOf
      <4>1. CASE k = Key(r)
        BY <4>1, <3>2, <2>2 DEF IInv, TypeOK, Cacheable
      <4>2. CASE k # Key(r)
        BY <4>2, <3>2 DEF IInv, TypeOK, EntryInv
      <4> QED BY <4>1, <4>2
    <3> QED BY <3>1, <3>2, <2>5
  <2> QED BY <2>4, <2>6, <2>7 DEF IInv
<1>12. ASSUME NEW r \in Req, Expire(r) PROVE IInv'
  <2>1. expired' \in SUBSET Req /\ cache' = cache /\ rdrc' = rdrc
    BY <1>12 DEF Expire, Children, IInv, TypeOK
  <2> QED BY <1>12, <2>1, EnvironmentKeeps DEF Expire, IInv, TypeOK
<1>13. ASSUME NEW k \in Keys, EntryExpires(k) PROVE IInv'
  BY <1>13, EnvironmentKeeps DEF EntryExpires, IInv, TypeOK
<1>14. ASSUME ClearCache PROVE IInv'
  BY <1>14, EnvironmentKeeps DEF ClearCache, IInv, TypeOK
<1>15. ASSUME NEW e \in rdrc, RejectionExpires(e) PROVE IInv'
  BY <1>15, EnvironmentKeeps DEF RejectionExpires, IInv, TypeOK
<1>16. CASE UNCHANGED vars
  BY <1>16, EnvironmentKeeps DEF vars, IInv, TypeOK
<1> QED
  BY <1>1, <1>2, <1>3, <1>4, <1>5, <1>6, <1>7, <1>8, <1>9, <1>10, <1>11, <1>12,
     <1>13, <1>14, <1>15, <1>16 DEF Next, Steps

\* The invariant holds throughout.
THEOREM Invariant == Spec => []IInv
BY InitInv, NextInv, PTL DEF Spec

\* Type correctness of the client's state.
THEOREM TypeCorrect == Spec => []TypeOK
<1>1. IInv => TypeOK
  BY DEF IInv
<1> QED BY <1>1, Invariant, PTL

\* Client.Exchange never leaves a lock behind: whatever path a request takes
\* out of it, its channel is out of the map and closed, and a waiter only
\* waits for a request that is still running.
THEOREM LocksReleased == Spec => []LockOwned
<1>1. IInv => LockOwned
  BY DEF IInv
<1> QED BY <1>1, Invariant, PTL

\* No cached answer reaches a request for another question or another client
\* subnet, nor, in the independent cache, one for another server.
THEOREM Isolation == Spec => []CacheIsolation
<1>1. IInv => CacheIsolation
  BY DEF IInv
<1> QED BY <1>1, Invariant, PTL
==============================================================================
