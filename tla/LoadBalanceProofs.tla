-------------------------- MODULE LoadBalanceProofs --------------------------
(***************************************************************************)
(* Theorems about LoadBalance, for any outbounds, calls and strategies.    *)
(***************************************************************************)
EXTENDS LoadBalance, OrderLemmas, TLAPS

-----------------------------------------------------------------------------
\* The strategies return a candidate.

\* A set of outbounds has a last one in every numbering.
LEMMA LastOutbound ==
    ASSUME NEW f \in [Outbound -> Nat], NEW S \in SUBSET Outbound, S # {}
    PROVE  \E o \in S : \A p \in S : f[p] <= f[o]
<1> DEFINE Bad(U) == U # {} /\ \A o \in U : \E p \in U : ~(f[p] <= f[o])
           B == {U \in SUBSET Outbound : Bad(U)}
<1> SUFFICES ASSUME Bad(S)
             PROVE  FALSE
  OBVIOUS
<1>1. B \in SUBSET (SUBSET Outbound) /\ B # {}
  OBVIOUS
<1>2. IsFiniteSet(Outbound)
  BY BalanceAssumption
<1>3. PICK U \in B : \A V \in B : V \subseteq U => V = U
  <2> HIDE DEF B
  <2> QED
    BY <1>1, <1>2, SmallestSubset
<1>4. PICK x \in U : TRUE
  OBVIOUS
<1> DEFINE V == U \ {x}
<1>5. V \notin B /\ V \in SUBSET Outbound
  BY <1>3, <1>4
<1>6. CASE V = {}
  BY <1>4, <1>6
<1>7. CASE V # {}
  <2>1. PICK o \in V : \A p \in V : f[p] <= f[o]
    BY <1>5, <1>7
  <2>2. f[o] \in Nat /\ f[x] \in Nat /\ \A p \in U : f[p] \in Nat
    BY <1>4
  <2>3. CASE f[x] <= f[o]
    <3>1. \A p \in U : f[p] <= f[o]
      BY <2>1, <2>3
    <3> QED
      BY <3>1
  <2>4. CASE f[o] <= f[x]
    <3>1. \A p \in U : f[p] <= f[x]
      BY <2>1, <2>2, <2>4
    <3> QED
      BY <3>1, <1>4
  <2> QED
    BY <2>2, <2>3, <2>4
<1> QED
  BY <1>6, <1>7

\* In a list of n outbounds there is one with k before it, for every k below n.
LEMMA NthOutbound ==
    ASSUME NEW S \in SUBSET Outbound, NEW k \in Nat, k < Cardinality(S)
    PROVE  \E o \in S : Cardinality({p \in S : Position[p] < Position[o]}) = k
<1> DEFINE Before(U, o) == {p \in U : Position[p] < Position[o]}
           Bad(U) == k < Cardinality(U) /\ \A o \in U : Cardinality(Before(U, o)) # k
           B == {U \in SUBSET Outbound : Bad(U)}
<1> SUFFICES ASSUME Bad(S)
             PROVE  FALSE
  OBVIOUS
<1>1. B \in SUBSET (SUBSET Outbound) /\ B # {}
  OBVIOUS
<1>2. /\ IsFiniteSet(Outbound)
      /\ Position \in [Outbound -> Nat]
      /\ \A o, p \in Outbound : Position[o] = Position[p] => o = p
  BY BalanceAssumption
<1>3. PICK U \in B : \A V \in B : V \subseteq U => V = U
  <2> HIDE DEF B
  <2> QED
    BY <1>1, <1>2, SmallestSubset
<1>4. U \in SUBSET Outbound /\ k < Cardinality(U)
      /\ \A o \in U : Cardinality(Before(U, o)) # k
  OBVIOUS
<1>5. IsFiniteSet(U) /\ Cardinality(U) \in Nat
  BY <1>2, <1>4, FS_Subset, FS_CardinalityType
<1>6. U # {}
  BY <1>4, FS_EmptySet
<1>7. PICK m \in U : \A p \in U : Position[p] <= Position[m]
  BY <1>2, <1>4, <1>6, LastOutbound
<1> DEFINE V == U \ {m}
<1>8. IsFiniteSet(V) /\ Cardinality(V) = Cardinality(U) - 1
  BY <1>5, <1>7, FS_RemoveElement
<1>9. Before(U, m) = V
  <2>1. ASSUME NEW p \in U
        PROVE  Position[p] < Position[m] <=> p # m
    BY <1>2, <1>4, <1>7
  <2> QED
    BY <2>1
<1>10. \A o \in V : Before(U, o) = Before(V, o)
  BY <1>2, <1>4, <1>7
<1>11. k < Cardinality(V)
  <2>1. Cardinality(V) # k
    BY <1>4, <1>7, <1>9
  <2> HIDE DEF V
  <2> QED
    BY <1>4, <1>5, <1>8, <2>1
<1>12. V \in SUBSET Outbound /\ V \notin B
  BY <1>3, <1>4, <1>7
<1>13. PICK o \in V : Cardinality(Before(V, o)) = k
  BY <1>11, <1>12
<1>14. o \in U /\ Cardinality(Before(U, o)) = k
  BY <1>10, <1>13
<1> QED
  BY <1>4, <1>14

LEMMA RendezvousPickIn ==
    ASSUME NEW k \in Key, NEW S \in SUBSET Outbound, S # {}
    PROVE  rendezvousPick(k, S) \in S
<1>1. Rank[k] \in [Outbound -> Nat]
  BY BalanceAssumption
<1>2. \E o \in S : \A p \in S : Rank[k][p] <= Rank[k][o]
  BY <1>1, LastOutbound
<1> QED
  BY <1>2 DEF rendezvousPick

LEMMA SelectRoundRobinIn ==
    ASSUME NEW S \in SUBSET Outbound, S # {}, NEW n \in Nat
    PROVE  selectRoundRobin(S, n) \in S
<1>1. IsFiniteSet(S) /\ Cardinality(S) \in Nat /\ Cardinality(S) # 0
  BY BalanceAssumption, FS_Subset, FS_CardinalityType, FS_EmptySet
<1>2. n % Cardinality(S) \in Nat /\ n % Cardinality(S) < Cardinality(S)
  <2> DEFINE m == Cardinality(S)
  <2>1. m \in Nat /\ m > 0
    BY <1>1
  <2> HIDE DEF m
  <2>2. n % m \in 0..(m-1)
    BY <2>1
  <2> QED
    BY <2>1, <2>2 DEF m
<1>3. \E o \in S : Cardinality({p \in S : Position[p] < Position[o]}) = n % Cardinality(S)
  BY <1>2, NthOutbound
<1> QED
  BY <1>3 DEF selectRoundRobin

\* Every strategy returns a candidate when there is one.
LEMMA SelectOutboundIn ==
    ASSUME IInv, NEW d \in Dial, pc[d] = "scan", Candidates(d) # {}
    PROVE  /\ selectOutbound(d) \in Candidates(d)
           /\ Candidates(d) \subseteq Supported(d) \ excluded[d]
           /\ Candidates(d) \subseteq Outbound
<1>1. LoopInv(d) /\ key[d] \in Key
  BY DEF IInv, LoopInv, Running
<1>2. Supported(d) \in SUBSET Outbound
  BY <1>1, BalanceAssumption DEF Supported
<1>3. Candidates(d) \subseteq Supported(d) \ excluded[d]
  BY <1>1 DEF LoopInv, Candidates
<1>4. Candidates(d) \in SUBSET Outbound
  BY <1>2, <1>3
<1>5. rrCounter \in Nat
  BY BalanceAssumption DEF IInv, TypeOK
<1>6. selectRoundRobin(Candidates(d), rrCounter) \in Candidates(d)
  BY <1>4, <1>5, SelectRoundRobinIn
<1>7. rendezvousPick(key[d], Candidates(d)) \in Candidates(d)
  BY <1>1, <1>4, RendezvousPickIn
<1> QED
  BY <1>3, <1>4, <1>6, <1>7 DEF selectOutbound

-----------------------------------------------------------------------------
\* The inductive invariant.

\* The types of what belongs to a call.
LEMMA LoopTypes ==
    ASSUME IInv
    PROVE  /\ pc \in [Dial -> {"idle", "scan", "dial", "connected", "error"}]
           /\ key \in [Dial -> Key \cup {NoKey}]
           /\ excluded \in [Dial -> SUBSET Outbound]
           /\ scanned \in [Dial -> SUBSET Outbound]
           /\ available \in [Dial -> SUBSET Outbound]
           /\ restored \in [Dial -> SUBSET Outbound]
           /\ detour \in [Dial -> Outbound \cup {NoOutbound}]
           /\ triggeredCheck \in [Dial -> BOOLEAN]
BY DEF IInv, TypeOK

LEMMA CallInv ==
    ASSUME IInv, NEW d \in Dial, NEW k \in Key, Call(d, k)
    PROVE  IInv'
<1> USE DEF Call, check, balancer, loop
<1>1. /\ pc'[d] = "scan" /\ pc[d] = "idle" /\ key'[d] = k
      /\ \A e \in Dial \ {d} : pc'[e] = pc[e] /\ key'[e] = key[e]
      /\ pc' \in [Dial -> {"idle", "scan", "dial", "connected", "error"}]
      /\ key' \in [Dial -> Key \cup {NoKey}]
  BY LoopTypes
<1>2. TypeOK'
  BY <1>1 DEF IInv, TypeOK
<1>3. ASSUME NEW e \in Dial
      PROVE  LoopInv(e)'
  BY <1>1 DEF IInv, LoopInv, Running, Supported
<1>4. NoFailedRedial'
  BY <1>1 DEF IInv, NoFailedRedial, Supported
<1>5. FailureOutdatesRecord'
  BY DEF IInv, FailureOutdatesRecord
<1> QED
  BY <1>2, <1>3, <1>4, <1>5 DEF IInv

LEMMA ScanInv ==
    ASSUME IInv, NEW d \in Dial, NEW o \in Outbound, Scan(d, o)
    PROVE  IInv'
<1> USE DEF Scan, check, balancer
<1>1. /\ scanned' \in [Dial -> SUBSET Outbound]
      /\ available' \in [Dial -> SUBSET Outbound]
      /\ available'[d] = IF o \in history THEN available[d] \cup {o} ELSE available[d]
      /\ \A e \in Dial \ {d} : available'[e] = available[e]
      /\ o \in Supported(d) /\ pc[d] = "scan"
  BY LoopTypes
<1>2. TypeOK'
  BY <1>1 DEF IInv, TypeOK
<1>3. ASSUME NEW e \in Dial
      PROVE  LoopInv(e)'
  BY <1>1 DEF IInv, LoopInv, Running, Supported
<1>4. NoFailedRedial'
  BY DEF IInv, NoFailedRedial, Supported
<1>5. FailureOutdatesRecord'
  BY <1>1 DEF IInv, FailureOutdatesRecord
<1> QED
  BY <1>2, <1>3, <1>4, <1>5 DEF IInv

LEMMA SelectInv ==
    ASSUME IInv, NEW d \in Dial, Select(d)
    PROVE  IInv'
<1> USE DEF Select, EndScan, check
<1>1. pc[d] = "scan" /\ Candidates(d) # {}
  BY DEF Scanned
<1> DEFINE o == selectOutbound(d)
<1>2. o \in Supported(d) \ excluded[d] /\ o \in Outbound
  BY <1>1, SelectOutboundIn
<1>3. detour' = [detour EXCEPT ![d] = o]
  OBVIOUS
<1> HIDE DEF o
<1>4. /\ pc'[d] = "dial" /\ detour'[d] = o /\ available'[d] = {}
      /\ \A e \in Dial \ {d} : /\ pc'[e] = pc[e] /\ detour'[e] = detour[e]
                               /\ available'[e] = available[e]
      /\ pc' \in [Dial -> {"idle", "scan", "dial", "connected", "error"}]
      /\ detour' \in [Dial -> Outbound \cup {NoOutbound}]
      /\ scanned' \in [Dial -> SUBSET Outbound]
      /\ available' \in [Dial -> SUBSET Outbound]
  BY <1>2, <1>3, LoopTypes
<1>5. rrCounter' \in 0..(RRModulus - 1)
  <2>1. RRModulus \in Nat /\ RRModulus > 0 /\ rrCounter \in 0..(RRModulus - 1)
    BY BalanceAssumption DEF IInv, TypeOK
  <2>2. (rrCounter + 1) % RRModulus \in 0..(RRModulus - 1)
    BY <2>1
  <2> QED
    BY <2>1, <2>2
<1>6. TypeOK'
  BY <1>4, <1>5 DEF IInv, TypeOK
<1>7. ASSUME NEW e \in Dial
      PROVE  LoopInv(e)'
  BY <1>1, <1>4 DEF IInv, LoopInv, Running, Supported
<1>8. NoFailedRedial'
  BY <1>2, <1>4 DEF IInv, NoFailedRedial, Supported
<1>9. FailureOutdatesRecord'
  BY <1>4 DEF IInv, FailureOutdatesRecord
<1> QED
  BY <1>6, <1>7, <1>8, <1>9 DEF IInv

\* A call that returns leaves nothing behind.
LEMMA ReturnInv ==
    ASSUME IInv, NEW d \in Dial, NEW label \in {"connected", "error"}, Return(d, label),
           UNCHANGED <<strategy, history, check, checks, rrCounter>>,
           stickyCache' \in [Key -> Outbound \cup {NoOutbound}]
    PROVE  IInv'
<1> USE DEF Return, EndScan, check
<1>1. /\ pc'[d] = label /\ available'[d] = {} /\ excluded'[d] = {}
      /\ \A e \in Dial \ {d} : /\ pc'[e] = pc[e] /\ detour'[e] = detour[e] /\ key'[e] = key[e]
                               /\ available'[e] = available[e] /\ excluded'[e] = excluded[e]
                               /\ restored'[e] = restored[e]
      /\ pc' \in [Dial -> {"idle", "scan", "dial", "connected", "error"}]
      /\ key' \in [Dial -> Key \cup {NoKey}]
      /\ detour' \in [Dial -> Outbound \cup {NoOutbound}]
      /\ scanned' \in [Dial -> SUBSET Outbound]
      /\ available' \in [Dial -> SUBSET Outbound]
      /\ excluded' \in [Dial -> SUBSET Outbound]
      /\ restored' \in [Dial -> SUBSET Outbound]
  BY LoopTypes
<1>2. triggeredCheck' \in [Dial -> BOOLEAN]
  BY LoopTypes
<1>3. TypeOK'
  BY <1>1, <1>2 DEF IInv, TypeOK
<1>4. ASSUME NEW e \in Dial
      PROVE  LoopInv(e)'
  BY <1>1 DEF IInv, LoopInv, Running, Supported
<1>5. NoFailedRedial'
  BY <1>1 DEF IInv, NoFailedRedial, Supported
<1>6. FailureOutdatesRecord'
  BY <1>1 DEF IInv, FailureOutdatesRecord
<1> QED
  BY <1>3, <1>4, <1>5, <1>6 DEF IInv

LEMMA ExhaustedInv ==
    ASSUME IInv, NEW d \in Dial, Exhausted(d)
    PROVE  IInv'
<1>1. stickyCache' \in [Key -> Outbound \cup {NoOutbound}]
  BY DEF IInv, TypeOK, Exhausted, balancer
<1> QED
  BY <1>1, ReturnInv DEF Exhausted, balancer

LEMMA DialSucceedsInv ==
    ASSUME IInv, NEW d \in Dial, DialSucceeds(d)
    PROVE  IInv'
<1>1. key[d] \in Key /\ detour[d] \in Outbound \cup {NoOutbound}
  BY LoopTypes DEF DialSucceeds, IInv, LoopInv, Running
<1>2. stickyCache' \in [Key -> Outbound \cup {NoOutbound}]
  BY <1>1 DEF IInv, TypeOK, DialSucceeds
<1> QED
  BY <1>2, ReturnInv DEF DialSucceeds

LEMMA DialFailsInv ==
    ASSUME IInv, NEW d \in Dial, DialFails(d)
    PROVE  IInv'
<1> USE DEF DialFails, check
<1>1. pc[d] = "dial" /\ key[d] \in Key /\ detour[d] \in Supported(d) /\ available[d] = {}
  BY DEF IInv, LoopInv, Running, NoFailedRedial
<1>2. detour[d] \in Outbound
  BY <1>1, BalanceAssumption DEF Supported
<1>3. /\ pc'[d] = "scan" /\ excluded'[d] = excluded[d] \cup {detour[d]}
      /\ \A e \in Dial \ {d} : /\ pc'[e] = pc[e] /\ detour'[e] = detour[e]
                               /\ excluded'[e] = excluded[e]
      /\ pc' \in [Dial -> {"idle", "scan", "dial", "connected", "error"}]
      /\ detour' \in [Dial -> Outbound \cup {NoOutbound}]
      /\ excluded' \in [Dial -> SUBSET Outbound]
      /\ history' = history \ {detour[d]}
  BY <1>2, LoopTypes DEF Exclude, DropRecord
<1>4. triggeredCheck' \in [Dial -> BOOLEAN]
  BY LoopTypes
<1>5. stickyCache' \in [Key -> Outbound \cup {NoOutbound}]
  BY DEF IInv, TypeOK
<1>6. checks' \in 0..MaxChecks
  <2>1. checks \in 0..MaxChecks /\ MaxChecks \in Nat
    BY BalanceAssumption DEF IInv, TypeOK
  <2>2. CASE triggeredCheck[d]
    BY <2>1, <2>2
  <2>3. CASE ~triggeredCheck[d]
    BY <2>1, <2>3
  <2> QED
    BY <2>2, <2>3
<1>7. TypeOK'
  BY <1>3, <1>4, <1>5, <1>6 DEF IInv, TypeOK
<1>8. ASSUME NEW e \in Dial
      PROVE  LoopInv(e)'
  BY <1>1, <1>3 DEF IInv, LoopInv, Running, Supported
<1>9. NoFailedRedial'
  BY <1>3 DEF IInv, NoFailedRedial, Supported
<1>10. FailureOutdatesRecord'
  BY <1>1, <1>3 DEF IInv, FailureOutdatesRecord
<1> QED
  BY <1>7, <1>8, <1>9, <1>10 DEF IInv

\* A step that leaves the calls and the records alone.
LEMMA OtherInv ==
    ASSUME IInv, UNCHANGED <<strategy, history, rrCounter, pc, key, loop, restored>>,
           checking' \in BOOLEAN, testing' \in SUBSET Outbound, checks' \in 0..MaxChecks,
           stickyCache' \in [Key -> Outbound \cup {NoOutbound}]
    PROVE  IInv'
<1> USE DEF loop
<1>1. TypeOK'
  BY DEF IInv, TypeOK
<1>2. ASSUME NEW e \in Dial
      PROVE  LoopInv(e)'
  BY DEF IInv, LoopInv, Running, Supported
<1>3. NoFailedRedial' /\ FailureOutdatesRecord'
  BY DEF IInv, NoFailedRedial, FailureOutdatesRecord, Supported
<1> QED
  BY <1>1, <1>2, <1>3 DEF IInv

\* A health check keeps it: a test that succeeds is noted by every call that
\* had failed with the outbound.
LEMMA TestInv ==
    ASSUME IInv, NEW o \in Outbound, TestSucceeds(o) \/ TestFails(o)
    PROVE  IInv'
<1> USE DEF TestSucceeds, TestFails, loop, balancer
<1>1. /\ history' \in SUBSET Outbound /\ testing' \in SUBSET Outbound
      /\ restored' \in [Dial -> SUBSET Outbound]
  <2>1. history \in SUBSET Outbound /\ testing \in SUBSET Outbound
    BY DEF IInv, TypeOK
  <2> QED
    BY <2>1, LoopTypes
<1>2. TypeOK'
  BY <1>1 DEF IInv, TypeOK
<1>3. ASSUME NEW e \in Dial
      PROVE  LoopInv(e)'
  BY DEF IInv, LoopInv, Running, Supported
<1>4. NoFailedRedial'
  BY DEF IInv, NoFailedRedial, Supported
<1>5. FailureOutdatesRecord'
  BY DEF IInv, FailureOutdatesRecord
<1> QED
  BY <1>2, <1>3, <1>4, <1>5 DEF IInv

LEMMA CheckerInv ==
    ASSUME IInv, Checker
    PROVE  IInv'
<1>1. ASSUME ForcedCheck
      PROVE  IInv'
  <2>1. checks' \in 0..MaxChecks
    BY <1>1, BalanceAssumption DEF ForcedCheck, IInv, TypeOK
  <2>2. checking' \in BOOLEAN /\ testing' \in SUBSET Outbound
    BY <1>1 DEF ForcedCheck, CheckOutbounds, check, IInv, TypeOK
  <2>3. UNCHANGED <<strategy, history, balancer, pc, key, loop, restored>>
    BY <1>1 DEF ForcedCheck
  <2>4. stickyCache' \in [Key -> Outbound \cup {NoOutbound}]
    BY <2>3 DEF balancer, IInv, TypeOK
  <2> QED
    BY <2>1, <2>2, <2>3, <2>4, OtherInv DEF balancer
<1>2. ASSUME CheckEnds
      PROVE  IInv'
  BY <1>2, OtherInv DEF CheckEnds, balancer, IInv, TypeOK
<1> QED
  BY <1>1, <1>2, TestInv DEF Checker

\* Every step keeps it.
LEMMA NextInv == IInv /\ [Next]_vars => IInv'
<1> SUFFICES ASSUME IInv, [Next]_vars
             PROVE  IInv'
  OBVIOUS
<1>1. ASSUME NEW d \in Dial, Round(d)
      PROVE  IInv'
  BY <1>1, ScanInv, SelectInv, ExhaustedInv, DialSucceedsInv, DialFailsInv DEF Round
<1>2. ASSUME NEW d \in Dial, NEW k \in Key, Call(d, k)
      PROVE  IInv'
  BY <1>2, CallInv
<1>3. CASE Checker
  BY <1>3, CheckerInv
<1>4. ASSUME NEW old \in SUBSET history, PeriodicCheck(old)
      PROVE  IInv'
  <2>1. checking' \in BOOLEAN /\ testing' \in SUBSET Outbound
    BY <1>4 DEF PeriodicCheck, CheckOutbounds, IInv, TypeOK
  <2> QED
    BY <1>4, <2>1, OtherInv DEF PeriodicCheck, balancer, IInv, TypeOK
<1>5. ASSUME NEW k \in Key, StickyExpires(k)
      PROVE  IInv'
  <2>1. stickyCache' \in [Key -> Outbound \cup {NoOutbound}]
    BY <1>5 DEF StickyExpires, IInv, TypeOK
  <2> QED
    BY <1>5, <2>1, OtherInv DEF StickyExpires, check, IInv, TypeOK
<1>6. CASE UNCHANGED vars
  BY <1>6, OtherInv DEF vars, check, balancer, IInv, TypeOK
<1> QED
  BY <1>1, <1>2, <1>3, <1>4, <1>5, <1>6 DEF Next

-----------------------------------------------------------------------------
\* The theorems.

\* The inductive invariant of calls and checks holds throughout.
THEOREM Invariant == Spec => []IInv
<1>1. Init => IInv
  <2> SUFFICES ASSUME Init
               PROVE  IInv
    OBVIOUS
  <2>1. checks \in 0..MaxChecks /\ rrCounter \in 0..(RRModulus - 1)
    BY BalanceAssumption DEF Init
  <2>2. TypeOK
    BY <2>1 DEF Init, TypeOK
  <2> QED
    BY <2>2 DEF Init, IInv, LoopInv, Running, NoFailedRedial, FailureOutdatesRecord
<1> QED
  BY <1>1, NextInv, PTL DEF Spec

\* No failed dial leaves the record it refutes behind: any record of an outbound
\* that a call failed with was written by a later health check.
THEOREM FailuresRecorded == Spec => []FailureOutdatesRecord
<1>1. IInv => FailureOutdatesRecord
  BY DEF IInv
<1> QED
  BY <1>1, Invariant, PTL

\* Under every strategy, for lists of every length, a call dials only outbounds
\* that support its network and that it has not failed with (selectOutbound).
THEOREM NoRedial == Spec => []NoFailedRedial
<1>1. IInv => NoFailedRedial
  BY DEF IInv
<1> QED
  BY <1>1, Invariant, PTL

\* Only Exhausted makes a call give up.
LEMMA GivesUpExhausted ==
    ASSUME IInv, [Next]_vars, NEW d \in Dial, GivesUp(d)
    PROVE  Exhausted(d)
<1> USE DEF GivesUp
<1>0. pc \in [Dial -> {"idle", "scan", "dial", "connected", "error"}]
  BY LoopTypes
<1>1. ASSUME NEW e \in Dial, NEW o \in Outbound, Scan(e, o)
      PROVE  FALSE
  BY <1>1 DEF Scan
<1>2. ASSUME NEW e \in Dial, Select(e)
      PROVE  FALSE
  BY <1>0, <1>2 DEF Select
<1>3. ASSUME NEW e \in Dial, Exhausted(e)
      PROVE  Exhausted(d)
  BY <1>0, <1>3 DEF Exhausted, Return
<1>4. ASSUME NEW e \in Dial, DialSucceeds(e)
      PROVE  FALSE
  BY <1>0, <1>4 DEF DialSucceeds, Return
<1>5. ASSUME NEW e \in Dial, DialFails(e)
      PROVE  FALSE
  BY <1>0, <1>5 DEF DialFails
<1>6. ASSUME NEW e \in Dial, NEW k \in Key, Call(e, k)
      PROVE  FALSE
  BY <1>0, <1>6 DEF Call
<1>7. ASSUME Checker
      PROVE  FALSE
  BY <1>7 DEF Checker, ForcedCheck, CheckEnds, TestSucceeds, TestFails
<1>8. ASSUME NEW old \in SUBSET history, PeriodicCheck(old)
      PROVE  FALSE
  BY <1>8 DEF PeriodicCheck
<1>9. ASSUME NEW k \in Key, StickyExpires(k)
      PROVE  FALSE
  BY <1>9 DEF StickyExpires
<1>10. CASE UNCHANGED vars
  BY <1>10 DEF vars
<1> QED
  BY <1>1, <1>2, <1>3, <1>4, <1>5, <1>6, <1>7, <1>8, <1>9, <1>10 DEF Next, Round

\* A call gives up with an outbound untried only after a health check has found
\* one of those it failed with working again.
THEOREM EarlyGiveUp == Spec => GivesUpOnlyOnRecovery
<1>1. IInv /\ [Next]_vars =>
         [\A d \in Dial : GivesUp(d) =>
             Supported(d) \subseteq excluded[d] \/ restored[d] # {}]_vars
  <2> SUFFICES ASSUME IInv, [Next]_vars, NEW d \in Dial, GivesUp(d)
               PROVE  Supported(d) \subseteq excluded[d] \/ restored[d] # {}
    OBVIOUS
  <2>1. Candidates(d) = {}
    BY GivesUpExhausted DEF Exhausted
  <2>2. CASE available[d] = {}
    BY <2>1, <2>2 DEF Candidates
  <2>3. CASE available[d] # {}
    BY <2>1, <2>3 DEF Candidates, IInv, FailureOutdatesRecord
  <2> QED
    BY <2>2, <2>3
<1> QED
  BY <1>1, Invariant, PTL DEF Spec, GivesUpOnlyOnRecovery
==============================================================================
