--------------------------- MODULE DNSRacerProofs ----------------------------
(***************************************************************************)
(* Theorems about DNSRacer, for any finite sets of servers and any         *)
(* combination of racer, timeouts and address limit.                       *)
(***************************************************************************)
EXTENDS DNSRacer, FiniteSetTheorems, TLAPS

\* The queries of a race are finitely many, and its results are counted by a
\* natural number.
LEMMA QueryFinite ==
    /\ IsFiniteSet(Query)
    /\ total \in Nat
    /\ NoQuery \notin Query
<1>1. IsFiniteSet(Primary \cup Fallback)
  BY FS_Union, RacerAssumption
<1>2. IsFiniteSet(Query)
  BY <1>1, RacerAssumption DEF Query
<1>3. total \in Nat
  BY <1>2, FS_CardinalityType DEF total
<1>4. NoQuery \notin Query
  BY RacerAssumption DEF Query, NoQuery
<1> QED BY <1>2, <1>3, <1>4

\* Counting results is counting goroutines: a new result is one more, and the
\* loop counter reaches total only when every query was received.
LEMMA CountResults ==
    ASSUME NEW S \in SUBSET Query
    PROVE  /\ IsFiniteSet(S)
           /\ Cardinality(S) \in 0..total
           /\ Cardinality(S) = total => S = Query
           /\ \A q \in Query \ S : Cardinality(S \cup {q}) = Cardinality(S) + 1
<1>1. IsFiniteSet(S) /\ Cardinality(S) \in Nat
  BY QueryFinite, FS_Subset, FS_CardinalityType
<1>2. Cardinality(S) <= Cardinality(Query) /\ (Cardinality(S) = Cardinality(Query) => S = Query)
  BY QueryFinite, FS_Subset, <1>1
<1>3. \A q \in Query \ S : Cardinality(S \cup {q}) = Cardinality(S) + 1
  BY <1>1, FS_AddElement
<1> QED BY <1>1, <1>2, <1>3, QueryFinite DEF total

\* The kinds of result are strings other than the absence of one.
LEMMA KindFacts ==
    /\ NoAnswer \notin Kinds
    /\ Keepable \subseteq Kinds
    /\ "noerror" \in Keepable
    /\ \A q \in Query : Result(q) # Pending /\ Result(q) \in Outcomes
    /\ Pending \in Outcomes
    /\ \A k \in {"rejectedCached", "rejected", "errors", "ctxError"} :
          Failure(k) # Pending /\ Failure(k) \in Outcomes
BY DEF NoAnswer, Kinds, Keepable, Result, Pending, Outcomes, Failure

\* Init establishes the invariant.
LEMMA InitInv == Init => IInv
<1> SUFFICES ASSUME Init PROVE IInv
  OBVIOUS
<1>1. Cardinality(got) = 0
  BY FS_EmptySet DEF Init
<1>2. TypeOK
  <2>1. pc \in [Query -> {"wait", "check", "query", "send", "done"}]
    BY DEF Init
  <2>2. res \in [Query -> Kinds \cup {NoAnswer}]
    BY DEF Init
  <2>3. i \in 0..total /\ phase \in 0..2
    BY QueryFinite DEF Init
  <2>4. /\ {cancelled, queryCancelled, fallbackStart} \subseteq BOOLEAN
        /\ {allRejected, allRejectedOnly} \subseteq BOOLEAN
    BY Zenon DEF Init
  <2>5. got \in SUBSET Query /\ saved \in Query \cup {NoQuery} /\ outcome \in Outcomes
    BY KindFacts DEF Init
  <2> QED BY <2>1, <2>2, <2>3, <2>4, <2>5 DEF TypeOK
<1>3. GoroutineInv
  BY <1>1 DEF Init, GoroutineInv
<1>4. CollectorInv
  BY DEF Init, CollectorInv
<1>5. TimerInv
  BY DEF Init, TimerInv
<1>6. FallbackAfterTimeout
  BY DEF Init, FallbackAfterTimeout
<1>7. GraceKept
  BY RacerAssumption DEF Init, GraceKept, Query, Hedged, NoAnswer
<1>8. RejectionUnanimous
  BY DEF Init, RejectionUnanimous, Pending
<1> QED BY <1>2, <1>3, <1>4, <1>5, <1>6, <1>7, <1>8 DEF IInv

\* Every step keeps the variables in their types.
LEMMA StepType == TypeOK /\ [Next]_vars => TypeOK'
<1> SUFFICES ASSUME TypeOK, [Next]_vars PROVE TypeOK'
  OBVIOUS
<1> USE QueryFinite, KindFacts
<1>1. CASE TimePasses
  BY <1>1 DEF TypeOK, TimePasses, collector
<1>2. CASE CallerCancels
  BY <1>2 DEF TypeOK, CallerCancels, collector
<1>3. CASE CloseFallbackStart
  BY <1>3 DEF TypeOK, CloseFallbackStart, collector
<1>4. CASE CollectorCtxDone
  BY <1>4 DEF TypeOK, CollectorCtxDone, Return
<1>5. CASE CollectorDone
  BY <1>5 DEF TypeOK, CollectorDone, Return, Verdict
<1>6. ASSUME NEW q \in Query, FallbackWake(q) PROVE TypeOK'
  BY <1>6 DEF TypeOK, FallbackWake, Goto, collector
<1>7. ASSUME NEW q \in Query, FallbackCheck(q) PROVE TypeOK'
  BY <1>7 DEF TypeOK, FallbackCheck, Goto, collector
<1>8. ASSUME NEW q \in Query, NEW k \in Kinds, Answer(q, k) PROVE TypeOK'
  BY <1>8 DEF TypeOK, Answer, Goto, collector
<1>9. ASSUME NEW q \in Query, GiveUp(q) PROVE TypeOK'
  BY <1>9 DEF TypeOK, GiveUp, Goto, collector
<1>10. ASSUME NEW q \in Query, ReceiveNoError(q) PROVE TypeOK'
  BY <1>10 DEF TypeOK, ReceiveNoError, Receive, Return, Goto
<1>11. ASSUME NEW q \in Query, ReceiveOther(q) PROVE TypeOK'
  BY <1>11 DEF TypeOK, ReceiveOther, Receive, Goto
<1>12. CASE UNCHANGED vars
  BY <1>12 DEF TypeOK, vars, collector
<1> QED BY <1>1, <1>2, <1>3, <1>4, <1>5, <1>6, <1>7, <1>8, <1>9, <1>10, <1>11, <1>12 DEF Next

\* The type invariant of the racer, for every race.
THEOREM TypeCorrect == Spec => []TypeOK
<1>1. Init => TypeOK
  BY InitInv DEF IInv
<1> QED BY <1>1, StepType, PTL DEF Spec

\* Every step keeps the goroutines and the count of their results in step.
LEMMA StepGoroutine ==
    TypeOK /\ GoroutineInv /\ [Next]_vars => GoroutineInv'
<1> SUFFICES ASSUME TypeOK, GoroutineInv, [Next]_vars PROVE GoroutineInv'
  OBVIOUS
<1> USE KindFacts
<1>1. CASE TimePasses
  BY <1>1 DEF GoroutineInv, TimePasses, collector
<1>2. CASE CallerCancels
  BY <1>2 DEF GoroutineInv, CallerCancels, collector
<1>3. CASE CloseFallbackStart
  BY <1>3 DEF GoroutineInv, CloseFallbackStart, collector
<1>4. CASE CollectorCtxDone
  BY <1>4 DEF GoroutineInv, CollectorCtxDone
<1>5. CASE CollectorDone
  BY <1>5 DEF GoroutineInv, CollectorDone
<1>6. ASSUME NEW q \in Query, FallbackWake(q) PROVE GoroutineInv'
  BY <1>6 DEF GoroutineInv, FallbackWake, Goto, collector, TypeOK
<1>7. ASSUME NEW q \in Query, FallbackCheck(q) PROVE GoroutineInv'
  BY <1>7 DEF GoroutineInv, FallbackCheck, Goto, collector, TypeOK
<1>8. ASSUME NEW q \in Query, NEW k \in Kinds, Answer(q, k) PROVE GoroutineInv'
  BY <1>8 DEF GoroutineInv, Answer, Goto, collector, TypeOK
<1>9. ASSUME NEW q \in Query, GiveUp(q) PROVE GoroutineInv'
  BY <1>9 DEF GoroutineInv, GiveUp, Goto, collector, TypeOK
<1>10. ASSUME NEW q \in Query, Receive(q) PROVE GoroutineInv'
  <2>1. q \notin got
    BY <1>10 DEF Receive, GoroutineInv
  <2>2. Cardinality(got \cup {q}) = Cardinality(got) + 1
    BY <2>1, CountResults DEF TypeOK
  <2> QED BY <1>10, <2>2 DEF GoroutineInv, Receive, Goto, TypeOK
<1>11. CASE UNCHANGED vars
  BY <1>11 DEF GoroutineInv, vars, collector
<1> QED BY <1>1, <1>2, <1>3, <1>4, <1>5, <1>6, <1>7, <1>8, <1>9, <1>10, <1>11
        DEF Next, ReceiveNoError, ReceiveOther

\* Every step keeps the collector's summary true of what was received.
LEMMA StepCollector ==
    TypeOK /\ GoroutineInv /\ CollectorInv /\ [Next]_vars => CollectorInv'
<1> SUFFICES ASSUME TypeOK, GoroutineInv, CollectorInv, [Next]_vars
             PROVE  CollectorInv'
  OBVIOUS
<1> USE KindFacts
<1>1. CASE TimePasses
  BY <1>1 DEF CollectorInv, TimePasses, collector
<1>2. CASE CallerCancels
  BY <1>2 DEF CollectorInv, CallerCancels, collector
<1>3. CASE CloseFallbackStart
  BY <1>3 DEF CollectorInv, CloseFallbackStart, collector
<1>4. CASE CollectorCtxDone
  BY <1>4 DEF CollectorInv, CollectorCtxDone, Return, TypeOK
<1>5. CASE CollectorDone
  BY <1>5 DEF CollectorInv, CollectorDone, Return, Verdict, TypeOK
<1>6. ASSUME NEW q \in Query, FallbackWake(q) PROVE CollectorInv'
  BY <1>6 DEF CollectorInv, FallbackWake, collector
<1>7. ASSUME NEW q \in Query, FallbackCheck(q) PROVE CollectorInv'
  BY <1>7 DEF CollectorInv, FallbackCheck, collector
<1>8. ASSUME NEW q \in Query, NEW k \in Kinds, Answer(q, k) PROVE CollectorInv'
  <2>1. \A g \in got : res'[g] = res[g]
    BY <1>8 DEF Answer, GoroutineInv, TypeOK
  <2> QED BY <1>8, <2>1 DEF CollectorInv, Answer, collector
<1>9. ASSUME NEW q \in Query, GiveUp(q) PROVE CollectorInv'
  BY <1>9 DEF CollectorInv, GiveUp, collector
<1>10. ASSUME NEW q \in Query, ReceiveNoError(q) PROVE CollectorInv'
  BY <1>10 DEF CollectorInv, ReceiveNoError, Receive, Return, TypeOK
<1>11. ASSUME NEW q \in Query, ReceiveOther(q) PROVE CollectorInv'
  <2>1. outcome' = Pending /\ outcome = Pending /\ res' = res /\ got' = got \cup {q}
    BY <1>11 DEF ReceiveOther, Receive
  <2>2. saved' # NoQuery => saved' \in got' /\ res'[saved'] \in Keepable
    BY <1>11, <2>1 DEF CollectorInv, ReceiveOther, Receive
  <2>3. ~queryCancelled' /\ \A g \in got' : res'[g] # "noerror"
    BY <1>11, <2>1 DEF CollectorInv, ReceiveOther
  <2>4. saved' = NoQuery => \A g \in got' : res'[g] \notin Keepable
    BY <1>11, <2>1, QueryFinite DEF CollectorInv, ReceiveOther, Receive
  <2>5. allRejected' <=>
          \A g \in got' : res'[g] \in {"rcode", "rejected", "rejectedCached"}
    BY <1>11, <2>1 DEF CollectorInv, ReceiveOther
  <2>6. allRejectedOnly' <=> \A g \in got' : res'[g] \in {"rcode", "rejectedCached"}
    BY <1>11, <2>1 DEF CollectorInv, ReceiveOther
  <2> QED BY <2>2, <2>3, <2>4, <2>5, <2>6 DEF CollectorInv
<1>12. CASE UNCHANGED vars
  BY <1>12 DEF CollectorInv, vars, collector
<1> QED BY <1>1, <1>2, <1>3, <1>4, <1>5, <1>6, <1>7, <1>8, <1>9, <1>10, <1>11, <1>12 DEF Next

\* A context that is done stays done, and time does not go back.
LEMMA StepTime ==
    ASSUME TypeOK, [Next]_vars
    PROVE  /\ phase >= 1 => phase' >= 1
           /\ phase = 2 => phase' = 2
           /\ CtxDone => CtxDone'
           /\ QueryCtxDone => QueryCtxDone'
           /\ cancelled => cancelled'
<1> SUFFICES /\ phase >= 1 => phase' >= 1
             /\ phase = 2 => phase' = 2
             /\ cancelled => cancelled'
             /\ queryCancelled => queryCancelled'
  BY DEF QueryCtxDone, CtxDone
<1>1. CASE TimePasses
  BY <1>1 DEF TimePasses, TypeOK
<1>2. CASE CallerCancels
  BY <1>2 DEF CallerCancels
<1>3. CASE CloseFallbackStart
  BY <1>3 DEF CloseFallbackStart
<1>4. CASE CollectorCtxDone \/ CollectorDone
  BY <1>4 DEF CollectorCtxDone, CollectorDone, Return
<1>5. ASSUME NEW q \in Query, \/ FallbackWake(q) \/ FallbackCheck(q) \/ GiveUp(q)
                              \/ \E k \in Kinds : Answer(q, k)
      PROVE  UNCHANGED <<phase, cancelled, queryCancelled>>
  BY <1>5 DEF FallbackWake, FallbackCheck, GiveUp, Answer
<1>6. ASSUME NEW q \in Query, ReceiveNoError(q) \/ ReceiveOther(q)
      PROVE  /\ UNCHANGED <<phase, cancelled>>
             /\ queryCancelled => queryCancelled'
  BY <1>6 DEF ReceiveNoError, ReceiveOther, Receive, Return
<1>7. CASE UNCHANGED vars
  BY <1>7 DEF vars
<1> QED BY <1>1, <1>2, <1>3, <1>4, <1>5, <1>6, <1>7 DEF Next

\* Every step keeps the fallback goroutines behind the upstream timeout.
LEMMA StepTimer ==
    TypeOK /\ GoroutineInv /\ TimerInv /\ FallbackAfterTimeout /\ [Next]_vars
        => TimerInv' /\ FallbackAfterTimeout'
<1> SUFFICES ASSUME TypeOK, GoroutineInv, TimerInv, FallbackAfterTimeout, [Next]_vars
             PROVE  TimerInv' /\ FallbackAfterTimeout'
  OBVIOUS
<1>0. /\ phase >= 1 => phase' >= 1
      /\ QueryCtxDone => QueryCtxDone'
  BY StepTime
<1> USE <1>0 DEF TimerInv, FallbackAfterTimeout
<1>1. CASE TimePasses
  BY <1>1 DEF TimePasses
<1>2. CASE CallerCancels
  BY <1>2 DEF CallerCancels
<1>3. CASE CloseFallbackStart
  BY <1>3 DEF CloseFallbackStart
<1>4. CASE CollectorCtxDone \/ CollectorDone
  BY <1>4 DEF CollectorCtxDone, CollectorDone
<1>5. ASSUME NEW q \in Query, FallbackWake(q)
      PROVE  TimerInv' /\ FallbackAfterTimeout'
  BY <1>5 DEF FallbackWake, Goto, TypeOK
<1>6. ASSUME NEW q \in Query, FallbackCheck(q)
      PROVE  TimerInv' /\ FallbackAfterTimeout'
  BY <1>6 DEF FallbackCheck, Goto, TypeOK
<1>7. ASSUME NEW q \in Query, NEW k \in Kinds, Answer(q, k)
      PROVE  TimerInv' /\ FallbackAfterTimeout'
  BY <1>7 DEF Answer, Goto, TypeOK
<1>8. ASSUME NEW q \in Query, GiveUp(q)
      PROVE  TimerInv' /\ FallbackAfterTimeout'
  BY <1>8 DEF GiveUp, Goto, TypeOK
<1>9. ASSUME NEW q \in Query, ReceiveNoError(q) \/ ReceiveOther(q)
      PROVE  TimerInv' /\ FallbackAfterTimeout'
  BY <1>9 DEF ReceiveNoError, ReceiveOther, Receive, Goto, TypeOK
<1>10. CASE UNCHANGED vars
  BY <1>10 DEF vars
<1> QED BY <1>1, <1>2, <1>3, <1>4, <1>5, <1>6, <1>7, <1>8, <1>9, <1>10 DEF Next

\* Every step keeps the primaries' grace window.
LEMMA StepGrace ==
    TypeOK /\ GoroutineInv /\ CollectorInv /\ GraceKept /\ [Next]_vars => GraceKept'
<1> SUFFICES ASSUME TypeOK, GoroutineInv, CollectorInv, GraceKept, [Next]_vars,
                    Hedged, outcome' = Pending, ~cancelled',
                    NEW p \in Primary, res'[p] = "ctxError"
             PROVE  phase' = 2
  BY DEF GraceKept
<1>0. phase = 2 => phase' = 2
  BY StepTime
<1>1. ~cancelled /\ p \in Query
  BY StepTime DEF Query
<1>2. ASSUME res[p] = "ctxError", outcome = Pending PROVE phase' = 2
  BY <1>0, <1>1, <1>2 DEF GraceKept
<1>3. CASE TimePasses \/ CallerCancels \/ CloseFallbackStart
  BY <1>2, <1>3 DEF TimePasses, CallerCancels, CloseFallbackStart, collector
<1>4. CASE CollectorCtxDone \/ CollectorDone
  BY <1>4, KindFacts DEF CollectorCtxDone, CollectorDone, Return, Verdict, TypeOK
<1>5. ASSUME NEW q \in Query, FallbackWake(q) \/ FallbackCheck(q) \/ GiveUp(q)
      PROVE  phase' = 2
  BY <1>2, <1>5 DEF FallbackWake, FallbackCheck, GiveUp, collector
<1>6. ASSUME NEW q \in Query, NEW k \in Kinds, Answer(q, k) PROVE phase' = 2
  <2>1. CASE q = p
    <3>1. k = "ctxError"
      BY <1>1, <1>6, <2>1 DEF Answer, TypeOK
    <3>2. PrimaryCtxDone
      BY <1>6, <2>1, <3>1, RacerAssumption DEF Answer
    <3>3. ~QueryCtxDone
      BY <1>1, <1>6 DEF CollectorInv, QueryCtxDone, CtxDone, Answer, collector
    <3> QED BY <3>2, <3>3, <1>6 DEF PrimaryCtxDone, Answer
  <2>2. CASE q # p
    BY <1>1, <1>2, <1>6, <2>2 DEF Answer, TypeOK, collector
  <2> QED BY <2>1, <2>2
<1>7. ASSUME NEW q \in Query, ReceiveNoError(q) \/ ReceiveOther(q) PROVE phase' = 2
  BY <1>2, <1>7 DEF ReceiveNoError, ReceiveOther, Receive
<1>8. CASE UNCHANGED vars
  BY <1>2, <1>8 DEF vars, collector
<1> QED BY <1>3, <1>4, <1>5, <1>6, <1>7, <1>8 DEF Next

\* The loop ends with every query received, and the flags then say which
\* verdict the answers deserve.
LEMMA LoopEnd ==
    ASSUME TypeOK, GoroutineInv, CollectorInv, outcome = Pending, i = total
    PROVE  /\ got = Query
           /\ saved = NoQuery /\ Exchange =>
                /\ allRejectedOnly <=> \A q \in Query : res[q] = "rejectedCached"
                /\ allRejected <=> \A q \in Query : res[q] \in {"rejected", "rejectedCached"}
<1>1. got = Query
  BY CountResults DEF TypeOK, GoroutineInv
<1>2. saved = NoQuery /\ Exchange => \A q \in Query : res[q] # "rcode"
  BY <1>1 DEF CollectorInv, Keepable
<1> QED BY <1>1, <1>2 DEF CollectorInv

\* Every step keeps the verdicts of rejection unanimous.
LEMMA StepRejection ==
    TypeOK /\ GoroutineInv /\ CollectorInv /\ RejectionUnanimous /\ [Next]_vars
        => RejectionUnanimous'
<1> SUFFICES ASSUME TypeOK, GoroutineInv, CollectorInv, RejectionUnanimous, [Next]_vars
             PROVE  RejectionUnanimous'
  OBVIOUS
<1>1. CASE TimePasses \/ CallerCancels \/ CloseFallbackStart
  BY <1>1 DEF TimePasses, CallerCancels, CloseFallbackStart, collector, RejectionUnanimous
<1>2. CASE CollectorCtxDone
  BY <1>2 DEF CollectorCtxDone, Return, Result, Failure, RejectionUnanimous
<1>3. CASE CollectorDone
  <2>1. CASE saved # NoQuery
    BY <1>3, <2>1 DEF CollectorDone, Return, Result, RejectionUnanimous
  <2>2. CASE saved = NoQuery
    <3>1. outcome' = Verdict /\ res' = res /\ got' = got
      BY <1>3, <2>2 DEF CollectorDone, Return
    <3>2. got = Query
      BY <1>3, LoopEnd DEF CollectorDone
    <3>3. Verdict.kind = "rejectedCached" => Exchange /\ allRejectedOnly
      BY DEF Verdict, Failure
    <3>4. Verdict.kind = "rejected" => Exchange /\ allRejected /\ ~allRejectedOnly
      BY DEF Verdict, Failure
    <3> QED BY <1>3, <2>2, <3>1, <3>2, <3>3, <3>4, LoopEnd
            DEF CollectorDone, RejectionUnanimous
  <2> QED BY <2>1, <2>2
<1>4. ASSUME NEW q \in Query, FallbackWake(q) \/ FallbackCheck(q) \/ GiveUp(q)
      PROVE  RejectionUnanimous'
  BY <1>4 DEF FallbackWake, FallbackCheck, GiveUp, collector, RejectionUnanimous
<1>5. ASSUME NEW q \in Query, NEW k \in Kinds, Answer(q, k) PROVE RejectionUnanimous'
  <2>1. q \notin got /\ outcome' = outcome /\ got' = got
    BY <1>5 DEF Answer, GoroutineInv, collector
  <2>2. \A g \in Query : g # q => res'[g] = res[g]
    BY <1>5 DEF Answer, TypeOK
  <2> QED BY <2>1, <2>2 DEF RejectionUnanimous
<1>6. ASSUME NEW q \in Query, ReceiveNoError(q) \/ ReceiveOther(q)
      PROVE  RejectionUnanimous'
  BY <1>6 DEF ReceiveNoError, ReceiveOther, Receive, Return, Result, Pending,
              RejectionUnanimous
<1>7. CASE UNCHANGED vars
  BY <1>7 DEF vars, collector, RejectionUnanimous
<1> QED BY <1>1, <1>2, <1>3, <1>4, <1>5, <1>6, <1>7 DEF Next

\* The inductive invariant holds in every state of every race.
THEOREM Invariant == Spec => []IInv
<1>1. IInv /\ [Next]_vars => IInv'
  BY StepType, StepGoroutine, StepCollector, StepTimer, StepGrace, StepRejection DEF IInv
<1> QED BY <1>1, InitInv, PTL DEF Spec

\* No fallback server is queried before the upstream timeout has passed.
THEOREM FallbackWaits == Spec => []FallbackAfterTimeout
<1>1. IInv => FallbackAfterTimeout
  BY DEF IInv
<1> QED BY <1>1, Invariant, PTL

\* The primaries are never cut off within the grace window.
THEOREM GraceWindow == Spec => []GraceKept
<1>1. IInv => GraceKept
  BY DEF IInv
<1> QED BY <1>1, Invariant, PTL

\* A race is reported as rejected only by the unanimous verdict of its servers.
THEOREM Unanimity == Spec => []RejectionUnanimous
<1>1. IInv => RejectionUnanimous
  BY DEF IInv
<1> QED BY <1>1, Invariant, PTL

-----------------------------------------------------------------------------
\* A received result is a delivered answer of the abstract race.
LEMMA ReceiveDelivers ==
    ASSUME IInv, NEW q \in Query, Receive(q), res[q] \in Kinds,
           outcome' = IF res[q] = "noerror" THEN Result(q) ELSE Pending
    PROVE  Race!Deliver(q, res[q])
<1>1. q \notin got /\ got' = got \cup {q} /\ res' = res /\ CtxDone' = CtxDone
  BY DEF IInv, GoroutineInv, Receive, CtxDone
<1>2. [g \in Query |-> IF g \in got THEN res[g] ELSE NoAnswer]' =
      [[g \in Query |-> IF g \in got THEN res[g] ELSE NoAnswer] EXCEPT ![q] = res[q]]
  BY <1>1
<1>3. [g \in Query |-> IF g \in got THEN res[g] ELSE NoAnswer][q] = Race!NoAnswer
  BY <1>1 DEF Race!NoAnswer, NoAnswer
<1>4. res[q] \in Keepable <=> res[q] \in Race!Keepable
  BY DEF Keepable, Race!Keepable, Kinds, Race!Kinds
<1>5. saved' = IF saved = Race!NoQuery /\ res[q] \in Race!Keepable THEN q ELSE saved
  BY <1>4 DEF Receive, Race!NoQuery, NoQuery
<1>6. outcome = Race!Pending
  BY DEF Receive, Pending, Race!Pending, NoQuery, Race!NoQuery
<1>7. outcome' = IF res[q] = "noerror" THEN Race!Result(q) ELSE Race!Pending
  BY DEF Result, Race!Result, Pending, Race!Pending, NoQuery, Race!NoQuery
<1> QED BY <1>1, <1>2, <1>3, <1>5, <1>6, <1>7 DEF Race!Deliver

\* The racers of router.go implement the race README section 2.3 promises:
\* the first NOERROR answer ends it, otherwise the first answer kept, the
\* verdict on unanimous rejections, or the errors, and never before every
\* server has answered or the caller's context is done.
THEOREM Refinement == Spec => RaceSpec
<1>1. Init => Race!Init
  <2> SUFFICES ASSUME Init PROVE Race!Init
    OBVIOUS
  <2>1. [q \in Query |-> IF q \in got THEN res[q] ELSE NoAnswer] =
        [q \in Query |-> Race!NoAnswer]
    BY DEF Init, NoAnswer, Race!NoAnswer
  <2>2. CtxDone \in BOOLEAN
    BY DEF CtxDone
  <2>3. saved = Race!NoQuery /\ outcome = Race!Pending
    BY DEF Init, NoQuery, Race!NoQuery, Pending, Race!Pending
  <2> QED BY <2>1, <2>2, <2>3 DEF Race!Init
<1>2. IInv /\ [Next]_vars => [Race!Next]_(Race!vars)
  <2> SUFFICES ASSUME IInv, [Next]_vars PROVE [Race!Next]_(Race!vars)
    OBVIOUS
  <2> DEFINE answer == [q \in Query |-> IF q \in got THEN res[q] ELSE NoAnswer]
  <2>1. ASSUME UNCHANGED collector, answer' = answer,
               CtxDone => CtxDone'
        PROVE  [Race!Next]_(Race!vars)
    <3>1. saved' = saved /\ outcome' = outcome
      BY <2>1 DEF collector
    <3>2. CASE CtxDone' = CtxDone
      BY <2>1, <3>1, <3>2 DEF Race!vars
    <3>3. CASE CtxDone' # CtxDone
      <4>1. ~CtxDone /\ CtxDone' = TRUE
        BY <2>1, <3>3 DEF CtxDone
      <4> QED BY <2>1, <3>1, <4>1 DEF Race!Next, Race!Expire
    <3> QED BY <3>2, <3>3
  <2>2. CtxDone => CtxDone'
    BY StepTime DEF IInv
  <2>3. CASE TimePasses \/ CallerCancels \/ CloseFallbackStart
    <3>1. UNCHANGED <<res, collector>>
      BY <2>3 DEF TimePasses, CallerCancels, CloseFallbackStart
    <3> QED BY <2>1, <2>2, <3>1 DEF collector
  <2>4. ASSUME NEW q \in Query, FallbackWake(q) \/ FallbackCheck(q) \/ GiveUp(q)
        PROVE  [Race!Next]_(Race!vars)
    <3>1. UNCHANGED <<res, collector>>
      BY <2>4 DEF FallbackWake, FallbackCheck, GiveUp
    <3> QED BY <2>1, <2>2, <3>1 DEF collector
  <2>5. ASSUME NEW q \in Query, NEW k \in Kinds, Answer(q, k)
        PROVE  [Race!Next]_(Race!vars)
    <3>1. UNCHANGED collector /\ q \notin got /\ res' = [res EXCEPT ![q] = k]
      BY <2>5 DEF Answer, IInv, GoroutineInv
    <3>2. answer' = answer
      BY <3>1 DEF collector, IInv, TypeOK
    <3> QED BY <2>1, <2>2, <3>1, <3>2
  <2>6. ASSUME NEW q \in Query, ReceiveNoError(q) \/ ReceiveOther(q)
        PROVE  [Race!Next]_(Race!vars)
    <3>1. Receive(q) /\ outcome' = IF res[q] = "noerror" THEN Result(q) ELSE Pending
      BY <2>6 DEF ReceiveNoError, ReceiveOther, Return, Receive
    <3>2. res[q] \in Kinds
      BY <3>1 DEF Receive, IInv, GoroutineInv, TypeOK
    <3>3. Race!Deliver(q, res[q]) /\ res[q] \in Race!Kinds
      BY <3>1, <3>2, ReceiveDelivers DEF Kinds, Race!Kinds
    <3>4. \E g \in Query, k \in Race!Kinds : Race!Deliver(g, k)
      BY <3>3 DEF Race!Deliver
    <3> QED BY <3>4, Zenon DEF Race!Next
  <2>7. CASE CollectorCtxDone
    <3>1. UNCHANGED <<got, res, saved>> /\ CtxDone' = CtxDone /\ CtxDone
      BY <2>7 DEF CollectorCtxDone, CtxDone
    <3>2. outcome = Race!Pending
      BY <2>7 DEF CollectorCtxDone, Pending, Race!Pending, NoQuery, Race!NoQuery
    <3>3. outcome' = IF saved # Race!NoQuery THEN Race!Result(saved)
                                              ELSE Race!Failure("ctxError")
      BY <2>7 DEF CollectorCtxDone, Return, Result, Race!Result, Failure, Race!Failure,
                  NoQuery, Race!NoQuery
    <3> QED BY <3>1, <3>2, <3>3 DEF Race!Next, Race!Abandon
  <2>8. CASE CollectorDone
    <3>1. UNCHANGED <<got, res, saved>> /\ CtxDone' = CtxDone
      BY <2>8 DEF CollectorDone, CtxDone
    <3>2. outcome = Race!Pending
      BY <2>8 DEF CollectorDone, Pending, Race!Pending, NoQuery, Race!NoQuery
    <3>3. got = Query
      BY <2>8, LoopEnd DEF CollectorDone, IInv
    <3>4. answer = res /\ \A q \in Query : res[q] # Race!NoAnswer
      BY <3>3 DEF IInv, GoroutineInv, TypeOK, Race!NoAnswer, NoAnswer
    <3>5. saved = NoQuery => Verdict = Race!Verdict
      <4> SUFFICES ASSUME saved = NoQuery PROVE Verdict = Race!Verdict
        OBVIOUS
      <4>1. CASE ~Exchange
        BY <4>1 DEF Verdict, Race!Verdict, Failure, Race!Failure, NoQuery, Race!NoQuery
      <4>2. CASE Exchange
        <5>1. /\ allRejectedOnly <=> \A q \in Query : res[q] = "rejectedCached"
              /\ allRejected <=> \A q \in Query : res[q] \in {"rejected", "rejectedCached"}
          BY <2>8, <4>2, LoopEnd DEF CollectorDone, IInv
        <5>2. \A k : Race!Answered(k) = {q \in Query : res[q] = k}
          BY <3>4 DEF Race!Answered
        <5>3. allRejectedOnly <=> Query \subseteq Race!Answered("rejectedCached")
          BY <5>1, <5>2
        <5>4. allRejected <=>
                Query \subseteq Race!Answered("rejectedCached") \cup Race!Answered("rejected")
          BY <5>1, <5>2
        <5> QED BY <4>2, <5>3, <5>4
                DEF Verdict, Race!Verdict, Failure, Race!Failure, NoQuery, Race!NoQuery
      <4> QED BY <4>1, <4>2
    <3>6. outcome' = IF saved # Race!NoQuery THEN Race!Result(saved) ELSE Race!Verdict
      BY <2>8, <3>5 DEF CollectorDone, Return, Result, Race!Result, NoQuery, Race!NoQuery
    <3> QED BY <3>1, <3>2, <3>4, <3>6 DEF Race!Next, Race!Settle
  <2>9. CASE UNCHANGED vars
    <3>1. UNCHANGED <<res, collector>>
      BY <2>9 DEF vars
    <3> QED BY <2>1, <2>2, <3>1 DEF collector
  <2> QED BY <2>3, <2>4, <2>5, <2>6, <2>7, <2>8, <2>9 DEF Next
<1> QED BY <1>1, <1>2, Invariant, PTL DEF Spec, RaceSpec, Race!Spec
==============================================================================
