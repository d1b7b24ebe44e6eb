------------------------- MODULE OutboundGroupProofs --------------------------
(***************************************************************************)
(* Proofs about the groups: the inductive invariant of OutboundGroup with  *)
(* what it says of stale members, of failed fallback calls and of the      *)
(* cache file, and what the loop of urltest's Select computes.             *)
(***************************************************************************)
EXTENDS OutboundGroup, OrderLemmas, TLAPS

-----------------------------------------------------------------------------
\* Operators.

\* FirstOf finds an outbound in every set that has one.
LEMMA FirstOfIn ==
    ASSUME NEW S \in SUBSET Outbound, S # {}
    PROVE  FirstOf(S) \in S
<1> DEFINE T == {Position[o] : o \in S}
<1>1. Position \in [Outbound -> Nat]
  <2>1. Cardinality(Outbound) \in Nat
    BY GroupAssumption, FS_CardinalityType
  <2> QED
    BY <2>1, GroupAssumption
<1>2. T \in SUBSET Nat /\ T # {}
  BY <1>1
<1>3. PICK x \in T : \A y \in T : x <= y
  BY <1>2, LeastNatural
<1>4. \E o \in S : \A p \in S : Position[o] <= Position[p]
  BY <1>3
<1> QED
  BY <1>4 DEF FirstOf

\* The outbound a round of urltest's loop ends with is the one it began with
\* or one that was considered.
LEMMA VisitType ==
    ASSUME NEW n, NEW best, NEW i
    PROVE  Visit(n, best, i) = best \/ Visit(n, best, i) \in supports[n] \cap Recorded
<1> DEFINE min == IF best = NoOutbound THEN 0 ELSE history[best]
           better == {o \in supports[n] \cap Recorded : Position[o] = i /\ Faster(min, o)}
<1>1. Visit(n, best, i) = IF better = {} THEN best ELSE CHOOSE o \in better : TRUE
  BY DEF Visit
<1>2. better # {} => (CHOOSE o \in better : TRUE) \in better
  OBVIOUS
<1>3. better \subseteq supports[n] \cap Recorded
  OBVIOUS
<1> HIDE DEF better
<1> QED
  BY <1>1, <1>2, <1>3

\* The loop of urltest's Select is a sequence of rounds, one for each place.
LEMMA PassRounds ==
    ASSUME NEW n, NEW start
    PROVE  /\ Cardinality(Outbound) \in Nat
           /\ \E run : /\ \A i \in 0..Cardinality(Outbound) :
                              run[i] = IF i = 0 THEN start ELSE Visit(n, run[i-1], i)
                       /\ Pass(n, start) = run[Cardinality(Outbound)]
<1> DEFINE Last == Cardinality(Outbound)
           Rounds(f, k) == f = [i \in 0..k |-> IF i = 0 THEN start ELSE Visit(n, f[i-1], i)]
           Bad == {k \in Nat : ~ \E f : Rounds(f, k)}
<1>1. Last \in Nat
  BY GroupAssumption, FS_CardinalityType
<1>2. Bad = {}
  <2> SUFFICES ASSUME Bad # {}
               PROVE  FALSE
    OBVIOUS
  <2>1. PICK k \in Bad : \A j \in Bad : k <= j
    BY LeastNatural, Bad \in SUBSET Nat
  <2>2. k # 0
    <3> DEFINE f == [i \in 0..0 |-> start]
    <3>1. Rounds(f, 0)
      OBVIOUS
    <3> HIDE DEF f, Rounds
    <3> QED
      BY <3>1
  <2>3. k \in Nat /\ k-1 \in Nat
    BY <2>2
  <2>4. PICK f : Rounds(f, k-1)
    <3>1. k-1 \notin Bad
      BY <2>1, <2>3
    <3> QED
      BY <3>1, <2>3
  <2> DEFINE g == [i \in 0..k |-> IF i = k THEN Visit(n, f[k-1], k) ELSE f[i]]
  <2>5. ASSUME NEW i \in 0..k
        PROVE  g[i] = IF i = 0 THEN start ELSE Visit(n, g[i-1], i)
    <3> HIDE DEF Bad
    <3>1. CASE i = k
      BY <3>1, <2>2, <2>3
    <3>2. CASE i # k
      <4>1. i \in 0..(k-1)
        BY <3>2, <2>3
      <4>2. f[i] = IF i = 0 THEN start ELSE Visit(n, f[i-1], i)
        BY <4>1, <2>4
      <4>3. i # 0 => i-1 \in 0..k /\ i-1 # k
        BY <4>1, <2>3
      <4> QED
        BY <4>2, <4>3, <3>2
    <3> QED
      BY <3>1, <3>2
  <2>6. Rounds(g, k)
    BY <2>5
  <2> HIDE DEF g, Rounds
  <2> QED
    BY <2>6
<1>3. \E f : Rounds(f, Last)
  BY <1>1, <1>2
<1> DEFINE run == CHOOSE f : Rounds(f, Last)
<1>4. Rounds(run, Last)
  <2> HIDE DEF Rounds
  <2> QED
    BY <1>3
<1>5. Pass(n, start) = run[Last]
  BY DEF Pass
<1> HIDE DEF run
<1> QED
  BY <1>1, <1>4, <1>5

\* It returns the outbound it started from or one that was considered.
LEMMA PassType ==
    ASSUME NEW n, NEW start
    PROVE  Pass(n, start) = start \/ Pass(n, start) \in supports[n] \cap Recorded
<1> DEFINE Last == Cardinality(Outbound)
           Good == {start} \cup (supports[n] \cap Recorded)
<1>1. Last \in Nat
  BY PassRounds
<1>2. PICK run : /\ \A i \in 0..Last :
                        run[i] = IF i = 0 THEN start ELSE Visit(n, run[i-1], i)
                 /\ Pass(n, start) = run[Last]
  BY PassRounds
<1> DEFINE Bad == {i \in 0..Last : run[i] \notin Good}
<1>3. Bad = {}
  <2> SUFFICES ASSUME Bad # {}
               PROVE  FALSE
    OBVIOUS
  <2>1. Bad \in SUBSET Nat
    BY <1>1
  <2>2. PICK k \in Bad : \A j \in Bad : k <= j
    BY <2>1, LeastNatural
  <2>3. k \in 0..Last /\ run[k] \notin Good
    OBVIOUS
  <2>4. run[k] = IF k = 0 THEN start ELSE Visit(n, run[k-1], k)
    BY <1>2, <2>3
  <2>5. k # 0
    BY <2>3, <2>4
  <2>6. k-1 \in 0..Last /\ k-1 \notin Bad
    BY <2>2, <2>3, <2>5, <1>1
  <2>7. run[k-1] \in Good
    BY <2>6
  <2>8. run[k] \in Good
    BY <2>4, <2>5, <2>7, VisitType
  <2> QED
    BY <2>3, <2>8
<1>4. Last \in 0..Last
  BY <1>1
<1> QED
  BY <1>2, <1>3, <1>4

\* Records hold delays, and the sum of the comparison does not wrap where it fits.
LEMMA RecordedDelay ==
    ASSUME history \in [Outbound -> Delays \cup {NoRecord}], NEW o \in Recorded
    PROVE  /\ o \in Outbound /\ o # NoOutbound
           /\ history[o] \in Nat /\ tolerance \in Nat
           /\ history[o] + tolerance < 65536 => Plus(history[o]) = history[o] + tolerance
<1>1. o \in Outbound /\ history[o] \in Delays
  BY DEF Recorded
<1>2. Delays \subseteq Nat /\ tolerance \in Nat /\ NoOutbound \notin Outbound
  BY GroupAssumption
<1>3. history[o] \in Nat /\ tolerance \in Nat
  BY <1>1, <1>2
<1>4. history[o] + tolerance < 65536 => Plus(history[o]) = history[o] + tolerance
  <2> DEFINE sum == history[o] + tolerance
  <2>1. sum \in Nat
    BY <1>3
  <2> HIDE DEF sum
  <2>2. sum < 65536 => sum % 65536 = sum
    BY <2>1
  <2> QED
    BY <2>2 DEF Plus, sum
<1> QED
  BY <1>1, <1>2, <1>3, <1>4

\* A round of the loop where no delay is 0 and no sum wraps: it ends with an
\* outbound that is faster by more than the tolerance, or stays and is not slower
\* than the one considered by more than the tolerance.
LEMMA VisitTolerance ==
    ASSUME history \in [Outbound -> Delays \cup {NoRecord}],
           \A o, p \in Outbound : Position[o] = Position[p] => o = p,
           \A p \in Recorded : history[p] # 0 /\ history[p] + tolerance < 65536,
           NEW n, NEW best \in Recorded \cup {NoOutbound}, NEW i
    PROVE  \/ /\ Visit(n, best, i) = best
              /\ \A p \in supports[n] \cap Recorded :
                     Position[p] = i => best # NoOutbound /\ history[best] <= history[p] + tolerance
           \/ /\ Visit(n, best, i) \in supports[n] \cap Recorded
              /\ \A p \in supports[n] \cap Recorded : Position[p] = i => p = Visit(n, best, i)
              /\ best # NoOutbound => history[best] > history[Visit(n, best, i)] + tolerance
<1> DEFINE min == IF best = NoOutbound THEN 0 ELSE history[best]
           better == {o \in supports[n] \cap Recorded : Position[o] = i /\ Faster(min, o)}
           new == CHOOSE o \in better : TRUE
<1>1. Visit(n, best, i) = IF better = {} THEN best ELSE new
  BY DEF Visit
<1>2. \A o \in Recorded : /\ o \in Outbound /\ o # NoOutbound
                          /\ history[o] \in Nat /\ tolerance \in Nat
                          /\ Plus(history[o]) = history[o] + tolerance
  BY RecordedDelay
<1>3. \A o \in Recorded : Faster(min, o) <=>
          best = NoOutbound \/ history[best] > history[o] + tolerance
  BY <1>2 DEF Faster
<1> HIDE DEF min
<1>4. CASE better = {}
  <2>1. ASSUME NEW p \in supports[n] \cap Recorded, Position[p] = i
        PROVE  best # NoOutbound /\ history[best] <= history[p] + tolerance
    <3>1. ~Faster(min, p)
      BY <2>1, <1>4
    <3>2. best # NoOutbound /\ ~(history[best] > history[p] + tolerance)
      BY <3>1, <1>3
    <3>3. best \in Recorded /\ p \in Recorded
      BY <3>2
    <3> QED
      BY <3>2, <3>3, <1>2
  <2> QED
    BY <1>1, <1>4, <2>1
<1>5. CASE better # {}
  <2>1. new \in better
    BY <1>5
  <2> HIDE DEF new
  <2>2. new \in supports[n] \cap Recorded /\ Position[new] = i /\ Faster(min, new)
    BY <2>1
  <2>3. Visit(n, best, i) = new
    BY <1>1, <1>5
  <2>4. best # NoOutbound => history[best] > history[new] + tolerance
    BY <2>2, <1>3
  <2>5. \A p \in supports[n] \cap Recorded : Position[p] = i => p = new
    BY <2>2, <1>2
  <2> QED
    BY <2>2, <2>3, <2>4, <2>5
<1> QED
  BY <1>4, <1>5

\* The whole loop: the outbound it returns is within the tolerance of all that
\* were considered, and beats the one it started from by more than that.
LEMMA PassTolerance ==
    ASSUME history \in [Outbound -> Delays \cup {NoRecord}],
           \A p \in Recorded : history[p] # 0 /\ history[p] + tolerance < 65536,
           NEW n, NEW start \in Recorded \cup {NoOutbound}
    PROVE  LET o == Pass(n, start)
           IN  /\ o \in Recorded \cup {NoOutbound}
               /\ \A p \in supports[n] \cap Recorded :
                      o # NoOutbound /\ history[o] <= history[p] + tolerance
               /\ start # NoOutbound => /\ o # NoOutbound
                                        /\ o = start \/ history[start] > history[o] + tolerance
<1> DEFINE Last == Cardinality(Outbound)
           S == supports[n] \cap Recorded
           Near(o, i) ==
               /\ o \in Recorded \cup {NoOutbound}
               /\ \A p \in S : Position[p] <= i =>
                      o # NoOutbound /\ history[o] <= history[p] + tolerance
               /\ start # NoOutbound => /\ o # NoOutbound
                                        /\ o = start \/ history[start] > history[o] + tolerance
<1>1. Last \in Nat
  BY PassRounds
<1>2. PICK run : /\ \A i \in 0..Last :
                        run[i] = IF i = 0 THEN start ELSE Visit(n, run[i-1], i)
                 /\ Pass(n, start) = run[Last]
  BY PassRounds
<1>3. \A p \in S : Position[p] \in 1..Last
  BY GroupAssumption DEF Recorded
<1>4. \A o \in Recorded : history[o] \in Nat /\ tolerance \in Nat /\ o # NoOutbound
  BY RecordedDelay
<1> DEFINE Bad == {i \in 0..Last : ~Near(run[i], i)}
<1>5. Bad = {}
  <2> SUFFICES ASSUME Bad # {}
               PROVE  FALSE
    OBVIOUS
  <2> HIDE DEF Near
  <2>1. Bad \in SUBSET Nat
    BY <1>1
  <2> HIDE DEF Bad
  <2>2. PICK k \in Bad : \A j \in Bad : k <= j
    BY <2>1, LeastNatural
  <2>3. k \in 0..Last /\ ~Near(run[k], k)
    BY DEF Bad
  <2>4. run[k] = IF k = 0 THEN start ELSE Visit(n, run[k-1], k)
    BY <1>2, <2>3
  <2>5. k # 0
    <3>1. \A p \in S : ~(Position[p] <= 0)
      BY <1>3, <1>1
    <3>2. Near(start, 0)
      BY <3>1 DEF Near
    <3> QED
      BY <3>2, <2>3, <2>4
  <2>6. k-1 \in 0..Last /\ k-1 \notin Bad
    BY <2>2, <2>3, <2>5, <1>1
  <2>7. Near(run[k-1], k-1)
    BY <2>6 DEF Bad
  <2> DEFINE best == run[k-1]
             new == Visit(n, best, k)
  <2>8. /\ best \in Recorded \cup {NoOutbound}
        /\ \A p \in S : Position[p] <= k-1 =>
               best # NoOutbound /\ history[best] <= history[p] + tolerance
        /\ start # NoOutbound => /\ best # NoOutbound
                                 /\ best = start \/ history[start] > history[best] + tolerance
    BY <2>7 DEF Near
  <2>9. run[k] = new
    BY <2>4, <2>5
  <2>10. \/ /\ new = best
            /\ \A p \in S :
                   Position[p] = k => best # NoOutbound /\ history[best] <= history[p] + tolerance
         \/ /\ new \in S
            /\ \A p \in S : Position[p] = k => p = new
            /\ best # NoOutbound => history[best] > history[new] + tolerance
    <3>1. \A o, p \in Outbound : Position[o] = Position[p] => o = p
      BY GroupAssumption
    <3> HIDE DEF best
    <3> QED
      BY <3>1, <2>8, VisitTolerance
  <2> HIDE DEF best, new
  <2>11. \A p \in S : Position[p] <= k <=> Position[p] <= k-1 \/ Position[p] = k
    BY <1>3, <1>1, <2>3
  <2>12. ~Near(new, k)
    BY <2>3, <2>9
  <2>13. CASE /\ new = best
              /\ \A p \in S : Position[p] = k =>
                     best # NoOutbound /\ history[best] <= history[p] + tolerance
    BY <2>8, <2>11, <2>12, <2>13 DEF Near
  <2>14. CASE /\ new \in S
              /\ \A p \in S : Position[p] = k => p = new
              /\ best # NoOutbound => history[best] > history[new] + tolerance
    <3>1. new \in Recorded /\ new # NoOutbound /\ history[new] \in Nat /\ tolerance \in Nat
      BY <2>14, <1>4
    <3>2. ASSUME NEW p \in S, Position[p] <= k
          PROVE  history[new] <= history[p] + tolerance
      <4>1. p \in Recorded /\ history[p] \in Nat
        BY <1>4
      <4>2. CASE Position[p] = k
        BY <4>1, <4>2, <3>1, <2>14
      <4>3. CASE Position[p] <= k-1
        <5>1. best # NoOutbound /\ history[best] <= history[p] + tolerance
          BY <4>3, <2>8
        <5>2. history[best] \in Nat /\ history[best] > history[new] + tolerance
          BY <5>1, <2>8, <2>14, <1>4
        <5> QED
          BY <5>1, <5>2, <3>1, <4>1
      <4> QED
        BY <3>2, <2>11, <4>2, <4>3
    <3>3. ASSUME start # NoOutbound
          PROVE  history[start] > history[new] + tolerance
      <4>1. best # NoOutbound /\ (best = start \/ history[start] > history[best] + tolerance)
        BY <3>3, <2>8
      <4>2. history[best] \in Nat /\ history[best] > history[new] + tolerance
        BY <4>1, <2>8, <2>14, <1>4
      <4>3. history[start] \in Nat
        BY <3>3, <1>4
      <4> QED
        BY <4>1, <4>2, <4>3, <3>1
    <3> QED
      BY <3>1, <3>2, <3>3, <2>12 DEF Near
  <2> QED
    BY <2>10, <2>13, <2>14
<1>6. Near(run[Last], Last)
  <2>1. Last \in 0..Last
    BY <1>1
  <2> HIDE DEF Near
  <2> QED
    BY <1>5, <2>1
<1>7. \A p \in S : Position[p] <= Last
  BY <1>3, <1>1
<1> QED
  BY <1>2, <1>6, <1>7
-----------------------------------------------------------------------------
\* The selection.

LEMMA SelectType ==
    ASSUME TypeOK, NEW n \in Network
    PROVE  Select(n) \in [outbound : Outbound \cup {NoOutbound}, exists : BOOLEAN]
<1>1. supports[n] \in SUBSET Outbound /\ selected[n] \in Outbound \cup {NoOutbound}
  BY GroupAssumption DEF TypeOK
<1>2. Recorded \subseteq Outbound
  BY DEF Recorded
<1>3. urltestSelect(n) \in Outbound \cup {NoOutbound}
  <2> DEFINE start == IF selected[n] \in Recorded THEN selected[n] ELSE NoOutbound
  <2>1. Pass(n, start) = start \/ Pass(n, start) \in supports[n] \cap Recorded
    BY PassType
  <2>2. start \in Outbound \cup {NoOutbound}
    BY <1>2
  <2> QED
    BY <1>1, <2>1, <2>2 DEF urltestSelect
<1>4. fallbackSelect(n) \in Outbound \cup {NoOutbound}
  <2>1. supports[n] \cap Recorded # {} =>
            FirstOf(supports[n] \cap Recorded) \in supports[n] \cap Recorded
    BY <1>1, FirstOfIn
  <2> QED
    BY <1>1, <2>1 DEF fallbackSelect
<1>5. supports[n] # {} => FirstOf(supports[n]) \in Outbound
  BY <1>1, FirstOfIn
<1> DEFINE o == IF kind = "urltest" THEN urltestSelect(n) ELSE fallbackSelect(n)
           first == IF supports[n] = {} THEN NoOutbound ELSE FirstOf(supports[n])
<1>6. o \in Outbound \cup {NoOutbound} /\ first \in Outbound \cup {NoOutbound}
  BY <1>3, <1>4, <1>5
<1>7. Select(n) = IF o # NoOutbound THEN [outbound |-> o, exists |-> TRUE]
                  ELSE [outbound |-> first, exists |-> FALSE]
  BY DEF Select
<1> HIDE DEF o, first
<1> QED
  BY <1>6, <1>7

\* urltest's Select is within the tolerance in every state of the right types.
LEMMA ToleranceLemma ==
    ASSUME TypeOK
    PROVE  SelectWithinTolerance
<1> SUFFICES ASSUME NEW n \in Network,
                    kind = "urltest", supports[n] \cap Recorded # {},
                    \A p \in Recorded : history[p] # 0 /\ history[p] + tolerance < 65536
             PROVE  LET o == Select(n).outbound
                    IN  /\ \A p \in supports[n] \cap Recorded : history[o] <= history[p] + tolerance
                        /\ selected[n] \in Recorded /\ o # selected[n] =>
                               history[selected[n]] > history[o] + tolerance
  BY DEF SelectWithinTolerance
<1> DEFINE start == IF selected[n] \in Recorded THEN selected[n] ELSE NoOutbound
           o == Pass(n, start)
<1>1. history \in [Outbound -> Delays \cup {NoRecord}]
  BY DEF TypeOK
<1>2. start \in Recorded \cup {NoOutbound}
  OBVIOUS
<1>3. NoOutbound \notin Recorded
  BY GroupAssumption DEF Recorded
<1> HIDE DEF start
<1>4. /\ \A p \in supports[n] \cap Recorded :
             o # NoOutbound /\ history[o] <= history[p] + tolerance
      /\ start # NoOutbound => /\ o # NoOutbound
                               /\ o = start \/ history[start] > history[o] + tolerance
  BY <1>1, <1>2, PassTolerance
<1>5. urltestSelect(n) = o
  BY DEF urltestSelect, start
<1> HIDE DEF o
<1>6. o # NoOutbound
  BY <1>4
<1>7. Select(n).outbound = o
  BY <1>5, <1>6 DEF Select
<1>8. selected[n] \in Recorded => start = selected[n] /\ start # NoOutbound
  BY <1>3 DEF start
<1> QED
  BY <1>4, <1>7, <1>8

-----------------------------------------------------------------------------
\* The initial state.

\* IInv with the three invariants that are proved along with it.
Inv == IInv /\ StaleMembersAreDue /\ FallbackTriesAll /\ PersistedFollowsSelection

LEMMA InitInv ==
    ASSUME Init
    PROVE  Inv
<1> USE DEF Init, InterruptInit
<1>1. supports \in Supports /\ network \in Networks
  <2>1. (CHOOSE x \in Supports : TRUE) \in Supports /\ (CHOOSE x \in Networks : TRUE) \in Networks
    BY GroupAssumption
  <2>2. OneOf(Supports) \subseteq Supports /\ OneOf(Networks) \subseteq Networks
    BY <2>1 DEF OneOf
  <2> QED
    BY <2>2
<1>2. persisted \in Outbound \cup {NoOutbound}
  OBVIOUS
<1>3. TypeOK
  <2>1. network \in [Conn -> Network]
    BY <1>1, GroupAssumption
  <2>2. selected \in [Network -> Outbound \cup {NoOutbound}]
    BY <1>2, GroupAssumption
  <2>3. chosen \in [outbound : Outbound \cup {NoOutbound}, exists : BOOLEAN]
    BY DEF NoChoice
  <2>4. turn \in Network
    BY DEF Network
  <2> QED
    BY <1>1, <1>2, <2>1, <2>2, <2>3, <2>4 DEF TypeOK, InterruptTypeOK
<1>4. \A c \in Conn : CallInv(c)
  BY DEF CallInv, InFlight
<1>5. CheckInv
  BY DEF CheckInv
<1>6. SelectorInv
  BY DEF SelectorInv, Network
<1>7. StaleMembersAreDue /\ FallbackTriesAll
  BY DEF StaleMembersAreDue, FallbackTriesAll
<1>8. PersistedFollowsSelection
  BY <1>2 DEF PersistedFollowsSelection
<1> QED
  BY <1>3, <1>4, <1>5, <1>6, <1>7, <1>8 DEF Inv, IInv

-----------------------------------------------------------------------------
\* What steps leave alone.

\* A step of a call that writes neither the selection nor the members.
LEMMA SelectorFrame ==
    ASSUME Inv, UNCHANGED <<kind, selected, apiVars>>
    PROVE  SelectorInv' /\ PersistedFollowsSelection'
<1> USE DEF Inv, IInv, apiVars
<1>1. Unstored' = Unstored
  BY DEF Unstored
<1> QED
  BY <1>1 DEF SelectorInv, PersistedFollowsSelection

LEMMA CheckFrame ==
    ASSUME Inv, UNCHANGED <<kind, checkVars>>
    PROVE  CheckInv'
BY DEF Inv, IInv, CheckInv, checkVars

\* A check or a call of SelectOutbound that writes no selection and closes nothing.
LEMMA CallFrame ==
    ASSUME Inv, UNCHANGED <<group, selected, overtaken, interruptVars, callVars>>
    PROVE  (\A c \in Conn : CallInv(c)') /\ FallbackTriesAll'
<1> USE DEF Inv, IInv, group, interruptVars, callVars
<1>1. ASSUME NEW c \in Conn
      PROVE  CallInv(c)'
  BY DEF CallInv, InFlight
<1>2. FallbackTriesAll'
  BY DEF FallbackTriesAll
<1> QED
  BY <1>1, <1>2

\* No step outside the calls changes what a call knows; an interrupt that was due
\* stays due.
LEMMA StaleFrame ==
    ASSUME Inv, UNCHANGED <<selected, overtaken, external, network>>,
           connections' \subseteq connections,
           \A c \in connections' : detour'[c] = detour[c],
           InterruptDue => InterruptDue'
    PROVE  StaleMembersAreDue'
<1> SUFFICES ASSUME NEW c \in connections'
             PROVE  \/ selected'[network'[c]] \in {detour'[c], NoOutbound}
                    \/ InterruptDue' \/ Protected(c)' \/ c \in overtaken'
  BY DEF StaleMembersAreDue
<1>1. Protected(c)' <=> Protected(c)
  BY DEF Protected
<1>2. \/ selected[network[c]] \in {detour[c], NoOutbound}
      \/ InterruptDue \/ Protected(c) \/ c \in overtaken
  BY DEF Inv, StaleMembersAreDue
<1> HIDE DEF InterruptDue, Protected
<1> QED
  BY <1>1, <1>2

\* After an interrupt the members left are those the option protects.
LEMMA AfterInterrupt ==
    ASSUME Inv, Interrupt
    PROVE  /\ StaleMembersAreDue'
           /\ InterruptTypeOK'
           /\ connections' \subseteq connections
<1>1. remote' \in [Conn -> {"none", "open", "closed"}]
  BY DEF Inv, IInv, TypeOK, InterruptTypeOK, Interrupt
<1>2. /\ connections' \subseteq connections
      /\ \A c \in connections' : c \in external' /\ ~interruptExternalConnections
  BY DEF Interrupt, Affected
<1>3. StaleMembersAreDue'
  BY <1>2 DEF StaleMembersAreDue, Protected
<1> QED
  BY <1>1, <1>2, <1>3 DEF Inv, IInv, TypeOK, InterruptTypeOK, Interrupt

\* Writing the selection: calls in flight that it leaves behind are overtaken.
LEMMA WriteLemma ==
    ASSUME Inv, NEW new \in [Network -> Outbound \cup {NoOutbound}], NEW quiet \in BOOLEAN,
           Write(new, quiet)
    PROVE  /\ selected' \in [Network -> Outbound \cup {NoOutbound}]
           /\ overtaken' \in SUBSET Conn
           /\ overtaken \subseteq overtaken'
           /\ \A c \in Conn : InFlight(c) =>
                  selected'[network[c]] \in {detour[c], NoOutbound} \/ c \in overtaken'
           /\ \A c \in Conn :
                  /\ c \in connections
                  /\ quiet \/ selected'[network[c]] = selected[network[c]]
                  => \/ selected'[network[c]] \in {detour[c], NoOutbound}
                     \/ InterruptDue \/ Protected(c) \/ c \in overtaken'
<1> USE DEF Inv, IInv
<1>1. /\ selected' = new
      /\ overtaken' = overtaken \cup
             {c \in Conn : /\ detour[c] # new[network[c]]
                           /\ selected[network[c]] # new[network[c]]
                           /\ InFlight(c) \/ (quiet /\ c \in connections)}
  BY DEF Write
<1>2. overtaken \in SUBSET Conn
  BY DEF TypeOK
<1>3. ASSUME NEW c \in Conn, InFlight(c)
      PROVE  selected'[network[c]] \in {detour[c], NoOutbound} \/ c \in overtaken'
  <2>1. selected[network[c]] \in {detour[c], NoOutbound} \/ c \in overtaken
    BY <1>3 DEF CallInv
  <2> QED
    BY <1>1, <1>3, <2>1
<1>4. ASSUME NEW c \in Conn, c \in connections,
             quiet \/ selected'[network[c]] = selected[network[c]]
      PROVE  \/ selected'[network[c]] \in {detour[c], NoOutbound}
             \/ InterruptDue \/ Protected(c) \/ c \in overtaken'
  <2>1. \/ selected[network[c]] \in {detour[c], NoOutbound}
        \/ InterruptDue \/ Protected(c) \/ c \in overtaken
    BY <1>4 DEF StaleMembersAreDue
  <2> QED
    BY <1>1, <1>4, <2>1
<1> QED
  BY <1>1, <1>2, <1>3, <1>4

-----------------------------------------------------------------------------
\* Steps of a call.

\* The next outbound of a call is one it has not tried.
LEMMA NextDetourIn ==
    ASSUME NEW pref, NEW rest \in SUBSET Outbound, rest # {}
    PROVE  NextDetour(pref, rest) \in rest
<1>1. pref \cap rest # {} => FirstOf(pref \cap rest) \in pref \cap rest
  BY FirstOfIn, pref \cap rest \in SUBSET Outbound
<1>2. FirstOf(rest) \in rest
  BY FirstOfIn
<1> QED
  BY <1>1, <1>2 DEF NextDetour

\* What the proofs need of the types of a call.
LEMMA CallTypes ==
    ASSUME Inv
    PROVE  /\ pc \in [Conn -> {"idle", "dial", "swap", "interrupt", "register", "connected",
                               "ended", "error"}]
           /\ network \in [Conn -> Network]
           /\ preferred \in [Conn -> SUBSET Outbound]
           /\ remaining \in [Conn -> SUBSET Outbound]
           /\ failed \in [Conn -> SUBSET Outbound]
           /\ detour \in [Conn -> Outbound \cup {NoOutbound}]
           /\ supports \in [Network -> SUBSET Outbound]
           /\ selected \in [Network -> Outbound \cup {NoOutbound}]
           /\ connections \in SUBSET Conn
           /\ overtaken \in SUBSET Conn
           /\ NoOutbound \notin Outbound
BY GroupAssumption DEF Inv, IInv, TypeOK, InterruptTypeOK

LEMMA CallStep ==
    ASSUME Inv, NEW c \in Conn, Call(c)
    PROVE  Inv'
<1> USE DEF Call, group, interruptVars, checkVars, apiVars
<1> DEFINE n == network[c]
<1>1. PICK o \in Outbound :
          /\ detour' = [detour EXCEPT ![c] = o]
          /\ preferred' \in [Conn -> SUBSET Outbound]
          /\ remaining' \in [Conn -> SUBSET Outbound]
          /\ \A d \in Conn \ {c} : remaining'[d] = remaining[d]
          /\ kind = "fallback" => supports[n] \subseteq remaining'[c] \cup {o}
          /\ kind # "fallback" => /\ remaining'[c] = {}
                                  /\ selected[n] \in {o, NoOutbound}
  <2>1. CASE FallbackCall(c)
    <3> DEFINE rest == TryList(c)
               o == NextDetour(Recorded, rest)
    <3>1. rest \in SUBSET Outbound /\ rest = supports[n] /\ rest # {}
      BY <2>1, CallTypes DEF TryList, FallbackCall
    <3>2. o \in rest
      BY <3>1, NextDetourIn
    <3>3. Recorded \in SUBSET Outbound
      BY DEF Recorded
    <3>4. /\ kind = "fallback"
          /\ preferred' = [preferred EXCEPT ![c] = Recorded]
          /\ remaining' = [remaining EXCEPT ![c] = rest \ {o}]
          /\ detour' = [detour EXCEPT ![c] = o]
      BY <2>1 DEF FallbackCall
    <3> HIDE DEF o, rest
    <3>5. /\ preferred' \in [Conn -> SUBSET Outbound]
          /\ remaining' \in [Conn -> SUBSET Outbound]
          /\ \A d \in Conn \ {c} : remaining'[d] = remaining[d]
          /\ remaining'[c] = rest \ {o}
      BY <3>1, <3>3, <3>4, CallTypes
    <3>6. o \in Outbound /\ supports[n] \subseteq remaining'[c] \cup {o}
      BY <3>1, <3>2, <3>5
    <3> QED
      BY <3>4, <3>5, <3>6
  <2>2. CASE SelectedCall(c)
    <3> DEFINE o == IF selected[n] # NoOutbound THEN selected[n] ELSE Select(n).outbound
    <3>1. /\ kind # "fallback" /\ o # NoOutbound
          /\ detour' = [detour EXCEPT ![c] = o]
          /\ UNCHANGED <<preferred, remaining>>
      BY <2>2 DEF SelectedCall
    <3>2. n \in Network /\ selected[n] \in Outbound \cup {NoOutbound}
      BY CallTypes
    <3>3. Select(n).outbound \in Outbound \cup {NoOutbound}
      BY <3>2, SelectType DEF Inv, IInv
    <3>4. o \in Outbound
      BY <3>1, <3>2, <3>3
    <3>5. remaining[c] = {}
      BY <3>1 DEF Inv, IInv, CallInv
    <3>6. selected[n] \in {o, NoOutbound}
      OBVIOUS
    <3> HIDE DEF o
    <3> QED
      BY <3>1, <3>4, <3>5, <3>6, CallTypes
  <2> QED
    BY <2>1, <2>2
<1>2. detour' \in [Conn -> Outbound \cup {NoOutbound}] /\ pc[c] = "idle"
  BY <1>1, CallTypes
<1>3. pc' = [pc EXCEPT ![c] = "dial"]
  OBVIOUS
<1>4. TypeOK'
  BY <1>1, <1>2, <1>3 DEF Inv, IInv, TypeOK, InterruptTypeOK
<1>5. ASSUME NEW d \in Conn
      PROVE  CallInv(d)'
  <2>1. CallInv(d)
    BY DEF Inv, IInv
  <2>2. CASE d = c
    <3>1. pc'[c] = "dial" /\ detour'[c] = o /\ c \notin connections
      BY <1>1, <1>2, <1>3, <2>1, <2>2, CallTypes DEF CallInv
    <3> QED
      BY <2>1, <2>2, <3>1, <1>1, CallTypes DEF CallInv, InFlight
  <2>3. CASE d # c
    <3>1. pc'[d] = pc[d] /\ detour'[d] = detour[d] /\ remaining'[d] = remaining[d]
      BY <1>1, <1>3, <2>3, CallTypes
    <3> QED
      BY <2>1, <3>1 DEF CallInv, InFlight
  <2> QED
    BY <2>2, <2>3
<1>6. StaleMembersAreDue'
  <2>1. \A d \in connections : d # c
    BY <1>2 DEF Inv, IInv, CallInv
  <2>2. \A d \in connections : detour'[d] = detour[d]
    BY <1>1, <2>1, CallTypes
  <2>3. InterruptDue => InterruptDue'
    BY <1>2, <1>3, CallTypes DEF InterruptDue
  <2> QED
    BY <2>2, <2>3, StaleFrame
<1>7. FallbackTriesAll'
  BY <1>3, CallTypes DEF Inv, FallbackTriesAll
<1>8. CheckInv'
  BY CheckFrame
<1>9. SelectorInv' /\ PersistedFollowsSelection'
  BY SelectorFrame
<1> QED
  BY <1>4, <1>5, <1>6, <1>7, <1>8, <1>9 DEF Inv, IInv

\* Steps of a call that keep its outbound and the selection: its place, its
\* connection and the members may change.
LEMMA MoveStep ==
    ASSUME Inv, NEW c \in Conn, NEW place,
           place \in {"swap", "register", "connected", "error"},
           pc' = [pc EXCEPT ![c] = place],
           UNCHANGED <<group, history, selected, overtaken, network, preferred, remaining,
                       detour, failed, checkVars, apiVars>>,
           InterruptTypeOK',
           \A d \in connections' : d \in connections \/ (d = c /\ place = "connected"),
           c \in connections => place = "connected",
           place = "swap" => kind = "fallback",
           place \in {"swap", "register"} => detour[c] # NoOutbound,
           place = "register" => InFlight(c),
           place = "error" => supports[network[c]] = {}
    PROVE  TypeOK' /\ (\A d \in Conn : CallInv(d)') /\ FallbackTriesAll'
           /\ CheckInv' /\ SelectorInv' /\ PersistedFollowsSelection'
<1> USE DEF group
<1>1. pc' \in [Conn -> {"idle", "dial", "swap", "interrupt", "register", "connected",
                        "ended", "error"}]
  BY CallTypes
<1>2. TypeOK'
  BY <1>1 DEF Inv, IInv, TypeOK, checkVars, apiVars
<1>3. ASSUME NEW d \in Conn
      PROVE  CallInv(d)'
  <2>1. CallInv(d)
    BY DEF Inv, IInv
  <2>2. CASE d = c
    <3>1. pc'[c] = place
      BY CallTypes
    <3> QED
      BY <2>1, <2>2, <3>1 DEF CallInv, InFlight
  <2>3. CASE d # c
    <3>1. pc'[d] = pc[d]
      BY <2>3, CallTypes
    <3> QED
      BY <2>1, <2>3, <3>1 DEF CallInv, InFlight
  <2> QED
    BY <2>2, <2>3
<1>4. FallbackTriesAll'
  BY CallTypes DEF Inv, FallbackTriesAll
<1>5. CheckInv'
  BY CheckFrame
<1>6. SelectorInv' /\ PersistedFollowsSelection'
  BY SelectorFrame
<1> QED
  BY <1>2, <1>3, <1>4, <1>5, <1>6

LEMMA NoCandidateStep ==
    ASSUME Inv, NEW c \in Conn, NoCandidate(c)
    PROVE  Inv'
<1> USE DEF NoCandidate, interruptVars
<1>1. c \notin connections
  BY DEF Inv, IInv, CallInv
<1>2. InterruptTypeOK'
  BY DEF Inv, IInv, TypeOK, InterruptTypeOK
<1>3. TypeOK' /\ (\A d \in Conn : CallInv(d)') /\ FallbackTriesAll'
      /\ CheckInv' /\ SelectorInv' /\ PersistedFollowsSelection'
  BY <1>1, <1>2, MoveStep
<1>4. InterruptDue => InterruptDue'
  BY CallTypes DEF InterruptDue, checkVars, apiVars
<1>5. StaleMembersAreDue'
  BY <1>4, StaleFrame
<1> QED
  BY <1>3, <1>5 DEF Inv, IInv

LEMMA DialSucceedsStep ==
    ASSUME Inv, NEW c \in Conn, DialSucceeds(c)
    PROVE  Inv'
<1> USE DEF DialSucceeds, Dialled
<1>1. CallInv(c) /\ pc[c] = "dial"
  BY DEF Inv, IInv
<1>2. InterruptTypeOK'
  BY DEF Inv, IInv, TypeOK, InterruptTypeOK
<1> DEFINE place == IF kind = "fallback" THEN "swap"
                    ELSE IF kind = "selector" /\ c \in external THEN "connected"
                    ELSE "register"
<1>3. /\ place \in {"swap", "register", "connected", "error"}
      /\ place = "swap" => kind = "fallback"
      /\ place = "register" => kind # "fallback"
      /\ place # "error"
  OBVIOUS
<1>4. pc' = [pc EXCEPT ![c] = place]
  OBVIOUS
<1> HIDE DEF place
<1>5. /\ c \notin connections
      /\ detour[c] # NoOutbound
      /\ place = "register" => InFlight(c)
  BY <1>1, <1>3 DEF CallInv, InFlight
<1>6. TypeOK' /\ (\A d \in Conn : CallInv(d)') /\ FallbackTriesAll'
      /\ CheckInv' /\ SelectorInv' /\ PersistedFollowsSelection'
  BY <1>2, <1>3, <1>4, <1>5, MoveStep
<1>7. InterruptDue => InterruptDue'
  BY <1>1, <1>4, CallTypes DEF InterruptDue, checkVars, apiVars
<1>8. StaleMembersAreDue'
  BY <1>7, StaleFrame
<1> QED
  BY <1>6, <1>8 DEF Inv, IInv

LEMMA CallInterruptsStep ==
    ASSUME Inv, NEW c \in Conn, CallInterrupts(c)
    PROVE  Inv'
<1> USE DEF CallInterrupts
<1>1. CallInv(c) /\ pc[c] = "interrupt"
  BY DEF Inv, IInv
<1>2. /\ c \notin connections
      /\ detour[c] # NoOutbound
      /\ InFlight(c)
  BY <1>1 DEF CallInv, InFlight
<1>3. InterruptTypeOK' /\ connections' \subseteq connections /\ StaleMembersAreDue'
  BY AfterInterrupt
<1>4. TypeOK' /\ (\A d \in Conn : CallInv(d)') /\ FallbackTriesAll'
      /\ CheckInv' /\ SelectorInv' /\ PersistedFollowsSelection'
  BY <1>2, <1>3, MoveStep
<1> QED
  BY <1>3, <1>4 DEF Inv, IInv

LEMMA RegisterStep ==
    ASSUME Inv, NEW c \in Conn, Register(c)
    PROVE  Inv'
<1> USE DEF Register, NewConn
<1>1. CallInv(c) /\ pc[c] = "register"
  BY DEF Inv, IInv
<1>2. InterruptTypeOK'
  BY DEF Inv, IInv, TypeOK, InterruptTypeOK
<1>3. TypeOK' /\ (\A d \in Conn : CallInv(d)') /\ FallbackTriesAll'
      /\ CheckInv' /\ SelectorInv' /\ PersistedFollowsSelection'
  BY <1>2, MoveStep
<1>4. selected[network[c]] \in {detour[c], NoOutbound} \/ c \in overtaken
  BY <1>1 DEF CallInv, InFlight
<1>5. InterruptDue => InterruptDue'
  BY <1>1, CallTypes DEF InterruptDue, checkVars, apiVars
<1>6. StaleMembersAreDue'
  <2> SUFFICES ASSUME NEW d \in connections'
               PROVE  \/ selected'[network'[d]] \in {detour'[d], NoOutbound}
                      \/ InterruptDue' \/ Protected(d)' \/ d \in overtaken'
    BY DEF StaleMembersAreDue
  <2>1. CASE d = c
    BY <1>4, <2>1
  <2>2. CASE d # c
    <3>1. d \in connections
      BY <2>2
    <3>2. \/ selected[network[d]] \in {detour[d], NoOutbound}
          \/ InterruptDue \/ Protected(d) \/ d \in overtaken
      BY <3>1 DEF Inv, StaleMembersAreDue
    <3>3. Protected(d) => Protected(d)'
      BY DEF Protected
    <3> QED
      BY <1>5, <3>2, <3>3
  <2> QED
    BY <2>1, <2>2
<1> QED
  BY <1>3, <1>6 DEF Inv, IInv

LEMMA HangupStep ==
    ASSUME Inv, NEW c \in Conn, Hangup(c)
    PROVE  Inv'
<1> USE DEF Hangup, CloseConn, group
<1>1. /\ pc' = [pc EXCEPT ![c] = "ended"] /\ pc[c] = "connected"
      /\ detour' = [detour EXCEPT ![c] = NoOutbound]
      /\ failed' = [failed EXCEPT ![c] = {}]
  OBVIOUS
<1>2. TypeOK'
  <2>1. /\ pc' \in [Conn -> {"idle", "dial", "swap", "interrupt", "register", "connected",
                             "ended", "error"}]
        /\ detour' \in [Conn -> Outbound \cup {NoOutbound}]
        /\ failed' \in [Conn -> SUBSET Outbound]
        /\ overtaken' \in SUBSET Conn
    BY <1>1, CallTypes
  <2>2. InterruptTypeOK'
    BY DEF Inv, IInv, TypeOK, InterruptTypeOK
  <2> QED
    BY <2>1, <2>2 DEF Inv, IInv, TypeOK, checkVars, apiVars
<1>3. ASSUME NEW d \in Conn
      PROVE  CallInv(d)'
  <2>1. CallInv(d)
    BY DEF Inv, IInv
  <2>2. CASE d = c
    <3>1. pc'[c] = "ended" /\ c \notin connections'
      BY <1>1, CallTypes
    <3> QED
      BY <2>1, <2>2, <3>1 DEF CallInv, InFlight
  <2>3. CASE d # c
    <3>1. pc'[d] = pc[d] /\ detour'[d] = detour[d] /\ failed'[d] = failed[d]
      BY <1>1, <2>3, CallTypes
    <3> QED
      BY <2>1, <2>3, <3>1 DEF CallInv, InFlight
  <2> QED
    BY <2>2, <2>3
<1>4. FallbackTriesAll'
  <2> SUFFICES ASSUME NEW d \in Conn, kind' = "fallback", pc'[d] = "error"
               PROVE  supports'[network'[d]] \subseteq failed'[d]
    BY DEF FallbackTriesAll
  <2>1. d # c
    BY <1>1, CallTypes
  <2>2. pc[d] = "error" /\ failed'[d] = failed[d]
    BY <1>1, <2>1, CallTypes
  <2> QED
    BY <2>2 DEF Inv, FallbackTriesAll
<1>5. StaleMembersAreDue'
  <2> SUFFICES ASSUME NEW d \in connections'
               PROVE  \/ selected'[network'[d]] \in {detour'[d], NoOutbound}
                      \/ InterruptDue' \/ Protected(d)' \/ d \in overtaken'
    BY DEF StaleMembersAreDue
  <2>1. d # c /\ d \in connections /\ d \in Conn
    BY CallTypes
  <2>2. \/ selected[network[d]] \in {detour[d], NoOutbound}
        \/ InterruptDue \/ Protected(d) \/ d \in overtaken
    BY <2>1 DEF Inv, StaleMembersAreDue
  <2>3. detour'[d] = detour[d]
    BY <1>1, <2>1, CallTypes
  <2>4. Protected(d) => Protected(d)'
    BY DEF Protected
  <2>5. InterruptDue => InterruptDue'
    BY <1>1, CallTypes DEF InterruptDue, checkVars, apiVars
  <2> QED
    BY <2>1, <2>2, <2>3, <2>4, <2>5
<1>6. CheckInv'
  BY CheckFrame
<1>7. SelectorInv' /\ PersistedFollowsSelection'
  BY SelectorFrame
<1> QED
  BY <1>2, <1>3, <1>4, <1>5, <1>6, <1>7 DEF Inv, IInv

LEMMA DialFailsStep ==
    ASSUME Inv, NEW c \in Conn, DialFails(c)
    PROVE  Inv'
<1> USE DEF group, interruptVars
<1> DEFINE rest == remaining[c]
           over == rest = {}
           next == NextDetour(preferred[c], rest)
           o == IF over THEN NoOutbound ELSE next
           left == IF over THEN {} ELSE rest \ {next}
           place == IF over THEN "error" ELSE "dial"
<1>1. /\ pc[c] = "dial"
      /\ failed' = [failed EXCEPT ![c] = @ \cup {detour[c]}]
      /\ history' = IF kind = "selector" THEN history
                    ELSE [history EXCEPT ![detour[c]] = NoRecord]
      /\ pc' = [pc EXCEPT ![c] = place]
      /\ detour' = [detour EXCEPT ![c] = o]
      /\ remaining' = [remaining EXCEPT ![c] = left]
      /\ preferred' = [preferred EXCEPT ![c] = IF over THEN {} ELSE @]
      /\ UNCHANGED <<group, selected, overtaken, interruptVars, network, checkVars, apiVars>>
  BY DEF DialFails
<1>2. rest \in SUBSET Outbound /\ (~over => next \in rest)
  BY CallTypes, NextDetourIn
<1>3. /\ o \in Outbound \cup {NoOutbound} /\ left \in SUBSET Outbound
      /\ place = "error" => rest = {}
      /\ place = "dial" => o \in Outbound /\ rest \subseteq left \cup {o}
      /\ kind # "fallback" => place = "error" /\ left = {}
      /\ place \in {"error", "dial"}
  <2>1. kind # "fallback" => rest = {}
    BY DEF Inv, IInv, CallInv
  <2> QED
    BY <1>2, <2>1
<1>4. CallInv(c) /\ detour[c] \in Outbound
  BY <1>1, CallTypes DEF Inv, IInv, CallInv
<1> HIDE DEF o, left, place, next
<1>5. TypeOK'
  <2>1. /\ pc' \in [Conn -> {"idle", "dial", "swap", "interrupt", "register", "connected",
                             "ended", "error"}]
        /\ detour' \in [Conn -> Outbound \cup {NoOutbound}]
        /\ failed' \in [Conn -> SUBSET Outbound]
        /\ remaining' \in [Conn -> SUBSET Outbound]
        /\ preferred' \in [Conn -> SUBSET Outbound]
    BY <1>1, <1>3, <1>4, CallTypes
  <2>2. history' \in [Outbound -> Delays \cup {NoRecord}]
    BY <1>1, <1>4 DEF Inv, IInv, TypeOK
  <2>3. InterruptTypeOK'
    BY <1>1 DEF Inv, IInv, TypeOK, InterruptTypeOK
  <2> QED
    BY <1>1, <2>1, <2>2, <2>3 DEF Inv, IInv, TypeOK, checkVars, apiVars
<1>6. /\ pc'[c] = place /\ detour'[c] = o /\ remaining'[c] = left
      /\ failed'[c] = failed[c] \cup {detour[c]}
      /\ c \notin connections
  BY <1>1, <1>4, CallTypes DEF CallInv
<1>7. \A d \in Conn \ {c} : /\ pc'[d] = pc[d] /\ detour'[d] = detour[d]
                            /\ remaining'[d] = remaining[d] /\ failed'[d] = failed[d]
  BY <1>1, CallTypes
<1>8. ASSUME NEW d \in Conn
      PROVE  CallInv(d)'
  <2>1. CallInv(d)
    BY DEF Inv, IInv
  <2>2. CASE d = c
    <3>1. kind = "fallback" /\ place = "dial" =>
              supports[network[c]] \subseteq failed'[c] \cup left \cup {o}
      BY <1>1, <1>3, <1>4, <1>6 DEF CallInv
    <3>2. /\ place = "dial" => kind = "fallback" /\ o # NoOutbound
          /\ place \in {"error", "dial"}
          /\ kind # "fallback" => left = {}
      BY <1>3, CallTypes
    <3> QED
      BY <2>2, <3>1, <3>2, <1>1, <1>6 DEF CallInv, InFlight
  <2>3. CASE d # c
    BY <2>1, <2>3, <1>1, <1>7 DEF CallInv, InFlight
  <2> QED
    BY <2>2, <2>3
<1>9. FallbackTriesAll'
  <2> SUFFICES ASSUME NEW d \in Conn, kind' = "fallback", pc'[d] = "error"
               PROVE  supports'[network'[d]] \subseteq failed'[d]
    BY DEF FallbackTriesAll
  <2>1. CASE d = c
    <3>1. rest = {} /\ kind = "fallback"
      BY <2>1, <1>1, <1>3, <1>6
    <3>2. supports[network[c]] \subseteq failed[c] \cup {detour[c]}
      BY <3>1, <1>1, <1>4 DEF CallInv
    <3> QED
      BY <2>1, <3>2, <1>1, <1>6
  <2>2. CASE d # c
    BY <2>2, <1>1, <1>7 DEF Inv, FallbackTriesAll
  <2> QED
    BY <2>1, <2>2
<1>10. StaleMembersAreDue'
  <2>1. \A d \in connections' : detour'[d] = detour[d]
    BY <1>1, <1>6, <1>7, CallTypes
  <2>2. InterruptDue => InterruptDue'
    BY <1>1, <1>7 DEF InterruptDue, checkVars, apiVars
  <2> QED
    BY <1>1, <2>1, <2>2, StaleFrame
<1>11. CheckInv'
  BY <1>1, CheckFrame
<1>12. SelectorInv' /\ PersistedFollowsSelection'
  BY <1>1, SelectorFrame
<1> QED
  BY <1>5, <1>8, <1>9, <1>10, <1>11, <1>12 DEF Inv, IInv

LEMMA StoreSelectedStep ==
    ASSUME Inv, NEW c \in Conn, StoreSelected(c)
    PROVE  Inv'
<1> USE DEF group, interruptVars
<1> DEFINE n == network[c]
           new == [selected EXCEPT ![n] = detour[c]]
           quiet == selected[n] = NoOutbound
           place == IF selected[n] \notin {NoOutbound, detour[c]} THEN "interrupt" ELSE "register"
<1>1. /\ pc[c] = "swap"
      /\ Write(new, quiet)
      /\ pc' = [pc EXCEPT ![c] = place]
      /\ preferred' = [preferred EXCEPT ![c] = {}]
      /\ remaining' = [remaining EXCEPT ![c] = {}]
      /\ UNCHANGED <<group, history, interruptVars, network, detour, failed, checkVars, apiVars>>
  BY DEF StoreSelected
<1>2. CallInv(c) /\ kind = "fallback" /\ detour[c] # NoOutbound /\ c \notin connections
  BY <1>1 DEF Inv, IInv, CallInv
<1>3. /\ n \in Network
      /\ new \in [Network -> Outbound \cup {NoOutbound}]
      /\ new[n] = detour[c]
      /\ \A m \in Network \ {n} : new[m] = selected[m]
  BY CallTypes
<1>4. /\ place \in {"interrupt", "register"}
      /\ place = "register" => quiet \/ selected[n] = detour[c]
  OBVIOUS
<1> HIDE DEF place, quiet, new
<1>5. quiet \in BOOLEAN
  BY DEF quiet
<1>6. /\ selected' \in [Network -> Outbound \cup {NoOutbound}]
      /\ overtaken' \in SUBSET Conn
      /\ overtaken \subseteq overtaken'
      /\ \A d \in Conn : InFlight(d) =>
             selected'[network[d]] \in {detour[d], NoOutbound} \/ d \in overtaken'
      /\ \A d \in Conn :
             /\ d \in connections
             /\ quiet \/ selected'[network[d]] = selected[network[d]]
             => \/ selected'[network[d]] \in {detour[d], NoOutbound}
                \/ InterruptDue \/ Protected(d) \/ d \in overtaken'
  BY <1>1, <1>3, <1>5, WriteLemma
<1>7. selected' = new
  BY <1>1 DEF Write
<1>8. /\ pc'[c] = place
      /\ \A d \in Conn \ {c} : pc'[d] = pc[d] /\ remaining'[d] = remaining[d]
      /\ remaining'[c] = {}
  BY <1>1, CallTypes
<1>9. TypeOK'
  <2>1. /\ pc' \in [Conn -> {"idle", "dial", "swap", "interrupt", "register", "connected",
                             "ended", "error"}]
        /\ remaining' \in [Conn -> SUBSET Outbound]
        /\ preferred' \in [Conn -> SUBSET Outbound]
    BY <1>1, <1>4, CallTypes
  <2>2. InterruptTypeOK'
    BY <1>1 DEF Inv, IInv, TypeOK, InterruptTypeOK
  <2> QED
    BY <1>1, <1>6, <2>1, <2>2 DEF Inv, IInv, TypeOK, checkVars, apiVars
<1>10. ASSUME NEW d \in Conn
       PROVE  CallInv(d)'
  <2>1. CallInv(d)
    BY DEF Inv, IInv
  <2>2. CASE d = c
    <3>1. selected'[network[c]] = detour[c]
      BY <1>3, <1>7
    <3> QED
      BY <2>2, <3>1, <1>1, <1>2, <1>4, <1>8 DEF CallInv, InFlight
  <2>3. CASE d # c
    <3>1. InFlight(d)' <=> InFlight(d)
      BY <1>1, <1>8, <2>3 DEF InFlight
    <3> QED
      BY <2>1, <2>3, <3>1, <1>1, <1>6, <1>8 DEF CallInv
  <2> QED
    BY <2>2, <2>3
<1>11. FallbackTriesAll'
  BY <1>1, <1>4, <1>8 DEF Inv, FallbackTriesAll
<1>12. StaleMembersAreDue'
  <2> SUFFICES ASSUME NEW d \in connections'
               PROVE  \/ selected'[network'[d]] \in {detour'[d], NoOutbound}
                      \/ InterruptDue' \/ Protected(d)' \/ d \in overtaken'
    BY DEF StaleMembersAreDue
  <2>1. d \in connections /\ d \in Conn /\ network[d] \in Network
    BY <1>1, CallTypes
  <2>2. CASE place = "interrupt"
    BY <2>2, <1>8 DEF InterruptDue
  <2>3. CASE place = "register"
    <3>1. quiet \/ selected'[network[d]] = selected[network[d]]
      BY <2>1, <2>3, <1>3, <1>4, <1>7
    <3>2. InterruptDue => InterruptDue'
      BY <1>1, <1>8 DEF InterruptDue, checkVars, apiVars
    <3>3. Protected(d) => Protected(d)'
      BY <1>1 DEF Protected
    <3> QED
      BY <1>1, <1>6, <2>1, <3>1, <3>2, <3>3
  <2> QED
    BY <1>4, <2>2, <2>3
<1>13. CheckInv'
  BY <1>1, CheckFrame
<1>14. SelectorInv' /\ PersistedFollowsSelection'
  <2>1. Unstored' = {} /\ Unstored = {}
    BY <1>1, <1>2 DEF Unstored, Inv, IInv, SelectorInv, apiVars
  <2> QED
    BY <1>1, <1>2, <2>1 DEF Inv, IInv, SelectorInv, PersistedFollowsSelection, apiVars
<1> QED
  BY <1>9, <1>10, <1>11, <1>12, <1>13, <1>14 DEF Inv, IInv

-----------------------------------------------------------------------------
\* Steps of a check.

\* Steps of a check that write no selection and keep a due interrupt due.
LEMMA QuietCheckStep ==
    ASSUME Inv, UNCHANGED <<group, selected, overtaken, interruptVars, callVars, apiVars>>,
           history' \in [Outbound -> Delays \cup {NoRecord}],
           check' \in {"idle", "test", "select", "load", "store", "interrupt"},
           testing' \in SUBSET Outbound,
           turn' \in Network,
           chosen' \in [outbound : Outbound \cup {NoOutbound}, exists : BOOLEAN],
           blind' \in BOOLEAN, updated' \in BOOLEAN,
           updated => updated',
           CheckInv'
    PROVE  Inv'
<1>1. TypeOK'
  BY DEF Inv, IInv, TypeOK, InterruptTypeOK, group, interruptVars, callVars, apiVars
<1>2. (\A c \in Conn : CallInv(c)') /\ FallbackTriesAll'
  BY CallFrame
<1>3. SelectorInv' /\ PersistedFollowsSelection'
  BY SelectorFrame DEF group
<1>4. InterruptDue => InterruptDue'
  BY DEF InterruptDue, callVars, apiVars
<1>5. StaleMembersAreDue'
  BY <1>4, StaleFrame DEF interruptVars, callVars
<1> QED
  BY <1>1, <1>2, <1>3, <1>5 DEF Inv, IInv

LEMMA StartCheckStep ==
    ASSUME Inv, NEW old \in SUBSET Recorded, StartCheck(old)
    PROVE  Inv'
<1> USE DEF StartCheck
<1>1. testing' \in SUBSET Outbound
  BY DEF Recorded
<1>2. CheckInv'
  BY DEF Inv, IInv, CheckInv, group
<1> QED
  BY <1>1, <1>2, QuietCheckStep DEF Inv, IInv, TypeOK

LEMMA TestEndsStep ==
    ASSUME Inv, NEW o \in Outbound, NEW record \in Measured \cup {NoRecord}, TestEnds(o, record)
    PROVE  Inv'
<1> USE DEF TestEnds
<1>1. record \in Delays \cup {NoRecord}
  <2>1. ASSUME NEW d \in Delays PROVE d % 65536 = d
    <3>1. d \in Nat /\ d < 65536
      BY GroupAssumption
    <3> QED BY <3>1, SMT
  <2>2. {d % 65536 : d \in Delays} = Delays
    BY <2>1
  <2> QED BY <2>2, GroupAssumption DEF Measured
<1>2. history' \in [Outbound -> Delays \cup {NoRecord}]
  BY <1>1 DEF Inv, IInv, TypeOK
<1>3. CheckInv'
  BY DEF Inv, IInv, CheckInv, group
<1> QED
  BY <1>2, <1>3, QuietCheckStep DEF Inv, IInv, TypeOK

LEMMA TestsEndStep ==
    ASSUME Inv, TestsEnd
    PROVE  Inv'
<1> USE DEF TestsEnd
<1>1. CheckInv'
  BY DEF Inv, IInv, CheckInv, group
<1> QED
  BY <1>1, QuietCheckStep DEF Inv, IInv, TypeOK

LEMMA UpdateSelectsStep ==
    ASSUME Inv, UpdateSelects
    PROVE  Inv'
<1> USE DEF UpdateSelects
<1>1. CheckInv'
  BY DEF Inv, IInv, CheckInv, group
<1>2. chosen' \in [outbound : Outbound \cup {NoOutbound}, exists : BOOLEAN]
  BY SelectType DEF Inv, IInv, TypeOK
<1> QED
  BY <1>1, <1>2, QuietCheckStep DEF Inv, IInv, TypeOK

\* Going on to the other network, or to the end of the check.
LEMMA GoOnTypes ==
    ASSUME Inv, GoOn(updated)
    PROVE  /\ turn' \in Network
           /\ check' \in {"idle", "select", "interrupt"}
           /\ chosen' \in [outbound : Outbound \cup {NoOutbound}, exists : BOOLEAN]
           /\ blind' \in BOOLEAN
<1>1. NoChoice \in [outbound : Outbound \cup {NoOutbound}, exists : BOOLEAN]
  BY DEF NoChoice
<1> QED
  BY <1>1 DEF GoOn, Network

LEMMA UpdateLoadsStep ==
    ASSUME Inv, UpdateLoads
    PROVE  Inv'
<1> DEFINE previous == selected[turn]
           store == /\ chosen.outbound # NoOutbound
                    /\ previous = NoOutbound \/ (chosen.exists /\ chosen.outbound # previous)
<1>1. /\ check = "load"
      /\ UNCHANGED <<group, history, selected, overtaken, interruptVars, callVars,
                     testing, apiVars>>
  BY DEF UpdateLoads
<1>2. updated \in BOOLEAN /\ kind # "selector"
  BY <1>1 DEF Inv, IInv, TypeOK, CheckInv
<1>3. CASE /\ check' = "store"
           /\ blind' = (previous = NoOutbound)
           /\ updated' = NowUpdated(previous)
           /\ UNCHANGED <<turn, chosen>>
  <2>1. blind' \in BOOLEAN /\ updated' \in BOOLEAN /\ (updated => updated')
        /\ (~blind' => updated')
    BY <1>2, <1>3 DEF NowUpdated, Replaces
  <2>2. CheckInv'
    BY <1>1, <1>2, <1>3, <2>1 DEF CheckInv, group
  <2> QED
    BY <1>1, <1>3, <2>1, <2>2, QuietCheckStep DEF Inv, IInv, TypeOK
<1>4. CASE updated' = updated /\ GoOn(updated)
  <2>1. CheckInv'
    BY <1>1, <1>2, <1>4, GoOnTypes DEF CheckInv, group
  <2> QED
    BY <1>1, <1>2, <1>4, <2>1, GoOnTypes, QuietCheckStep DEF Inv, IInv, TypeOK
<1> QED
  BY <1>3, <1>4 DEF UpdateLoads

LEMMA UpdateStoresStep ==
    ASSUME Inv, UpdateStores
    PROVE  Inv'
<1> DEFINE new == [selected EXCEPT ![turn] = chosen.outbound]
<1>1. /\ check = "store"
      /\ Write(new, blind)
      /\ GoOn(updated)
      /\ UNCHANGED <<group, history, interruptVars, callVars, testing, updated, apiVars>>
  BY DEF UpdateStores
<1>2. kind # "selector" /\ (~blind => updated) /\ blind \in BOOLEAN
  BY <1>1 DEF Inv, IInv, TypeOK, CheckInv
<1>3. new \in [Network -> Outbound \cup {NoOutbound}]
  BY DEF Inv, IInv, TypeOK
<1> HIDE DEF new
<1>4. /\ selected' \in [Network -> Outbound \cup {NoOutbound}]
      /\ overtaken' \in SUBSET Conn
      /\ overtaken \subseteq overtaken'
      /\ \A d \in Conn : InFlight(d) =>
             selected'[network[d]] \in {detour[d], NoOutbound} \/ d \in overtaken'
      /\ \A d \in Conn :
             /\ d \in connections
             /\ blind \/ selected'[network[d]] = selected[network[d]]
             => \/ selected'[network[d]] \in {detour[d], NoOutbound}
                \/ InterruptDue \/ Protected(d) \/ d \in overtaken'
  BY <1>1, <1>2, <1>3, WriteLemma
<1>5. TypeOK'
  <2>1. InterruptTypeOK'
    BY <1>1 DEF Inv, IInv, TypeOK, InterruptTypeOK, interruptVars
  <2> QED
    BY <1>1, <1>4, <2>1, GoOnTypes DEF Inv, IInv, TypeOK, group, callVars, apiVars
<1>6. ASSUME NEW d \in Conn
      PROVE  CallInv(d)'
  <2>1. CallInv(d)
    BY DEF Inv, IInv
  <2>2. InFlight(d)' <=> InFlight(d)
    BY <1>1 DEF InFlight, callVars, group
  <2> QED
    BY <1>1, <1>4, <2>1, <2>2 DEF CallInv, callVars, group, interruptVars
<1>7. FallbackTriesAll'
  BY <1>1 DEF Inv, FallbackTriesAll, callVars, group
<1>8. StaleMembersAreDue'
  <2> SUFFICES ASSUME NEW d \in connections'
               PROVE  \/ selected'[network'[d]] \in {detour'[d], NoOutbound}
                      \/ InterruptDue' \/ Protected(d)' \/ d \in overtaken'
    BY DEF StaleMembersAreDue
  <2>1. d \in connections /\ d \in Conn
    BY <1>1, CallTypes DEF interruptVars
  <2>2. CASE blind
    <3>1. InterruptDue => InterruptDue'
      BY <1>1 DEF InterruptDue, callVars, apiVars
    <3>2. Protected(d) => Protected(d)'
      BY <1>1 DEF Protected, interruptVars
    <3> QED
      BY <1>1, <1>4, <2>1, <2>2, <3>1, <3>2 DEF callVars
  <2>3. CASE ~blind
    BY <1>1, <1>2, <2>3 DEF InterruptDue
  <2> QED
    BY <2>2, <2>3
<1>9. CheckInv'
  BY <1>1, <1>2, GoOnTypes DEF CheckInv, group
<1>10. SelectorInv' /\ PersistedFollowsSelection'
  <2>1. Unstored' = {} /\ Unstored = {}
    BY <1>1, <1>2 DEF Unstored, Inv, IInv, SelectorInv, apiVars
  <2> QED
    BY <1>1, <1>2, <2>1 DEF Inv, IInv, SelectorInv, PersistedFollowsSelection, apiVars, group
<1> QED
  BY <1>5, <1>6, <1>7, <1>8, <1>9, <1>10 DEF Inv, IInv

\* An interrupt by a check or by SelectOutbound leaves the calls as they are.
LEMMA InterruptStep ==
    ASSUME Inv, Interrupt, UNCHANGED <<group, history, selected, overtaken, callVars>>
    PROVE  /\ \A d \in Conn : CallInv(d)'
           /\ FallbackTriesAll' /\ StaleMembersAreDue' /\ InterruptTypeOK'
<1>1. StaleMembersAreDue' /\ InterruptTypeOK' /\ connections' \subseteq connections
  BY AfterInterrupt
<1>2. ASSUME NEW d \in Conn
      PROVE  CallInv(d)'
  BY <1>1 DEF Inv, IInv, CallInv, InFlight, callVars, group
<1>3. FallbackTriesAll'
  BY DEF Inv, FallbackTriesAll, callVars, group
<1> QED
  BY <1>1, <1>2, <1>3

LEMMA UpdateInterruptsStep ==
    ASSUME Inv, UpdateInterrupts
    PROVE  Inv'
<1> USE DEF UpdateInterrupts
<1>1. /\ \A d \in Conn : CallInv(d)'
      /\ FallbackTriesAll' /\ StaleMembersAreDue' /\ InterruptTypeOK'
  BY InterruptStep
<1>2. TypeOK'
  BY <1>1 DEF Inv, IInv, TypeOK, group, callVars, apiVars
<1>3. CheckInv'
  BY DEF CheckInv
<1>4. SelectorInv' /\ PersistedFollowsSelection'
  BY SelectorFrame DEF group
<1> QED
  BY <1>1, <1>2, <1>3, <1>4 DEF Inv, IInv

-----------------------------------------------------------------------------
\* Steps of SelectOutbound.

LEMMA SelectOutboundStep ==
    ASSUME Inv, NEW u \in Caller, NEW o \in Outbound, SelectOutbound(u, o)
    PROVE  Inv'
<1> DEFINE new == [n \in Network |-> o]
<1>1. /\ kind = "selector" /\ api[u] = "idle"
      /\ Write(new, FALSE)
      /\ api' = [api EXCEPT ![u] = "store"]
      /\ tag' = [tag EXCEPT ![u] = o]
      /\ batch' = Unstored \cup {o}
      /\ UNCHANGED <<group, history, interruptVars, callVars, checkVars, persisted>>
  BY DEF SelectOutbound
<1>2. new \in [Network -> Outbound \cup {NoOutbound}]
  OBVIOUS
<1>3. \A n \in Network : selected'[n] = o
  BY <1>1 DEF Write
<1> HIDE DEF new
<1>4. /\ selected' \in [Network -> Outbound \cup {NoOutbound}]
      /\ overtaken' \in SUBSET Conn
      /\ overtaken \subseteq overtaken'
      /\ \A d \in Conn : InFlight(d) =>
             selected'[network[d]] \in {detour[d], NoOutbound} \/ d \in overtaken'
  BY <1>1, <1>2, WriteLemma
<1>5. /\ api \in [Caller -> {"idle", "store", "interrupt"}]
      /\ tag \in [Caller -> Outbound \cup {NoOutbound}]
  BY DEF Inv, IInv, TypeOK
<1>6. /\ api'[u] = "store" /\ tag'[u] = o
      /\ \A v \in Caller \ {u} : api'[v] = api[v] /\ tag'[v] = tag[v]
  BY <1>1, <1>5
<1>7. \A v \in Caller : api[v] = "store" => tag[v] \in Outbound /\ tag[v] \in Unstored
  BY DEF Inv, IInv, SelectorInv, Unstored
<1>8. Unstored \subseteq Outbound
  BY <1>7 DEF Unstored
<1>9. TypeOK'
  <2>1. /\ api' \in [Caller -> {"idle", "store", "interrupt"}]
        /\ tag' \in [Caller -> Outbound \cup {NoOutbound}]
        /\ batch' \in SUBSET (Outbound \cup {NoOutbound})
    BY <1>1, <1>5, <1>8
  <2>2. InterruptTypeOK'
    BY <1>1 DEF Inv, IInv, TypeOK, InterruptTypeOK, interruptVars
  <2> QED
    BY <1>1, <1>4, <2>1, <2>2 DEF Inv, IInv, TypeOK, group, callVars, checkVars
<1>10. ASSUME NEW d \in Conn
       PROVE  CallInv(d)'
  <2>1. CallInv(d)
    BY DEF Inv, IInv
  <2>2. InFlight(d)' <=> InFlight(d)
    BY <1>1 DEF InFlight, callVars, group
  <2> QED
    BY <1>1, <1>4, <2>1, <2>2 DEF CallInv, callVars, group, interruptVars
<1>11. FallbackTriesAll'
  BY <1>1 DEF Inv, FallbackTriesAll, callVars, group
<1>12. StaleMembersAreDue'
  BY <1>6 DEF StaleMembersAreDue, InterruptDue
<1>13. CheckInv'
  BY <1>1, CheckFrame DEF group
<1>14. SelectorInv'
  <2>1. ASSUME NEW v \in Caller, api'[v] = "store"
        PROVE  tag'[v] \in Outbound /\ tag'[v] \in batch'
    BY <1>1, <1>6, <1>7, <2>1
  <2>2. /\ selected'["tcp"] = o /\ selected'["udp"] = o
        /\ o \in batch' /\ kind' = "selector"
    BY <1>1, <1>3 DEF Network, group
  <2> QED
    BY <2>1, <2>2 DEF SelectorInv
<1>15. PersistedFollowsSelection'
  <2>1. o \in Unstored'
    BY <1>6 DEF Unstored
  <2> QED
    BY <2>1 DEF PersistedFollowsSelection
<1> QED
  BY <1>9, <1>10, <1>11, <1>12, <1>13, <1>14, <1>15 DEF Inv, IInv

LEMMA StoreInCacheStep ==
    ASSUME Inv, NEW u \in Caller, NEW written \in BOOLEAN, StoreInCache(u, written)
    PROVE  Inv'
<1>1. /\ api[u] = "store"
      /\ persisted' = IF written THEN tag[u] ELSE persisted
      /\ batch' = IF written THEN batch ELSE batch \cup {persisted}
      /\ api' = [api EXCEPT ![u] = "interrupt"]
      /\ tag' = [tag EXCEPT ![u] = NoOutbound]
      /\ UNCHANGED <<group, history, selected, overtaken, interruptVars, callVars, checkVars>>
  BY DEF StoreInCache, Put
<1>2. /\ api \in [Caller -> {"idle", "store", "interrupt"}]
      /\ tag \in [Caller -> Outbound \cup {NoOutbound}]
      /\ persisted \in Outbound \cup {NoOutbound}
      /\ batch \in SUBSET (Outbound \cup {NoOutbound})
      /\ selected \in [Network -> Outbound \cup {NoOutbound}]
      /\ NoOutbound \notin Outbound
  BY GroupAssumption DEF Inv, IInv, TypeOK
<1>3. /\ api'[u] = "interrupt"
      /\ \A v \in Caller \ {u} : api'[v] = api[v] /\ tag'[v] = tag[v]
  BY <1>1, <1>2
<1>4. /\ kind = "selector"
      /\ selected["tcp"] = selected["udp"]
      /\ tag[u] \in Outbound /\ tag[u] \in batch
      /\ selected["tcp"] \in batch
  BY <1>1, <1>2 DEF Inv, IInv, SelectorInv
<1>5. batch \subseteq batch' /\ persisted' \in batch'
  BY <1>1, <1>4
<1>6. TypeOK'
  <2>1. /\ api' \in [Caller -> {"idle", "store", "interrupt"}]
        /\ tag' \in [Caller -> Outbound \cup {NoOutbound}]
        /\ persisted' \in Outbound \cup {NoOutbound}
        /\ batch' \in SUBSET (Outbound \cup {NoOutbound})
    BY <1>1, <1>2
  <2>2. InterruptTypeOK'
    BY <1>1 DEF Inv, IInv, TypeOK, InterruptTypeOK, interruptVars
  <2> QED
    BY <1>1, <2>1, <2>2 DEF Inv, IInv, TypeOK, group, callVars, checkVars
<1>7. (\A d \in Conn : CallInv(d)') /\ FallbackTriesAll'
  BY <1>1, CallFrame
<1>8. CheckInv'
  BY <1>1, CheckFrame DEF group
<1>9. StaleMembersAreDue'
  BY <1>3 DEF StaleMembersAreDue, InterruptDue
<1>10. SelectorInv'
  <2>1. ASSUME NEW v \in Caller, api'[v] = "store"
        PROVE  tag'[v] \in Outbound /\ tag'[v] \in batch'
    <3>1. v # u /\ api[v] = "store" /\ tag'[v] = tag[v]
      BY <1>3, <2>1
    <3> QED
      BY <3>1, <1>5 DEF Inv, IInv, SelectorInv
  <2> QED
    BY <1>1, <1>4, <1>5, <2>1 DEF SelectorInv, group
<1>11. PersistedFollowsSelection'
  <2>1. ASSUME batch' = {persisted'}
        PROVE  \A n \in Network : selected'[n] = persisted'
    BY <1>1, <1>4, <1>5, <2>1 DEF Network
  <2> QED
    BY <1>5, <2>1 DEF PersistedFollowsSelection
<1> QED
  BY <1>6, <1>7, <1>8, <1>9, <1>10, <1>11 DEF Inv, IInv

LEMMA SelectInterruptsStep ==
    ASSUME Inv, NEW u \in Caller, SelectInterrupts(u)
    PROVE  Inv'
<1> USE DEF SelectInterrupts
<1>1. /\ \A d \in Conn : CallInv(d)'
      /\ FallbackTriesAll' /\ StaleMembersAreDue' /\ InterruptTypeOK'
  BY InterruptStep
<1>2. api \in [Caller -> {"idle", "store", "interrupt"}]
  BY DEF Inv, IInv, TypeOK
<1>3. /\ api'[u] = "idle" /\ api[u] = "interrupt"
      /\ \A v \in Caller \ {u} : api'[v] = api[v]
      /\ api' \in [Caller -> {"idle", "store", "interrupt"}]
  BY <1>2
<1>4. TypeOK'
  BY <1>1, <1>3 DEF Inv, IInv, TypeOK, group, callVars, checkVars
<1>5. CheckInv'
  BY CheckFrame DEF group
<1>6. \A v \in Caller : api'[v] = "store" <=> api[v] = "store"
  BY <1>3
<1>7. Unstored' = Unstored
  BY <1>6 DEF Unstored
<1>8. SelectorInv'
  <2>1. kind = "selector"
    BY <1>3 DEF Inv, IInv, SelectorInv
  <2> QED
    BY <1>6, <2>1 DEF Inv, IInv, SelectorInv, group
<1>9. PersistedFollowsSelection'
  BY <1>7 DEF Inv, PersistedFollowsSelection
<1> QED
  BY <1>1, <1>4, <1>5, <1>8, <1>9 DEF Inv, IInv

-----------------------------------------------------------------------------
\* The theorems.

LEMMA InvStep ==
    ASSUME Inv, [Next]_vars
    PROVE  Inv'
<1>1. ASSUME NEW c \in Conn,
             \/ Call(c) \/ NoCandidate(c) \/ DialSucceeds(c) \/ DialFails(c)
             \/ CallGoesOn(c) \/ Hangup(c)
      PROVE  Inv'
  BY <1>1, CallStep, NoCandidateStep, DialSucceedsStep, DialFailsStep, StoreSelectedStep,
     CallInterruptsStep, RegisterStep, HangupStep DEF CallGoesOn
<1>2. ASSUME NEW old \in SUBSET Recorded, StartCheck(old)
      PROVE  Inv'
  BY <1>2, StartCheckStep
<1>3. ASSUME NEW o \in Outbound, NEW d \in Measured \cup {NoRecord}, TestEnds(o, d)
      PROVE  Inv'
  BY <1>3, TestEndsStep
<1>4. CASE TestsEnd \/ UpdateGoesOn
  BY <1>4, TestsEndStep, UpdateSelectsStep, UpdateLoadsStep, UpdateStoresStep,
     UpdateInterruptsStep DEF UpdateGoesOn
<1>5. ASSUME NEW u \in Caller, SelectGoesOn(u)
      PROVE  Inv'
  BY <1>5, SelectInterruptsStep, StoreInCacheStep DEF SelectGoesOn
<1>6. ASSUME NEW u \in Caller, NEW o \in Outbound, SelectOutbound(u, o)
      PROVE  Inv'
  BY <1>6, SelectOutboundStep
<1>7. CASE UNCHANGED vars
  <2> USE <1>7 DEF vars
  <2>1. TypeOK'
    BY DEF Inv, IInv, TypeOK, InterruptTypeOK, group, interruptVars, callVars, checkVars, apiVars
  <2>2. CheckInv' /\ (\A c \in Conn : CallInv(c)') /\ FallbackTriesAll'
    BY CheckFrame, CallFrame DEF group
  <2>3. SelectorInv' /\ PersistedFollowsSelection'
    BY SelectorFrame DEF group
  <2>4. InterruptDue => InterruptDue'
    BY DEF InterruptDue, callVars, checkVars, apiVars
  <2>5. StaleMembersAreDue'
    BY <2>4, StaleFrame DEF interruptVars, callVars
  <2> QED
    BY <2>1, <2>2, <2>3, <2>5 DEF Inv, IInv
<1> QED
  BY <1>1, <1>2, <1>3, <1>4, <1>5, <1>6, <1>7 DEF Next

LEMMA AlwaysInv == Spec => []Inv
<1>1. Init => Inv
  BY InitInv
<1>2. Inv /\ [Next]_vars => Inv'
  BY InvStep
<1> QED
  BY <1>1, <1>2, PTL DEF Spec

\* The calls, the check and SelectOutbound keep their inductive invariant, for
\* every set of outbounds, connections, callers and delays.
THEOREM Invariant == Spec => []IInv
<1>1. Inv => IInv
  BY DEF Inv
<1> QED
  BY <1>1, AlwaysInv, PTL

\* A member of the interrupt group over an outbound that is not selected any more
\* is about to be interrupted, is protected, or was overtaken (storeSelected,
\* performUpdateCheck and SelectOutbound against Interrupt and NewConn).
THEOREM StaleMembers == Spec => []StaleMembersAreDue
<1>1. Inv => StaleMembersAreDue
  BY DEF Inv
<1> QED
  BY <1>1, AlwaysInv, PTL

\* A fallback call returns an error only when every outbound that supports its
\* network has failed in it (FallbackGroup's DialContext and ListenPacket).
THEOREM TriesAll == Spec => []FallbackTriesAll
<1>1. Inv => FallbackTriesAll
  BY DEF Inv
<1> QED
  BY <1>1, AlwaysInv, PTL

\* What urltest's Select returns is within the tolerance of every outbound with a
\* record and replaces the selected one only for more than the tolerance, for
\* lists of every length and records of every value (URLTestGroup.Select).
THEOREM WithinTolerance == Spec => []SelectWithinTolerance
<1>1. Inv => SelectWithinTolerance
  BY ToleranceLemma DEF Inv, IInv
<1> QED
  BY <1>1, AlwaysInv, PTL

\* Between calls of SelectOutbound the cache file holds what the last of them
\* selected, or one of those that overlapped, or what a failed write left there.
THEOREM Persisted == Spec => []PersistedFollowsSelection
<1>1. Inv => PersistedFollowsSelection
  BY DEF Inv
<1> QED
  BY <1>1, AlwaysInv, PTL
==============================================================================
