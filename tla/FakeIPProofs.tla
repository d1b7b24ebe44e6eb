---------------------------- MODULE FakeIPProofs ----------------------------
(***************************************************************************)
(* The store's inductive invariant is kept by every step of the store, for *)
(* any domains, ranges, callers and goroutines.                            *)
(***************************************************************************)
EXTENDS FakeIP, OrderLemmas, TLAPS

\* The parts of the invariant do not change while what they speak of does not.
LEMMA RecordsFrame ==
    ASSUME RecordsAgree, UNCHANGED <<addressBucket, domainBucket>> PROVE RecordsAgree'
  BY DEF RecordsAgree

LEMMA PendingFrame ==
    ASSUME PendingHasWriter, UNCHANGED <<saveDomain, saveAddress, writer>> PROVE PendingHasWriter'
  BY DEF PendingHasWriter

LEMMA StoppedFrame ==
    ASSUME StoppedInv, phase' = "stopped" => phase = "stopped", UNCHANGED <<creator, writer, timer>>
    PROVE  StoppedInv'
  BY DEF StoppedInv

LEMMA CurrentFrame ==
    ASSUME CurrentInv, UNCHANGED <<phase, current, options, creator, metadata, timer>>
    PROVE  CurrentInv'
  BY DEF CurrentInv

LEMMA RangeFrame ==
    ASSUME RangeInv, excuses \subseteq excuses',
           UNCHANGED <<addressBucket, given, options, writer>>
    PROVE  RangeInv'
  BY DEF RangeInv, Assignable

LEMMA WriterFrame ==
    ASSUME WriterInv, UNCHANGED <<writer, lost, given, saveDomain, addressBucket>> PROVE WriterInv'
  BY DEF WriterInv

LEMMA MapsFrame ==
    ASSUME AddressMapsBack, UNCHANGED <<lost, given, saveDomain, addressBucket>>
    PROVE  AddressMapsBack'
  BY DEF AddressMapsBack, FakeIPLoad

\* What the types say of one goroutine and of one caller.
WriterRecord == [pc : {"store", "delete"}, address : Address, domain : Domain]

LEMMA WriterTyped ==
    ASSUME FakeIPTypeOK, NEW w \in Writer, writer[w] # Idle PROVE writer[w] \in WriterRecord
  BY DEF FakeIPTypeOK, WriterRecord

ReadRecord == [pc : {"read"}, domain : Domain, family : Family]
StoreRecord == [pc : {"write", "store"}, domain : Domain, family : Family, seen : Address]

LEMMA ReadTyped ==
    ASSUME FakeIPTypeOK, NEW p \in Creator, creator[p].pc = "read"
    PROVE  creator[p] \in ReadRecord
<1>1. creator[p] \in {Idle} \cup ReadRecord \cup StoreRecord
  BY DEF FakeIPTypeOK, CreatorState, ReadRecord, StoreRecord
<1>2. creator[p] # Idle
  BY DEF Idle
<1>3. creator[p] \notin StoreRecord
  BY DEF StoreRecord
<1> QED BY <1>1, <1>2, <1>3

LEMMA StoreTyped ==
    ASSUME FakeIPTypeOK, NEW p \in Creator, creator[p].pc \in {"write", "store"}
    PROVE  creator[p] \in StoreRecord
<1>1. creator[p] \in {Idle} \cup ReadRecord \cup StoreRecord
  BY DEF FakeIPTypeOK, CreatorState, ReadRecord, StoreRecord
<1>2. creator[p] # Idle
  BY DEF Idle
<1>3. creator[p] \notin ReadRecord
  BY DEF ReadRecord
<1> QED BY <1>1, <1>2, <1>3

LEMMA RecordTyped ==
    ASSUME FakeIPTypeOK, NEW f \in Family, NEW d \in Domain
    PROVE  /\ saveAddress[f][d] \in Address \cup {NoAddress}
           /\ domainBucket[f][d] \in Address \cup {NoAddress}
<1>1. /\ saveAddress[f] \in [Domain -> Address \cup {NoAddress}]
      /\ domainBucket[f] \in [Domain -> Address \cup {NoAddress}]
  BY DEF FakeIPTypeOK
<1> QED BY <1>1

LEMMA IdlePc ==
    ASSUME NEW r, r.pc # "idle" PROVE r # Idle
  BY DEF Idle

\* A range that is configured has a first address of its family, and the next one
\* of any address is that one or lies in the range.
LEMMA InitialTyped ==
    ASSUME NEW o \in Options, NEW f \in Family, o[f] # {}
    PROVE  Initial(o[f]) \in Address /\ FamilyOf[Initial(o[f])] = f
  BY FakeIPAssumption

LEMMA RangeTyped ==
    ASSUME NEW o \in Options, NEW f \in Family, NEW a \in o[f]
    PROVE  a \in Address /\ FamilyOf[a] = f
  BY FakeIPAssumption

LEMMA NextAssignable ==
    ASSUME options \in Options, NEW f \in Family, NEW a, options[f] # {}
    PROVE  /\ NextAddress(f, a) \in Address /\ FamilyOf[NextAddress(f, a)] = f
           /\ Assignable(options, NextAddress(f, a))
<1>1. CASE NextAddress(f, a) \in options[f]
  BY <1>1, RangeTyped DEF Assignable
<1>2. CASE NextAddress(f, a) = Initial(options[f])
  BY <1>2, InitialTyped DEF Assignable
<1> QED BY <1>1, <1>2 DEF NextAddress

LEMMA AllocatedAssignable ==
    ASSUME FakeIPTypeOK, CurrentInv, NEW p \in Creator, creator[p] # Idle
    PROVE  /\ creator[p].family \in Family
           /\ Assignable(options, Allocated(p))
           /\ Allocated(p) \in Address
           /\ FamilyOf[Allocated(p)] = creator[p].family
<1>1. creator[p].family \in Family
  BY DEF FakeIPTypeOK, CreatorState
<1>2. options \in Options /\ options[creator[p].family] # {}
  BY DEF FakeIPTypeOK, CurrentInv
<1> QED BY <1>1, <1>2, NextAssignable DEF Allocated

\* A record by family and domain after Replace.
LEMMA ReplaceRecords ==
    ASSUME NEW records \in [Family -> [Domain -> Address \cup {NoAddress}]],
           NEW f \in Family, NEW old, NEW d \in Domain, NEW a \in Address
    PROVE  /\ Replace(records, f, old, d, a) \in [Family -> [Domain -> Address \cup {NoAddress}]]
           /\ \A g \in Family, x \in Domain :
                 Replace(records, f, old, d, a)[g][x] =
                    IF g # f THEN records[g][x]
                    ELSE IF x = d THEN a ELSE IF x = old THEN NoAddress ELSE records[g][x]
<1> DEFINE new == [x \in Domain |-> IF x = d THEN a ELSE IF x = old THEN NoAddress
                                    ELSE records[f][x]]
<1>1. new \in [Domain -> Address \cup {NoAddress}]
  <2>1. records[f] \in [Domain -> Address \cup {NoAddress}]
    OBVIOUS
  <2> QED BY <2>1
<1>2. \A x \in Domain : new[x] = IF x = d THEN a ELSE IF x = old THEN NoAddress ELSE records[f][x]
  OBVIOUS
<1>3. Replace(records, f, old, d, a) = [records EXCEPT ![f] = new]
  BY DEF Replace
<1> HIDE DEF new
<1>4. \A g \in Family : Replace(records, f, old, d, a)[g] = IF g = f THEN new ELSE records[g]
  BY <1>3
<1>5. Replace(records, f, old, d, a) \in [Family -> [Domain -> Address \cup {NoAddress}]]
  BY <1>1, <1>3
<1> QED BY <1>2, <1>4, <1>5

\* A write of the file, by a goroutine or at once, keeps the two directions of
\* the records in step: no other domain of the family has the address.
LEMMA StoreKeepsRecords ==
    ASSUME FakeIPTypeOK, RecordsAgree, NEW a \in Address, NEW d \in Domain, FakeIPStore(a, d)
    PROVE  /\ RecordsAgree'
           /\ addressBucket' \in [Address -> Domain \cup {NoDomain}]
           /\ domainBucket' \in [Family -> [Domain -> Address \cup {NoAddress}]]
           /\ buckets' \subseteq Family \cup {"address"}
           /\ addressBucket'[a] = d
           /\ \A b \in Address : b # a => addressBucket'[b] = addressBucket[b]
<1> DEFINE fam == FamilyOf[a]
<1>1. fam \in Family
  BY FakeIPAssumption
<1>2. /\ addressBucket \in [Address -> Domain \cup {NoDomain}]
      /\ domainBucket \in [Family -> [Domain -> Address \cup {NoAddress}]]
      /\ buckets \subseteq Family \cup {"address"}
  BY DEF FakeIPTypeOK
<1>3. /\ addressBucket' = [addressBucket EXCEPT ![a] = d]
      /\ domainBucket' = Replace(domainBucket, fam, addressBucket[a], d, a)
      /\ buckets' = buckets \cup {"address", fam}
  BY DEF FakeIPStore
<1>4. /\ domainBucket' \in [Family -> [Domain -> Address \cup {NoAddress}]]
      /\ \A g \in Family, x \in Domain :
            domainBucket'[g][x] =
               IF g # fam THEN domainBucket[g][x]
               ELSE IF x = d THEN a
               ELSE IF x = addressBucket[a] THEN NoAddress ELSE domainBucket[g][x]
  BY <1>1, <1>2, <1>3, ReplaceRecords
<1>5. /\ addressBucket' \in [Address -> Domain \cup {NoDomain}]
      /\ addressBucket'[a] = d
      /\ \A b \in Address : b # a => addressBucket'[b] = addressBucket[b]
  BY <1>2, <1>3
<1>6. buckets' \subseteq Family \cup {"address"}
  BY <1>1, <1>2, <1>3
<1>7. RecordsAgree'
  <2> SUFFICES ASSUME NEW g \in Family, NEW x \in Domain, domainBucket'[g][x] # NoAddress
               PROVE  FamilyOf[domainBucket'[g][x]] = g /\ addressBucket'[domainBucket'[g][x]] = x
    BY DEF RecordsAgree
  <2>1. domainBucket[g][x] \in Address \cup {NoAddress}
    BY RecordTyped
  <2>2. domainBucket[g][x] # NoAddress =>
           FamilyOf[domainBucket[g][x]] = g /\ addressBucket[domainBucket[g][x]] = x
    BY DEF RecordsAgree
  <2>3. CASE g = fam /\ x = d
    BY <1>4, <1>5, <2>3
  <2>4. CASE g # fam
    BY <1>4, <1>5, <2>1, <2>2, <2>4
  <2>5. CASE g = fam /\ x # d
    BY <1>4, <1>5, <2>1, <2>2, <2>5
  <2> QED BY <2>3, <2>4, <2>5
<1> QED BY <1>4, <1>5, <1>6, <1>7

\* The same of a record that waits in memory.
LEMMA PendingReplaced ==
    ASSUME FakeIPTypeOK, NEW a \in Address, NEW d \in Domain,
           saveAddress' = Replace(saveAddress, FamilyOf[a], saveDomain[a], d, a)
    PROVE  /\ saveAddress' \in [Family -> [Domain -> Address \cup {NoAddress}]]
           /\ \A f \in Family, x \in Domain : saveAddress'[f][x] # NoAddress =>
                 \/ f = FamilyOf[a] /\ x = d /\ saveAddress'[f][x] = a
                 \/ saveAddress'[f][x] = saveAddress[f][x]
<1> DEFINE fam == FamilyOf[a]
           old == saveDomain[a]
<1>1. /\ fam \in Family
      /\ saveAddress \in [Family -> [Domain -> Address \cup {NoAddress}]]
      /\ saveDomain \in [Address -> Domain \cup {NoDomain}]
  BY FakeIPAssumption DEF FakeIPTypeOK
<1> DEFINE new == Replace(saveAddress, fam, old, d, a)
<1>2. /\ new \in [Family -> [Domain -> Address \cup {NoAddress}]]
      /\ \A g \in Family, x \in Domain :
            new[g][x] = IF g # fam THEN saveAddress[g][x]
                        ELSE IF x = d THEN a ELSE IF x = old THEN NoAddress ELSE saveAddress[g][x]
  BY <1>1, ReplaceRecords
<1>3. saveAddress' = new
  OBVIOUS
<1> HIDE DEF new, old
<1> QED BY <1>2, <1>3

-----------------------------------------------------------------------------
\* Every step of the store keeps the invariant.

LEMMA TimerFiresStep ==
    ASSUME FakeIPIInv, TimerFires PROVE FakeIPIInv'
<1> USE DEF FakeIPIInv, TimerFires, FakeIPSaveMetadata, processVars, pendingVars
<1>1. timer.captured \in Metadata /\ timer' = [timer EXCEPT !.armed = FALSE]
  BY DEF FakeIPTypeOK
<1>2. timer'.captured = timer.captured /\ timer' \in [captured : Metadata \cup {NoMetadata}, armed : BOOLEAN]
      /\ ~timer'.armed
  BY <1>1 DEF FakeIPTypeOK
<1>3. FakeIPTypeOK'
  BY <1>1, <1>2 DEF FakeIPTypeOK
<1>4. RecordsAgree'
  BY RecordsFrame
<1>5. PendingHasWriter'
  BY PendingFrame
<1>6. StoppedInv'
  BY <1>2 DEF StoppedInv
<1>7. CurrentInv'
  BY <1>1, <1>2 DEF CurrentInv
<1>8. RangeInv'
  BY RangeFrame
<1>9. WriterInv'
  BY WriterFrame
<1>10. AddressMapsBack'
  BY MapsFrame
<1> QED BY <1>3, <1>4, <1>5, <1>6, <1>7, <1>8, <1>9, <1>10

LEMMA CloseStep ==
    ASSUME FakeIPIInv, Close PROVE FakeIPIInv'
<1> USE DEF FakeIPIInv, Close, FakeIPSaveMetadata, pendingVars, fileVars
<1>1. metadata' \in {metadata, [ranges |-> options, current |-> current]}
      /\ buckets' \subseteq Family \cup {"address"}
  BY DEF FakeIPTypeOK
<1>2. FakeIPTypeOK'
  <2>1. [ranges |-> options, current |-> current] \in Metadata
    BY DEF FakeIPTypeOK, Metadata
  <2> QED BY <1>1, <2>1 DEF FakeIPTypeOK
<1>3. RecordsAgree'
  BY RecordsFrame
<1>4. PendingHasWriter'
  BY PendingFrame
<1>5. StoppedInv'
  BY DEF StoppedInv
<1>6. CurrentInv'
  BY <1>1 DEF CurrentInv
<1>7. RangeInv'
  BY RangeFrame
<1>8. WriterInv'
  BY WriterFrame
<1>9. AddressMapsBack'
  BY MapsFrame
<1> QED BY <1>2, <1>3, <1>4, <1>5, <1>6, <1>7, <1>8, <1>9

LEMMA FlushStep ==
    ASSUME FakeIPIInv, Flush PROVE FakeIPIInv'
<1> USE DEF FakeIPIInv, Flush, FakeIPReset, processVars, pendingVars
<1>1. /\ addressBucket' = NoAddressRecords /\ domainBucket' = NoDomainRecords
      /\ buckets' = {} /\ metadata' = NoMetadata
  OBVIOUS
<1>2. FakeIPTypeOK'
  BY <1>1 DEF FakeIPTypeOK, NoAddressRecords, NoDomainRecords
<1>3. RecordsAgree'
  BY <1>1 DEF RecordsAgree, NoDomainRecords
<1>4. PendingHasWriter'
  BY PendingFrame
<1>5. StoppedInv'
  BY StoppedFrame
<1>6. CurrentInv'
  BY <1>1 DEF CurrentInv
<1>7. RangeInv'
  BY <1>1 DEF RangeInv, Assignable, NoAddressRecords
<1>8. WriterInv'
  <2> SUFFICES ASSUME NEW w \in Writer, writer[w] # Idle, writer[w].address \notin lost'
               PROVE  FALSE
    BY DEF WriterInv
  <2>1. writer[w].address \in Address /\ writer[w].domain \in Domain
    BY WriterTyped DEF WriterRecord
  <2>2. given[writer[w].address] = writer[w].domain
    BY DEF WriterInv
  <2> QED BY <2>1, <2>2, FakeIPAssumption
<1>9. AddressMapsBack'
  BY DEF AddressMapsBack
<1> QED BY <1>2, <1>3, <1>4, <1>5, <1>6, <1>7, <1>8, <1>9

LEMMA ExitStep ==
    ASSUME FakeIPIInv, Exit PROVE FakeIPIInv'
<1> USE DEF FakeIPIInv, Exit
<1>1. /\ \A a \in Address : saveDomain'[a] = NoDomain
      /\ \A f \in Family, d \in Domain : saveAddress'[f][d] = NoAddress
      /\ \A w \in Writer : writer'[w] = Idle
      /\ \A p \in Creator : creator'[p] = Idle
      /\ timer'.captured = NoMetadata /\ ~timer'.armed
      /\ timer' \in [captured : Metadata \cup {NoMetadata}, armed : BOOLEAN]
  BY DEF NoAddressRecords, NoDomainRecords
<1>2. \/ UNCHANGED <<addressBucket, domainBucket, buckets, given>>
      \/ /\ addressBucket' = NoAddressRecords /\ domainBucket' = NoDomainRecords
         /\ buckets' = {} /\ given' = NoAddressRecords
  OBVIOUS
<1>3. FakeIPTypeOK'
  <2>1. /\ addressBucket' \in [Address -> Domain \cup {NoDomain}]
        /\ domainBucket' \in [Family -> [Domain -> Address \cup {NoAddress}]]
        /\ buckets' \subseteq Family \cup {"address"}
        /\ given' \in [Address -> Domain \cup {NoDomain}]
    <3>1. CASE UNCHANGED <<addressBucket, domainBucket, buckets, given>>
      BY <3>1 DEF FakeIPTypeOK
    <3>2. CASE /\ addressBucket' = NoAddressRecords /\ domainBucket' = NoDomainRecords
               /\ buckets' = {} /\ given' = NoAddressRecords
      BY <3>2 DEF NoAddressRecords, NoDomainRecords
    <3> QED BY <1>2, <3>1, <3>2
  <2>2. /\ saveDomain' \in [Address -> Domain \cup {NoDomain}]
        /\ saveAddress' \in [Family -> [Domain -> Address \cup {NoAddress}]]
        /\ writer' \in [Writer -> {Idle} \cup [pc : {"store", "delete"}, address : Address, domain : Domain]]
        /\ creator' \in [Creator -> CreatorState]
    BY DEF NoAddressRecords, NoDomainRecords, CreatorState
  <2> QED BY <1>1, <2>1, <2>2 DEF FakeIPTypeOK
<1>4. RecordsAgree'
  BY <1>2 DEF RecordsAgree, NoDomainRecords
<1>5. PendingHasWriter'
  BY <1>1 DEF PendingHasWriter
<1>6. StoppedInv'
  BY <1>1 DEF StoppedInv
<1>7. CurrentInv'
  BY <1>1 DEF CurrentInv
<1>8. RangeInv'
  BY <1>1, <1>2 DEF RangeInv, Assignable, NoAddressRecords
<1>9. WriterInv'
  BY <1>1 DEF WriterInv
<1>10. AddressMapsBack'
  BY <1>1 DEF AddressMapsBack, FakeIPLoad, NoAddressRecords, FakeIPTypeOK
<1> QED BY <1>3, <1>4, <1>5, <1>6, <1>7, <1>8, <1>9, <1>10

LEMMA CreateReadsStep ==
    ASSUME FakeIPIInv, NEW p \in Creator, CreateReads(p) PROVE FakeIPIInv'
<1> USE DEF FakeIPIInv, CreateReads, processVars, pendingVars, fileVars
<1>1. /\ creator[p].domain \in Domain /\ creator[p].family \in Family
      /\ creator[p].pc = "read"
  BY ReadTyped DEF ReadRecord
<1>2. creator[p] # Idle
  BY IdlePc
<1>3. phase # "stopped"
  BY <1>2 DEF StoppedInv
<1>4. current[creator[p].family] \in Address
  BY <1>1, <1>2, <1>3 DEF CurrentInv, FakeIPTypeOK
<1>5. FakeIPTypeOK'
  <2>1. creator' \in [Creator -> CreatorState]
    BY <1>1, <1>4 DEF FakeIPTypeOK, CreatorState
  <2> QED BY <2>1 DEF FakeIPTypeOK
<1>6. StoppedInv'
  BY <1>3 DEF StoppedInv
<1>7. CurrentInv'
  BY <1>1, <1>2 DEF CurrentInv, FakeIPTypeOK
<1> QED BY <1>5, <1>6, <1>7, RecordsFrame, PendingFrame, RangeFrame, WriterFrame, MapsFrame

LEMMA CreateWritesStep ==
    ASSUME FakeIPIInv, NEW p \in Creator, CreateWrites(p) PROVE FakeIPIInv'
<1> USE DEF FakeIPIInv, CreateWrites, processVars, pendingVars, fileVars
<1>1. creator[p] \in StoreRecord
  BY StoreTyped
<1>2. creator[p] # Idle
  BY IdlePc
<1>3. phase # "stopped"
  BY <1>2 DEF StoppedInv
<1>4. Allocated(p) \in Address /\ options[creator[p].family] # {}
  BY <1>2, AllocatedAssignable DEF CurrentInv
<1>5. FakeIPTypeOK'
  <2>1. creator' \in [Creator -> CreatorState]
    <3>1. [creator[p] EXCEPT !.pc = "store"] \in StoreRecord
      BY <1>1 DEF StoreRecord
    <3> QED BY <3>1 DEF FakeIPTypeOK, CreatorState, StoreRecord
  <2>2. current' \in [Family -> Address \cup {NoAddress}]
    <3>1. current \in [Family -> Address \cup {NoAddress}]
      BY DEF FakeIPTypeOK
    <3> QED BY <1>4, <3>1
  <2>3. order' \in Seq(Address)
    <3>1. order \in Seq(Address) /\ order' = Append(order, Allocated(p))
      BY DEF FakeIPTypeOK
    <3> HIDE DEF CreateWrites, FakeIPIInv
    <3> QED BY <1>4, <3>1
  <2>4. excuses' \subseteq {"raced", "slipped", "rolled back"}
    BY DEF FakeIPTypeOK
  <2> QED BY <2>1, <2>2, <2>3, <2>4 DEF FakeIPTypeOK
<1>6. StoppedInv'
  BY <1>3 DEF StoppedInv
<1>7. CurrentInv'
  <2>1. \A f \in Family : current'[f] # NoAddress <=> options[f] # {}
    <3>1. current \in [Family -> Address \cup {NoAddress}]
          /\ current' = [current EXCEPT ![creator[p].family] = Allocated(p)]
      BY DEF FakeIPTypeOK
    <3>2. NoAddress \notin Address
      BY FakeIPAssumption
    <3>3. \A f \in Family : current[f] # NoAddress <=> options[f] # {}
      BY <1>3 DEF CurrentInv
    <3> HIDE DEF CreateWrites, FakeIPIInv
    <3> QED BY <1>4, <3>1, <3>2, <3>3
  <2>2. \A q \in Creator : creator'[q] # Idle => options[creator'[q].family] # {}
    BY <1>1, <1>4 DEF CurrentInv, FakeIPTypeOK, StoreRecord
  <2> QED BY <2>1, <2>2 DEF CurrentInv
<1>8. excuses \subseteq excuses'
  OBVIOUS
<1> QED BY <1>5, <1>6, <1>7, <1>8, RecordsFrame, PendingFrame, RangeFrame, WriterFrame, MapsFrame

LEMMA StartStep ==
    ASSUME FakeIPIInv, NEW o \in Options, Start(o) PROVE FakeIPIInv'
<1> USE DEF FakeIPIInv, Start
<1>1. /\ \A p \in Creator : creator[p] = Idle
      /\ \A w \in Writer : writer[w] = Idle
      /\ timer.captured = NoMetadata
      /\ metadata' = NoMetadata /\ phase' = "running" /\ options' = o
      /\ UNCHANGED <<creator, writer, timer, saveDomain, saveAddress>>
  BY DEF StoppedInv, pendingVars
<1>2. UNCHANGED <<addressBucket, domainBucket, buckets>>
      \/ /\ addressBucket' = NoAddressRecords /\ domainBucket' = NoDomainRecords
         /\ buckets' = {}
  BY DEF FakeIPReset
<1>3. RecordsAgree'
  <2>1. CASE UNCHANGED <<addressBucket, domainBucket, buckets>>
    BY <2>1, RecordsFrame
  <2>2. CASE domainBucket' = NoDomainRecords
    BY <2>2 DEF RecordsAgree, NoDomainRecords
  <2> QED BY <1>2, <2>1, <2>2
<1>4. PendingHasWriter'
  BY <1>1, PendingFrame
<1>5. StoppedInv'
  BY <1>1 DEF StoppedInv
<1>6. WriterInv'
  BY <1>1 DEF WriterInv
<1>9. starts' \in 0..MaxStarts
  <2>1. starts \in 0..MaxStarts /\ starts < MaxStarts /\ starts' = starts + 1 /\ MaxStarts \in Nat
    BY FakeIPAssumption DEF FakeIPTypeOK
  <2> HIDE DEF Start, FakeIPIInv
  <2> QED BY <2>1
<1>7. CASE Continues(o) /\ current' = Restored(o)
           /\ excuses' = excuses \cup (IF metadata.current = current THEN {} ELSE {"slipped"})
           /\ UNCHANGED <<addressBucket, domainBucket, buckets, order, given, lost>>
  <2>1. metadata \in Metadata /\ options = o /\ current' = metadata.current
    BY <1>7 DEF FakeIPTypeOK, CurrentInv, Continues, Restored
  <2>2. FakeIPTypeOK'
    <3>1. current' \in [Family -> Address \cup {NoAddress}]
      BY <2>1 DEF Metadata
    <3>2. excuses' \subseteq {"raced", "slipped", "rolled back"}
      BY <1>7 DEF FakeIPTypeOK
    <3> QED BY <1>1, <1>7, <1>9, <3>1, <3>2 DEF FakeIPTypeOK
  <2>3. CurrentInv'
    BY <1>1, <1>7, <2>1 DEF CurrentInv, Continues
  <2>4. RangeInv'
    BY <1>1, <1>7, <2>1, RangeFrame
  <2>5. AddressMapsBack'
    BY <1>1, <1>7, MapsFrame
  <2> QED BY <1>3, <1>4, <1>5, <1>6, <2>2, <2>3, <2>4, <2>5
<1>8. CASE /\ current' = [f \in Family |-> IF o[f] = {} THEN NoAddress ELSE Initial(o[f])]
           /\ IF addressBucket' = NoAddressRecords
              THEN order' = <<>> /\ given' = NoAddressRecords /\ lost' = {} /\ excuses' = {}
              ELSE excuses' = excuses \cup {"rolled back"} /\ UNCHANGED <<order, given, lost>>
  <2>1. \A f \in Family : o[f] # {} => Initial(o[f]) \in Address /\ Initial(o[f]) # NoAddress
    <3>1. \A f \in Family : o[f] # {} => Initial(o[f]) \in Address
      BY InitialTyped
    <3>2. NoAddress \notin Address
      BY FakeIPAssumption
    <3> HIDE DEF Start, FakeIPIInv
    <3> QED BY <3>1, <3>2
  <2>2. FakeIPTypeOK'
    <3>1. current' \in [Family -> Address \cup {NoAddress}]
      BY <1>8, <2>1
    <3>2. /\ excuses' \subseteq {"raced", "slipped", "rolled back"}
          /\ given' \in [Address -> Domain \cup {NoDomain}]
          /\ lost' \subseteq Address
          /\ order' \in Seq(Address)
      <4>1. CASE addressBucket' = NoAddressRecords
        <5>1. order' = <<>> /\ given' = NoAddressRecords /\ lost' = {} /\ excuses' = {}
          BY <1>8, <4>1
        <5> HIDE DEF Start, FakeIPIInv
        <5> QED BY <5>1 DEF NoAddressRecords
      <4>2. CASE addressBucket' # NoAddressRecords
        BY <1>8, <4>2 DEF FakeIPTypeOK
      <4> QED BY <4>1, <4>2
    <3>3. /\ addressBucket' \in [Address -> Domain \cup {NoDomain}]
          /\ domainBucket' \in [Family -> [Domain -> Address \cup {NoAddress}]]
          /\ buckets' \subseteq Family \cup {"address"}
      <4>1. CASE UNCHANGED <<addressBucket, domainBucket, buckets>>
        BY <4>1 DEF FakeIPTypeOK
      <4>2. CASE /\ addressBucket' = NoAddressRecords /\ domainBucket' = NoDomainRecords
                 /\ buckets' = {}
        BY <4>2 DEF NoAddressRecords, NoDomainRecords
      <4> QED BY <1>2, <4>1, <4>2
    <3> QED BY <1>1, <1>9, <3>1, <3>2, <3>3 DEF FakeIPTypeOK
  <2>3. CurrentInv'
    BY <1>1, <1>8, <2>1 DEF CurrentInv
  <2>4. RangeInv'
    BY <1>1, <1>8 DEF RangeInv, NoAddressRecords
  <2>5. AddressMapsBack'
    <3>1. CASE addressBucket' = NoAddressRecords
      BY <1>8, <3>1 DEF AddressMapsBack, NoAddressRecords
    <3>2. CASE addressBucket' # NoAddressRecords
      BY <1>1, <1>2, <1>8, <3>2, MapsFrame
    <3> QED BY <3>1, <3>2
  <2> QED BY <1>3, <1>4, <1>5, <1>6, <2>2, <2>3, <2>4, <2>5
<1> QED BY <1>7, <1>8

LEMMA CreateLoadsStep ==
    ASSUME FakeIPIInv, NEW p \in Creator, NEW d \in Domain, NEW f \in Family, CreateLoads(p, d, f)
    PROVE  FakeIPIInv'
<1> DEFINE a == FakeIPLoadDomain(d, f)
<1> USE DEF FakeIPIInv, CreateLoads, processVars, pendingVars, fileVars
<1>1. RecordsAgree' /\ PendingHasWriter'
  BY RecordsFrame, PendingFrame
<1>2. StoppedInv'
  BY DEF StoppedInv
<1>3. CASE /\ a # NoAddress /\ given' = [given EXCEPT ![a] = d]
           /\ lost' = IF \E w \in Writer : writer[w] # Idle /\ writer[w].address = a
                                           /\ writer[w].domain # d
                      THEN lost \cup {a} ELSE lost
           /\ UNCHANGED creator
  <2>1. a \in Address
    <3>1. saveAddress[f][d] \in Address \cup {NoAddress} /\ domainBucket[f][d] \in Address \cup {NoAddress}
      BY RecordTyped
    <3> QED BY <1>3, <3>1 DEF FakeIPLoadDomain
  <2>2. \/ addressBucket[a] = d
        \/ \E w \in Writer : writer[w] # Idle /\ writer[w].address = a /\ writer[w].domain = d
    BY <1>3 DEF RecordsAgree, PendingHasWriter, FakeIPLoadDomain
  <2>3. given \in [Address -> Domain \cup {NoDomain}] /\ NoDomain \notin Domain
    BY FakeIPAssumption DEF FakeIPTypeOK
  <2> HIDE DEF a
  <2>4. /\ given'[a] = d /\ given' \in [Address -> Domain \cup {NoDomain}]
        /\ \A b \in Address : b # a => given'[b] = given[b]
    BY <1>3, <2>1, <2>3
  <2>5. FakeIPTypeOK'
    BY <1>3, <2>1, <2>4 DEF FakeIPTypeOK
  <2>6. CurrentInv'
    BY <1>3, CurrentFrame
  <2>7. RangeInv'
    <3>1. CASE "rolled back" \in excuses
      BY <3>1 DEF RangeInv
    <3>2. CASE "rolled back" \notin excuses
      <4>1. Assignable(options, a)
        BY <2>1, <2>2, <2>3, <3>2 DEF RangeInv
      <4>2. /\ \A b \in Address : addressBucket[b] # NoDomain \/ given[b] # NoDomain =>
                  Assignable(options, b)
            /\ \A w \in Writer : writer[w] # Idle =>
                  Assignable(options, writer[w].address)
        BY <3>2 DEF RangeInv
      <4>3. \A b \in Address : addressBucket[b] # NoDomain \/ given'[b] # NoDomain =>
                Assignable(options, b)
        BY <2>4, <4>1, <4>2
      <4> QED BY <4>2, <4>3 DEF RangeInv, Assignable
    <3> QED BY <3>1, <3>2
  <2>8. WriterInv'
    <3> SUFFICES ASSUME NEW w \in Writer, writer[w] # Idle, writer[w].address \notin lost'
                 PROVE  given'[writer[w].address] = writer[w].domain
      BY <1>3 DEF WriterInv
    <3>1. writer[w].address \in Address
      BY WriterTyped DEF WriterRecord
    <3> QED BY <1>3, <2>4, <3>1 DEF WriterInv
  <2>9. AddressMapsBack'
    <3> SUFFICES ASSUME NEW b \in Address \ lost', given'[b] # NoDomain
                 PROVE  FakeIPLoad(b) = given'[b]
      BY DEF AddressMapsBack, FakeIPLoad
    <3>1. b \notin lost
      BY <1>3
    <3>2. CASE b # a
      BY <2>4, <3>1, <3>2 DEF AddressMapsBack
    <3>3. CASE b = a
      <4>1. \A w \in Writer : writer[w] # Idle /\ writer[w].address = a => writer[w].domain = d
        BY <1>3, <3>3
      <4>2. saveDomain[a] # NoDomain => saveDomain[a] = d
        BY <2>1, <4>1 DEF PendingHasWriter
      <4>3. addressBucket[a] = d \/ saveDomain[a] = d
        BY <2>2, <3>1, <3>3 DEF WriterInv
      <4> QED BY <2>3, <2>4, <3>3, <4>2, <4>3 DEF FakeIPLoad
    <3> QED BY <3>2, <3>3
  <2> QED BY <1>1, <1>2, <2>5, <2>6, <2>7, <2>8, <2>9
<1>4. CASE /\ a = NoAddress /\ current[f] # NoAddress
           /\ creator' = [creator EXCEPT ![p] = [pc |-> "read", domain |-> d, family |-> f]]
           /\ UNCHANGED <<given, lost>>
  <2>1. FakeIPTypeOK'
    <3>1. creator' \in [Creator -> CreatorState]
      BY <1>4 DEF FakeIPTypeOK, CreatorState
    <3> QED BY <1>4, <3>1 DEF FakeIPTypeOK
  <2>2. CurrentInv'
    BY <1>4 DEF CurrentInv, FakeIPTypeOK
  <2> QED BY <1>1, <1>2, <1>4, <2>1, <2>2, RangeFrame, WriterFrame, MapsFrame
<1> QED BY <1>3, <1>4

LEMMA WriterStoresStep ==
    ASSUME FakeIPIInv, NEW w \in Writer, WriterStores(w) PROVE FakeIPIInv'
<1> DEFINE a == writer[w].address
           d == writer[w].domain
<1> USE DEF FakeIPIInv, WriterStores, processVars
<1>1. writer[w] # Idle
  BY IdlePc
<1>2. writer[w] \in WriterRecord /\ a \in Address /\ d \in Domain /\ NoDomain \notin Domain
  BY <1>1, WriterTyped, FakeIPAssumption DEF WriterRecord
<1>3. writer' = [writer EXCEPT ![w].pc = "delete"]
      /\ writer \in [Writer -> {Idle} \cup WriterRecord]
  BY DEF FakeIPTypeOK, WriterRecord
<1>4. [writer[w] EXCEPT !.pc = "delete"] \in WriterRecord
      /\ [writer[w] EXCEPT !.pc = "delete"].address = a
      /\ [writer[w] EXCEPT !.pc = "delete"].domain = d
      /\ [writer[w] EXCEPT !.pc = "delete"] # Idle
  BY <1>2 DEF WriterRecord, Idle
<1>5. /\ writer' \in [Writer -> {Idle} \cup WriterRecord]
      /\ \A v \in Writer : v # w => writer'[v] = writer[v]
      /\ \A v \in Writer : writer'[v] # Idle <=> writer[v] # Idle
      /\ \A v \in Writer : writer'[v].address = writer[v].address
                           /\ writer'[v].domain = writer[v].domain
  <2> HIDE DEF WriterStores, FakeIPIInv
  <2> QED BY <1>1, <1>3, <1>4
<1>6. \A v \in Writer : writer[v] # Idle => writer[v].address \in Address
  BY WriterTyped DEF WriterRecord
<1>7. PendingHasWriter'
  BY <1>5 DEF PendingHasWriter
<1>8. StoppedInv'
  BY <1>5 DEF StoppedInv
<1>9. CurrentInv'
  BY CurrentFrame
<1>10. CASE FakeIPStore(a, d) /\ UNCHANGED lost
  <2> HIDE DEF a, d
  <2>1. /\ RecordsAgree'
        /\ addressBucket' \in [Address -> Domain \cup {NoDomain}]
        /\ domainBucket' \in [Family -> [Domain -> Address \cup {NoAddress}]]
        /\ buckets' \subseteq Family \cup {"address"}
        /\ addressBucket'[a] = d
        /\ \A b \in Address : b # a => addressBucket'[b] = addressBucket[b]
    BY <1>2, <1>10, StoreKeepsRecords
  <2>2. FakeIPTypeOK'
    BY <1>5, <1>10, <2>1 DEF FakeIPTypeOK, WriterRecord
  <2>3. RangeInv'
    <3>1. CASE "rolled back" \in excuses
      BY <3>1 DEF RangeInv
    <3>2. CASE "rolled back" \notin excuses
      <4>1. Assignable(options, a)
        BY <1>1, <3>2 DEF RangeInv, a
      <4>2. \A b \in Address : addressBucket[b] # NoDomain \/ given[b] # NoDomain =>
                Assignable(options, b)
        BY <3>2 DEF RangeInv
      <4>3. \A b \in Address : addressBucket'[b] # NoDomain \/ given[b] # NoDomain =>
                Assignable(options, b)
        BY <2>1, <4>1, <4>2
      <4>4. \A v \in Writer : writer'[v] # Idle => Assignable(options, writer'[v].address)
        BY <1>5, <3>2 DEF RangeInv
      <4> QED BY <4>3, <4>4 DEF RangeInv, Assignable
    <3> QED BY <3>1, <3>2
  <2>4. WriterInv'
    <3> SUFFICES ASSUME NEW v \in Writer, writer[v] # Idle, writer[v].address \notin lost
                 PROVE  /\ given[writer[v].address] = writer[v].domain
                        /\ saveDomain[writer[v].address] = writer[v].domain
                        /\ writer'[v].pc = "delete" =>
                              addressBucket'[writer[v].address] = writer[v].domain
                        /\ \A u \in Writer : writer[u] # Idle
                              /\ writer[u].address = writer[v].address => u = v
      BY <1>5, <1>10 DEF WriterInv
    <3>1. writer'[v].pc = "delete" => addressBucket'[writer[v].address] = writer[v].domain
      <4>1. CASE v = w
        BY <2>1, <4>1 DEF a, d
      <4>2. CASE v # w
        <5>1. writer[v].address # a
          BY <1>1, <4>2 DEF WriterInv, a
        <5>2. writer[v].pc = "delete" => addressBucket[writer[v].address] = writer[v].domain
          BY DEF WriterInv
        <5> QED BY <1>5, <1>6, <2>1, <4>2, <5>1, <5>2
      <4> QED BY <4>1, <4>2
    <3> QED BY <3>1 DEF WriterInv
  <2>5. AddressMapsBack'
    <3> SUFFICES ASSUME NEW b \in Address \ lost, given[b] # NoDomain
                 PROVE  FakeIPLoad(b)' = given[b]
      BY <1>10 DEF AddressMapsBack
    <3>1. CASE b # a
      BY <2>1, <3>1 DEF AddressMapsBack, FakeIPLoad
    <3>2. CASE b = a
      BY <1>1, <1>2, <3>2 DEF WriterInv, FakeIPLoad, a, d
    <3> QED BY <3>1, <3>2
  <2> QED BY <1>7, <1>8, <1>9, <2>1, <2>2, <2>3, <2>4, <2>5
<1>11. CASE lost' = lost \cup {a} /\ UNCHANGED <<addressBucket, domainBucket, buckets>>
  <2>1. FakeIPTypeOK'
    BY <1>2, <1>5, <1>11 DEF FakeIPTypeOK, WriterRecord
  <2>2. RecordsAgree'
    BY <1>11, RecordsFrame
  <2>3. RangeInv'
    BY <1>5, <1>11 DEF RangeInv, Assignable
  <2>4. WriterInv'
    BY <1>5, <1>11 DEF WriterInv
  <2>5. AddressMapsBack'
    BY <1>11 DEF AddressMapsBack, FakeIPLoad
  <2> QED BY <1>7, <1>8, <1>9, <2>1, <2>2, <2>3, <2>4, <2>5
<1> QED BY <1>10, <1>11

LEMMA WriterDeletesStep ==
    ASSUME FakeIPIInv, NEW w \in Writer, WriterDeletes(w) PROVE FakeIPIInv'
<1> DEFINE a == writer[w].address
           d == writer[w].domain
<1> USE DEF FakeIPIInv
<1>1. writer[w] # Idle
  BY IdlePc DEF WriterDeletes
<1>2. a \in Address /\ d \in Domain /\ FamilyOf[a] \in Family
  BY <1>1, WriterTyped, FakeIPAssumption DEF WriterRecord
<1>3. /\ writer[w].pc = "delete"
      /\ saveDomain' = [saveDomain EXCEPT ![a] = NoDomain]
      /\ saveAddress' = [saveAddress EXCEPT ![FamilyOf[a]][d] = NoAddress]
      /\ writer' = [writer EXCEPT ![w] = Idle]
      /\ UNCHANGED <<storage, phase, starts, options, current, addressBucket, domainBucket,
                     buckets, metadata, timer, creator, order, given, lost, excuses>>
  BY DEF WriterDeletes, processVars, fileVars
<1>4. /\ writer' \in [Writer -> {Idle} \cup WriterRecord]
      /\ writer'[w] = Idle
      /\ \A v \in Writer : v # w => writer'[v] = writer[v]
  BY <1>3 DEF FakeIPTypeOK, WriterRecord
<1>5. /\ saveDomain' \in [Address -> Domain \cup {NoDomain}]
      /\ saveDomain'[a] = NoDomain
      /\ \A b \in Address : b # a => saveDomain'[b] = saveDomain[b]
  BY <1>2, <1>3 DEF FakeIPTypeOK
<1>6. /\ saveAddress' \in [Family -> [Domain -> Address \cup {NoAddress}]]
      /\ saveAddress'[FamilyOf[a]][d] = NoAddress
      /\ \A f \in Family, x \in Domain :
            f # FamilyOf[a] \/ x # d => saveAddress'[f][x] = saveAddress[f][x]
  BY <1>2, <1>3 DEF FakeIPTypeOK
<1> HIDE DEF a, d
<1>7. FakeIPTypeOK'
  BY <1>3, <1>4, <1>5, <1>6 DEF FakeIPTypeOK, WriterRecord
<1>8. RecordsAgree'
  BY <1>3, RecordsFrame
<1>9. PendingHasWriter'
  <2>1. ASSUME NEW b \in Address, saveDomain'[b] # NoDomain
        PROVE  \E v \in Writer : writer'[v] # Idle /\ writer'[v].address = b
                                 /\ writer'[v].domain = saveDomain'[b]
    <3>1. b # a /\ saveDomain'[b] = saveDomain[b]
      BY <1>5, <2>1
    <3>2. PICK v \in Writer : writer[v] # Idle /\ writer[v].address = b
                              /\ writer[v].domain = saveDomain[b]
      BY <2>1, <3>1 DEF PendingHasWriter
    <3>3. v # w
      BY <3>1, <3>2 DEF a
    <3> QED BY <1>4, <3>1, <3>2, <3>3
  <2>2. ASSUME NEW f \in Family, NEW x \in Domain, saveAddress'[f][x] # NoAddress
        PROVE  \E v \in Writer : writer'[v] # Idle /\ writer'[v].address = saveAddress'[f][x]
                                 /\ writer'[v].domain = x /\ FamilyOf[writer'[v].address] = f
    <3>1. (f # FamilyOf[a] \/ x # d) /\ saveAddress'[f][x] = saveAddress[f][x]
      BY <1>6, <2>2
    <3>2. PICK v \in Writer : writer[v] # Idle /\ writer[v].address = saveAddress[f][x]
                              /\ writer[v].domain = x /\ FamilyOf[writer[v].address] = f
      BY <2>2, <3>1 DEF PendingHasWriter
    <3>3. v # w
      BY <3>1, <3>2 DEF a, d
    <3> QED BY <1>4, <3>1, <3>2, <3>3
  <2> QED BY <2>1, <2>2 DEF PendingHasWriter
<1>10. StoppedInv'
  BY <1>1, <1>3 DEF StoppedInv
<1>11. CurrentInv'
  BY <1>3, CurrentFrame
<1>12. RangeInv'
  <2>1. \A v \in Writer : writer'[v] # Idle => writer[v] # Idle /\ writer'[v] = writer[v]
    BY <1>4
  <2> QED BY <1>3, <2>1 DEF RangeInv, Assignable
<1>13. WriterInv'
  <2> SUFFICES ASSUME NEW v \in Writer, writer'[v] # Idle, writer'[v].address \notin lost
               PROVE  /\ given[writer'[v].address] = writer'[v].domain
                      /\ saveDomain'[writer'[v].address] = writer'[v].domain
                      /\ writer'[v].pc = "delete" =>
                            addressBucket[writer'[v].address] = writer'[v].domain
                      /\ \A u \in Writer : writer'[u] # Idle
                            /\ writer'[u].address = writer'[v].address => u = v
    BY <1>3 DEF WriterInv
  <2>1. v # w /\ writer'[v] = writer[v]
    BY <1>4
  <2>2. writer[v].address # a
    BY <1>1, <2>1 DEF WriterInv, a
  <2>3. writer[v].address \in Address
    BY <2>1, WriterTyped DEF WriterRecord
  <2>4. \A u \in Writer : writer'[u] # Idle => writer'[u] = writer[u]
    BY <1>4
  <2> QED BY <1>5, <2>1, <2>2, <2>3, <2>4 DEF WriterInv
<1>14. AddressMapsBack'
  <2> SUFFICES ASSUME NEW b \in Address \ lost, given[b] # NoDomain
               PROVE  FakeIPLoad(b)' = given[b]
    BY <1>3 DEF AddressMapsBack
  <2>1. CASE b # a
    BY <1>3, <1>5, <2>1 DEF AddressMapsBack, FakeIPLoad
  <2>2. CASE b = a
    BY <1>1, <1>3, <1>5, <2>2 DEF WriterInv, FakeIPLoad, a
  <2> QED BY <2>1, <2>2
<1> QED BY <1>7, <1>8, <1>9, <1>10, <1>11, <1>12, <1>13, <1>14

LEMMA CreateStoresStep ==
    ASSUME FakeIPIInv, NEW p \in Creator, CreateStores(p) PROVE FakeIPIInv'
<1> DEFINE a == Allocated(p)
           d == creator[p].domain
<1> USE DEF FakeIPIInv
<1>1. creator[p] # Idle
  BY IdlePc DEF CreateStores
<1>2. /\ d \in Domain /\ NoDomain \notin Domain
      /\ a \in Address /\ FamilyOf[a] \in Family /\ Assignable(options, a)
  <2>1. creator[p] \in StoreRecord
    BY StoreTyped DEF CreateStores
  <2>2. d \in Domain
    BY <2>1 DEF StoreRecord
  <2> QED BY <1>1, <2>2, AllocatedAssignable, FakeIPAssumption DEF Contains
<1>3. phase # "stopped"
  BY <1>1 DEF StoppedInv
<1>4. /\ given' = [given EXCEPT ![a] = d]
      /\ lost' = IF InFlight(a) THEN lost \cup {a} ELSE lost \ {a}
      /\ creator' = [creator EXCEPT ![p] = Idle]
      /\ UNCHANGED <<storage, phase, starts, options, current, metadata, order, excuses>>
  BY DEF CreateStores, processVars
<1>5. CASE /\ FakeIPStoreAsync(a, d)
           /\ FakeIPSaveMetadataAsync([ranges |-> options, current |-> current])
           /\ UNCHANGED <<addressBucket, domainBucket, buckets>>
  <2>1. PICK n \in Writer :
            /\ writer[n] = Idle
            /\ writer' = [writer EXCEPT ![n] = [pc |-> "store", address |-> a, domain |-> d]]
    BY <1>5 DEF FakeIPStoreAsync
  <2>2. /\ saveDomain' = [saveDomain EXCEPT ![a] = d]
        /\ saveAddress' = Replace(saveAddress, FamilyOf[a], saveDomain[a], d, a)
    BY <1>5 DEF FakeIPStoreAsync
  <2> HIDE DEF a, d
  <2>3. /\ given' \in [Address -> Domain \cup {NoDomain}]
        /\ given'[a] = d
        /\ \A b \in Address : b # a => given'[b] = given[b]
        /\ lost' \subseteq Address
        /\ \A b \in Address : b # a => (b \in lost' <=> b \in lost)
        /\ a \notin lost' => ~InFlight(a)
    BY <1>2, <1>4 DEF FakeIPTypeOK
  <2>4. /\ writer' \in [Writer -> {Idle} \cup WriterRecord]
        /\ writer'[n].address = a /\ writer'[n].domain = d /\ writer'[n].pc = "store"
        /\ writer'[n] # Idle
        /\ \A v \in Writer : v # n => writer'[v] = writer[v]
    <3> DEFINE new == [pc |-> "store", address |-> a, domain |-> d]
    <3>1. new \in WriterRecord /\ new # Idle
          /\ new.address = a /\ new.domain = d /\ new.pc = "store"
      BY <1>2 DEF WriterRecord, Idle
    <3>2. writer \in [Writer -> {Idle} \cup WriterRecord]
      BY DEF FakeIPTypeOK, WriterRecord
    <3> HIDE DEF new
    <3>3. writer' = [writer EXCEPT ![n] = new]
      BY <2>1 DEF new
    <3> QED BY <3>1, <3>2, <3>3
  <2>5. /\ saveDomain' \in [Address -> Domain \cup {NoDomain}]
        /\ saveDomain'[a] = d
        /\ \A b \in Address : b # a => saveDomain'[b] = saveDomain[b]
    BY <1>2, <2>2 DEF FakeIPTypeOK
  <2>6. /\ saveAddress' \in [Family -> [Domain -> Address \cup {NoAddress}]]
        /\ \A f \in Family, x \in Domain : saveAddress'[f][x] # NoAddress =>
              \/ f = FamilyOf[a] /\ x = d /\ saveAddress'[f][x] = a
              \/ saveAddress'[f][x] = saveAddress[f][x]
    BY <1>2, <2>2, PendingReplaced
  <2>7. /\ timer' \in [captured : Metadata \cup {NoMetadata}, armed : BOOLEAN]
        /\ timer'.captured # NoMetadata
        /\ timer'.captured \in {timer.captured, [ranges |-> options, current |-> current]}
    <3>1. [ranges |-> options, current |-> current] \in Metadata
      BY DEF FakeIPTypeOK, Metadata
    <3>2. NoMetadata \notin Metadata
      BY FakeIPAssumption DEF Metadata
    <3>3. timer.captured \in Metadata \cup {NoMetadata}
      BY DEF FakeIPTypeOK
    <3> QED BY <1>5, <3>1, <3>2, <3>3 DEF FakeIPSaveMetadataAsync
  <2>8. FakeIPTypeOK'
    <3>1. creator' \in [Creator -> CreatorState]
      BY <1>4 DEF FakeIPTypeOK, CreatorState
    <3> QED BY <1>4, <1>5, <2>3, <2>4, <2>5, <2>6, <2>7, <3>1 DEF FakeIPTypeOK, WriterRecord
  <2>9. RecordsAgree'
    BY <1>5, RecordsFrame
  <2>10. PendingHasWriter'
    <3>1. ASSUME NEW b \in Address, saveDomain'[b] # NoDomain
          PROVE  \E v \in Writer : writer'[v] # Idle /\ writer'[v].address = b
                                   /\ writer'[v].domain = saveDomain'[b]
      <4>1. CASE b = a
        BY <2>4, <2>5, <4>1
      <4>2. CASE b # a
        BY <2>1, <2>4, <2>5, <3>1, <4>2 DEF PendingHasWriter
      <4> QED BY <4>1, <4>2
    <3>2. ASSUME NEW f \in Family, NEW x \in Domain, saveAddress'[f][x] # NoAddress
          PROVE  \E v \in Writer : writer'[v] # Idle /\ writer'[v].address = saveAddress'[f][x]
                                   /\ writer'[v].domain = x /\ FamilyOf[writer'[v].address] = f
      <4>1. CASE f = FamilyOf[a] /\ x = d /\ saveAddress'[f][x] = a
        BY <2>4, <4>1
      <4>2. CASE saveAddress'[f][x] = saveAddress[f][x]
        <5>1. PICK v \in Writer : writer[v] # Idle /\ writer[v].address = saveAddress[f][x]
                                  /\ writer[v].domain = x /\ FamilyOf[writer[v].address] = f
          BY <3>2, <4>2 DEF PendingHasWriter
        <5> QED BY <2>1, <2>4, <4>2, <5>1
      <4> QED BY <2>6, <3>2, <4>1, <4>2
    <3> QED BY <3>1, <3>2 DEF PendingHasWriter
  <2>11. StoppedInv'
    BY <1>3, <1>4 DEF StoppedInv
  <2>12. CurrentInv'
    <3>1. \A q \in Creator : creator'[q] # Idle => options[creator'[q].family] # {}
      BY <1>4 DEF CurrentInv, FakeIPTypeOK
    <3>2. \A f \in Family : current[f] # NoAddress <=> options[f] # {}
      BY <1>3 DEF CurrentInv
    <3>3. timer'.captured.ranges = options
          /\ \A f \in Family : timer'.captured.current[f] # NoAddress <=> options[f] # {}
      BY <2>7, <3>2 DEF CurrentInv
    <3> QED BY <1>4, <3>1, <3>2, <3>3 DEF CurrentInv
  <2>13. RangeInv'
    <3>1. CASE "rolled back" \in excuses
      BY <1>4, <3>1 DEF RangeInv
    <3>2. CASE "rolled back" \notin excuses
      <4>1. \A b \in Address : addressBucket[b] # NoDomain \/ given'[b] # NoDomain =>
                Assignable(options, b)
        BY <1>2, <2>3, <3>2 DEF RangeInv
      <4>2. \A v \in Writer : writer'[v] # Idle => Assignable(options, writer'[v].address)
        BY <1>2, <2>4, <3>2 DEF RangeInv
      <4> QED BY <1>4, <1>5, <4>1, <4>2 DEF RangeInv, Assignable
    <3> QED BY <3>1, <3>2
  <2>14. WriterInv'
    <3> SUFFICES ASSUME NEW v \in Writer, writer'[v] # Idle, writer'[v].address \notin lost'
                 PROVE  /\ given'[writer'[v].address] = writer'[v].domain
                        /\ saveDomain'[writer'[v].address] = writer'[v].domain
                        /\ writer'[v].pc = "delete" =>
                              addressBucket[writer'[v].address] = writer'[v].domain
                        /\ \A u \in Writer : writer'[u] # Idle
                              /\ writer'[u].address = writer'[v].address => u = v
      BY <1>5 DEF WriterInv
    <3>1. writer'[v].address \in Address
      BY <2>4 DEF WriterRecord
    <3>2. CASE writer'[v].address = a
      <4>1. \A u \in Writer : writer'[u] # Idle /\ writer'[u].address = a => u = n
        BY <2>3, <2>4, <3>2 DEF InFlight
      <4> QED BY <2>3, <2>4, <2>5, <3>2, <4>1
    <3>3. CASE writer'[v].address # a
      <4>1. v # n /\ writer'[v] = writer[v]
        BY <2>4, <3>3
      <4>2. \A u \in Writer : writer'[u].address = writer'[v].address => writer'[u] = writer[u]
        BY <2>4, <3>3
      <4>3. writer[v].address \notin lost
        BY <2>3, <3>1, <3>3, <4>1
      <4> QED BY <2>3, <2>5, <3>1, <3>3, <4>1, <4>2, <4>3 DEF WriterInv
    <3> QED BY <3>2, <3>3
  <2>15. AddressMapsBack'
    <3> SUFFICES ASSUME NEW b \in Address \ lost', given'[b] # NoDomain
                 PROVE  FakeIPLoad(b)' = given'[b]
      BY DEF AddressMapsBack
    <3>1. CASE b # a
      BY <1>5, <2>3, <2>5, <3>1 DEF AddressMapsBack, FakeIPLoad
    <3>2. CASE b = a
      BY <1>2, <2>3, <2>5, <3>2 DEF FakeIPLoad
    <3> QED BY <3>1, <3>2
  <2> QED BY <2>8, <2>9, <2>10, <2>11, <2>12, <2>13, <2>14, <2>15
<1>6. CASE FakeIPStore(a, d) /\ UNCHANGED <<pendingVars, timer>>
  <2> HIDE DEF a, d
  <2>1. UNCHANGED <<saveDomain, saveAddress, writer, timer>>
    BY <1>6 DEF pendingVars
  <2>2. /\ given' \in [Address -> Domain \cup {NoDomain}]
        /\ given'[a] = d
        /\ \A b \in Address : b # a => given'[b] = given[b]
        /\ lost' \subseteq Address
        /\ \A b \in Address : b # a => (b \in lost' <=> b \in lost)
        /\ a \notin lost' => ~InFlight(a)
    BY <1>2, <1>4 DEF FakeIPTypeOK
  <2>3. /\ RecordsAgree'
        /\ addressBucket' \in [Address -> Domain \cup {NoDomain}]
        /\ domainBucket' \in [Family -> [Domain -> Address \cup {NoAddress}]]
        /\ buckets' \subseteq Family \cup {"address"}
        /\ addressBucket'[a] = d
        /\ \A b \in Address : b # a => addressBucket'[b] = addressBucket[b]
    BY <1>2, <1>6, StoreKeepsRecords
  <2>4. FakeIPTypeOK'
    <3>1. creator' \in [Creator -> CreatorState]
      BY <1>4 DEF FakeIPTypeOK, CreatorState
    <3> QED BY <1>4, <2>1, <2>2, <2>3, <3>1 DEF FakeIPTypeOK
  <2>5. PendingHasWriter'
    BY <2>1, PendingFrame
  <2>6. StoppedInv'
    BY <1>3, <1>4 DEF StoppedInv
  <2>7. CurrentInv'
    BY <1>3, <1>4, <2>1 DEF CurrentInv, FakeIPTypeOK
  <2>8. RangeInv'
    <3>1. CASE "rolled back" \in excuses
      BY <1>4, <3>1 DEF RangeInv
    <3>2. CASE "rolled back" \notin excuses
      <4>1. \A b \in Address : addressBucket'[b] # NoDomain \/ given'[b] # NoDomain =>
                Assignable(options, b)
        BY <1>2, <2>2, <2>3, <3>2 DEF RangeInv
      <4> QED BY <1>4, <2>1, <3>2, <4>1 DEF RangeInv, Assignable
    <3> QED BY <3>1, <3>2
  <2>9. WriterInv'
    <3> SUFFICES ASSUME NEW v \in Writer, writer[v] # Idle, writer[v].address \notin lost'
                 PROVE  /\ given'[writer[v].address] = writer[v].domain
                        /\ saveDomain[writer[v].address] = writer[v].domain
                        /\ writer[v].pc = "delete" =>
                              addressBucket'[writer[v].address] = writer[v].domain
                        /\ \A u \in Writer : writer[u] # Idle
                              /\ writer[u].address = writer[v].address => u = v
      BY <2>1 DEF WriterInv
    <3>1. writer[v].address \in Address
      BY WriterTyped DEF WriterRecord
    <3>2. writer[v].address # a
      BY <2>2 DEF InFlight
    <3> QED BY <2>2, <2>3, <3>1, <3>2 DEF WriterInv
  <2>10. AddressMapsBack'
    <3> SUFFICES ASSUME NEW b \in Address \ lost', given'[b] # NoDomain
                 PROVE  FakeIPLoad(b)' = given'[b]
      BY DEF AddressMapsBack
    <3>1. CASE b # a
      BY <2>1, <2>2, <2>3, <3>1 DEF AddressMapsBack, FakeIPLoad
    <3>2. CASE b = a
      <4>1. saveDomain[a] = NoDomain
        BY <1>2, <2>2, <3>2 DEF PendingHasWriter, InFlight
      <4> QED BY <2>1, <2>2, <2>3, <3>2, <4>1 DEF FakeIPLoad
    <3> QED BY <3>1, <3>2
  <2> QED BY <2>3, <2>4, <2>5, <2>6, <2>7, <2>8, <2>9, <2>10
<1> QED BY <1>5, <1>6 DEF CreateStores

-----------------------------------------------------------------------------
\* The invariant holds when the program has never run.
LEMMA FakeIPInitial ==
    ASSUME Init PROVE FakeIPIInv
<1> USE DEF Init
<1>1. FakeIPTypeOK
  <2>1. /\ addressBucket \in [Address -> Domain \cup {NoDomain}]
        /\ saveDomain \in [Address -> Domain \cup {NoDomain}]
        /\ given \in [Address -> Domain \cup {NoDomain}]
    BY DEF NoAddressRecords
  <2>2. /\ domainBucket \in [Family -> [Domain -> Address \cup {NoAddress}]]
        /\ saveAddress \in [Family -> [Domain -> Address \cup {NoAddress}]]
    BY DEF NoDomainRecords
  <2>3. /\ creator \in [Creator -> CreatorState]
        /\ writer \in [Writer -> {Idle} \cup [pc : {"store", "delete"}, address : Address, domain : Domain]]
    BY DEF CreatorState
  <2>4. /\ timer \in [captured : Metadata \cup {NoMetadata}, armed : BOOLEAN]
        /\ timer.armed => timer.captured # NoMetadata
    OBVIOUS
  <2>5. starts \in 0..MaxStarts /\ order \in Seq(Address)
    BY FakeIPAssumption
  <2>6. current \in [Family -> Address \cup {NoAddress}]
    OBVIOUS
  <2> QED BY <2>1, <2>2, <2>3, <2>4, <2>5, <2>6 DEF FakeIPTypeOK
<1>2. RecordsAgree
  BY DEF RecordsAgree, NoDomainRecords
<1>3. PendingHasWriter
  BY DEF PendingHasWriter, NoDomainRecords, NoAddressRecords
<1>4. StoppedInv /\ CurrentInv /\ WriterInv
  BY DEF StoppedInv, CurrentInv, WriterInv
<1>5. RangeInv /\ AddressMapsBack
  BY DEF RangeInv, AddressMapsBack, NoAddressRecords
<1> QED BY <1>1, <1>2, <1>3, <1>4, <1>5 DEF FakeIPIInv

\* A step of anything else leaves it alone.
LEMMA FakeIPUnchanged ==
    ASSUME FakeIPIInv, UNCHANGED fakeIPVars PROVE FakeIPIInv'
<1> USE DEF FakeIPIInv, fakeIPVars, processVars, fileVars, pendingVars
<1>1. FakeIPTypeOK'
  BY DEF FakeIPTypeOK
<1> QED BY <1>1, RecordsFrame, PendingFrame, StoppedFrame, CurrentFrame, RangeFrame,
           WriterFrame, MapsFrame

\* The invariant is inductive: records, goroutines that write them, callers and
\* restarts of the store keep it together (store.go:34-110, fakeip.go:43-210).
THEOREM FakeIPInductive ==
    ASSUME FakeIPIInv, [FakeIPNext]_fakeIPVars PROVE FakeIPIInv'
<1>1. ASSUME NEW o \in Options, Start(o) PROVE FakeIPIInv'
  BY <1>1, StartStep
<1>2. CASE Close
  BY <1>2, CloseStep
<1>3. CASE Exit
  BY <1>3, ExitStep
<1>4. CASE Flush
  BY <1>4, FlushStep
<1>5. CASE TimerFires
  BY <1>5, TimerFiresStep
<1>6. ASSUME NEW p \in Creator, NEW d \in Domain, NEW f \in Family, CreateLoads(p, d, f)
      PROVE  FakeIPIInv'
  BY <1>6, CreateLoadsStep
<1>7. ASSUME NEW p \in Creator, CreateReads(p) \/ CreateWrites(p) \/ CreateStores(p)
      PROVE  FakeIPIInv'
  BY <1>7, CreateReadsStep, CreateWritesStep, CreateStoresStep
<1>8. ASSUME NEW w \in Writer, WriterStores(w) \/ WriterDeletes(w) PROVE FakeIPIInv'
  BY <1>8, WriterStoresStep, WriterDeletesStep
<1>9. CASE UNCHANGED fakeIPVars
  BY <1>9, FakeIPUnchanged
<1> QED BY <1>1, <1>2, <1>3, <1>4, <1>5, <1>6, <1>7, <1>8, <1>9 DEF FakeIPNext

-----------------------------------------------------------------------------
\* The order of allocation.

\* A step that allocates nothing and keeps the current addresses and the ranges.
LEMMA OrderFrame ==
    ASSUME OrderInv, excuses' = {} => excuses = {}, UNCHANGED <<order, current, options>>
    PROVE  OrderInv'
  BY DEF OrderInv, NextAddress

LEMMA StartKeepsOrder ==
    ASSUME FakeIPIInv, OrderInv, NEW o \in Options, Start(o) PROVE OrderInv'
<1>1. CASE Continues(o)
  <2>1. options' = options
    BY <1>1 DEF Start, Continues, FakeIPIInv, CurrentInv
  <2>2. /\ UNCHANGED order
        /\ current' = metadata.current
        /\ excuses' = excuses \cup (IF metadata.current = current THEN {} ELSE {"slipped"})
    BY <1>1 DEF Start, Restored
  <2>3. excuses' = {} => excuses = {} /\ current' = current
    BY <2>2
  <2>4. CASE excuses' = {}
    BY <2>1, <2>2, <2>3, <2>4, OrderFrame
  <2>5. CASE excuses' # {}
    BY <2>5 DEF OrderInv
  <2> QED BY <2>4, <2>5
<1>2. CASE ~Continues(o)
  <2>1. order' = <<>> \/ excuses' = excuses \cup {"rolled back"}
    BY <1>2 DEF Start
  <2>2. CASE order' = <<>>
    BY <2>2 DEF OrderInv
  <2>3. CASE excuses' = excuses \cup {"rolled back"}
    BY <2>3 DEF OrderInv
  <2> QED BY <2>1, <2>2, <2>3
<1> QED BY <1>1, <1>2

\* The allocated address is the one after the current one of its family.
LEMMA CreateWritesKeepsOrder ==
    ASSUME FakeIPIInv, OrderInv, NEW p \in Creator, CreateWrites(p) PROVE OrderInv'
<1> DEFINE f == creator[p].family
           a == Allocated(p)
           n == Len(order)
<1>1. creator[p].pc = "write" /\ creator[p] # Idle
  BY IdlePc DEF CreateWrites
<1>2. /\ f \in Family /\ a \in Address /\ FamilyOf[a] = f
  BY <1>1, AllocatedAssignable DEF FakeIPIInv
<1>3. order \in Seq(Address) /\ current \in [Family -> Address \cup {NoAddress}]
  BY DEF FakeIPIInv, FakeIPTypeOK
<1>4. /\ order' = Append(order, a)
      /\ current' = [current EXCEPT ![f] = a]
      /\ excuses' = excuses \cup (IF current[f] = creator[p].seen THEN {} ELSE {"raced"})
      /\ UNCHANGED options
  BY DEF CreateWrites, processVars
<1> SUFFICES ASSUME excuses' = {} PROVE OrderInv'
  BY DEF OrderInv
<1>5. excuses = {} /\ current[f] = creator[p].seen
  BY <1>4
<1>6. a = NextAddress(f, current[f])
  BY <1>5 DEF Allocated
<1> HIDE DEF f, a
<1>7. /\ n \in Nat /\ Len(order') = n + 1 /\ order'[n+1] = a
      /\ \A i \in 1..n : order'[i] = order[i] /\ order[i] \in Address
  BY <1>2, <1>3, <1>4
<1>8. current'[f] = a /\ \A g \in Family : g # f => current'[g] = current[g]
  BY <1>2, <1>3, <1>4
<1> HIDE DEF n
<1>9. \A g, b : NextAddress(g, b)' = NextAddress(g, b)
  BY <1>4 DEF NextAddress
<1>10. n = Len(order)
  BY DEF n
<1> SUFFICES ASSUME NEW i \in 1..(n+1)
             PROVE  LET g == FamilyOf[order'[i]]
                        Last(j) == \A k \in (i+1)..j : FamilyOf[order'[k]] # g
                    IN  /\ \A j \in (i+1)..(n+1) : FamilyOf[order'[j]] = g /\ Last(j-1) =>
                               order'[j] = NextAddress(g, order'[i])
                        /\ Last(n+1) => current'[g] = order'[i]
  BY <1>7, <1>9, Zenon DEF OrderInv
<1>11. CASE i = n + 1
  BY <1>2, <1>7, <1>8, <1>11
<1>12. CASE i \in 1..n
  <2> DEFINE g == FamilyOf[order[i]]
             Last(j) == \A k \in (i+1)..j : FamilyOf[order[k]] # g
  <2>1. /\ \A j \in (i+1)..n : FamilyOf[order[j]] = g /\ Last(j-1) =>
               order[j] = NextAddress(g, order[i])
        /\ Last(n) => current[g] = order[i]
    BY <1>5, <1>10, <1>12 DEF OrderInv
  <2>2. g \in Family /\ order'[i] = order[i]
    BY <1>7, <1>12, FakeIPAssumption
  <2>3. ASSUME NEW j \in (i+1)..(n+1), FamilyOf[order'[j]] = g,
               \A k \in (i+1)..(j-1) : FamilyOf[order'[k]] # g
        PROVE  order'[j] = NextAddress(g, order'[i])
    <3>1. \A k \in (i+1)..(j-1) : FamilyOf[order[k]] # g
      BY <1>7, <1>12, <2>3
    <3>2. CASE j \in (i+1)..n
      BY <1>7, <1>12, <2>1, <2>2, <2>3, <3>1, <3>2
    <3>3. CASE j = n + 1
      <4>1. Last(n)
        BY <1>7, <3>1, <3>3
      <4>2. g = f /\ order'[j] = a
        BY <1>2, <1>7, <2>3, <3>3
      <4> QED BY <1>6, <2>1, <2>2, <4>1, <4>2
    <3> QED BY <1>7, <1>12, <3>2, <3>3
  <2>4. ASSUME \A k \in (i+1)..(n+1) : FamilyOf[order'[k]] # g
        PROVE  current'[g] = order'[i]
    <3>1. g # f
      BY <1>2, <1>7, <1>12, <2>4
    <3>2. Last(n)
      BY <1>7, <1>12, <2>4
    <3> QED BY <1>8, <2>1, <2>2, <3>1, <3>2
  <2> QED BY <2>2, <2>3, <2>4
<1> QED BY <1>7, <1>11, <1>12

\* Every step of the store keeps the order of allocation, restarts included.
THEOREM OrderInductive ==
    ASSUME FakeIPIInv, OrderInv, [FakeIPNext]_fakeIPVars PROVE OrderInv'
<1> USE DEF processVars, fileVars, pendingVars
<1>1. ASSUME NEW o \in Options, Start(o) PROVE OrderInv'
  BY <1>1, StartKeepsOrder
<1>2. CASE Close
  BY <1>2, OrderFrame DEF Close
<1>3. CASE Exit
  BY <1>3, OrderFrame DEF Exit
<1>4. CASE Flush
  BY <1>4, OrderFrame DEF Flush
<1>5. CASE TimerFires
  BY <1>5, OrderFrame DEF TimerFires
<1>6. ASSUME NEW p \in Creator, NEW d \in Domain, NEW f \in Family, CreateLoads(p, d, f)
      PROVE  OrderInv'
  BY <1>6, OrderFrame DEF CreateLoads
<1>7. ASSUME NEW p \in Creator, CreateReads(p) PROVE OrderInv'
  BY <1>7, OrderFrame DEF CreateReads
<1>8. ASSUME NEW p \in Creator, CreateWrites(p) PROVE OrderInv'
  BY <1>8, CreateWritesKeepsOrder
<1>9. ASSUME NEW p \in Creator, CreateStores(p) PROVE OrderInv'
  BY <1>9, OrderFrame DEF CreateStores
<1>10. ASSUME NEW w \in Writer, WriterStores(w) PROVE OrderInv'
  BY <1>10, OrderFrame DEF WriterStores
<1>11. ASSUME NEW w \in Writer, WriterDeletes(w) PROVE OrderInv'
  BY <1>11, OrderFrame DEF WriterDeletes
<1>12. CASE UNCHANGED fakeIPVars
  BY <1>12, OrderFrame DEF fakeIPVars
<1> QED BY <1>1, <1>2, <1>3, <1>4, <1>5, <1>6, <1>7, <1>8, <1>9, <1>10, <1>11, <1>12 DEF FakeIPNext

\* Between two allocations of the same address lies a whole turn of the range:
\* the addresses allocated between them are closed under NextAddress, so they
\* contain the first one and with it every later one.
LEMMA WholeTurn ==
    ASSUME FakeIPIInv, OrderInv PROVE NoEarlyReuse
<1> SUFFICES ASSUME excuses = {}, NEW i \in 1..Len(order), NEW j \in 1..Len(order),
                    i < j, order[i] = order[j],
                    NEW z \in options[FamilyOf[order[i]]],
                    z >= Initial(options[FamilyOf[order[i]]])
             PROVE  \E k \in i..j : order[k] = z
  BY DEF NoEarlyReuse
<1> DEFINE f == FamilyOf[order[i]]
           range == options[f]
           first == Initial(range)
           Of(k) == FamilyOf[order[k]] = f
           W == {a \in Address : \E k \in i..j : Of(k) /\ order[k] = a}
<1>1. order \in Seq(Address) /\ Len(order) \in Nat /\ options \in Options
  BY DEF FakeIPIInv, FakeIPTypeOK
<1>2. i \in Nat /\ j \in Nat /\ 1 <= i /\ j <= Len(order)
      /\ \A k \in i..j : k \in 1..Len(order) /\ order[k] \in Address
      /\ order[i] \in Address /\ i \in i..j
  BY <1>1
<1>3. f \in Family
  <2>1. FamilyOf \in [Address -> Family]
    BY FakeIPAssumption
  <2>2. order[i] \in Address
    BY <1>2
  <2> QED BY <2>1, <2>2
<1>4. /\ range \subseteq Address /\ Address \subseteq Nat /\ first \in range
      /\ \A a, b \in range : a..b \subseteq range
  <2>1. /\ range \subseteq Address /\ Address \subseteq Nat
        /\ \A a, b \in range : a..b \subseteq range
    BY <1>1, <1>3, FakeIPAssumption
  <2>2. z \in range /\ z >= first
    OBVIOUS
  <2> HIDE DEF range
  <2>3. \E x \in range : \A y \in range : x <= y
    BY <2>1, <2>2, LeastNatural
  <2>4. PICK x \in range : first = x + 2
    BY <2>3 DEF Initial
  <2>5. first \in x..z
    BY <2>1, <2>2, <2>4
  <2> QED BY <2>1, <2>2, <2>5
<1>5. ASSUME NEW k \in i..j, NEW l \in (k+1)..j, Of(k), Of(l), \A m \in (k+1)..(l-1) : ~Of(m)
      PROVE  order[l] = NextAddress(f, order[k])
  <2>1. k \in 1..Len(order) /\ l \in (k+1)..Len(order)
    BY <1>2
  <2>2. FamilyOf[order[k]] = f /\ FamilyOf[order[l]] = f
        /\ \A m \in (k+1)..(l-1) : FamilyOf[order[m]] # f
    BY <1>5
  <2>3. \A l2 \in (k+1)..Len(order) :
            FamilyOf[order[l2]] = FamilyOf[order[k]]
            /\ (\A m \in (k+1)..(l2-1) : FamilyOf[order[m]] # FamilyOf[order[k]]) =>
                   order[l2] = NextAddress(FamilyOf[order[k]], order[k])
    BY <2>1 DEF OrderInv
  <2> HIDE DEF f
  <2> QED BY <2>1, <2>2, <2>3
<1> HIDE DEF f, first
<1>6. \A a : NextAddress(f, a) = IF a + 1 \in range THEN a + 1 ELSE first
  BY DEF NextAddress, first
<1> HIDE DEF range
<1>7. Of(i) /\ Of(j) /\ i < j /\ order[i] = order[j]
  BY DEF f
<1>8. ASSUME NEW w \in W
      PROVE  NextAddress(f, w) \in W
  <2>1. PICK k \in i..(j-1) : Of(k) /\ order[k] = w
    <3>1. PICK k \in i..j : Of(k) /\ order[k] = w
      OBVIOUS
    <3>2. CASE k = j
      BY <1>2, <1>7, <3>1, <3>2
    <3>3. CASE k # j
      BY <1>2, <3>1, <3>3
    <3> QED BY <3>2, <3>3
  <2> DEFINE T == {l \in (k+1)..j : Of(l)}
  <2>2. T \in SUBSET Nat /\ j \in T
    BY <1>2, <1>7
  <2>3. PICK l \in T : \A m \in T : l <= m
    BY <2>2, LeastNatural
  <2>4. l \in (k+1)..j /\ Of(l)
    BY <2>3
  <2>5. \A m \in (k+1)..(l-1) : ~Of(m)
    BY <1>2, <2>3, <2>4
  <2>6. order[l] = NextAddress(f, order[k])
    BY <1>2, <1>5, <2>1, <2>4, <2>5
  <2>7. l \in i..j /\ order[l] \in Address
    BY <1>2, <2>1, <2>4
  <2> QED BY <2>1, <2>4, <2>6, <2>7
<1>9. ASSUME NEW w \in W
      PROVE  \E v \in W : w = NextAddress(f, v)
  <2>1. PICK k \in (i+1)..j : Of(k) /\ order[k] = w
    <3>1. PICK k \in i..j : Of(k) /\ order[k] = w
      OBVIOUS
    <3>2. CASE k = i
      BY <1>2, <1>7, <3>1, <3>2
    <3>3. CASE k # i
      BY <1>2, <3>1, <3>3
    <3> QED BY <3>2, <3>3
  <2> DEFINE T == {l \in i..(k-1) : Of(l)}
  <2>2. T \in SUBSET Nat /\ i \in T /\ k \in Nat /\ \A l \in T : l <= k
    BY <1>2, <1>7, <2>1
  <2>3. PICK l \in T : \A m \in T : m <= l
    BY <2>2, GreatestNatural
  <2>4. l \in i..(k-1) /\ Of(l)
    BY <2>3
  <2>5. \A m \in (l+1)..(k-1) : ~Of(m)
    BY <1>2, <2>3, <2>4
  <2>6. l \in i..j /\ k \in (l+1)..j
    BY <1>2, <2>1, <2>4
  <2>7. order[k] = NextAddress(f, order[l])
    BY <1>5, <2>1, <2>4, <2>5, <2>6
  <2> QED BY <1>2, <2>1, <2>4, <2>6, <2>7
<1>10. W \in SUBSET Nat /\ order[i] \in W
  <2>1. W \subseteq Address
    OBVIOUS
  <2>2. order[i] \in Address /\ i \in i..j /\ Of(i)
    BY <1>2, <1>7
  <2>3. order[i] \in W
    BY <2>2
  <2> QED BY <1>4, <2>1, <2>3
<1>11. \A w \in W : \E k \in i..j : order[k] = w
  OBVIOUS
<1> HIDE DEF W
<1>12. first \in W
  <2>1. PICK w \in W : \A v \in W : w <= v
    BY <1>10, LeastNatural
  <2>2. PICK v \in W : w = NextAddress(f, v)
    BY <1>9, <2>1
  <2>3. w # v + 1
    BY <1>10, <2>1
  <2> QED BY <1>6, <2>1, <2>2, <2>3
<1> DEFINE Missing == {a \in range : a >= first /\ a \notin W}
<1>13. Missing = {}
  <2> SUFFICES ASSUME Missing # {} PROVE FALSE
    OBVIOUS
  <2>1. Missing \in SUBSET Nat
    BY <1>4
  <2>2. PICK b \in Missing : \A c \in Missing : b <= c
    BY <2>1, LeastNatural
  <2>3. b \in range /\ b \in Nat /\ first \in Nat /\ b > first /\ b \notin W
    BY <1>4, <1>12, <2>1, <2>2
  <2>4. b - 1 \in range /\ b - 1 >= first /\ b - 1 \notin Missing
    BY <1>4, <2>2, <2>3
  <2>5. b - 1 \in W
    BY <2>4
  <2>6. NextAddress(f, b - 1) = b
    BY <1>6, <2>3
  <2> QED BY <1>8, <2>3, <2>5, <2>6
<1>14. z \in range /\ z >= first
  BY DEF range, first, f
<1>15. z \in W
  BY <1>13, <1>14
<1> QED BY <1>11, <1>15
=============================================================================
