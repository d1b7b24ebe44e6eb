------------------------------- MODULE FakeIP -------------------------------
(***************************************************************************)
(* The FakeIP store (src/dns/transport/fakeip/store.go) over its two       *)
(* storages: the cache file (src/experimental/cachefile/fakeip.go), which  *)
(* keeps a record in memory until a goroutine has written it and survives  *)
(* a restart, and the memory storage (memory.go).                          *)
(*                                                                         *)
(* Addresses are numbers and a range is a set of consecutive ones.  Create *)
(* is several steps, because its callers share the current address without *)
(* a lock; a load is one step, since a record is deleted from memory only  *)
(* after it is in the file.  A transaction of the file is one step, and    *)
(* one that fails leaves the file as it was.  The first creation of the    *)
(* metadata timer is one step.                                             *)
(***************************************************************************)
EXTENDS Integers, Sequences

CONSTANTS
    Domain, Address, Family,
    FamilyOf,           \* the family of each address
    Options,            \* configured ranges considered, by family; {} is none
    Storages,           \* storages considered: "file", "memory"
    Creator,            \* concurrent callers of Create
    Writer,             \* goroutines of FakeIPStoreAsync; bounds the writes in flight
    MaxAllocations,     \* bound on the addresses allocated
    MaxStarts,          \* bound on the starts of the program
    NoDomain, NoAddress, NoMetadata

\* Addr().Next().Next(): the first address of a range that is handed out.
Initial(range) == (CHOOSE a \in range : \A b \in range : a <= b) + 2

\* A range may be too small to hold the first address that is handed out; that
\* address exists, so no range ends at the top of its family's addresses before it.
ASSUME FakeIPAssumption ==
    /\ Address \subseteq Nat /\ NoAddress \notin Address /\ NoDomain \notin Domain
    /\ FamilyOf \in [Address -> Family] /\ "address" \notin Family
    /\ Options \subseteq [Family -> SUBSET Address]
    /\ \A o \in Options, f \in Family :
          /\ \A a \in o[f] : FamilyOf[a] = f
          /\ \A a, b \in o[f] : a..b \subseteq o[f]
          /\ o[f] # {} => Initial(o[f]) \in Address /\ FamilyOf[Initial(o[f])] = f
    /\ Storages \subseteq {"file", "memory"}
    /\ MaxAllocations \in Nat /\ MaxStarts \in Nat
    /\ NoMetadata \notin [ranges : Options, current : [Family -> Address \cup {NoAddress}]]

VARIABLES
    storage,            \* the kind of storage
    phase,              \* the program: "stopped", "running" or "closed"
    starts,
    options,            \* inet4Range and inet6Range
    current,            \* inet4Current and inet6Current
    addressBucket,      \* records by address
    domainBucket,       \* records by family and domain
    buckets,            \* the buckets that exist
    metadata,           \* the saved ranges and current addresses
    saveDomain,         \* records not yet written, by address
    saveAddress,        \* and by family and domain
    writer,             \* the goroutines that write them
    timer,              \* saveMetadataTimer with the metadata it captured
    creator,            \* the calls of Create
    order,              \* history: addresses in the order of their allocation
    given,              \* history: the domain an address was last answered for
    lost,               \* history: addresses whose record was overtaken or lost
    excuses             \* history: why the order of allocation is not kept

fileVars == <<addressBucket, domainBucket, buckets, metadata>>
pendingVars == <<saveDomain, saveAddress, writer>>
processVars == <<storage, phase, starts, options>>
fakeIPVars == <<processVars, current, fileVars, pendingVars, timer, creator,
                order, given, lost, excuses>>

Metadata == [ranges : Options, current : [Family -> Address \cup {NoAddress}]]
NoAddressRecords == [a \in Address |-> NoDomain]
NoDomainRecords == [f \in Family |-> [d \in Domain |-> NoAddress]]
Idle == [pc |-> "idle"]

\* One address for domain d of family f, in place of that of its old domain.
Replace(records, f, old, d, a) ==
    [records EXCEPT ![f] = [x \in Domain |-> IF x = d THEN a
                                             ELSE IF x = old THEN NoAddress
                                             ELSE records[f][x]]]

Init ==
    /\ storage \in Storages
    /\ phase = "stopped" /\ starts = 0
    /\ options \in Options
    /\ current = [f \in Family |-> NoAddress]
    /\ addressBucket = NoAddressRecords /\ domainBucket = NoDomainRecords
    /\ buckets = {} /\ metadata = NoMetadata
    /\ saveDomain = NoAddressRecords /\ saveAddress = NoDomainRecords
    /\ writer = [w \in Writer |-> Idle]
    /\ timer = [captured |-> NoMetadata, armed |-> FALSE]
    /\ creator = [p \in Creator |-> Idle]
    /\ order = <<>> /\ given = NoAddressRecords /\ lost = {} /\ excuses = {}

-----------------------------------------------------------------------------
\* The storage.

Contains(o, a) == a \in o[FamilyOf[a]]

TooSmall(range) == range # {} /\ Initial(range) \notin range

FakeIPLoad(a) == IF saveDomain[a] # NoDomain THEN saveDomain[a] ELSE addressBucket[a]

FakeIPLoadDomain(d, f) ==
    IF saveAddress[f][d] # NoAddress THEN saveAddress[f][d] ELSE domainBucket[f][d]

\* Mutant: the old domain of the address keeps its record.
MutantFakeIPStore(a, d) ==
    LET f == FamilyOf[a]
    IN  /\ addressBucket' = [addressBucket EXCEPT ![a] = d]
        /\ domainBucket' = [domainBucket EXCEPT ![f][d] = a]
        /\ buckets' = buckets \cup {"address", f}

FakeIPStore(a, d) ==
    LET f == FamilyOf[a]
    IN  /\ addressBucket' = [addressBucket EXCEPT ![a] = d]
        /\ domainBucket' = Replace(domainBucket, f, addressBucket[a], d, a)
        /\ buckets' = buckets \cup {"address", f}

\* The three buckets go together: when one does not exist none is deleted.
FakeIPReset ==
    IF storage = "file" /\ buckets # Family \cup {"address"}
    THEN UNCHANGED <<addressBucket, domainBucket, buckets>>
    ELSE /\ addressBucket' = NoAddressRecords
         /\ domainBucket' = NoDomainRecords
         /\ buckets' = {}

FakeIPSaveMetadata(m) ==
    /\ metadata' = m
    /\ buckets' = buckets \cup {"address"}
    /\ UNCHANGED <<addressBucket, domainBucket>>

\* The timer keeps the metadata of the first call; later ones only set it again.
FakeIPSaveMetadataAsync(m) ==
    timer' = [captured |-> IF timer.captured = NoMetadata THEN m ELSE timer.captured,
              armed |-> TRUE]

InFlight(a) == \E w \in Writer : writer[w] # Idle /\ writer[w].address = a

\* Mutant: no record is kept in memory while the write is in flight.
MutantFakeIPStoreAsync(a, d) ==
    /\ UNCHANGED <<saveDomain, saveAddress>>
    /\ \E w \in Writer :
          /\ writer[w] = Idle
          /\ writer' = [writer EXCEPT ![w] = [pc |-> "store", address |-> a, domain |-> d]]

FakeIPStoreAsync(a, d) ==
    /\ saveDomain' = [saveDomain EXCEPT ![a] = d]
    /\ saveAddress' = Replace(saveAddress, FamilyOf[a], saveDomain[a], d, a)
    /\ \E w \in Writer :
          /\ writer[w] = Idle
          /\ writer' = [writer EXCEPT ![w] = [pc |-> "store", address |-> a, domain |-> d]]

\* The goroutine: a failed transaction is logged and the rest done all the same.
WriterStores(w) ==
    /\ writer[w].pc = "store"
    /\ \/ /\ FakeIPStore(writer[w].address, writer[w].domain)
          /\ UNCHANGED lost
       \/ /\ lost' = lost \cup {writer[w].address}
          /\ UNCHANGED <<addressBucket, domainBucket, buckets>>
    /\ writer' = [writer EXCEPT ![w].pc = "delete"]
    /\ UNCHANGED <<processVars, current, metadata, saveDomain, saveAddress, timer, creator,
                   order, given, excuses>>

\* Mutant: only the entry by address is deleted.
MutantWriterDeletes(w) ==
    /\ writer[w].pc = "delete"
    /\ saveDomain' = [saveDomain EXCEPT ![writer[w].address] = NoDomain]
    /\ writer' = [writer EXCEPT ![w] = Idle]
    /\ UNCHANGED <<processVars, current, fileVars, saveAddress, timer, creator,
                   order, given, lost, excuses>>

WriterDeletes(w) ==
    LET a == writer[w].address
    IN  /\ writer[w].pc = "delete"
        /\ saveDomain' = [saveDomain EXCEPT ![a] = NoDomain]
        /\ saveAddress' = [saveAddress EXCEPT ![FamilyOf[a]][writer[w].domain] = NoAddress]
        /\ writer' = [writer EXCEPT ![w] = Idle]
        /\ UNCHANGED <<processVars, current, fileVars, timer, creator,
                       order, given, lost, excuses>>

TimerFires ==
    /\ timer.armed
    /\ FakeIPSaveMetadata(timer.captured)
    /\ timer' = [timer EXCEPT !.armed = FALSE]
    /\ UNCHANGED <<processVars, current, pendingVars, creator, order, given, lost, excuses>>

\* Clash API: POST /cache/fakeip/flush.
Flush ==
    /\ storage = "file" /\ phase # "stopped" /\ buckets = Family \cup {"address"}
    /\ FakeIPReset
    /\ metadata' = NoMetadata
    /\ lost' = lost \cup {a \in Address : given[a] # NoDomain}
    /\ UNCHANGED <<processVars, current, pendingVars, timer, creator, order, given, excuses>>

-----------------------------------------------------------------------------
\* The store.

\* Mutant: the current addresses start over although the records are kept.
MutantRestored(o) == [f \in Family |-> IF o[f] = {} THEN NoAddress ELSE Initial(o[f])]

Restored(o) == metadata.current

Continues(o) == metadata # NoMetadata /\ metadata.ranges = o

\* Reading the metadata deletes it, so that only an orderly end, or the timer,
\* lets the next start continue.  The error of FakeIPReset is ignored.
Start(o) ==
    /\ phase = "stopped" /\ starts < MaxStarts
    /\ starts' = starts + 1
    /\ phase' = "running"
    /\ options' = o
    /\ metadata' = NoMetadata
    /\ \/ /\ Continues(o)
          /\ current' = Restored(o)
          /\ excuses' = excuses \cup (IF metadata.current = current THEN {} ELSE {"slipped"})
          /\ UNCHANGED <<addressBucket, domainBucket, buckets, order, given, lost>>
       \/ /\ ~Continues(o)
          /\ current' = [f \in Family |-> IF o[f] = {} THEN NoAddress ELSE Initial(o[f])]
          /\ FakeIPReset
          /\ IF addressBucket' = NoAddressRecords
             THEN order' = <<>> /\ given' = NoAddressRecords /\ lost' = {} /\ excuses' = {}
             ELSE excuses' = excuses \cup {"rolled back"} /\ UNCHANGED <<order, given, lost>>
    /\ UNCHANGED <<storage, pendingVars, timer, creator>>

\* Close of the transport; the program may still create addresses after it.
Close ==
    /\ phase = "running"
    /\ phase' = "closed"
    /\ IF storage = "file" THEN FakeIPSaveMetadata([ranges |-> options, current |-> current])
                           ELSE UNCHANGED fileVars
    /\ UNCHANGED <<storage, starts, options, current, pendingVars, timer, creator,
                   order, given, lost, excuses>>

\* The program ends, or crashes: what is not in the file is gone.
Exit ==
    /\ phase # "stopped"
    /\ phase' = "stopped"
    /\ saveDomain' = NoAddressRecords /\ saveAddress' = NoDomainRecords
    /\ writer' = [w \in Writer |-> Idle]
    /\ timer' = [captured |-> NoMetadata, armed |-> FALSE]
    /\ creator' = [p \in Creator |-> Idle]
    /\ IF storage = "file"
       THEN /\ lost' = lost \cup {a \in Address : given[a] \notin {NoDomain, addressBucket[a]}}
            /\ UNCHANGED <<addressBucket, domainBucket, buckets, given>>
       ELSE /\ addressBucket' = NoAddressRecords /\ domainBucket' = NoDomainRecords
            /\ buckets' = {} /\ given' = NoAddressRecords /\ lost' = {}
    /\ UNCHANGED <<storage, starts, options, current, metadata, order, excuses>>

\* Create: a domain that has an address gets it again, even if the address is
\* being given to another one; a family without a range is an error.
CreateLoads(p, d, f) ==
    /\ phase # "stopped" /\ creator[p] = Idle
    /\ LET a == FakeIPLoadDomain(d, f)
       IN  \/ /\ a # NoAddress
              /\ given' = [given EXCEPT ![a] = d]
              /\ lost' = IF \E w \in Writer : writer[w] # Idle /\ writer[w].address = a
                                              /\ writer[w].domain # d
                         THEN lost \cup {a} ELSE lost
              /\ UNCHANGED creator
           \/ /\ a = NoAddress /\ current[f] # NoAddress
              /\ creator' = [creator EXCEPT ![p] = [pc |-> "read", domain |-> d, family |-> f]]
              /\ UNCHANGED <<given, lost>>
    /\ UNCHANGED <<processVars, current, fileVars, pendingVars, timer, order, excuses>>

\* Mutant: the end of the range is not looked at.
MutantNextAddress(f, a) == IF a + 1 \in Address THEN a + 1 ELSE Initial(options[f])

NextAddress(f, a) == IF a + 1 \in options[f] THEN a + 1 ELSE Initial(options[f])

CreateReads(p) ==
    /\ creator[p].pc = "read" /\ Len(order) < MaxAllocations
    /\ creator' = [creator EXCEPT ![p] = [pc |-> "write", domain |-> creator[p].domain,
                      family |-> creator[p].family, seen |-> current[creator[p].family]]]
    /\ UNCHANGED <<processVars, current, fileVars, pendingVars, timer, order, given, lost, excuses>>

Allocated(p) == NextAddress(creator[p].family, creator[p].seen)

CreateWrites(p) ==
    LET f == creator[p].family
    IN  /\ creator[p].pc = "write" /\ Len(order) < MaxAllocations
        /\ current' = [current EXCEPT ![f] = Allocated(p)]
        /\ order' = Append(order, Allocated(p))
        /\ excuses' = excuses \cup (IF current[f] = creator[p].seen THEN {} ELSE {"raced"})
        /\ creator' = [creator EXCEPT ![p].pc = "store"]
        /\ UNCHANGED <<processVars, fileVars, pendingVars, timer, given, lost>>

CreateStores(p) ==
    LET a == Allocated(p)
        d == creator[p].domain
    IN  /\ creator[p].pc = "store"
        /\ given' = [given EXCEPT ![a] = d]
        /\ lost' = IF InFlight(a) THEN lost \cup {a} ELSE lost \ {a}
        /\ \/ /\ storage = "file"
              /\ FakeIPStoreAsync(a, d)
              /\ FakeIPSaveMetadataAsync([ranges |-> options, current |-> current])
              /\ UNCHANGED <<addressBucket, domainBucket, buckets>>
           \/ /\ storage = "memory"
              /\ FakeIPStore(a, d)
              /\ UNCHANGED <<pendingVars, timer>>
        /\ creator' = [creator EXCEPT ![p] = Idle]
        /\ UNCHANGED <<processVars, current, metadata, order, excuses>>

FakeIPNext ==
    \/ \E o \in Options : Start(o)
    \/ Close \/ Exit \/ Flush \/ TimerFires
    \/ \E p \in Creator : \E d \in Domain, f \in Family : CreateLoads(p, d, f)
    \/ \E p \in Creator : CreateReads(p) \/ CreateWrites(p) \/ CreateStores(p)
    \/ \E w \in Writer : WriterStores(w) \/ WriterDeletes(w)

-----------------------------------------------------------------------------
CreatorState ==
    {Idle} \cup [pc : {"read"}, domain : Domain, family : Family]
           \cup [pc : {"write", "store"}, domain : Domain, family : Family, seen : Address]

FakeIPTypeOK ==
    /\ storage \in Storages
    /\ phase \in {"stopped", "running", "closed"}
    /\ starts \in 0..MaxStarts
    /\ options \in Options
    /\ current \in [Family -> Address \cup {NoAddress}]
    /\ addressBucket \in [Address -> Domain \cup {NoDomain}]
    /\ domainBucket \in [Family -> [Domain -> Address \cup {NoAddress}]]
    /\ buckets \subseteq Family \cup {"address"}
    /\ metadata \in Metadata \cup {NoMetadata}
    /\ saveDomain \in [Address -> Domain \cup {NoDomain}]
    /\ saveAddress \in [Family -> [Domain -> Address \cup {NoAddress}]]
    /\ writer \in [Writer -> {Idle} \cup [pc : {"store", "delete"}, address : Address, domain : Domain]]
    /\ timer \in [captured : Metadata \cup {NoMetadata}, armed : BOOLEAN]
    /\ timer.armed => timer.captured # NoMetadata
    /\ creator \in [Creator -> CreatorState]
    /\ order \in Seq(Address)
    /\ given \in [Address -> Domain \cup {NoDomain}]
    /\ lost \subseteq Address
    /\ excuses \subseteq {"raced", "slipped", "rolled back"}

\* The two directions of the records agree: the address a domain is answered
\* with is that domain's (fakeip.go:71-97), whatever the order of the writes,
\* their failures, flushes and restarts.
RecordsAgree ==
    \A f \in Family, d \in Domain :
        LET a == domainBucket[f][d]
        IN  a # NoAddress => FamilyOf[a] = f /\ addressBucket[a] = d

\* A record kept in memory is one that a goroutine is about to delete: none
\* hides the file for ever, although goroutines delete each other's entries
\* (fakeip.go:99-129).
PendingHasWriter ==
    /\ \A a \in Address : saveDomain[a] # NoDomain =>
          \E w \in Writer : writer[w] # Idle /\ writer[w].address = a
                            /\ writer[w].domain = saveDomain[a]
    /\ \A f \in Family, d \in Domain : saveAddress[f][d] # NoAddress =>
          \E w \in Writer : writer[w] # Idle /\ writer[w].address = saveAddress[f][d]
                            /\ writer[w].domain = d /\ FamilyOf[writer[w].address] = f

\* Between processes nothing is under way.
StoppedInv ==
    phase = "stopped" =>
        /\ \A p \in Creator : creator[p] = Idle
        /\ \A w \in Writer : writer[w] = Idle
        /\ timer.captured = NoMetadata

\* There is a current address, in use or saved, for each range that is configured;
\* saved ones were saved with the ranges of the process that runs or ran last.
CurrentInv ==
    /\ phase # "stopped" => \A f \in Family : current[f] # NoAddress <=> options[f] # {}
    /\ \A p \in Creator : creator[p] # Idle => options[creator[p].family] # {}
    /\ \A m \in {metadata, timer.captured} : m # NoMetadata =>
          /\ m.ranges = options
          /\ \A f \in Family : m.current[f] # NoAddress <=> options[f] # {}

\* What Create may hand out: the range and, though it may lie outside, its first address.
Assignable(o, a) ==
    LET range == o[FamilyOf[a]] IN a \in range \/ (range # {} /\ a = Initial(range))

\* What the store remembers or is about to write is of the configured range.
RangeInv ==
    \/ "rolled back" \in excuses
    \/ /\ \A a \in Address : addressBucket[a] # NoDomain \/ given[a] # NoDomain =>
              Assignable(options, a)
       /\ \A w \in Writer : writer[w] # Idle => Assignable(options, writer[w].address)

\* A goroutine whose address is not lost is the only one for it: it writes what
\* was answered, and keeps it in memory until the file has it.
WriterInv ==
    \A w \in Writer : writer[w] # Idle /\ writer[w].address \notin lost =>
        /\ given[writer[w].address] = writer[w].domain
        /\ saveDomain[writer[w].address] = writer[w].domain
        /\ writer[w].pc = "delete" => addressBucket[writer[w].address] = writer[w].domain
        /\ \A v \in Writer : writer[v] # Idle /\ writer[v].address = writer[w].address => v = w

\* A connection to an address is a connection to the domain the address was
\* last answered for: FakeIPLoad returns it, in memory or in the file, unless the
\* address was answered while a write of it for another domain was in flight,
\* or the write failed, was flushed, or did not happen before the program ended
\* (store.go:85-110, fakeip.go:99-148).
AddressMapsBack ==
    \A a \in Address \ lost : given[a] # NoDomain => FakeIPLoad(a) = given[a]

\* The inductive invariant.
FakeIPIInv ==
    /\ FakeIPTypeOK /\ RecordsAgree /\ PendingHasWriter
    /\ StoppedInv /\ CurrentInv /\ RangeInv /\ WriterInv
    /\ AddressMapsBack

\* Within a family each allocated address is the one after the one before it, and
\* the current address is the last of them.
OrderInv ==
    excuses = {} =>
        \A i \in 1..Len(order) :
            LET f == FamilyOf[order[i]]
                Last(j) == \A k \in (i+1)..j : FamilyOf[order[k]] # f
            IN  /\ \A j \in (i+1)..Len(order) : FamilyOf[order[j]] = f /\ Last(j-1) =>
                       order[j] = NextAddress(f, order[i])
                /\ Last(Len(order)) => current[f] = order[i]

\* An address is not allocated again before all the others of its range were,
\* restarts included, unless two calls of Create advanced the current address
\* at once, the restored one is not the last (a crash), or records without
\* metadata could not be reset (store.go:34-58, 85-110).
NoEarlyReuse ==
    excuses = {} =>
        \A i, j \in 1..Len(order) : i < j /\ order[i] = order[j] =>
            LET f == FamilyOf[order[i]]
            IN  \A a \in options[f] : a >= Initial(options[f]) =>
                    \E k \in i..j : order[k] = a

\* An address that is answered lies in the configured range, so that the router
\* recognises it, also when the range has changed since it was stored - unless
\* FakeIPReset was rolled back for want of a bucket, or the range is too small for
\* its first address, which Start and Create do not check (store.go:44-55, 85-100,
\* fakeip.go:182-194).
WithinRange ==
    \A a \in Address : given[a] # NoDomain =>
        \/ Contains(options, a)
        \/ "rolled back" \in excuses
        \/ TooSmall(options[FamilyOf[a]])
=============================================================================
