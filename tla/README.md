# radio-box: a TLA+ verification project

radio-box is a fork of sing-box, a universal proxy platform in Go. This directory
holds TLA+ modules translated from its source, TLC configurations that check them
on small instances, and proofs, checked by TLAPS, that hold for every instance.
`PROJECT.json` lists components, runs, mutants, the map from definitions to source
lines, the hazards and the findings.

    tlc -workers 2 -config MCDNSRacerHedged.cfg MCDNSRacer     # one run
    tlapm DNSRacerProofs.tla                                   # one module of proofs

## 1. Inventory

| Component | State it keeps | Operations | Hard behaviour | What makes it correct |
|---|---|---|---|---|
| DNS racers (`dns/router.go`) | results channel, fallbackStart, contexts, the collector's locals | exchange/lookup racer, hedged forms | one goroutine per server, a timer goroutine, cancellation, return before the others end | fallbacks wait, primaries keep the grace window, the verdict is independent of order, the race returns, nothing leaks |
| DNS router (`dns/router.go`) | rules, reverse mapping | Exchange, Lookup, matchDNS | results of an earlier rule carried to the next one | the answer belongs to the first rule that accepts it |
| DNS client (`dns/client.go`) | cache or transportCache, cacheLock or transportCacheLock, RDRC | Exchange, Lookup, ClearCache | concurrent callers wait for each other, transports issue queries of their own, entries expire | locks are released on every path, answers do not cross over, nobody waits for ever |
| DNS transports (`dns/transport`) | UDP callback table, TLS pool, local, DHCP and hosts state | Exchange, Close | shared connection, 16-bit identifiers, cancellation | an answer reaches the query it belongs to |
| FakeIP and cache file (`dns/transport/fakeip`, `experimental/cachefile`) | address pointer, both directions of the mapping, pending writes, database | Create, Lookup, asynchronous saves, RDRC | unlocked allocation, write-behind, restart | one address per domain, also after a restart |
| Groups (`protocol/group`) | test records, selected outbound, sticky cache, counter | DialContext, ListenPacket, SelectOutbound, checks | calls and checks write the same records; selection changes while a dial is under way | every outbound is tried, no connection stays on a deselected outbound |
| Health checker (`protocol/group/healthcheck.go`) | ticker, close channel, checking, lastActive | PostStart, Touch, loopCheck, urlTest, Close | idle stop against Touch, Close against Touch | at most one loop, none after Close |
| Managers, box (`adapter/*/manager.go`, `dns/transport_manager.go`, `box.go`) | lists, tags, dependencies, default, started | Start by stages, Create, Remove, Close | partial failure, endpoints that accept connections while later outbounds have not started | dependencies start first, no connection meets an outbound that was not started |
| Route, connections (`route`) | rules, connection list, done flags | RouteConnection, NewConnection, copy | two copy goroutines per connection | onClose exactly once |
| Everything else | - | protocols, APIs, options, logging, platform code | I/O | not modelled, see section 7 |

How they interact: an inbound, or an endpoint (WireGuard, Tailscale: an outbound that also accepts), hands a connection to the router, which matches
rules and gives it to an outbound, perhaps a group that dials one of its members.
The DNS router is called for DNS requests and for look-ups by dialers; it
races its rule's servers, each raced goroutine calls the DNS client, the client
calls a transport, and the transport may dial through an outbound and so issue
DNS queries of its own. Groups share one store of test records with their health
checkers. Selection, RDRC and FakeIP are persisted in the cache file.

## 2. Modules

| Module | Models | Relation |
|---|---|---|
| `DNSRace` | the race a caller relies on | abstract specification |
| `DNSRacer` | the four racers of `dns/router.go` | implements `DNSRace` (`RaceSpec`) |
| `DNSClient` | `Client.Exchange` and its caches | what one query of a race does |
| `DNSRouter` | the rule loop of `Exchange` and `Lookup`, cache and reverse mapping | its races end as `DNSRace` allows |
| `FakeIP` | the FakeIP store over file and memory | - |
| `Router` | `matchRule`, sniffing, resolving | composes `FakeIP` and `DNSRouter` |
| `LoadBalance` | the load-balance group and `urlTest` | - |
| `InterruptGroup` | the connections a group closes | - |
| `OutboundGroup` | fallback, urltest and selector groups | extends `InterruptGroup` |
| `ConnectionManager` | a connection from routing to its last goroutine | extends `InterruptGroup` |
| `HealthChecker` | the life of a group's periodic check | - |
| `Box` | start stages, outbound, inbound and endpoint managers, close | composes `ConnectionManager` and `HealthChecker` |
| `*Proofs` | theorems about the module of that name (`BoxProofs` also about the modules `Box` composes, `RouterProofs` about `DNSRouter`) | EXTENDS it and TLAPS |
| `OrderLemmas` | least and greatest elements, used in place of induction | extended by proof modules |
| `MC*` | model values and small sets for TLC | EXTENDS it |

**DNSRacer.** `Query` is the set of goroutines. `pc` says where each one is: `wait`
and `check` are the two looks a fallback goroutine takes (the select, then
`queryCtx.Err()`), `query` is inside `client.Exchange`, `send` offers the result, `done`
has ended. A send on the unbuffered channel and its reception are one step
(`Receive`); `GiveUp` is the other branch of that select. `Return` runs the deferred
cancellations; `outcome # Pending` also stands for the closed channel `returned`. Time is three
phases, which is all the code distinguishes: before the upstream timeout, within the grace window,
after it. `Exchange` chooses between the message and the address form, which differ in
which results are kept and in how a race without an answer is judged. Go's select is a
choice among the branches that are ready, so these are different actions.

**DNSClient.** A channel in `cacheLock` is named by the request that made it; `closed` are
the closed ones. `Finish` is a return from `Exchange` with the deferred function. A
request that is woken does not take the lock: it looks into the cache and, on a miss,
queries without holding anything, as in the code. `parent` is the request whose transport
issues this one while it dials; its context derives from the parent's. An answer
carries what it was asked for, so that isolation can be stated. `LookupHit` is
`lookupToExchange`'s look into the cache before `Exchange`. The RDRC is the set of rejected
pairs; the asynchronous save is visible at once in the code (`saveRDRC`), hence in one
step here.

**LoadBalance.** A call is one run of the loop of `DialContext` or `ListenPacket`. `Scan`
reads the records one outbound at a time, since checks and other calls write between two
reads. `DialFails` joins the deletion of the record, the deletion of the sticky entry, the
change of the local `excluded` and the start of the goroutine: of these only the first two are
shared, they are in different maps, and no property relates them. `urlTest` is entered
under `checking` and its results are written one by one. `restored` is a history variable
for stating what a check did during a call; no guard reads it. `rrCounter` is kept modulo `RRModulus`, a
multiple of every number of candidates, so that every index is the code's. `Rank` stands for the order of the hash values
of `rendezvousPick`. `lastSelected`, which only `Now()` reads, is left out, and
members are not groups themselves, so `RealTag` is the member's tag.

**DNSRouter.** One query at a time is taken through its rules. `NextRule` is `matchDNS`: the next rule that matches and
returns, 0 for the default server. A race is one step with the results the racers can have: `ServerAnswers`, `CacheAnswers` (a cached answer
is not checked again, `client.go:249`), `RaceFails`. An answer is a class: `fake`, `in` or `out` of the address limit, `negative`, `predefined`.
`caching` are the servers whose queries use the global cache, after `router.go:435-444`. Rules whose conditions are not looked at because an earlier rule ends
the query anyway are not enumerated. `pollution` and `skipped` are history.

**FakeIP.** Addresses are numbers; `Create` is four steps (`CreateLoads`, `CreateReads`, `CreateWrites`, `CreateStores`), because callers share
`inet4Current` and `inet6Current` without a lock. A record is in `saveDomain`/`saveAddress` until its goroutine (`writer`) has written it; `timer` is the
metadata timer with the metadata its function captured. `Exit` is an orderly end or a crash, at any point; `Start` reads, and so deletes, the metadata.
`FakeIPReset` changes nothing when a bucket does not exist, as the transaction is rolled back. `order`, `given`, `lost`, `excuses` are history.

**Router.** A connection goes rule by rule (`rule`). The payload is a sequence of numbers, so that order, loss and duplication can be stated: `buffers`
is what sniffing has taken and will be put back, `Delivered` the buffers in the order the outbound will read them (each is put in front of the one before, but packets for hijack-dns are passed as they are). What the sniffers say is chosen freely. Connections and store
share only the look-up at arrival and rules do not read the store again, so store and rules take turns; so do store and DNS router, which read nothing of each other.

**InterruptGroup, OutboundGroup.** A call is one of `DialContext`/`ListenPacket`; between the successful dial and `NewConn` it is in no list, and storing the
selection, interrupting and registering are separate steps. A check writes results one by one and then goes through `performUpdateCheck` for TCP and
UDP: select, load, store, interrupt. `Plus` is the uint16 sum of `urltest.go:298`. `overtaken` and `batch` are history: they name exactly the connections and file contents
for which the code gives no guarantee.

**ConnectionManager.** `copier` holds the two goroutines: in a read, in a write (which may wait for ever for a peer that takes no data), at the swap of `done` (after an early failure: `earlySwap`, which closes both sides either way), at
`onClose`, closing, done. `called` counts the calls of `onClose`. A connection of the old entry points that routing refuses is `refused` (a stream, which `RouteConnection`'s caller closes)
or `waiting` (a packet connection, closed, for whose `onClose` `RoutePacketConnection` waits until the program's context ends). Connections that routing ends itself (hijack-dns) or gives to another inbound (a detour) are
not in the module: what they read and how they end is in `hijackDNSStream`, `hijackDNSPacket` and the other inbound. `Forget` frees the model's slot for another connection and stands for no code.

**HealthChecker, Box.** The time since `lastActive` has three values. `Touch`, `Close` and the end of the loop hold the lock and are one step; the loop's look at
`lastActive` before it takes the lock is a step of its own. `Box` goes through `StartSteps` (stages in the order of `preStart` and `start`; components that the model
does not tell apart are `rest`), any of which may fail, and through `CloseSteps`. Endpoints stand at the end of the outbound manager's list and are started with it (`manager.go:79`); an endpoint may accept connections
(`serving`) from its start, or from its post-start when a WireGuard peer has a domain name. Traffic goes on from then on, and that of inbounds as soon as they listen. A dial of the group before its `Start`
dereferences nil (`DialPanics`) and the program is gone. `ready` are the outbounds whose `Start` has returned, `up` those that `startOutbounds` counts as started.

## 3. Runs

| Run | Checks | Bounds |
|---|---|---|
| `hedged` | inductive invariant, fallback and grace timing, unanimity, return, no leak, refinement | 2 primaries, 1 fallback, every kind of result, address limit |
| `plain` | return for lookups without fallback | 2 servers, neither of which need ever answer |
| `deaf` | finding: a race with a silent TCP or TLS primary does not return | 1 primary, 1 fallback |
| `client_global` | inductive invariant, locks, isolation, every request returns | 3 requests, 2 servers, 2 subnets, nested ones included |
| `client_independent` | isolation with `independent_cache` | 3 requests, 2 servers, 2 subnets |
| `client_loopback` | finding: the loopback check comes after the wait | as above, one looping call |
| `balance` | inductive invariant, records, no redial of a failed outbound, early give-up, return | 2 outbounds that support TCP and not UDP, 2 calls, a TCP and a UDP key, the three strategies |
| `balance_retry` | finding: an outbound is never tried | 1 call, round robin |
| `groups` | inductive invariant, interruption of stale connections, fallback's list, urltest's tolerance, stored selection | 2 outbounds in two network cases, 2 connections (one an inbound's, option off), 1 check, 2 callers of SelectOutbound, 2 delays |
| `groups_interrupt` | finding: a connection stays on a deselected outbound | fallback, the same, option on |
| `box` | inductive invariant, start order, onClose, leftovers, loop and connections end, checks go on | 1 connection slot used again and again, 2 loops, a group, an outbound and an endpoint: listed in order, with a dependency on the endpoint, circular, dangling |
| `router` | inductive invariant, FakeIP records, reuse, range; DNS rules and cache; sniffed data | 2 domains, 2 callers, 2 writers, ranges of 2, 1 and no usable addresses, both storages, `MaxAllocations = 3`, `MaxStarts = 3`; 7 DNS rules and 3 servers; 7 route rules, `MaxPayload = 2`, `MaxArrival = 1` |

The theorems `Refinement` and `LocksReleased` cover `plain` and `client_independent` as well, so that these runs check only what is particular to them.

Why the bounds are enough to be interesting. Two primaries and a fallback are the least in which
answers of both classes arrive in each order, one of them after the return. Three requests are the
least in which one holds a lock, one waits for it and a third arrives after the release while the
woken one queries without a lock; with nesting, one of them is the other's child. Two calls and a check are the least in which a
call's exclusion, another call's sticky entry and a check's record refer to the same outbound. `MaxChecks = 1` bounds the check
goroutines that have been started and not yet scheduled: a second one finds `checking` set and does nothing, or comes after the first.
`NestingBound = 1` (in `Arrives`) stops a nested query from nesting again: what it would add is a longer chain of the same waits.
Two connections and a check are the least in which one call's change falls between another's dial and its registration; two callers of SelectOutbound the least whose stores
cross. Two loops of a health check are what a second one next to the first needs; a third identity would only be reused. Three allocations over two addresses go once around the
range, and three starts put a restart after a restart, so that a metadata save, a crash, and a changed range all happen with records in the file.
Two sniff actions with two payload units are the least that can reverse or double data. Connections arrive while at most `MaxArrival` addresses were allocated, in the first start, with
no `Create` under way: what the rules do with a domain does not depend on how many there are.
Only `router` uses symmetry (domains, callers, writers), and it checks no liveness.

`CHECK_DEADLOCK FALSE` is set because races, requests, calls and the program end: a state in which all are done is the
normal end.

Every property of every passing run has a mutant in `PROJECT.json`: a definition that the
property's violation would need, changed as a plausible error would change it (a dropped second look at the
context, a send without alternative, a key that forgets the subnet, a sticky entry that is not compared with the candidates, inbounds started before outbounds,
a pass that starts no outbound taken for the last one, a FakeIP server that does not disable the cache...).

**Fairness.** `DNSRacer`: time passes, and the Go scheduler runs goroutines that can run. A query
is assumed to end unless its goroutine is in `Deaf`: `client.Exchange` sets a timeout when
the context has none, and UDP, HTTPS and QUIC transports watch it. TCP and TLS transports do not once the query is
written, so they are `Deaf`; `plain` holds even when all are, `deaf` shows what happens in the hedged form. The
caller is never obliged to cancel. `DNSClient`: requests take their steps and the deadline of a request that exchanges
passes; nothing is assumed of a waiting request's own context, nor of new requests. `LoadBalance`: a call goes on
(a dial ends one way or the other) and a check goroutine is eventually scheduled; nothing is assumed of outcomes or of a check's progress. `OutboundGroup`: goroutines
past their dials and tests go on, since only memory, a mutex and the local database are between them and their end; dials, tests and users owe nothing. `Box`: Close goes through its
list; a goroutine that is in a read of a closed connection, or in a write to one (`Woken`), returns from it and unwinds; the loop runs, and its select, which finds the closed channel again and again, takes it some time
(strong fairness: Go chooses among ready branches at random). Peers, dials and uses of the group owe nothing: a read may wait for ever, and a write to a peer that takes no data does not notice that its source was closed.

## 4. What the runs found

* **A silent stream server outlives the deadline** (`deaf`). README.md:149 calls
  `upstream_timeout_ms + fallback_grace_ms` the final deadline of the primary queries; `tls.go:115` and
  `tcp.go:65` do not end a query then, and the hedged collector waits for it.
* **The loopback check comes too late** (`client_loopback`). `client.go:258` refuses queries
  that come back to their transport, but a nested query for its parent's question waits at `client.go:222`
  for the parent first, until the deadline.
* **A recovery hides untried outbounds** (`balance_retry`). `load_balance.go:288` prefers outbounds with a record
  before the failed ones are filtered out (204). If the check started by the failure restores the failed outbound's record first,
  the list is empty and the call fails although another outbound was never dialled; README.md:485 promises the switch.
  `GivesUpOnlyOnRecovery` shows that this is the only way to give up early.
* **A connection survives the change of the selection** (`groups_interrupt`). `fallback.go:215-216` stores and then registers; `fallback.go:280-285` stores without an interrupt
  when it had loaded no outbound. README.md:520 promises the interruption. `StaleMembersAreDue` shows that these are the only ways, for all three groups.

The exceptions that the passing properties name are behaviours of the code as well:

* `OnCloseOnce`: nobody hears of the end of a packet connection whose handshake cannot be reported (`conn.go:203`), nor is `onClose` called for a connection of the old entry points that routing refuses: a stream comes back with the error
  (`route.go:39`), for a packet connection `RoutePacketConnection` waits until the program ends (`route.go:161`).
* `DialMeetsGroup`: endpoints are started among the outbounds (`manager.go:79`) and accept at once. If an outbound is listed before what it depends on, or depends on an endpoint, it is started in a later pass; a connection of an endpoint that
  routing sends to such a group in between meets `s.group == nil` (`fallback.go:102`) and ends the program. With a list in order this cannot happen, nor with a connection of an inbound.
* `ClosedConnectionEnds`: `ConnectionManager.Close` closes the inbounds' sides only (`conn.go:51`); a half-closed stream lingers, so does a goroutine in a write to a peer that takes no data (`conn.go:270`, `310`, `359`, `367`), and a handler under
  way enters the list after it was emptied.
* `LoopEndsAfterClose`: a group closed before its first use can be started by a connection still under way, and that loop never ends (`healthcheck.go:111`).
* `UseKeepsChecking`: a use between the loop's look at `lastActive` and its end is lost (`healthcheck.go:131`).
* `NoEarlyReuse`, `AddressMapsBack`: two concurrent calls of `Create` can get one address (`store.go:85`); the metadata timer writes the position of its first call (`cachefile/fakeip.go:63`); a domain is given its old address while
  that is being written for another one.
* `WithinRange`: a cache file that never had an IPv6 record cannot be reset (`cachefile/fakeip.go:182`), so that addresses outside a changed range stay; and a range of one or two addresses does not hold its own first one, which is answered all the same (`store.go:48`).
* `ReplayedWhole`: nothing is lost, but a stream of which two sniff actions kept a part is replayed last part first (`route.go:134`), packets are replayed last one first (`route.go:244`), and packets that a second action finds incomplete are doubled (`route.go:461`, `611`).
* `FirstRuleAnswers`: a lookup that ends at a predefined answer after a rejected rule returns addresses with the old error (`router.go:562`); `Lookup` goes on after any error, `Exchange` only after a rejection.
* `AnswerAllowed`: a query that names the FakeIP server itself caches fake answers; cached answers bypass an address limit.
* `DialSucceeds` of `OutboundGroup`: a selector hands inbound connections on (`selector.go:157`), so that they are never in its interrupt group.

## 5. Proofs

All theorems hold for every value of the constants that satisfies the `ASSUME` of the module
(finite sets of servers, distinct names, Boolean options, distinct positions and hash values, ranges of consecutive addresses whose
first one exists, a positive tolerance and counter modulus). Every invariant that a run checks is also a theorem: the run shows the inductive
invariant on a small instance, where a wrong strengthening is found quickly, the proof for all of them.

* **DNSRacerProofs.** `Invariant`: `IInv` is inductive. The properties are not inductive alone:
  unanimity needs that `allRejected` and `allRejectedOnly` summarise the results received (`CollectorInv`) and that the loop counter is
  the number of goroutines received from (`GoroutineInv`, with the cardinality theorems), so that
  `i = total` means everyone; the fallback timing needs that `fallbackStart` opens early only if the race is over or cancelled, and that
  cancellation is permanent (`TimerInv`). `FallbackWaits`, `GraceWindow`, `Unanimity` follow from it. `Refinement`: initial
  states map to initial states, every step to a step of `DNSRace` or a stutter; receiving maps to `Deliver`,
  the end of the context to `Expire`.
* **DNSClientProofs.** `Invariant`: `IInv` adds to locks and isolation that only cacheable requests wait or look into the cache
  (`RequestInv`) and that a stored answer lies under the key it was obtained for, in the
  global cache without a subnet (`EntryInv`). `LocksReleased`, `Isolation`, `TypeCorrect` follow.
* **OrderLemmas.** A set of natural numbers has a least element and, if bounded, a greatest one; a family of subsets of a finite set has a smallest one. The
  proofs below use them where one would use induction: the least index, address or set for which a claim fails leads to a contradiction. So do facts about recursive functions
  (`Pass` of `OutboundGroup`): that a function satisfying the recursion exists, and what its values are, is shown of the least index without.
* **LoadBalanceProofs.** `Invariant`: `IInv` says where a call can be, what it holds there (`LoopInv`), that a round starts from nothing and how records, what
  a scan has seen and exclusions are related. That `selectRoundRobin` and `rendezvousPick` return a candidate for lists of any length is a lemma each, by a smallest list that
  has no outbound in last place, or none at the wanted place. `FailuresRecorded`, `NoRedial` and, as an action property, `EarlyGiveUp` follow.
* **OutboundGroupProofs.** `Invariant`: `CallInv` says that a call between its dial and `NewConn` holds an outbound that is selected or is `overtaken`, and that a fallback call has failed with, still has to
  try, or is dialling, every outbound that supports its network; `CheckInv` that a check about to replace an outbound has made the interrupt due; `SelectorInv` that the selection is
  among the contents the file may end up with. `StaleMembers`, `TriesAll` and `Persisted` follow. `WithinTolerance` is about urltest's loop: the best of the outbounds visited so far is within the
  tolerance of each of them, which is shown of the first round that breaks it.
* **BoxProofs.** `Invariant`: for each connection, `HandlerInv` and `CopyInv` relate the flag `done`, the number of calls of `onClose` and the places of the two goroutines, from
  which `CalledOnce` and `NothingLeft` follow; at most one loop is live and then there is a ticker (`OneLoop`); what is started is closed under dependencies and every part of it has a member that depends on no other of
  that part (`OrderInv`, from which `StartOrder` follows: a pass that starts nothing leaves a set each of whose members depends on another of it or on an outbound that does not exist); inbounds accept only when all outbounds are ready
  (`StageInv`). For `GroupStartedFirst` this does not do, since endpoints accept earlier: `PlaceInv` says that a pass through a list in order leaves no outbound behind, so that the endpoints, which stand at its end, are started after all the others
  are ready, and no connection exists before.
* **FakeIPProofs, RouterProofs.** `FakeIPInductive`: every step of the store keeps `FakeIPIInv`, one lemma per action and in it one step per
  part that the action disturbs. `AddressMapsBack` alone is not inductive: that a goroutine's write or deletion does not take a record away needs
  that a goroutine whose address was not overtaken is the only one for it and writes what was answered (`WriterInv`); that a domain found in
  memory or in the file is answered with an address that loads as that domain needs the agreement of the two directions
  (`RecordsAgree`, with a lemma on what `FakeIPStore` replaces) and a goroutine behind each pending record (`PendingHasWriter`).
  The range needs that saved current addresses belong to the ranges they were saved with (`CurrentInv`), that records and goroutines have addresses of the
  range or its first one (`RangeInv`), and that nothing outlives a process in memory (`StoppedInv`).
  A step of the router is a step of the store or leaves it alone (`RouterStepsStore`, `RouterStepsDNS`); `MapsBack` and `AnswersWithinRange` follow for `RouterSpec`.
  `AllocatedInTurn` needs the order of allocation (`OrderInv`): within a family each allocated address is the one after the one before, and the current address is the last. The addresses allocated between two allocations of the same one are then closed
  under `NextAddress`; their least one has a predecessor among them, so it is the first of the range, and from the first one the rest of the range follows (`WholeTurn`).
  `DNSInductive`: `DNSIInv` says that every rule that applies and lies behind the query was left for a reason (`QueryInv`), that servers of type fakeip are asked through the cache, or for lookups at all, only by a query that names one, and that a cached
  answer that is fake or unchecked was stored by such a query or by a rule without limit (`CacheInv`). `FirstRule` and `AnswersApart` follow. `ConnInductive`: the buffers of a connection hold all that was read and nothing else, those of a stream
  in parts that follow one another, and without a second sniff they are one buffer of a stream, or one of each packet (`PayloadInv`). `PayloadReplayed` follows for every connection, sniffed twice or not, with lemmas on concatenated and reversed lists of parts. `Invariant` joins the four parts in `RouterIInv`.

Only model-checked: liveness (`RaceReturns`, `NoGoroutineLeak`, `RequestReturns`, `CallReturns`, `StaleMembersLeave`, `ClosedConnectionEnds`, `LoopEndsAfterClose`, `UseKeepsChecking`), which needs
fairness and ENABLED, out of this prover's reach; and the findings, which are counterexamples.

## 6. Plan

Done: `DNSRace`, `DNSRacer`, `DNSClient`, `LoadBalance`, `FakeIP`, `InterruptGroup`, `OutboundGroup`, `HealthChecker`, `ConnectionManager`, `Box`, `DNSRouter`, `Router`, all of them with the invariants of their runs proved.

Worth doing next: what a step may never do, stated and proved as action properties (a verdict, an end and a refusal are final); the safety half of the liveness properties (while
a goroutine has not ended, one of its steps is possible) where it can be said without ENABLED.

Modules to write next: the UDP transport (identifiers, callback table, the shared connection), remote rule sets, RDRC's delayed save.

## 7. Not modelled

Proxy protocols and transports are adapters over libraries outside the repository. Parsing of sniffed protocols, TLS, options, logging,
commands, the Clash and V2Ray APIs and libbox are I/O, parsing or front ends. The network manager follows the operating
system. Single rule items are stateless predicates. TTL arithmetic and the rewriting of records are abstracted to
"stored or not" and "expires". Of the managers, `Remove` and `Create` after the start are left out, because nothing in the program calls them.
DNS transports other than FakeIP appear by their results. Of the connections, those that hijack-dns answers and those that a detour gives to another inbound are taken no further than the rules (`Router`).

Most of the repository's lines are such code: protocol adapters, option types, platform files, generated code, a certificate list. They keep no state
of the program's own whose changes could be interleaved or fail half way, and a model of them would be a
transliteration. The modules cover the packages that do: `dns`, `route`, `protocol/group`, `common/interrupt`, the managers and the box.
The hazards that no property covers are listed in `PROJECT.json` with a note, and so are those that the code does not prevent and a property names as its exception.
