# dep2p, modelled in TLA+

This directory holds the formal model of dep2p: TLA+ modules translated from
the Go code, the TLC configurations that check them on small instances, and
theorems about them checked by TLAPS. Paths below are relative to `src/`.

To check a run: `tlc -config RoutingTable.cfg MCRoutingTable`. To check
the proofs: `tlapm RoutingTableProofs.tla`.

`PROJECT.json` lists the components, the runs, for every definition the lines
it translates (`map`), for every property a mutant of the code that breaks it
(`mutants`), the hazards of the code and the properties that guard against
them, and the theorems.

## 1. Inventory

dep2p is a Kademlia DHT node (a descendant of go-libp2p-kad-dht) with a layer on
top of it that dials and supervises peers, keeps one routing table per node
mode, and offers request streams and topic subscriptions.

| Component | Source | State | Operations |
|---|---|---|---|
| Routing table | `kbucket/table.go`, `bucket.go` | buckets, per-peer record (replaceable, last query times) | TryAddPeer, RemovePeer, UsefulNewPeer, NearestPeers, counts per prefix length |
| Diversity filter | `kbucket/peerdiversity/filter.go` | groups per peer, whitelist; the group counters of the application | TryAdd, Remove, WhitelistPeers |
| Lookup | `query.go`, `qpeerset/qpeerset.go`, `lookup.go` | state of each peer learned, queries in flight, follow-ups | runLookupWithFollowup |
| Message sender | `internal/net/message_manager.go`, `internal/ctx_mutex.go` | a sender per peer with one stream, its mutex, retry counter | SendRequest, SendMessage, OnDisconnect |
| Table maintenance | `dht.go`, `dht_bootstrap.go` | channels between goroutines, number of probes left, refreshes seen | rtPeerLoop, peerFound, fixLowPeers, validPeerFound |
| Refresh manager | `rtrefresh/rt_refresh_manager.go`, `kbucket/table_refresh.go` | time of last refresh per prefix length, request channel | Refresh, RefreshNoWait, loop, doRefresh, pingAndEvictPeers |
| Network subscriber, mode | `subscriber_notifee.go`, `dht.go`, `dht_net.go`, `handlers.go` | client or server mode, stream handlers, open inbound streams | setMode, handleNewStream, event handlers |
| Provider records | `providers/` | cache, datastore, garbage collection in progress | AddProvider, GetProviders, run |
| Content routing | `routing.go` | set of providers seen by one search | Provide, FindProvidersAsync |
| Connection supervisor | `connSupervisor.go`, `discover.go`, `host.go` | connection table, one routing table per mode, one mutex | AddConn, try, RoutingTable, handshakes |
| Topics | `pubsub/pubsub.go` | topics joined and subscribed, loop per topic | Subscribe, Cancel, Publish |
| Network size | `netsize/netsize.go` | measurements per rank, cached estimate | Track, NetworkSize |
| Lookup events | `events.go` | a channel and its mutex | register, send, close |
| Keyspace, answers | `kbucket/sorting.go`, `util.go`, `keyspace/`, `table.go`, `table_refresh.go`, `handlers.go` | none | XOR distance, common prefix length, NearestPeers, the answer to FIND_NODE, keys that refresh a bucket |
| Request streams | `streams/` | a goroutine per stream, the buffer pool, protected peers | ReadStream, the wrapped handlers, CloseStream |
| Ping | `ping/ping.go` | two goroutines at each end of a stream | Ping, PingHandler |

How they interact:

- A **lookup** starts from the routing table's nearest peers and asks each peer
  through the **message sender**. A peer that fails is reported to the table
  (`peerStoppedDHT`), one that answers may be added to it (`peerFound`,
  `validPeerFound`).
- The **subscriber** feeds connections, protocol changes and reachability into
  the table, the message sender (`OnDisconnect`) and the mode.
- **rtPeerLoop** is the only goroutine that adds peers to the table; it learns
  from the **refresh manager**, over `refreshFinishedCh`, when a refresh is
  done. The refresh manager runs lookups and pings, and evicts peers.
- The routing table calls back into the connection manager (`PeerAdded`,
  `PeerRemoved`) and into the **diversity filter**, both under `tabLock`.
- **Content routing** runs on lookups and on the provider manager.

What makes this code hard, and the property that makes each part correct:

- *Routing table.* Sequential (one mutex) but with a lazy layout: the last
  bucket is unfolded on demand and empty buckets at the end are folded, so a
  peer's place changes with other peers. Correct if the layout is invisible: a
  peer is refused or replaced only as the number of peers with its own prefix
  length dictates, and everything that shadows the table (filter records,
  connection protections) follows it.
- *Lookup.* One loop, many goroutines, cancellation at every point, a bounded
  channel nobody reads after the end. Correct if it bounds its queries, always
  returns, leaves nothing behind, blames no peer for its own cancellation, and
  claims completeness only of what it did.
- *Message sender.* Calls share a stream whose answers carry no identity,
  with retries, timeouts and disconnections. Correct if each call gets its own
  answer, is handled at most twice (perhaps after it is over), and no stream or mutex is left behind.
- *Maintenance and refresh.* Goroutines joined by unbuffered channels, signals
  that are dropped when the other side is busy. Correct if nobody waits for
  ever, requests are answered, and the table is eventually frozen.
- *Providers.* Collection interleaved with additions over a cache and a store,
  each step of which may fail.
- *Searching the table.* `NearestPeers` looks into some buckets only. Correct if it
  answers as if it had looked into all, however they happen to be unfolded.
- *Provider search.* The goroutines of a lookup write to a channel that the routine
  closes, until there are enough. Correct if nobody writes after the close, nothing is
  sent twice or in excess, and the search ends though its caller stops receiving.
- *Announcing.* A lookup with a part of the caller's time, then records with the rest.
  Correct if the outcome tells what happened.
- *Mode.* A switch races with streams that began before it. Correct if client mode
  serves none in the end, and the mode is that of the last event.
- *Node tables.* Three kinds of goroutines create and fill the same tables, and the map is read and written under
  different locks or none. Correct if a connected peer is in
  the table of its mode, and a table once made stays.
- *Topics.* Two locks, loops that outlive their subscription. Correct if what a
  subscription has received is handled.
- *Lookup events.* A send holds a mutex while the channel is full. Correct if the
  channel is closed all the same, and never under a sender.
- *Request streams, ping.* Goroutines that wait for a peer that may stall. Correct if
  each ends, and the handler gets its own stream's message.
- *Size estimate.* A cache read without the lock. Correct if an estimate rests on
  every lookup that was tracked before the caller asked.

## 2. Modules

| Module | What it is |
|---|---|
| `KBucketLayout` | Operators on a sequence of buckets: where a peer belongs, pushing, unfolding (`nextBucket`, `split`), removing and folding (`removePeer`) |
| `DiversityFilter` | The filter's variables and steps, used by the table |
| `RoutingTable` | The table: the two above and the connection manager's callbacks |
| `KBuckets` | Abstract: what the table promises, without buckets |
| `Lookup` | One lookup: loop, query goroutines, follow-ups, caller |
| `LookupProofs` | Theorems about the lookup |
| `MessageSender` | All calls to one remote peer |
| `Rpc` | Abstract: what the callers of the message sender may rely on |
| `MessageSenderProofs` | Theorems about the message sender |
| `RefreshCycle` | Abstract: what the rest of the node may rely on from the refresh manager |
| `RtRefresh` | The refresh manager: requests, batching, pings, `doRefresh` |
| `RtRefreshProofs` | Theorems about the refresh manager |
| `RtMaintenance` | rtPeerLoop, the loop that fixes low peers, probes, the subscriber and `Close`, over `RefreshCycle` |
| `RtMaintenanceProofs` | Theorems about the maintenance of the table |
| `ProviderManager` | The provider manager's goroutine over its cache and the datastore |
| `ProviderManagerProofs` | Theorems about the provider manager |
| `FindNode` | EXTENDS `RoutingTable` with what is asked of it: nearest peers, answers, refresh keys |
| `RoutingTableProofs` | Theorems about the layout, the table and what is asked of it |
| `FindProviders` | One provider search, composed with the `Lookup` it runs |
| `FindProvidersProofs` | Theorems about the search, which use those about the lookup |
| `Provide` | One announcement |
| `ModeSwitch` | The mode, the event loop that sets it, the inbound streams |
| `NodeTables` | The tables per mode, discovery, handshakes, `RoutingTable(mode)` |
| `PubSub` | The subscriptions of a topic and their loops |
| `LookupEvents` | A registered event channel, its senders and its closing |
| `Streams` | Inbound request streams, the buffer pool, protected peers |
| `Ping` | Both ends of a ping stream |
| `Netsize` | The measurements, the cached estimate and its callers |
| `Services` | The eight components from `Provide` on, side by side; see section 3 |
| `ServicesProofs` | Theorems about them |
| `MC...` | Constants for TLC |

Names ending in a suffix (`ConnRemoved_KeepsProtection`, `Drained_Early`) are mutants: the
definition with a plausible bug. Nothing uses them but the mutant runs.

### RoutingTable

`buckets` is `rt.buckets`, indexed from 0 as in the code; a bucket is the set
of its peers. The list order of a bucket only decides which of several
replaceable peers is replaced, and that is left open. A peer's record is the
membership in `replaceable` and in `stale` (last successful query older than
the threshold). `LastUsefulAt` is left out: `addPeer`,
`UpdateLastUsefulAt` and the subscribers write it and nothing reads it.
`protected` and `tagged` are the connection manager's view, changed by the
callbacks of `makeRoutingTable` in `dht.go`.

Every operation takes `tabLock` for its whole length, so each is one action.
`TryAddPeer` has one action per way `addPeer` ends: known, refused by latency
or filter, added with room (after unfolding or not), added in place of another,
turned away for capacity. The last one keeps the unfolding it caused and takes
the filter's record back, as the code does.

The filter sees a peer's addresses only through how many fall in each group.
The addresses are a parameter of each step, since a peer may advertise
different ones each time. The application's group filter is external:
it admits an address while its group's counter is below a limit.

### Lookup

`st` is the query peer set, owned by the loop. `step[p]` is where the
goroutine that asks `p` is. The update channel is the set of peers at
`"sent"`, of which there are at most `Alpha`; its order is left open, because
the goroutines send in any order. One iteration of the loop (apply an
update, test for termination, spawn) touches only what the loop owns, so it is
one action. The select of the loop may take the cancelled context although an
update is ready; so may the one of the follow-ups. `stopFn` is asked several
times and may change its mind (it does: the provider search's stop function
depends on what was found meanwhile), so `stop` toggles freely.

`updateState` panics on a report from a peer that is not waited for;
`UpdatesExpected` says that this does not happen.

`asked`, `failed` and `evicted` record what happened outside the lookup and
exist for the properties. `failed` is a fact of the environment: a query may
come back with an error because the peer failed or because its context was
cancelled, and only the first enters `failed`.

### MessageSender

One remote peer and all calls to it. `strmap` is the map's entry for the peer.
A sender is named after the call that created it. Its mutex is `lk`, its
stream `open` with the queues `out` (written, not handled) and `in` (answers
not read). `stray` counts, per call, the copies that were written to a stream which was closed or reset since: they may
reach the remote at any time, or never (`ServeStray` need not happen). A reset loses only the answers.
A write that fails may have gone out (`Broken`). The steps of a call between two blocking points are one
action; a call holds the mutex from `LockForSend` to its end, so finer steps
would be invisible to the others. Opening, writing and reading may fail at any
time. `OnDisconnect` is split where the code starts a goroutine: the map entry
goes at once, the invalidation follows when it gets the mutex (`Invalidate`), unless `dht.ctx`, with which
`OnDisconnect` is called, ends while it waits (`Abandon`); `ctxDone` is the end of that context.

In the code answers carry no identity. In the model they carry the call they
answer, so that `OwnAnswer` can speak of it; no action reads it.

### RtRefresh

`rstep` is where the manager's goroutine is: waiting in the select of `loop`
(`"idle"`), collecting a batch, pinging, in one of the steps of `doRefresh`, at the
send to `refreshDoneCh` (`"signal"`), or answering. `Accept`
serves both selects of `loop`. `force` joins the batch as `forced = forced ||
...` does. A request is a goroutine of its own, which may give up at two places
(`asked`, `sending`) when the context is cancelled.

`doRefresh` is followed cpl by cpl: `upto` is what
`GetTrackedCplsForRefresh` returned, `cur` the loop variable, `gap` the cpl
at which no peer was found, from which on `rfnc` is called up to `LastCpl`.
`Rfnc(done, error)` is that closure with its two continuations. Times are left
out: which cpls are older than the interval is a set chosen when
the table is read (`due`). Between any two steps peers come and go
(`TableChanges`), so a gap may close, or open, behind the loop. A
lookup fails only on an empty table or a cancelled context; one that times
out counts as done, as in `runQuery`.

`Answer` clears what the next refresh overwrites anyway, so that it makes no states.

### RtMaintenance

It EXTENDS `RefreshCycle`: the manager's part of the state is the abstract one,
and `RtRefresh` is shown to implement it. `SignalTaken` belongs to rtPeerLoop
here; `SignalDropped` is the manager's way out when it is closed.

Each goroutine has a variable for its place: `lstep` (rtPeerLoop), `fstep`
(runFixLowPeersLoop), `sstep` (the subscriber), `cstep` (`Close`), `gstep[g]` (a
probe, or a lookup's goroutine that found a peer). An iteration of
rtPeerLoop is one action, as it owns its variables, except that the refresh it
asks for after the first one of a bootstrap is a step of its own (`Kick`).
`addPeerToRTChan` is unbuffered, so `AddPeer(g)` is the step of both sides.
`fixLowPeersChan` holds one signal. `RefreshNoWait` is a select with a default:
it changes the phase only if the manager waits. `timer` is `timerCh # nil`; the timer may
fire at once.

`supports` is what `validRTPeer` would answer, changed by identify and protocol
updates before the subscriber handles the event. `PeerFound` checks it at the
start, and nobody after that: neither the end of the probe (`CheckDone`) nor the answer of a query (`QueryAnswered`) asks again.
The subscriber does nothing when the peerstore fails (`HandlePeerChange`).
`unfixed` records the past for the properties.

### ProviderManager

All state belongs to one goroutine, so each case of the select of `run` is one
action with everything it calls: an addition (`AddProv`), a request
(`GetProviders`, for a key that is not cached; a hit changes nothing but the order in
which the cache gives sets up, and that order is left open), a result of the collection's query
(`GcResult`), its end, the timer, the cancelled context. A record is a pair of a key and a
provider; `Record` may leave pairs out, which only makes instances smaller.

Times appear as what the code asks of them: `expired` are the records older than
`ProvideValidity` by now, `doomed` those that were when the collection began
(`gcTime` is the timer's, a moment earlier). A result still to come (`pending`) holds
the record as it was when the query began or as it was later, since a datastore
may do either: hence the disjuncts of `GcResult`.

Any access to the datastore may fail, at most `MaxFaults` times. The datastore is wrapped in a batch
(go-datastore's autobatch, a library): puts and deletions wait in a buffer, which is flushed when it is full
and before each query. `stored` and `expired` are what a query would find if its flush succeeded, `unflushed` the records whose
last write may still wait. In `FlushFails` the buffer is kept, or it is emptied and any
of its writes may be lost, other callers' among them: such a record is then gone, or in the store as it was before.
`discord` are the records a failure leaves in doubt, until a query of the collection succeeds; `dead` are
those too old when the cache was purged last. Both exist for the properties. `unflushed` is forgotten when no
more operation may fail, which only saves states.

Left out: the peerstore's addresses, the encoding of records (and records that do not parse,
which are deleted like old ones), and the callers, who keep no state: a caller whose
context never ends waits for ever after `Close`, which no property speaks of.

### FindNode

These operations read the table under its lock and leave it as it is, so they are functions of the
table's state and their properties are invariants: every layout the table can reach is a
case. A key is the set of its positions that hold a 1; `Xor` is symmetric difference,
`Less` compares as `bytes.Compare` does. `Collected` is what `NearestPeers` sorts: the bucket the
key belongs in, all those to its right if that is too few, then those to its left
one by one. Sorting and cutting is `Rank(p, C, t) < count`. `Located` are the sets of peers
whose addresses the peerstore may hold when a FIND_NODE is answered.

Of `keyPrefixMap`, a table of 65 536 generated ids, only its purpose is used: the id for a
prefix hashes to a key with that prefix. That each entry does is a fact about SHA-256 which no model shows.

### FindProviders

It instantiates `Lookup` and adds the routine, the shared map `ps` and the caller's channel. `Lookup`
leaves its stop function open; here `stop` is set by each accepted offer. `psTryAdd` and
the send are steps of their own (`Offer`, `Put`), because another goroutine, the end of the
lookup or a cancellation may come between: `CtxDone(g)` is the context of that select, which
differs for the routine, a query and a follow-up. `Reply` is the peer's
answer, `QueryReturns` and `QueryFails` the two ways the query function ends; they are
steps of `Lookup` as well, which `LookupSpec` checks. The channel is what of the history
`out` the caller has not `taken`.

### Provide

The lookup is what it returns. Its context and the caller's are two variables, since the
deadline of the first comes a tenth of the remaining time, or a second, earlier. `put` is where each record is.
The decision which error to return reads `exceeded` and the caller's context, as in `classicProvide`.

### ModeSwitch

The event loop takes one event at a time and holds `modeLk` for a whole switch: `LockFree`
is `switch = "idle"`. A stream passes through the step between the choice of its handler (`"chosen"`)
and the moment it carries its protocol (`"opened"`), during which `moveToClientMode` does not see it; its
goroutine reads the mode under the lock before each message (`CheckMode`).

### NodeTables

`at[g]` is where a goroutine is; discovery, handlers and callers share the steps `Look`, `Renew`,
`Write`, `Finish` and differ in how they begin and in the lock they hold: `tryConnectLock` for discovery, which nobody else
takes and which therefore has no variable; none for handlers; `bp.mu` (`muHeld`, with the read lock around `Check`) for callers of
`RoutingTable`. `Renew` is `renewKbucketRoutingTable`: the table may refuse the peer when it has `BucketSize` peers or more (50 in
the code), which is logged and nothing else, and discovery counts the peer as connected all the same. Which
peers share a bucket is left open, so a full table may take the peer too. `MapRace` is the end of the
program: one goroutine writes the map while another reads or writes it, which the runtime may notice.

The supervisor's rounds (`try`) are not modelled. They run over `peerAddrInfos`, which comes from the option `AddsBook`, and
nothing sets that (`host.go:40`, `:96`, `:367`), so that they change nothing. Read as text, `try` would unlock `tryConnectLock` once per
peer and again when it returns (`connSupervisor.go:171` to `:217`); that is latent at this commit.

### PubSub

One topic; topics share the two locks and the start. `SubscribeBegins` and `SubscribeEnds` are the two sides of the
gap between `topicLock` and `subscribeLock`. A handle is a number, so that a closed and joined
again topic is another one. A loop is the subscription it reads: it takes what was delivered
although the subscription is cancelled, and ends on a message that does not parse. On one that parses but has no `Message`
field, topicSubLoop follows a nil pointer (`pubsub.go:290`) with nothing to recover (`:234`): `Crashed`, after
which nothing moves.
Joining, delivery and buffers are the library's.

### LookupEvents

`send` is `SendLocks`, then `Sends` or `Aborts`, with `mu` held between. `waitThenClose` is one step,
on either side of its wait for the mutex.

### Streams

`kind` is the wrapper of the protocol's handler. `ReadStream` is `HeaderRead` or `HeaderTimeout` (up to
`maxRetries` times, each of which may lose bytes: `cut`), `BodyRead`, and `Release`, the deferred return of the buffer to the pool.
`Handle` parses what the buffer holds then. `CloseStream` leaves a goroutine that waits for the
peer's end, with a timer (`AwaitEOF`).

### Ping

`client` and the goroutine that resets the stream at the end of the context (`Abort`), `server` and the
one that closes it after the idle time or an error (`WatcherCloses`). `wire` holds the one message there is.

### Netsize

Each rank gets one measurement per lookup, so one sequence stands for all. An estimate is known by the measurements it was made
of. `NetworkSize` is the read without the lock, `Compute` the second look under it. `Young` is what is left after
the binary search of `garbageCollect`: `FirstYoung` finds the first sample that is not too old.

## 3. Runs

| Run | Checks | Distinct states |
|---|---|---|
| `table` | connections, `UsefulNewPeer`, the filter's records, counters and limit, refinement of `KBuckets`; nearest peers, answers, refresh keys | 39 964 |
| `lookup` | the bound on queries, who is evicted, what `completed` means, and that it returns | 252 765 |
| `sender_calls` | own answers, invalid senders, with cancellations | 3 485 040 |
| `sender_returns` | refinement of `Rpc`, calls return if writes end; with cancellations and `Close` | 50 442 |
| `refresh` | what a refresh covers, refinement of `RefreshCycle`, requests are answered | 251 716 |
| `maintenance` | freezing; peers are handed over, changes looked at, `Close` returns | 38 172 |
| `providers` | cache against store, what is served; old records go | 848 200 |
| `find_providers` | no write after the close, no provider twice or in excess, the search is a `Lookup`, it ends | 257 988 |
| `services` | the eight components of `Services`, ten properties | 82 410 |
| `find_providers_lost` | *violation*, see findings | |
| `nodes_replaced` | *violation*, see findings | |
| `streams_buffer` | *violation*, see findings | |

`Services` joins eight components that share no state: `part` is chosen at the start, and only the component it
names moves. Its states are the sum of theirs, and each property is checked on the
behaviours of its component, as in a run of its own. The wrappers of the request streams (`ST_kind`) are fixed
while another component moves, so that their choice does not multiply its states. Its `FairSpec` is that of the components.

Bounds, and why they are enough:

- `table`: five peers with prefix lengths 0, 2, 2, 2, 3 and buckets of
  two. Three peers of one length fill a bucket and leave one over; length 1 is
  a gap, so an unfolding passes over a bucket that stays empty; the peer of
  length 3 stays in the last bucket when the others leave it. Keys have five bits, which is also
  `MaxCPL`; prefixes of refresh keys have three (16 in the code), so the peer of length 3 is beyond what is
  refreshed. Searches are for our own key, for a peer's and for nobody's. There are two
  groups of addresses with a limit of three; a peer has one address in each, or
  two in one, so that it is refused for its second address after its first was counted, and
  a replacement may join peers with different addresses. `Located` is one set, of three peers;
  the theorem is for any.
- `lookup`: four peers, `K` 3, `Alpha` 2, `Beta` 1. A peer can be
  learned from an answer while two others are in flight; a result can leave a
  peer out; follow-ups happen for none to three peers. A seed set has at most `K`
  peers, as `NearestPeers` returns.
- `sender_*`: two requests and one message (one and one in `sender_returns`),
  each call made once; three calls are enough for a
  creator, one that finds its sender, and one that comes after a
  disconnection. `ReuseTries` is 0 instead of 3, so that the single-message
  mode is reached after one retry instead of four. `sender_calls`
  uses the symmetry of the two requests, which appear in no
  constant apart from each other and not in a temporal property.
- `refresh`: two requests, one forced, so that a batch mixes them in either
  order and a request can come during another's refresh. One peer shares no prefix,
  one a prefix of 4, and `MaxCpl` is 3 (15 in the code): the tracked range is cut off,
  and a gap at 0 ends the refresh at cpl 2, short of the last one.
- `maintenance`: one peer and one goroutine at a time, `CountCap` 2 (the code asks only
  whether the count is 2 and it never falls but to 0). Liveness over more is
  out of reach; the safety properties are proved for any number of both.
  A threshold of 0 makes both outcomes of `fixLowPeers` happen. Requests are left to `refresh`.

- `providers`: two keys and a cache of one, so that loading one gives up the other; three records, two
  of one key. One failure per behaviour; two failures at different places
  would add nothing that the proofs do not cover.

- `find_providers`: two peers asked at once, with one follow-up or more; two providers, known
  by address or not, and `count` 0 (all) or 2. With two providers a bound of 2 is reached exactly by
  two goroutines at the same time; the channel then has room for both, but not for one that is sent again with its address, and for `count` 0 it has
  room for one only, so that writers block. The violation run has `count` 2 alone.
- `services`: two streams and two reachability events (a switch and one back); two subscriptions of a
  topic joined once and two messages, so that the second meets a loop ended by the first; two lookups and an
  event channel of two; two peers, one mode, two tables at most and room for one peer in each, with each kind of goroutine once: a race
  for a table takes two goroutines and one mode, a refusal two peers; two request streams of one peer that share one
  buffer, and the code's three retries; two pings; two peers to tell of a key; two callers of the
  estimate, an age of 2 in 3 ticks and up to three lookups, so that measurements are dropped both for age and for number.
- `nodes_replaced` needs two of the goroutines, `streams_buffer` two streams.

`CHECK_DEADLOCK FALSE` is set for `Lookup`, `MessageSender`, `ProviderManager`, `FindProviders` and
`MCServices` (and the violation runs of its parts): a lookup or a search ends,
each call, ping and stream is made once, and the manager stops when closed. The runs of the other modules, which run for ever, check
for deadlock.

### Fairness

- `Lookup!FairSpec`: weak fairness of the loop and of each query goroutine.
  The Go runtime schedules them, and a dial or a request ends because both are
  bounded (dial timeout, read timeout of the message sender). A waiting update
  and a cancelled context are both enough for the loop; no preference is
  assumed. Neither cancellation nor the stop function is assumed to happen.
- `MessageSender!FairSpec`: weak fairness of each call that has begun, but for its writes, and of
  each pending invalidation. Opening a stream and reading end at the latest with their timeout
  (`dhtReadMessageTimeout`) or the caller's context. Nothing ends a write: `writeMsg` has no context and no deadline
  (`message_manager.go:282`, `:332`, `:381`), and a remote that does not read may block it, with the mutex held, for as long as the
  stream lives. So no fairness is assumed of writes, and `CallsReturn` says that every call returns *if* no
  write blocks for ever (`WritesEnd`); without that it does not hold, for the writer or for those who wait for its mutex. No document
  of the repository promises it, so this is no finding but a limit of the code. Weak fairness of a call
  waiting for the mutex is enough only because each call is made once, so
  that the mutex is free for good eventually; the code's channel-based mutex
  queues its waiters in order, which is stronger. The remote is not assumed to
  answer, nor a context to be cancelled.

- `RtRefresh!FairSpec`: weak fairness of the manager's goroutine, of each ping
  and of the request goroutines; strong fairness of `Stop`, because a Go
  select that is reached again and again with the cancelled context ready takes it
  some time. Lookups and pings are bounded by their timeouts, and the receiver of `refreshDoneCh`
  is assumed to take the signal. No ticker has to fire.
- `RtMaintenance!FairSpec` is two parts. `LoopsFair` is what `Close` waits for:
  the goroutines are scheduled, a refresh ends, and strong fairness of the exits in
  a select. `HandoverFair` is what probes and changes of the table wait for: strong
  fairness of `AddPeer`, since a Go channel serves its senders in order, and of
  `FixSignalled`. The manager's signal is not assumed to be taken: `SignalDropped` is its own
  way out.

- `ProviderManager!FairSpec`: weak fairness of the collection as a whole (`Collect`): the timer fires,
  the query's results come, and the select takes each of its ready channels some time. Additions, requests
  and the passing of time are not assumed. `ExpiredCollected` exempts a manager whose collection's query has failed (see below).
- `FindProviders!FairSpec`: weak fairness of the routine with the lookup's loop, and of each query goroutine, for the reasons
  given for `Lookup`. The caller need not receive: a search that nobody reads ends when
  cancelled, and `SearchEnds` says so.
- `ModeSwitch!FairSpec`: weak fairness of the event loop only. Streams need not go on.
- `PubSub!FairSpec`: weak fairness of each loop. Messages and cancellations need not come.
- `LookupEvents!FairSpec`: strong fairness of taking the mutex, because Go hands a mutex to a goroutine that has
  waited for a millisecond; weak fairness of the select of `send`. Nobody has to receive.
- `Streams!FairSpec`: weak fairness of the steps that a goroutine takes without its peer (`Runs`), the timeout of the header among
  them. The peer need not send; so a body, which has no deadline, may never come.
- `Ping!FairSpec`: weak fairness of the four goroutines. Nobody has to take the results or end the context.

### Findings

1. `find_providers_lost` / `FoundIsSent`. A query goroutine counts a provider (`psTryAdd`) and then sends
   it in a select with the lookup's context (`routing.go:372`). With enough counted, the stop function ends the lookup, whose
   end cancels that context, and a goroutine that waits for room may drop its provider: the caller gets fewer than `count`
   although enough were found. The doc (`:192`) says that peers are returned over the channel when found.
2. `nodes_replaced` / `TableStays`. The handler of handshakes (`host.go:243` to `:263`) looks a mode's table up, creates it and writes it to
   the map without a lock; discovery does so under `tryConnectLock` (`discover.go:143` to `:159`), `RoutingTable` under `bp.mu`. Both
   may find no table and both write one: the second replaces the first with the peers in it. The comments say of discovery's
   lock that it makes it thread-safe (`discover.go:118`) and of `RoutingTable` that it checks carefully whether the table was created meanwhile (`host.go:314`).
   `InTableUnlessReplaced` shows that, besides a full table, this is the only way in which a connected peer is in no table.
3. `streams_buffer` / `ReadIsOwn`. `ReadStream` (`streams/wrapper.go:78`) gives the buffer of the message it returns back to the
   pool. Another stream's goroutine may read its message into it before the first is parsed, and a handler is
   called with the message of another stream.

Divergences between code and comments that were read from the code, or shown by theorems, and have no run:

- `TryAddPeer`'s doc (`kbucket/table.go:152`) says a full bucket replaces a peer whose last
  successful query is older than the threshold. `addPeer` (`:251`) replaces any peer marked replaceable.
- `query.go:76` says `completed` means the lookup was not ended early by a cancelled context. A lookup cancelled before its first
  iteration has an empty peer set, of which both termination tests hold (`:308`), and is reported as completed.
- `internal/net/message_manager.go:184` removes "the now invalid" sender from the map when
  `prepOrInvalidate` fails; if it failed because the creator's context ended while it waited for the mutex (`:219`), the sender is valid and
  in use, and its stream stays open with nobody knowing of it. Theorem `NothingForgotten` shows that this is the only way until the DHT is
  closed; then an invalidation that waits for the mutex gives up as well (`:69`).
- `rtrefresh/rt_refresh_manager.go:60` says that `refreshDoneCh` is written to after every refresh. One
  that meets a prefix length without peers returns at `:283`, before that, so that on a small table rtPeerLoop may stay in its bootstrap phase.
- The comment at `dht.go:867` says that a peer that stopped supporting the protocol is dead until it
  supports it again. A probe or query that succeeded before is handed to rtPeerLoop afterwards, which adds the peer (`:499`) without asking again.

Behaviour that no document speaks of, that the modules contain, and that the properties exempt:

- When the query of a collection fails, `run` does not reset its timer (`providers/providers_manager.go:206`): there is no collection any more
  (`gc = "stuck"`), and expired records stay, cached ones are served.
- A message on a topic that does not parse ends the topic's loop (`pubsub/pubsub.go:281`) while the topic counts as subscribed; one
  without its `Message` field ends the program (`:290`, with the recover at `:234` commented out). `ReceivedIsHandled` says that nothing else keeps
  a message from its handler.
- The body of a request has no deadline (`streams/wrapper.go:71`): a peer that stops in its middle keeps the goroutine. `StreamEnds` is about all the rest.
- A write to a peer has none either (`internal/net/message_manager.go:381`), see Fairness.
- A node's table may refuse a peer that then counts as connected (`discover.go:194`, `:164`).

Further observations: `Provide` returns nil if every record it sent was refused. The handlers for remote ADD_PROVIDER and
GET_PROVIDERS are commented out (`handlers.go:48`). A sender of a lookup event whose own context has ended
stays behind another one that holds the mutex of a full channel. The estimate of the network size
never expires by age. `NearestPeers` sorts by distance to the target, where its comment says to the local node; a node among the `K` nearest
to its own target gets `K`-1 peers. `GenRandomKey`, `RemoveConn`, the option `AddsBook` and the supervisor's `readySignal` are unused. A handshake
clears the deadline of 8 s before it reads, with `tryConnectLock` held. Discovery's loop does not look at its
context. A failing `NewDeP2P` leaves the supervisor running.

## 4. Proofs

Theorems hold for any finite set of peers and any value of the constants that
satisfies the named assumptions (`LayoutAssumption`, `FilterAssumption`,
`TableAssumption`, `LookupAssumption`, `SenderAssumption`, `ManagerAssumption`,
`RefreshAssumption`, `MaintenanceAssumption`, `ProviderAssumption`, `FindNodeAssumption`, `FindProvidersAssumption`,
`ServicesAssumption`), which TLC
evaluates in the runs.

### The layout (`RoutingTableProofs`)

`Unfolding`, `Pushing`, `Folding` and `Removing` say what each operation does to
any layout that is placed: who is in it, that it stays placed, which bucket has
room afterwards. `FoundWherePlaced` is the reason the code may look in one
bucket only; `SmallestExists` and `LargestOfBounded` stand for the code's loops.

### The table (`RoutingTableProofs`)

The inductive invariant `IInv` joins the type invariant, placement, capacity,
finiteness of the buckets, that the filter's records are empty outside the
table, and that protections and tags are those of the members. Capacity alone
is not inductive: that a pushed bucket stays within bounds needs the room test
to have looked at the bucket the peer is pushed into, which is placement.
`RefusalJustified`, `UsefulMeansAddable`, `NoSilentEviction` (a peer leaves the table only
when asked to, or for one that takes its place) and the refinement
follow from `IInv` and the layout lemmas.

The counters of the diversity filter are sums over all peers, and the theory of sums would need induction over finite
sets. `AccountsKept` does without: `SumFunctionOnSet` is the size of a set, the disjoint union of as many units for each peer as
are counted for it (`SumIsCount`, from a fold over the peers in the order the community module picks them), so that changing one peer's
record changes the sum by the difference (`SumChanges`), by the theorems on cardinalities. One lemma for each of the steps
that touch the filter (`AddAccounted`, `RemoveAccounted`, `ReplaceAccounted`) follows; that the limit holds although all of a
peer's addresses are checked before one of them is counted is `LimitKept`.

### Searching the table (`RoutingTableProofs`)

A key differs from ours for the first time behind its common prefix. So a peer and a target share at least the shorter of the two
prefixes that they share with us, and more than that if both are equal (`PrefixToTarget`); and a longer
common prefix with the target is a smaller distance (`LongerPrefixCloser`). A peer's bucket therefore bounds its distance:
`BucketsCloser` says that what `NearestPeers` looked into is closer than what it left out, `EnoughCollected` that it looked at `count` peers or at
all, and `ClosestAmong` that the closest of such a part are the closest of the whole. `NearestAreClosest`
and `RepliesAreNearest` follow for any keys, targets and layouts. For `RefreshesHit`, a key beside ours shares exactly the bits asked for
(`BesideShares`), `LongestPrefix` ties the last tracked length to the peers, and `PeersWithPrefix` the counts to the placement. Of the table's `IInv`
only the placement of peers in order is used.

### What is left to TLC

Every invariant and every action property of the runs is a theorem, and so are the refinements. What is left to TLC is liveness,
which is out of the prover's reach: `LookupReturns`, `CallsReturn`, `RefreshAnswers`, `PeersHandedOver`,
`ChangeLookedAt`, `ExpiredCollected`, `CloseReturns`, `SearchEnds`, `ModeFollows`, `ReceivedIsHandled`, `ClosedAtTheEnd`,
`StreamEnds` and `PingEnds`. Of `ReceivedIsHandled` and `ClosedAtTheEnd` the conjuncts without `~>` are proved
(`SubscribedIsRead`, `NoEventAfterClose`).

Some properties are proved and in no run: `Placement`, `Capacity`, `FilterForgets`, `RefusalJustified`, `NoSilentEviction`, `SendNeverBlocks`,
`UpdatesExpected`, `NoGoroutineLeft`, `NotContactedAgain`, `InvalidStaysClosed`, `NoForgottenStream`, `ProbesAccounted`, `ChangeNoticed`, `FrozenTable`,
`OnlyExpiredCollected`, and the `TypeOK` of every module with proofs. TLC found them to hold before they were proved; the theorems say more, and the runs
are kept for what has no theorem or refines one.

### The lookup (`LookupProofs`)

`IInv` adds to the type invariant who is where: every goroutine serves a
peer that the loop waits for (`InFlight`), what it found has not been applied
yet (`Fresh`), the follow-ups still counted are those not received
(`FollowingUp`, `ToCome`, `Received`). The bound on queries is needed for the
rest: the update channel has `Alpha` places and every goroutine that still has
to write into it is counted among at most `Alpha` (`Counted`), so that a
goroutine finds room even when the loop is gone. That the closest peers are few
is a pigeonhole argument (`ClosestAreFew`). There is one lemma per action; the
properties about steps (`BoundedQueries` to `ContactedOnce`) follow from `IInv`
and the action taken.

### The message sender (`MessageSenderProofs`)

`OwnAnswer` is not inductive: an answer is read from whatever stream the call
holds. The strengthening says that a mutex is held exactly by the call that
works on the stream (`Locks`); that a request is on a stream only as its last
element, while its call holds the stream and reads, and that an answer is that
of the holder (`Streams`); that the copies of a call under way, stray ones included,
and those handled are no more than were written (`Copies`, which also
gives the bound of two in `Rpc`); and that no sender is referred to before the
call that creates it, and none in the map is being dropped (`Unborn`).
`LockTaken`, `LockKept`, `LockReleased`, `MapKept`, `QuietStep` and `ResetStep`
are shared by the lemmas of the actions. `ImplementsRpc` maps each step of a
call to one of `Rpc` (`CallStep`) and each delivery to `Handle`
(`HandleStep`), which may come after the call is over: `Rpc` promises no more.

`NothingForgotten` assumes `MayCancel = {}`, and needs a second invariant
(`Tracked`): while the DHT is not closed, the sender of a call under way is in the map, or is or will be
invalid. Without the assumption the property fails (see Findings).

### The refresh manager (`RtRefreshProofs`)

What a refresh has looked up at its end says nothing about the way there.
`Progress` gives, for each step of `doRefresh`, how far it is: of the first `n` cpls
(`Covered(n)`) the due ones were looked up, and all of them if the refresh is
forced, with `n` the loop variable or one more. `Remembered` says that a waiting request which forces
the refresh is in `force`, and that nobody waits while the manager is idle.
`EndCovers` identifies the cpls covered at the end with those promised, over the two loops
and their bounds. `ForcedHonoured` and `NothingPassedOver`
follow. `ImplementsCycle` maps each step (`StepMaps`): `AllPinged` is `BeginRefresh` of
those waiting, the steps within a batch or a refresh stutter; that a wake-up
changes no request needs `Remembered`.

### The maintenance of the table (`RtMaintenanceProofs`)

`ProbesAccounted` counts a set, so each of the ways a probe begins and ends is
tied to a change of that set by one (`CheckBegins`, `CheckEnds`, `NoCheck`).
`ChangeNoticed` is inductive. `FrozenTable` needs `Counting`: a bootstrap in progress has
seen no refresh, and the timer is set only from the second one on; that makes a timer of an
earlier bootstrap impossible, which is `NotFrozenEarly`.

### The provider manager (`ProviderManagerProofs`)

`CacheAgrees` is not inductive: a collection deletes records while sets are
cached, which is harmless only because the cache was purged when the collection began. `IInv`
adds that what the collection may still delete was dead at that purge or is in doubt
(`DeletableIsDead`), that the dead that are still stored are too old (`DeadIsOld`), and that the dead are in no
cached set (`DeadNotServed`). `FlushFailsOK` says what a failing flush may do to any record: those that it does not put in doubt
stay as they were, and a dead one that comes back is too old. `RenewedIsKept` follows from the first two for a deletion by a
result, and from the choice of records for one by a load.

### The search for providers (`FindProvidersProofs`)

The search is a lookup whose query goroutines do more: they offer what an answer names to the shared map and send what it accepts.
`SearchIsLookup` maps each step to a step of `Lookup` or to a stutter, which gives `SearchRefinesLookup`, and the search
inherits the inductive invariant of `LookupProofs` for any number of peers: that a lookup that has returned leaves no
goroutine behind is why the channel can be closed. `IInv` adds who may hold a provider (`Placed`: only the routine before its
lookup, or a query goroutine with an answer), and what the map knows of them (`Booked`: whatever was sent or is about to be is in the map, in that form
or with addresses, and no two of these are equal). `AcceptedIsNew` is the step that matters: what `psTryAdd` accepts under the lock is
nowhere yet, although nobody holds the lock while it sends. `ClosedWhenSilent` follows from `Placed`, `NoneTwiceNoneTooMany` from
`Booked` and the count that `psTryAdd` looks at (`StopCounts`); the bound on what was sent is a pigeonhole argument over the providers in the map.

### The components side by side (`ServicesProofs`)

`PartsAreComponents`: a behaviour of `Services` is one of each component, so that an invariant of a component's own `Spec` holds
there. Each component then has an inductive invariant of its own.

- `MSInv` (mode switch): `ClientServesNone` speaks of a completed switch only. While one is under way, every stream whose goroutine has seen
  server mode is reset already or in the snapshot still to be reset; streams that come later find client mode.
- `NTInv` (node tables): `Holding` says what each goroutine carries between its look into the map and the end of its work, whatever
  the others do meanwhile: the table it found is the mode's unless that was written a second time; the table it created has the peer, or is full, before it is written.
  Tables only grow, so one that was full stays so.
  An entry of the map is empty exactly if it was never written, so that overwriting one makes it the second time (`NTWrite`).
- `STInv` (request streams) is the property itself: every way out of being served takes the protection away.
- `PRInv` (announcements): before records go out nobody has been told; then every peer found has been or is being told, and one
  is cut off only when the caller's time is over.
- `NSInv` (size estimate): the measurements are in the order of the lookups tracked, up to the latest, and in the order of time. That
  is why the binary search of `garbageCollect` finds the oldest young one (`YoungFound`), and why a cached estimate, which `Track` drops, covers every lookup.
- `LEInv`, `PSInv` (lookup events, topics): who holds the event channel's mutex; which subscriptions are read by a loop.

The ping service has no invariant that is not part of its liveness.

## 5. Not modelled

Not modelled, because no behaviour of this program is in it:

- Generated code: `pb/dht.pb.go`, `streams/stream.pb.go` and the data of
  `kbucket/bucket_prefixmap.go`, of which the use is modelled.
- `core/`, a copy of libp2p's interface packages: declarations, keys, records and mocks.
- Configuration (`config/`, `internal/config/`, `types.go`, `dht_options.go` and the other options): values built before anything
  runs, which appear as CONSTANTS. Metrics, tracing, logging and utilities: no state that another part reads.
- Wire messages (`pb/message.go`, most of `pb/protocol_messenger.go`): stateless conversions.

These make up more than four fifths of the lines that are not mapped, which is why the map covers a little more than a fifth
of all lines, but three fifths of those in the files it names (comments and declarations included).

Left out of modelled parts:

- `streams/`: framing and the table of status codes; `wrapper.go` also holds long commented-out code.
- The diversity filter's conversion of an address to a group, and addresses in the peerstore.
- `Advertise` and `FindPeers`, which pass calls on, and their options.
- The regression of the network size: floating-point arithmetic over hashes.
- The supervisor's rounds, which have no peers, `RemoveConn` and host information.
- The gossip protocol, protocol negotiation, connection manager and datastore: libraries, present as environment.

Where the work could go on: `RtMaintenance` composed with `RoutingTable` rather than with sets of peers, so that eviction
and probing meet a real table; several topics and several table maps that share their locks.
