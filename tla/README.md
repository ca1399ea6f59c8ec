# mdns-topoviz: a TLA+ model of the observer

mdns-topoviz listens to multicast DNS on every interface, keeps a registry of
the DNS-SD instances and hosts it hears of, and shows it to a browser as a live
graph. This directory holds TLA+ specifications of that program, TLC
configurations that check them on small instances, and TLAPS proofs of the
properties that matter most. All paths below are relative to `src/`.

## 1. Inventory

| Part | Source | State | Operations | What is hard | What makes it correct |
| --- | --- | --- | --- | --- | --- |
| Listeners | `internal/listener/listener.go` | one goroutine and socket per interface and family, `stop` channel | read loop with a 750 ms deadline, start, shutdown | a read error ends a goroutine for good; shutdown waits for goroutines that may be blocked | what is read is handled; shutdown ends |
| Discovery engine | `internal/discovery/engine.go` | `seenTypes` | `HandleDNS`, `applyRR` and its branches | runs in all listener goroutines at once; takes the time before any lock; several lock acquisitions per packet | an event a client can see is in the graph; lifetimes are those that were announced; nothing is lost of what is kept |
| Registry | `internal/model/graph.go` | `services`, `hosts` | `UpsertService`, `MarkHost`, `Snapshot` | shared by listeners and HTTP handlers; grows only; a snapshot shares the TXT maps | consistent records; derived states age in one direction |
| Event history | `internal/model/events.go` | ring buffer | `Add`, `Snapshot` | wrap-around, capacity 1 and below | it is the FIFO of the newest events |
| Hub, stream handler | `internal/api/hub.go`, `server.go` | set of connections | `Add`, `Remove`, `Publish`, reader goroutine | blocking writes with the mutex held; clients that join, fail, stall and leave while others publish | each subscriber gets each event once, in order, without a gap; publishers move on |
| REST handlers | `internal/api/server.go` | none | graph, events, health | encode, without a lock, what other goroutines write | answers reflect one moment |
| Host enrichment | `internal/hostenrich` | ARP cache with a TTL | `Apply` before and after merging | the cache may change between the two | an address, a MAC and an instance are at one host |
| Duplicate-host merging | `internal/graphmerge/merge.go` | none (pure) | `MergeDuplicateHosts` | union-find over two relations, canonical name, remapping | merged hosts are the connected components; no edge loses its end |
| Querier | `internal/discovery/querier.go` | ticker | meta query, browse of seen types | interval 0, blocking exchange | types seen are browsed |
| Process | `cmd/mdns-topoviz/main.go` | – | start, shutdown in deferred order | a listener blocked in `Publish` at shutdown | the process ends |
| Configuration | `internal/config/config.go` | – | flags, environment | values nobody validates | – |
| Web client: graph | `web/src/App.tsx`, `main.tsx` | graph, WebSocket, timers, Cytoscape and the refs about it, filters, selection | reload on events and every 12 s, drawing by differences, layout, ripples, set-up and clean-up | requests that overlap; a set-up that is cancelled while it waits for an import; refs that outlive Cytoscape; what is drawn stems from any earlier graph | the screen shows the graph last applied, filtered and laid out, and in the end the last one of the server |
| Web client: events | `web/src/App.tsx` | list of events, counts by bucket of time, clock on the screen | add an event, prune, draw the bars, filter the list to a device | three clocks that differ; two rules about which events concern a device | bars are exact, buckets are bounded, what pulses is listed |
| Assets, labels, build | `internal/webui`, `serviceTypeLabels.ts`, scripts | – | – | – | – |

Packets flow `listener -> HandleDNS -> Registry` (one lock per record), then
`-> Ring.Add -> Hub.Publish -> WebSocket`. A client loads `GET /api/v1/graph`
once, again some time after each event, and every 12 seconds.

## 2. Modules

| Module | What it is |
| --- | --- |
| `EventLog` | abstract: the history of the newest `Cap` events |
| `EventRing` | the ring buffer; implements `EventLog` |
| `ServiceRecord` | pure: what one record does to one instance, and the derived state |
| `Discovery` | the engine in all listener goroutines, registry, history, stream |
| `EventStream` | abstract: what a subscriber of the stream receives |
| `HubFanout` | hub, stream handler, publishers and clients; implements `EventStream` |
| `Lifecycle` | start, signals and shutdown of the process, its listeners and the querier |
| `GraphRequest` | one `GET /api/v1/graph`: snapshot, enrichment, merging, enrichment again |
| `TxtMap` | the encoding of an answer while `applyTXT` writes a map it refers to |
| `GraphElements` | pure: what a tab makes of a graph: elements, their merging, filters, the nodes an event is about, the card of a node |
| `WebClient` | a browser tab: requests, timers, stream, Cytoscape, drawing, filters, selection |
| `EventFeed` | the events a tab has received: list and histogram, three clocks |
| `MCDiscovery`, `MCGraphRequest`, `MCWebClient`, `MCEventFeed` | the packets, names, registries, ARP tables and graphs TLC explores |
| `*_proofs` | theorems and proofs about the module of that name |

`Discovery` extends `ServiceRecord` and keeps its history with an instance of
`EventLog`, which `EventRing` implements. Its `Publish` is one action;
`HubFanout` opens it up into the mutex, the range loop and the blocking writes.
`GraphRequest` starts from any registry, because `Registry.Snapshot` runs under
the read lock and copies; the one thing it does not copy, the TXT map, is `TxtMap`.
`WebClient` sees the server as a list of graphs, one
after the other, with an event for each: that the graph a tab loads
after an event holds it is `EventsReflected` of `Discovery`. `WebClient` and
`EventFeed` both extend `GraphElements`.

Every definition that models code has an entry under `map` in `PROJECT.json`
with the file and the lines it stands for. An operator marked `Mutant:` is not
part of any model: it is a plausible bug, and the property listed with it under
`mutants` fails when it takes the place of the definition that follows it.

## 3. How state and actions correspond to the code

**EventRing.** `buf`, `head` and `full` are the fields of `Ring`; `response` is
what the last `Snapshot` returned. `Add` and `Snapshot` hold the `RWMutex` for
their whole body and are one action each. `cap` includes the clamp of `NewRing`.

**ServiceRecord.** One record per instance with the fields of
`ServiceSnapshot` that decide anything. `Refresh` is the code that `applyPTR`,
`applySRV` and `applyTXT` repeat; `Withdraw` their goodbye branch. Names are
values that stand for their class under `NormName`. Of the TXT map the keys are
kept. Times are seconds. The stale ratio is a fraction `StaleNum / StaleDen`
that `Low` truncates, as `time.Duration(staleRatio)` does.

**Discovery.** `services`, `hosts` and `seenTypes` are the maps of `Registry` and
`Engine`, with `Absent` for a missing key. Each listener goroutine has a program
counter `pc`, the event `cur` it handles (with the time taken at the top of
`HandleDNS`) and the position `pos` in its records.

| Action | Code |
| --- | --- |
| `Receive`, `ReadError` | one iteration of `startRead` that gets a packet, or an error that is not a timeout. A timeout changes nothing |
| `HandlePTR`, `HandleMeta`, `HandleSRV`, `HandleTXT`, `HandleAddr`, `HandleIgnored` | one branch of `applyRR`, one lock acquisition |
| `MarkTarget` | the second lock acquisition of `applySRV` |
| `Record`, `Publish` | `ring.Add`, then `publish`, at the end of `HandleDNS` |
| `Tick` | the clock, between any two steps |

A lock acquisition is one action because everything it protects is read and
written inside it. `Refresh` with the time of the packet and not of the lock is
where two listeners interfere.

**HubFanout.** `subs` and `mu` are the hub; `handler` and `reader` the two
goroutines of `handleStream`; `conn`, `client` and `sock` the connection: the
server's end, the client, and the frames the sockets between them hold.
`pub`, `todo` and `target` are the range loop of `Publish`. `Begin`, `Lock`,
`Pick`, `WriteOk`, `WriteClosed`, `WriteReset` and `Unlock` are its steps. A write is enabled only
while there is room or the connection is broken, because no write deadline is
set. A reader that finds its connection broken closes it and then removes it, as
`handleStream` does. `start` and `order` are history variables.

**Lifecycle.** `main` is where the main goroutine is, `reader[s]` where the
goroutine of a socket is in its loop, `wg` the counter of the `WaitGroup` (`Join` adds to
it, `Ends` is the deferred `Done`, `Wait` needs 0), `querier` where `Querier.Run` is. `Join` and
`JoinFails` are the loop of `listener.Start`, `Started` the rest of `main` up to the wait
for a signal, `CloseServer` and `Drained` the call of `srv.Shutdown`,
`CloseStop`, `CloseSocket` and `Wait` the closure that `Start` returned, `Return` the last
deferred call and the end of the process. `HandleDNS` is `Drop`, or `Handle`
and then `Published`, which waits while `clients` is "stalled": `HubFanout` shows why.
`ListenFails` and `AcceptFails` are the two ways in which `ListenAndServe` ends the process.
Requests are left out, because `srv.Shutdown` returns after 5 s in any case.
That signals kill the process before `signal.Notify` is part of `Signal`.

**GraphRequest.** `hosts`, `services`, `nodes` and `edges` are the fields of the
`GraphSnapshot` that the handler passes from call to call; `arp` is the cache of
`hostenrich`. `Snapshot` builds them, `Apply` is one round of the loop over the
hosts, `Group` the part of `MergeDuplicateHosts` up to the two maps of groups,
`UniteByMac` and `UniteByAddress` the loops over those maps in any order, `Merge`
the rest. The union-find is the partition it represents (`classes`): `find` with
path compression is not observable. Hosts are numbered in the order of their
names, which is what sorting and tie-breaking in the code depend on.
`ipMergeKey` is the constant `MergeKey`. The ARP cache may be reloaded between
two hosts, but not between two addresses of one host.

**TxtMap.** `Lock` is `UpsertService` from its lock to the point where `applyTXT`
has a map, `WriteKey` one `s.TXT[k] = val`, `Snapshot` the copy of the record
under the read lock, `EncodeKey` and `Respond` the encoder of `handleGraph`. What
Go makes of a map that is written while it is iterated over is not defined: the
iteration meets the new key or not, or `Fatal` ends the process.

**GraphElements, WebClient.** An answer is up to three actions, between which other
handlers run: `Response` sets the graph, with which the panel is rendered while the old
selection stays; `Effects` are the passive effects of that render, which draw and drop a selection
that is gone; `Deselect` is the render that follows from it. A click that finds effects due
runs them first, and its own run with it. `Response`, `CyCreated`, `Remount` and `SetFilter` wait for
effects that are due: React runs those before it renders what such a handler sets. The
stream and the timers wait for nothing. That React does so is external to the repository.

| State | Code |
| --- | --- |
| `snap`, `snapRef`, `selected`, `filters`, `cyReady` | the state and the ref of React with these names; `filters` puts `types`, `iface`, `query` and `legendPick` together |
| `view` | what Cytoscape holds: `drawn` (elements), `hidden` (class `filter-hide`), `placed` (nodes a layout has placed), `ripples`; and the refs `structureSig` and `hasInitialLayout` |
| `mount`, `loading`, `engines` | how often the effects were run, the runs that still import Cytoscape, the runs whose Cytoscape exists |
| `work` | what React has still to do: nothing, effects or a render |
| `debounce`, `requests`, `frames`, `ws` | the timer of `onmessage`, how many calls of `loadGraph` are under way without and with each answer, the events the WebSocket still holds, the WebSocket |

| Action | Code |
| --- | --- |
| `Response`, `Effects`, `Deselect` | the answer of `loadGraph`: `setSnap` and its render; `snapRef`, `setSelected(null)` and the draw effect; the render without the selection |
| `Draw` | the draw effect (`App.tsx:933`): merge, filter, pulse, lay out when the structure is not that of the last layout |
| `MergeGraphElements` | `mergeGraphElements` with what Cytoscape does there: the removal of a node removes its edges, and `data()` leaves the ends of an edge as they are |
| `CyCreated`, `SetupFails` | the end of the asynchronous set-up, which asks whether it was cancelled |
| `Remount` | the clean-up of all effects and their next run, as `StrictMode` (`main.tsx`) and Fast Refresh do in development only; a bundle that is built for production never remounts: state stays, and so do requests that are under way |
| `Message`, `DebounceFires`, `PollFires`, `Answer`, `FetchFails` | `onmessage`, the two timers, and the fate of a request |
| `SetFilter`, `Tap` | the controls the user has, only with what they offer |

The import of Cytoscape may never end. Which of the nodes touched pulse is open, because a
node that pulsed less than 140 ms ago does not again.

**EventFeed.** `now` is `Date.now()`, which may be set back, `clock` the state an
interval sets, and an event carries a time of the server, which may be ahead by
`Ahead`. `counts` is `hudBucketCountsRef`, `Pruned` its pruning in `onmessage`,
`Shown` the buckets the bars are drawn for, `Prepend` the cap of the list,
`FilteredEvents` the list "filtered to device". `highest` and `received` are
history variables. The graph is a constant, since nothing here writes it.

## 4. Runs

| Run | Instance | Shows |
| --- | --- | --- |
| `ring` | capacity 3, 3 events | the ring implements the FIFO log over any number of wrap-arounds and serves no unwritten slot |
| `discovery` | 2 listeners, 1 instance that moves between 2 hosts, 6 packets, 3 received, clock to 3, history of 2 | registry, history and stream stay consistent while packets of the listeners interleave |
| `hub` | 2 publishers, 2 connections, 2 events, room for 1 frame, clients that read or leave | one writer per connection, no gaps, the abstract stream; `Publish` returns, gone clients are removed, everything arrives |
| `lifecycle` | 2 sockets, 2 types, 2 packets, a valid and an invalid query interval, signals and stalls at any time | shutdown is quiet, complete and ends unless a client stalls for ever; types seen are browsed |
| `graph` | all registries of up to 3 hosts with up to 2 of 3 addresses, 1 instance, 3 ARP tables, 1 reload | the properties of the answer |
| `webclient` | 4 graphs: nothing, an instance at a host, the instance at another host, the instance offline; 2 requests that overlap, 2 mounts, 1 action of the user | the screen is the graph last applied, filtered, laid out, pulsing for a reason; the selection has details once React is done; in the end it is the last graph of the server |
| `feed` | 2 bars of width 2, no margin, a list of 1, 2 events for each bucket, a server that is ahead by 1, a clock that is late by up to 2, time to 9 | the bars are exact, also when they count more than the list may hold, the buckets bounded, what pulses is listed |
| `stale_ratio`, `hub_stalled`, `dangling_edge`, `moved_edge`, `txt_race` | smallest that shows it | the divergences of section 7 |

Why these bounds. In the ring the behaviour depends on whether `head` has
wrapped, and capacity 3 with no bound on the number of `Add`s reaches every
combination of `head` and `full` with every content; what a capacity of 1 or
less does is covered by the proof. In `Discovery` a hazard takes two goroutines
that overlap and one packet before or after; three packets and two listeners
give that, two hosts let an instance move, TTLs of 1 and 2 against a clock of 3
let a lifetime shrink, grow and end, and a history of 2 overflows. In
`HubFanout` one blocked publisher, one that waits and one client that fails
while another is served need two of each; room for one frame lets a write block
at once; more events, publishers and clients are covered by the proof. In
`GraphRequest` three hosts are the fewest in which two are linked
only through a third, and the fewest in which two merge while another host is unregistered.

In `Lifecycle` two sockets let one fail
while the other works, and two packets let a socket read a second one after the stop
channel was closed, if it could. In `WebClient` two requests are the fewest of which one can
overtake the other; the graphs have one without nodes, an
edge that changes its end, a node that goes and data that change, and a late answer may apply them in any
order; two mounts are the fewest of which one can be cancelled; one action of the user
filters or selects before or after any other step. In `EventFeed` the margin and the lag are
those at which the bars are only just exact: one tick more, and an event that
is still shown has been pruned; two bars of up to two events count more than a list
of one holds.

`CHECK_DEADLOCK FALSE`: the clock, the packets and the events are bounded, a
listener ends at a read error, and a request and the process end, so `Discovery`,
`HubFanout`, `Lifecycle`, `GraphRequest` and `TxtMap` may stop.
`EventRing`, `WebClient` and `EventFeed` never do and are checked for deadlock.

## 5. Properties

* `EventsReflected` (`Discovery`): whoever has seen an event, live or in the
  history, finds all its records in the graph. The client depends on it: it
  reloads the graph because of an event.
* `LifetimeHeard`: when an instance expires, and whether it has withdrawn, is what the newest
  record of some socket says, so a shorter TTL, a goodbye and a return take effect. A packet
  that waited for the lock may overwrite what a later one of another socket has set, never what
  its own socket has heard since. Which socket wins is open, since the code reads the
  clock before the lock. An instance that only a TXT goodbye named has no expiry (section 7).
* `TargetKnown`: the target of an instance is a registered host but for the gap
  inside `applySRV`. `NoDanglingEdge` shows what that gap can do.
* `LiveMatchesHistory`: per socket, the history is the tail of what was published
  and is about to be: the same events in the same order, with none left out.
* `HistoryKept`: while an instance or a host is kept, its first sighting, longest TTL, TXT keys and
  addresses are not lost, in any order of TTLs, goodbyes and returns. Whether it should be
  kept for ever is another question (section 7), which this property leaves open.
* `YoungerOnlyByRecord`: the derived state only ages, from new over active to
  offline, and turns back only with a record of that instance with a positive
  TTL: neither time nor a goodbye of any type revives it. With the
  default ratio "stale" does not occur (section 7).
* `OneWriter`, `NoGaps`, `ImplementsStream`, `PublishReturns`, `GoneIsRemoved`,
  `EverythingArrives` (`HubFanout`).
* `NothingHandledAfterShutdown` (`Lifecycle`): when the closure of `Start` has returned no goroutine
  that was started is left to touch the engine. It depends on one `Done` for each `Add`, on every way out of
  the loop, a read error before or during the shutdown included; with a `Done` too few the closure never returns
  (`ExitsUnlessStalled`).
* `QuietShutdown`, `ExitsUnlessStalled`, `SeenTypesBrowsed` (`Lifecycle`).
* `MergedIffConnected` (`GraphRequest`): the entries of the answer are the
  connected components of "shares an address or a MAC". `Connected` is
  defined through sets closed under sharing and not through a path, so it is
  independent of the algorithm.
* `IdentityAtOneHost`: an address, and a MAC, is at one host of the answer, and at one
  it was heard at. For MACs it assumes that the ARP cache was not reloaded
  meanwhile: with a reload two entries may carry one MAC.
* `ServiceAtOneHost`: targets, edges and the lists of the hosts, which are
  redirected in three loops, name the same host, and an edge is without an end only if
  the target of its instance is not registered.
* `TypeOK` (`WebClient`) says, besides the types, that there is one Cytoscape at
  most, that of the current mount, whatever set-ups were cancelled.
* `DrawnMatchesSnap`: drawing by differences ends with the elements of
  the graph and hides what the filters hide, from whatever older graph it starts. That holds for
  which elements there are; where an edge is drawn is another matter (section 7).
* `LaidOut`: every node was placed by a layout, although what the effect knows
  of the last layout is in refs; a ripple spreads only where a node is.
* `PulseOnlyOnNews`: a filter, a poll without news and a second set-up do not pulse.
* `SelectionHasDetails`: whenever React has nothing left to do, the card of the selected node is
  found. It is not while effects of an answer without that node are due (section 7).
* `ShownConverges`: the tab shows the last graph of the server in the end and keeps
  it, although answers may be applied in the wrong order, events may never come and
  each event puts off the reload that the ones before it asked for.
* `BarsExact` (`EventFeed`): each bar counts all events with a time in it,
  those that have left the list included, so that the sum may exceed the cap of the list. Pruning goes by one clock and drawing by another.
* `BucketsBounded`: the buckets do not grow for ever, though events may be dated in the future.
* `PulseIsListed`: an event that makes the selected device pulse is listed under
  it; the two rules are written separately. They agree but for names shorter than
  four characters, which `discoveryEventRelatedNodeIds` looks for from three on.

## 6. Fairness

* `HubFanout`: weak fairness of goroutines; strong fairness where one takes
  `Hub.mu`, because a `sync.Mutex` hands over to a waiter after 1 ms (its
  starvation mode). `ReadFails` is fair: a read on a broken connection returns.
  `WriteReset` is not: a write to a client that has left may go on being
  buffered; the reader is what ends it. `FairSpec` adds that a connected client
  reads, as a browser does in its event loop; `StallingSpec` does not.
* `Lifecycle`: weak fairness of `main`, of each goroutine, of the querier (its
  exchanges time out after 2 s and its ticker fires) and of the start of the HTTP server;
  strong fairness of `Published`, which a client that reads now and then lets through.
  Signals, packets, read errors and what clients do are free.
* `WebClient`: weak fairness of what React has due (`WF_work(Turn)`), which its scheduler runs, and of the interval, which `setInterval` gives as long as
  the tab is open; strong fairness of "some request is answered" and of "some answer arrives", since a
  request that is repeated for ever succeeds now and then. Nothing is assumed of a
  single request, the stream, the debounce, Cytoscape or the user.

## 7. Divergences between the code and what is said of it

Those in this table are runs that TLC finds violated:

| Run | Code | What is said |
| --- | --- | --- |
| `stale_ratio` | `internal/model/graph.go:253` truncates the ratio to 0: no instance is ever stale (`FractionsNeverMakeStale`: at any ratio below 1) | the `-stale-ttl-ratio` flag, the client's legend |
| `hub_stalled` | one client that does not read blocks `Publish` for all | the comment on `Hub` |
| `dangling_edge` | merging drops the node of a target that is not registered, not its edge | the comment on `GraphEdge` |
| `moved_edge` | an edge that was drawn keeps its ends when its instance moves to another host, while the old host is in the graph | "draws a **live graph** of discovered hosts and service instances" (`README.md:3`) |
| `txt_race` | `internal/model/graph.go:172` copies the record and shares its TXT map, so an answer has keys that came after the copy; Go may end the process with "concurrent map iteration and map write" | "**REST JSON:** graph snapshot" (`README.md:49`) |

These two are shown by a run whose property holds: the property says what the code does,
and what is said elsewhere denies it. They and the ones above are the `findings`.

* Run `feed`, `BarsExact`: the comment at `web/src/App.tsx:134` says that the 2-minute count cannot
  exceed the cap of the list. The count is the sum of the bars, and these count events that the list has
  dropped, as the comment at line 137 has it. The tooltip (`web/src/App.tsx:1554`) says
  that the true count can be higher, though no event the tab received is missing from the bars.
* Run `discovery`, `EventsReflected`: `GraceOffline` (`internal/config/config.go:51,62`) is described as
  "How long to keep offline nodes visible" (`README.md:87`), and no code reads it. What any
  event ever said stays in the graph, that of expired and withdrawn instances included;
  if they were dropped the property would need an exception for them.

These were met while modelling, and no run is about them:

* When the selected node is missing from an answer the panel says "Service not found in
  snapshot." for one render (`web/src/App.tsx:866`, `1119`), until the passive effect at line 882
  drops the selection. `SelectionHasDetails` is about the time after that.
* A TXT goodbye of an instance that is not known (`internal/discovery/engine.go:303`)
  makes a record that does not expire: a node that is active until it is announced, withdrawn
  otherwise, or for ever. `LifetimeHeard` says that such instances are the only ones without an expiry.
* Events of two sockets may be published out of the order of their times, since
  `HandleDNS` reads the clock before any lock (`internal/discovery/engine.go:52`), while
  the client shows them "newest first" as they arrive (`web/src/App.tsx:1470`). Per
  socket the order holds (`LiveMatchesHistory`).
* A type that was ticked stays in the filter when it drops out of the list of
  the most frequent types (`web/src/App.tsx:607`), where alone it can be unticked.
* The WebSocket of a mount that was cleaned up may close after the next one
  opened, and its `onclose` then shows "disconnected" (`web/src/App.tsx:891`).

## 8. Proofs

TLAPS checks these for all values of the constants; the assumptions are those
named `...Assumption` in the modules, which TLC evaluates in each run.

**EventRing_proofs.** `TypeOK` alone is not inductive: that an answer holds
events only needs to know which slots are written. `IInv == TypeOK /\
WrittenSlots` is: a slot is written iff the ring is full or it lies below
`head`. `RingImplementsLog` then maps each `Add` to `Record` and each `Snapshot` to
`Serve`, with `Contents` for the abstract history: in a full ring the slot
that is overwritten is the oldest (`AddToFull`), else the new event goes at the end
(`AddWithRoom`). Modular arithmetic is confined to `IndexWrapsOnce`.

**ServiceRecord_proofs.** What `ApplyPTR`, `ApplySRV` and `ApplyTXT` return: a
well-typed record that keeps what an earlier one had (`Keeps`), and that is
`Bounded` if the earlier one was, for a packet time that is not later than now; and
that each record but a TXT goodbye sets the lifetime to what it says (`ApplyDates`).

**Discovery_proofs.** The inductive invariant is `IInv`:
`TypeOK`, `EventsReflected`, `LifetimeBounded`, `TargetKnown`, and
`AppliedReflected`, the strengthening: the time of an event in flight
has passed, and the records its listener is done with are reflected in the graph. The key
fact is that the registry only grows (`Grows`, which is `Stays /\ Kept`), so that what is reflected stays so
whatever the other listeners do (`ReflectedStable`); the handler of a record
makes that record reflected (`HandlerReflects`); a listener that is through with its
records has the whole event reflected when it records and publishes it. Each
action keeps `TypeOK` (`TypeStep`), the lifetimes (`LifetimeStep`) and the
targets (`TargetStep`). `NextPreserves` collects them, and also yields
`HistoryKept`, which claims `Kept` alone.
`LifetimesAreHeard` follows each instance: a record that dates it makes its listener the one
with the newest word (`ApplyTold`); every other record, of whatever listener, leaves the
lifetime and the words alone (`QuietStep`); and publishing only moves the event with the newest word
from `cur` to the stream (`PublishTold`). It needs `OwnEvents`, so that what a listener publishes is its own.
`HistoryMatchesStream` has an invariant of its own, `OwnEvents` with
`LiveMatchesHistory` itself: the order-preserving matching between history and stream is
extended by one when a socket records (`RecordOwn`) and shifted when the history drops its
oldest event; publishing only turns the pending event into a published one
(`PublishOwn`); another socket takes at most the oldest event away (`RecordOther`,
`PublishOther`).
`OnlyRecordsRevive`, which is `YoungerOnlyByRecord`, is proved for a stale ratio below 1, as a fraction is:
time makes a state older (`TimeAges`), and so does a goodbye (`GoodbyesAge`). From
a ratio of 1 on a stale instance would be active again at the very second it expires,
because `Expired` and `Low` are both strict.
`FractionsNeverMakeStale` is the divergence `stale_ratio` for every ratio below 1, not
only for the default: the state "stale" is out of reach, since the truncated ratio is 0
(`FractionIsNeverLow`).

**HubFanout_proofs.** `IInv` is `TypeOK`, `MutexHeld` (whoever ranges over the
subscribers holds the mutex), and for each connection `InOrder` and `Complete`:
what was received and what is in the sockets is, together, a contiguous part of the order
in which events were published, from where the connection joined up to the event that is
still owed to it. A write moves that end by one (`WriteOkStep`), a read moves an
event from the one part to the other (`ClientReadsStep`). `NoGaps` and
`OneWriter` follow, and the refinement: an event enters the
abstract stream when its publisher takes the mutex, a read is a delivery
(`ReadsAreDeliveries`), `Add` is a join, and the rest stutters.
Two more theorems are about the connections. `SubscribersAreLiveConnections`: an open connection that
was added is a subscriber, and none whose reader has ended is, so that `NoGaps` speaks of
the right ones. `MutexIsNotWaitedForInACycle`: when a write is blocked with the mutex
held, whoever can end it does not wait for that mutex. This is a part of `PublishReturns`
that needs no fairness; it would fail if the reader called `Remove` before `Close`. Both
follow from `InStep`, which relates the handler, the reader and the two ends of a connection
and is inductive next to `IInv`.

**Lifecycle_proofs.** `IInv` adds to `TypeOK` that the counter of the `WaitGroup` is the number of
goroutines that were started and have not ended (`CountsLive`), that a closed socket implies a
closed stop channel, and that a goroutine which read a packet after the channel was closed
is not reading. The first, which every step of a goroutine preserves because it
counts once (`CountStep`), makes `Wait` a wait for all of them: a finite set of cardinality 0 is empty. The
second makes the shutdown quiet (`LoggedWhileOpen`), the third bounds the packets read after it (`AtMostOneMorePacket`).

**GraphRequest_proofs.** All three properties of the answer, and `TypeOK`, for every registry,
every comparison of addresses, every ARP cache and every order of the loops. `IInv`
follows the request through its stages:

* Until `Merge`, entries and graph are those of the registry (`Unmerged`).
* While groups are being united, the classes partition the hosts (`Partition`), each
  lies inside one component (`ClassesConnected`), and each group that is done lies inside
  one class (`GroupsUnited`). When all groups are done a class is closed under sharing,
  because two hosts that share anything are in a group (`SharingHostsAreInAGroup`), so
  it is a whole component (`SetsAreComponents`): `MergesComponents`.
* After `Merge`, a name is in one entry and an entry has the addresses of its names
  (`AddressesUnited`); an instance, its edge and the list it is in name the same entry
  (`ServicesRedirected`).
* As long as the ARP cache is the one the request began with, the MAC of an entry, and
  the MAC the second `Apply` will pick for it, is one that some name of the entry had
  (`MacsFit`).

`IdentitiesAtOneHost` then needs only that entries with a common address or MAC
contain hosts that share it, which are in one component. The hard step is `MacsFit` at `Merge`
(`MergedFirstMac`): the first address of a merged entry that has a MAC is, at the host it
came from, also the first that has one, since an address before it there would have been
met before it in the walk, or somewhere even earlier. The operators the code's loops become
are `CHOOSE`s over finite orders; that there is something to choose is shown without
induction over data, from the well-foundedness of the strict subsets of a finite set
(`FiniteHasFirst`, `FiniteHasEnumeration`, `EnumerationIsComplete`), and gives
`pickCanonicalKey` a member of the class (`CanonicalKeyIsMember`), `mergeHostGroup`
its walk (`InOrderIs`), and `applyToHost` its first MAC (`FirstMacIs`).

`ServiceAtOneHost` bounds the divergence `dangling_edge`: the edges without an
end are among those of instances whose target is not registered (`Orphaned`), in every
answer. The proof needs that in one place (`RedirectedServices`): the new nodes are those
of the hosts that remain.

**WebClient_proofs.** `IInv` is `TypeOK`, `DrawnMatchesSnap`, `LaidOut` and
`SelectionHasDetails`, with `ViewFits`, what the view and its refs are before and after
Cytoscape is there, and with the facts that a graph is there when effects are due and that fewer events wait than there were
versions. `MergeGraphElements` and `FilterHidden` are described once (`Merge`,
`Hide`), the draw effect from them (`DrawIs`), and every action that draws cites
that.

**EventFeed_proofs.** `IInv` adds `KeptExact` and `Spread` to `TypeOK`. `KeptExact`: the counts are
exact from the window of the latest time there has been, less the margin, on. It
makes the bars exact because the clock on the screen is at most `Lag` behind, and
`LagAssumption` says that the margin, and the bucket it starts in, cover that.
`Spread` bounds the buckets. `PulsesAreListed` shows for every
graph that what `discoveryEventRelatedNodeIds` matches is among the needles of the
filtered list, because the label of a host node is its display label or its name (`LabelAssumption`).

**Variants.** Liveness itself is out of the prover's reach, but three theorems give the part
of its argument that needs no fairness, as action properties of all instances.
`ShutdownWindsDown` (for `ExitsUnlessStalled`): the goroutine of a closed socket takes at
most three more steps, whatever packet it holds (`StepsLeft`); with the stop channel still
open it could go on. `LoopsAdvance` (for `PublishReturns` and `EverythingArrives`): each write
of a `Publish` leaves it one subscriber less to reach, and nobody adds to them.
`OldAnswersRunOut` (for `ShownConverges`): once the server is at rest the tab falls back to
an older graph only by using up an answer that was already under way. The runs do not
list these three, nor `SubscribersAreLive`, `NoMutexCycle`, `NeverStale` and
`LifetimeBounded` (a part of `IInv` of `Discovery`); TLC found no
violation of them on the instances of the runs `lifecycle`, `hub`, `webclient` and
`discovery` either.

**Only model-checked.** The liveness properties: `PublishReturns`, `GoneIsRemoved`,
`EverythingArrives`, `ExitsUnlessStalled`, `SeenTypesBrowsed` and `ShownConverges`.
They rest on fairness, hence on `ENABLED`, which the prover does not reach. What
`StaleWhenLow`, `AnswerIsSnapshot`, `EdgesDrawnInPlace`, `ReadersAreServed` and `NoDanglingEdge` say does not
hold, and so has no theorem. Every
invariant, action property and refinement that a run checks is proved.

## 9. Not modelled

* In the client: the geometry of layouts, the texts and colours of cards, rows and
  bars, windows that are opened and closed, the status text, and a limit on
  the display of counts. They are computed from what is modelled and
  change none of it.
* `GraphRequest`: a reload of the ARP cache between two addresses of one host, and
  the hints and vendors that enrichment adds as texts.
* The texts of labels and service types (`serviceTypeLabels.ts`, constant data).
* The embedded assets and their handler (I/O only); `handleHealth` keeps no state.
* Flag and environment parsing, whose results are constants of the modules.
* Build and deployment scripts.
