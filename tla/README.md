# SpectatorD in TLA+

SpectatorD is a daemon that receives metric updates as lines of text (UDP, Unix
socket, statsd), keeps them in meters, and every few seconds sends what the
meters measured to an aggregator over HTTP. This directory holds TLA+ models of
it from the datagram to the payload, the TLC instances that check them, and TLAPS
proofs of the results that matter most. Paths are relative to `src/`.

## 1. Inventory

### Components, their state and their operations

| component | state | operations | correct if |
|---|---|---|---|
| registry (`spectator/registry.{h,cc}`) | nine maps id -> shared meter, each with a lock; the expirer thread | the getters, `GetAgeGauge`, `DeleteMeter`, `DeleteAllMeters`, `Measurements`, `expirer`, `get_values` | one meter per id; nothing recorded is lost but by removal; meters expire when, and only when, idle; the age gauge limit holds |
| meters (`counter`, `max_gauge`, `timer`, `dist_summary`, `gauge`, `age_gauge`, `monotonic_*`) | a few atomics each, `last_updated_` | one update, `Measure` | each amount is reported once, however updates and `Measure` interleave |
| publisher (`spectator/publisher.h`) | `started_`, `should_stop_`, buffers, a thread pool, counters about itself | `Start`, `Stop`, `sender`, `send_metrics`, `handle_aggr_response` | no buffer or stack frame shared or outlived, every measurement accounted for, last flush complete, `Stop` returns |
| HTTP client (`spectator/http_client.cc`) | a thread-local curl handle | `Post` and `Get` with retries | bounded retries, one answer |
| server (`server/spectatord.cc`) | parsers, counters about itself, percentile caches, `should_stop_` | `Start`, `Stop`, `parse_lines`, `parse_line`, `parse_statsd_line`, `upkeep` | every well-formed line of a datagram is applied, each bad one is counted; `Stop` returns |
| expiring cache and percentile meters (`server/expiring_cache.h`, `percentile_*.h`) | id -> percentile meter, a lock | `get_or_create`, `expire`, `Record` | no entry is freed while it is used; what is recorded is published; an amount falls into its bucket |
| admin server (`admin/admin_server.cc`) | none of its own | `GET /metrics`, `DELETE /metrics`, common tags | a request changes all it says or nothing; the change takes effect |
| ids, tags, string pool (`spectator/id.h`, `tags.h`, `string_pool.cc`) | sorted tag vectors, in the object or outside it; interned strings | `add`, copy, move, `Intern`, `WithTag` | tags are maps; equal exactly when the pointers are |
| serialisation (`smile.cc`, `compressed_buffer.cc`) | a string table, a buffer used again and again | `measurements_to_json`, `Append`, `Result` | the batch can be decoded, the stream is complete |
| configuration and `main` | the parameters | start-up, signal, shutdown | threads stop in an order in which nothing they use is gone |
| datagram servers, logging, systemd, file watcher, metatron | sockets and files | I/O | |

### Who runs when

* The **io threads** of asio parse lines and are *clients* of the registry: they
  get a meter under its map's lock and update it afterwards through a
  `shared_ptr`, outside any lock. The daemon runs one io thread; it is the only
  thread that calls `GetAgeGauge` once the threads have started
  (`spectatord.cc:654`; the call at `:392` comes before).
* The **upkeep** thread updates the daemon's own meters, through handles it keeps
  for life (*pinned* in the model), and expires the percentile caches.
* The **expirer** visits map by map and erases idle meters.
* The **sender** measures map by map, then batches, serialises and posts; a
  **pool** of up to eight threads runs the batches of one `send_metrics` call,
  whose local variables the tasks capture by reference.
* **Admin** handlers run on the threads of the Poco HTTP server.
* **main** starts everything and calls `Stop` on a signal.

### What is hard here

Lock scopes that end before what was read is used (`contains` then `at`, a limit
tested before the insert, pointers and ids that outlive the lock); lock-free
loops whose two loads are not one; meters whose parts are reset one by one;
frames and buffers lent to pool threads; a `Stop` that races the sender and then
does the sender's work itself; answers that reject part of a batch; raw pointers
into a cache that only a time stamp protects; two expiries, of cache and registry,
that know nothing of each other; memory whose capacity shares a union with the
data; formulas and tables that two programs must agree on. Each of these is an entry of `hazards` in `PROJECT.json`, at its line.

## 2. Modules

| module | models | with |
|---|---|---|
| `Registry` | `registry.{h,cc}`, the time stamps and ttls of `meter.h` and `gauge.cc`, the registry's callers in `spectatord.cc`, `publisher.h` and `admin_server.cc` | `MCRegistry`, `RegistryProofs` |
| `CounterMeter` | `counter.cc`, `add_double` | `MCLibrary`, `MeterProofs` |
| `FetchAdd` | what a counter promises: one atomic addition, one atomic exchange | refined by `CounterMeter` |
| `MaxGaugeMeter` | `max_gauge.cc`, `update_max` | `MCLibrary`, `MeterProofs` |
| `MonotonicCounter` | `monotonic_counter.cc` | `MCLibrary`, `MeterProofs` |
| `MonotonicCounterUint` | `monotonic_counter_uint.cc` | `MCLibrary`, `MeterProofs` |
| `MonotonicSampled` | `monotonic_sampled.cc` | `MCLibrary`, `MeterProofs` |
| `DistMeter` | `timer.cc`, `dist_summary.cc` | `MCLibrary`, `MeterProofs` |
| `PercentileBuckets` | `percentile_buckets.cc` and the generator of its table | `MCLibrary`, `BucketProofs` |
| `Server` | the two threads of `spectatord.cc`, `expiring_cache.h`, `percentile_*.h`, the datagram servers | `MCServer`, `MCLibrary`, `ServerProofs` |
| `LineProtocol` | the texts that name a meter: `get_measurement`, statsd tags, `parse_id` | `MCLibrary`, `ServerProofs` |
| `Admin` | routing and common tags of `admin_server.cc` | `MCAdmin`, `MCLibrary`, `TagsProofs` |
| `Tags` | `tags.h`, `string_pool.cc`, `Id::WithTag` | `MCLibrary`, `TagsProofs` |
| `TagMap` | what tags promise: maps, with independent copies | refined by `Tags` |
| `Payload` | `measurements_to_json`, `smile.cc`, and a reader of the payload | `MCLibrary`, `TransportProofs` |
| `CompressedBuffer` | `compressed_buffer.cc` around zlib | `MCLibrary`, `TransportProofs` |
| `HttpClient` | `http_client.cc`, `log_entry.h`: one thread's requests | `MCLibrary`, `TransportProofs` |
| `Publisher` | `publisher.h`, `HttpClient::GlobalInit` and `GlobalShutdown` | `MCPublisher`, `PublisherProofs` |
| `Totals` | sums and joined sequences, for `Publisher`, `Payload`, `CompressedBuffer` and the proofs | `TotalsProofs` |

`MCLibrary` puts the parts that share no state into one instance: the variable
`part` says which of them a behaviour runs, the others keep their initial state.
It checks therefore what a run for each of them would check, and a property that
speaks about one part holds of the others' behaviours because it holds initially.
For the server, `part` is one of two ids and the datagrams are about that id:
percentile timers and distribution summaries are in different caches that never
meet. Parts that do share state (registry, sender, expirer, admins; publisher,
pool, `Stop`) are composed in `Registry` and `Publisher`.

### Registry

One action is one critical section of a map's `meters_mutex_`, or one access to
an atomic of a meter outside it. `meters` is the union of the nine maps (a key is
a pair of type and id, `TypeOf` gives its map). `heap` holds every meter object
that some pointer still leads to; an object whose last `shared_ptr` goes away
stays in it only while a raw pointer or reference is around, which is how a
dangling reference shows: `Referenced` minus `Owned`. An object records how it
left the map (`life`: erased by the expirer or an admin; or never registered,
for age gauges over the limit). The value of a meter is abstracted to whether it
holds something that no `Measure` has reported; the arithmetic is in the meter
modules.

| code | action |
|---|---|
| the getters, `meter_map::insert` | `Get`, `GetGaugeTtl` then `SetTtl` |
| `GetAgeGauge`: `contains`, then `at`, or `size` and `insert` | `AgeContains`, `AgeAt`, `AgeSize`, `AgeInsert` |
| `Meter::Update`, the value, end of scope | `Touch`, `Apply`, `Return`; `UsePinned` for a handle kept for life |
| `expirer`, `remove_expired` (time first, lock second) | `ExpirerWake`, `ExpirerNow`, `ExpirerErase` |
| `Measurements`, `meter_map::measure`, `registry_size_` | `SenderStart`, `Measure`, `RecordSize`; `Publish` is the rest of `send_metrics` |
| `remove_one`, `remove_all`, `get_values` and their handlers | `AdminContains`, `AdminErase`, `AdminEraseAll`, `AdminGetValues`, `AdminListed` |

`std::terminate` (an exception out of a `noexcept` function) sets `crashed`,
after which nothing happens.

### Meters

Every atomic load, store, exchange and compare-exchange is an action; a weak
compare-exchange may fail spuriously. Doubles are whole numbers; NaN is a
constant of its own. `added`, `reported`, `owed`, `monoGrown`, `monoTotal` and
their like are history: what went in and what was reported. The kind
of source of a `MonotonicCounterUint` (one that wraps around, one that is
restarted) is chosen in the initial state. The width, 2^64, is the constant
`Modulus`.

In `DistMeter` the update of one of the four parts is one step, because the loops
of `counter.cc` and `max_gauge.cc` are modelled, and shown exact, in their own
modules. `since` is what the `Record`s since the last `Measure` amount to, and
`mixed` says that a `Measure` overlapped a `Record`: then part of an amount was
reported and the remainder waits for the next `Measure` that finds a count.

`MonotonicSampled` takes its mutex twice in `Measure`, which are the actions
`SampledRate` and `SampledReport`. A rate is kept as the pair of growth and time it
is the quotient of.

`PercentileBuckets` computes the table as the generator does, and the index as the
daemon does, for integers of `Width` bits; its one variable runs through all
amounts.

### Server

The io thread handles one datagram at a time: `Receive`, then for each line one of
`LineFails`, `LineElsewhere`, `LineDirect` and `LineCached`. The last two leave it
with a pointer, `held`: to a meter of the registry, or, raw, to the percentile
meter of a cache entry, which in turn holds a meter of the registry. `Record` is
`Update()` of that meter, `RecordReturns` what comes after it. The upkeep thread
goes through `UpkeepCheck`, `UpkeepSummaries`, `UpkeepTimers` and `UpkeepWake`.
`ExpireMeter` is the registry's expirer, reduced to what it means to a cache entry:
the registered meter is no longer the one the entry holds (`own`).

Time is a set of ages that `Tick` advances together. A thread that runs takes at
most `MaxStall` for what it does between two waits, and a wait with a timeout ends
in time; nothing else is assumed of the scheduler. `ServerAssumption` relates the
constants: no step takes longer than `kExpireAfter` (120 s), and the ttl of meters
(15 min) is at least that plus two periods of the upkeep thread. `--meter_ttl` can
break the second, see section 6.

A line is a record of what the parsers find in it: type, extra field, separator,
measurement, id and sign. What the texts themselves may be is `LineProtocol`, which
runs the three parsers over all texts up to a length; there a text is a sequence of
separators, the digit 1 and letters. Each parser has one loop; `MeasurementTags`,
`IdTags` and `StatsdTags` are a turn of it, and `Loop` repeats the turn as often as the
text has symbols and once more. That is enough, as every turn goes on by a symbol
at least, and not too much, as a state that has ended stays.

### Admin

A POST of common tags is handled in steps: the loop that refuses
(`PostRefused`), and one `PostApply` per tag. `config_tags` is what handlers
change, `common_tags` the publisher's copy. Requests about meters are routed only;
`Registry` has what they do.

### Tags, payload, buffer

`Tags` keeps the representation: `begin` points to `entries` or to `memory`, and
setting the capacity destroys the first entry, because they share a union.
`tagsAt` holds several objects, so that copies and moves can be told from
aliases. `insert` is the library's `lower_bound` (the first of the sorted keys that is not
smaller) and `copy_backward`, both external. The refinement mapping to `TagMap` is
`Maps`: it reads the map off each array (`MapOf`).

`Payload` writes a batch as the daemon does, with the order of the string table
chosen freely (it is the order of a hash map), and reads it back as the aggregator
does. A number is written by the shifts and comparisons of `SmilePayload::Append`, its
wrong token for the fourth length included; how many bits a byte holds is a parameter
(7, and 6 for the last). The reader is written from the format, not from the code: it
reads as many measurements as the batch had, and what it leaves unread is part of
what `PayloadDecodes` compares.

`CompressedBuffer` has the loops of `compress` and `deflate_chunk`. zlib is its
contract: it may hold bytes back, writes one unit for one or more of them, and
stops when the input is used up or the output is full. `Decoded` is what the
receiver makes of the units. `MaxAppend` and `MaxUnit` bound the bytes of one
`Append` and those that one unit stands for.

### HttpClient

`perform` is recursive; a level of the recursion is one step `Perform`, on the
thread-local handle that the previous request left behind. Of the handle the
model keeps the response buffer (whose bytes it holds), whether a connection is
cached, and whether its resolver is `stale`: it reads `resolv.conf` when the
handle is created and never again. An outcome is any error or status that the
state of the handle admits, with any duration that the two timeouts admit;
`Delay` is the time between curl's return and the second reading of the clock.
`read_body` is set, as the publisher sets it. The aggregator may close an idle
connection at any time, the sleep between two attempts included
(`ConnectionDrops`). `CompressFails` is the overload of `Post` that compresses by
itself and returns before `perform`; `attempt` is then `NoAttempt`. The entries of
`logged` are those of a client with status metrics.

### Publisher

`send_metrics` is run by the sender thread and, for the last flush, by the thread
that calls `Stop`; each call has a frame (`todo`, `left`, `avail`, `responses`
are indexed by the caller). A pool thread runs one task at a time, in the order
of the critical sections of the lambda: take a buffer, post, record the answer,
return the buffer, count down. Measurements are counted, not inspected; the
answer is any of the classes `handle_aggr_response` tells apart, with any error
count up to the size of the batch. Without `StatusMetrics` nothing is counted: the run
has them, as the daemon does by default, and the theorems hold for both. `Start` may be called again after `Stop`. Sums
of sizes are cardinalities (`Totals`), so that what one step adds to them can be
proved without an induction.
`curl` is the state of libcurl, which `GlobalInit` and `GlobalShutdown` change at
most once per process; `restarted` marks the behaviours with a second `Start`.

## 3. Runs

| run | instance | what it shows |
|---|---|---|
| `registry_expiry` | a pinned counter and a gauge, two clients, four addresses, clock 0..2, ttl 1 | `TypeOK`, `OneMeterPerId`, `UpdateLostOnlyByRemoval`, `ExpiryRespectsTtl` |
| `registry_shipped` | frequency 0, `registry_size_`, a timer, two age gauges with limit 1, one io thread, one admin | `AgeGaugeLimitRespected`, `OnlyDeletableLeave` |
| `registry_liveness` | counter and gauge, one client, under `FairSpec` | `IdleMeterErased`, `UpdateMeasured` |
| `library` | see below, under `LibrarySpec` | 24 properties of fourteen parts |
| `publisher` | two threads and two buffers, five measurements in batches of two, two Starts, under `FairSpec` | the seven safety properties and `StopTerminates` |
| `registry_age_gauge_throw`, `registry_dangling`, `registry_sampled`, `counter_two_adders`, `monotonic_uint_baseline`, `server_orphan`, `common_tags` | the smallest instance that shows it | one finding each, section 6 |

| part of `library` | instance | properties |
|---|---|---|
| `counter` | one adder and a measurer, six calls | `CountConserved`, `ImplementsFetchAdd` |
| `maxgauge` | three updaters, four calls | `ValueIsTheMaximum` |
| `mono`, `uint`, `sampled` | six Sets; four Sets with modulus 8; five Sets at three times | `MonoNeverOverReports`, `UintNeverOverReports`, `SampledNeverOverReports` |
| `dist` | two recorders, three Records | `QuietIsExact` |
| `buckets` | all amounts of 12 bits | `BucketBounds` |
| `http` | timeouts 2 and 3, delay 1, back-off 1 | `BodyMatchesStatus`, `ReadTimeoutIsFinal`, `AttemptsLogged`, `RequestBounded`, `ResolverRecovers` |
| `tags` | two objects, four keys of which two differ in an invalid character, one tag in the object, growth by one | `TagsEqualIffSame`, `ImplementsTagMap` |
| `lines` | all texts of up to nine of four symbols | `LineRoundTrip` |
| `payload` | batches of up to two measurements with shared strings, every order of the table | `PayloadDecodes` |
| `buffer` | two payloads of up to four bytes through chunks of one and two | `BufferDelivers` |
| `admin` | all requests with bodies of up to two tags out of three | `ChangesWholeOrNothing` |
| `t`, `d` | the datagrams of `MCServer`; expiry after 4, period 2, ttl 10, stall 1 | `EntryAliveWhileUsed`, `LinesAccounted`, `ExpiryLeavesFedEntries`, `StopBounded` |

**Bounds and why they are enough.** Every race in the registry is between at most
two clients over one id plus the expirer, the sender and an admin, so two
clients and two or three ids cover the pairs; there is one address more than the
instance can hold at once, so that an erased meter, its stale reference and its
successor exist together. The clock reaches one tick past the ttl, so a meter can
be idle for exactly its ttl and for longer. The adder, updaters and Sets have
enough calls for two rounds of update and measure with one in progress. Modulus
8 with threshold 4 has values on both sides of the wrap-around and of the
threshold. Five measurements in batches of two make three batches, one more than
there are buffers, the last one partial. A ttl of 10 is exactly what
`ServerAssumption` asks for with the other three, the hardest case. Nine symbols
hold a name and two pairs of one symbol each, and anything malformed that is
shorter. With one tag in the object and growth by one, four keys make an array move
out of the object and grow twice. With three low bits and one high bit, six strings
and the two operations need numbers within the token and of one, two and three
bytes. Twelve bits give five
ranges of buckets and the one that overflows. Where a theorem exists (section 5), the
bound plays no role.

**Symmetry.** Object addresses other than the pinned one, and updaters, are
interchangeable; no symmetry is used under fairness. The address of a freed
object is not reused while something refers to it.

**Fairness.** `registry_liveness` and `registry_sampled`: weak fairness of the
expirer and of the sender. Both are threads that run until `Stop` and whose waits
have a timeout (`registry.cc:234-265`, `publisher.h:170-181`). No client or admin
is obliged to call. `publisher`: weak fairness of the sender, of every pool
thread and of the thread inside `Stop`, the same argument plus that a request
ends: curl has a total timeout and there are at most three attempts. Nobody has
to call `Stop`: the property starts when somebody did. `library`: weak
fairness of `Perform` (curl returns within its timeouts) and of `Call` (the
publisher posts at every interval while the daemon runs).

**Deadlock** is not checked where the system may stop: the daemon has terminated
(`crashed`), or all updates of the instance are used up and the publisher is
stopped. `library` checks it: a part that may end (the server, the buffer, the
bounded meters) says so with an action of its own.

## 4. Properties

* `OneMeterPerId`: a meter is in the map under its id exactly as long as nobody
  erased it; no race of getters displaces one.
* `UpdateLostOnlyByRemoval`, of each step: an update that was applied to a registered
  meter is still there afterwards, or was reported by the `Measure` of this step, or
  the step erased the meter. Clients cannot lose each other's updates, `measure`
  does not empty the idle meters it passes over, and nothing is freed too early. It
  does not say that a `Measure` comes: that is `UpdateMeasured`, which fails for
  `mono_sampled_` (section 6).
* `ExpiryRespectsTtl`: although `remove_expired` compares with a time it read
  before it waited for the lock, a meter it erases is idle for more than its ttl
  at that moment.
* `AgeGaugeLimitRespected`: holds because a single thread creates age gauges; the
  code does not enforce it with two.
* `OnlyDeletableLeave`: in the shipped configuration only an admin's delete takes a
  meter out of its map, so a `Measurement`, a listing, a caller's `shared_ptr` or a
  handle kept for life leads to the registered meter of its id, gauges and age
  gauges excepted.
* `IdleMeterErased`, `UpdateMeasured`: expiry and measurement happen.
* `CountConserved`, `ImplementsFetchAdd`: `add_double` loads twice and compares
  the first load only; with one adder per counter this is one atomic addition.
* `ValueIsTheMaximum`: the next `Measure` reports exactly the greatest value
  recorded since the last.
* `MonoNeverOverReports`, `UintNeverOverReports`: what was and what will be
  reported never exceeds the growth of the source.
* `SampledNeverOverReports`: the same for rates, with Sets out of order, at the same
  time, and between the two critical sections of `Measure`.
* `QuietIsExact`: when nobody is inside a timer and no `Measure` cut a `Record` in
  two, its four parts describe the same amounts, those since the last `Measure`;
  one complete `Measure` on its own is enough to recover from a cut.
* `BodyMatchesStatus`, `ReadTimeoutIsFinal`, `AttemptsLogged`, `RequestBounded`,
  `ResolverRecovers`: the buffer that outlives attempts never leaks an earlier
  answer into this one; a batch that may have been taken is not sent again; the
  recursion logs each attempt once and marks the last; three timeouts and two
  back-offs bound a request; a stale resolver that is needed is replaced.
* `EntryAliveWhileUsed`: the upkeep thread frees no percentile meter that the io
  thread is using; what protects it is that the stamp was renewed at most a stall
  ago, so a stamp that a hit does not renew breaks it.
* `ExpiryLeavesFedEntries`: an entry whose last line was recorded leaves the cache
  before the registry's expirer takes its meter away; the two expiries together,
  with the upkeep thread late by a full period, are what could go wrong.
* `LinesAccounted`: whatever mixture of good, bad, ignored and empty lines a
  datagram has, the good ones are applied in order and the counters add up.
* `StopBounded`: `Stop` notifies without the lock, so a notification can be lost;
  then the period of the upkeep thread bounds the wait.
* `LineRoundTrip`: three hand-written parsers read the same id from the same text;
  what a line is accepted with, a DELETE of that text finds.
* `ImplementsTagMap`, `TagsEqualIffSame`: the arrays behave as maps through inserts,
  growth, copies and moves; and pointers are enough to compare them.
* `PayloadDecodes`, `BufferDelivers`: what is posted stands for the batch.
* `BucketBounds`: the formula of the index and the generated table fit together.
* `ChangesWholeOrNothing`: common tags change as one POST says, or not at all.
* `BuffersNotShared`, `BufferForEveryTask`, `FrameOutlivesTasks`,
  `EveryMeasurementAccounted`, `HttpAliveWhilePosting`, `FlushedAtStop`,
  `StopTerminates`: see the comments in `Publisher`. `HttpAliveWhilePosting` is
  claimed for the first `Start` only (section 6).

Each has a mutant in `PROJECT.json`: a plausible slip in the code that the run
detects.

## 5. Proofs

| module | theorems | assumptions |
|---|---|---|
| `RegistryProofs` | `RegistryTypeCorrect`, `RegistryOneMeterPerId`, `RegistryLosesNoUpdate`, `ExpirySafe` | `RegistryAssumption` |
| | `AgeGaugesLimited` | at most one client calls `GetAgeGauge` |
| | `RegistryOnlyDeletableLeave` | `ExpirationFrequency = 0`, as the daemon is shipped |
| `PublisherProofs` | `PublisherTypes`, `PublisherBuffersNotShared`, `PublisherBufferForEveryTask`, `PublisherFrameOutlivesTasks`, `PublisherAccounts`, `PublisherHttpAlive`, `PublisherFlushes` | `PublisherAssumption`: as many buffers as threads |
| `ServerProofs` | `StopInTime`, `ServerTypeCorrect`, `EntryStaysAlive`, `CacheExpiresFirst`, `ServerLinesAccounted` | `ServerAssumption`: what it says of the times is needed |
| | `LineTypes`, `LineTexts` | `LineAssumption`: a text has neither a ':' nor the NUL that ends it |
| `TransportProofs` | `HttpTypes`, `HttpBodies`, `HttpReadTimeouts`, `HttpAttempts`, `HttpBounded` | `HttpAssumption` |
| | `BufferTypes`, `BufferComplete` | `BufferAssumption` |
| | `PayloadTypes`; `PayloadReadable` | `PayloadAssumption`; for the second `SmallBatches`: no number needs the fourth length |
| `MeterProofs` | `CounterTypes`; `CounterExact`, `CounterIsFetchAdd` | `CounterAssumption`; for the last two `Disciplined`: one adder, or no measurer |
| | `MaxGaugeExact`; `DistTypes`, `DistExact` | `MaxGaugeAssumption`; `DistAssumption` |
| | `MonotonicNeverOverReports`; `SampledExact` | `MonotonicAssumption`; `SampledAssumption` |
| | `MonotonicUintNeverOverReports` | `UintAssumption`, and `SetFirst`: a `Set` comes before the first `Measure` (section 6 has what happens otherwise) |
| `BucketProofs` | `BucketTypes`, `BucketsFit` | `WidthAssumption`: an even number of bits, at least 6 |
| `TagsProofs` | `TagsTypes`, `TagsAreMaps`, `TagsCompare` | `TagsAssumption` |
| | `AdminTypes`, `AdminWholeOrNothing` | `AdminAssumption` |
| `TotalsProofs` | lemmas: sums, joined sequences, division, and induction; no theorem of its own | |

Induction over the natural numbers is done with sets in the place of predicates
(`SetInduction`, from the well-foundedness of <): the library's own theorem takes an
operator, which the provers cannot instantiate. A recursive function is unfolded by
showing that a function with its equation exists and that two of them agree
(`StepsExist`, `StepsAgree`, `LoopStatesExist` and their like).

They hold for every set of ids, clients, admins, adders, recorders, pool threads,
values, tags, requests and datagrams, every batch size, modulus, capacity, timeout,
ttl and period that satisfies the assumptions, and every bound. Six of them are
about steps and not states: `RegistryLosesNoUpdate`, `ExpirySafe`, `CacheExpiresFirst`
and `AdminWholeOrNothing` state action properties, `CounterIsFetchAdd` and `TagsAreMaps`
refinements.

**Registry.** `IInv` adds to the properties what each thread holds at each of its
steps (`ThreadsHold`: a client about to touch a meter has a pointer, one inside
`GetAgeGauge` has an id of that type and no pointer yet, an admin without a
listing has no raw pointers) and that only age gauges can be handed out
unregistered. Without the first a dereference could not be shown to hit an
object; the second is what `OnlyDeletableLeave` needs of the gauges over the limit. The steps
touch the heap in few ways (leave it, update one object, drop unreferenced
objects, erase from the map, add an object, borrow one), each of which is a lemma (`HeapKept` ... `InsertKeepsHeap`);
each action's step cites the one it is an instance of. `ExpirySafe` needs
`xnow <= now`: the clock only moves forward between the read and the erasure, so
an age computed with the old time is a lower bound. `AgeGaugesLimited` adds that
the number of registered age gauges is below the limit while the one age client
is between its test and its insert. `RegistryLosesNoUpdate` adds `ReportInv`: the
sender's `Measurements` are of maps it has visited in this round, so a meter that is
measured now was not reported before; `HeapFrame` and `MapFrame` say what any step
leaves alone of a meter and of a map. `RegistryOnlyDeletableLeave` rests on
`ErasedByAdmins`: with frequency zero an erased meter is of a type that admins can
delete.

**Publisher.** `Inv` has four parts besides the types. `Phases` orders `Start`,
`Stop` and the sender: the thread inside `Stop` enters `send_metrics` only after
the join, so at most one call has tasks (`Open`), although nothing in
`send_metrics` itself excludes a second. `Frames` says what the latch of that call
counts: the batches still to be queued, queued and worked on, the task that is
about to count down included. Hence the call cannot return under a task. `Pool`
has each buffer available or held by exactly one task; with a thread idle there
are fewer holders than buffers, so a task that starts finds one
(`PublisherBufferForEveryTask`). `EveryMeasurementAccounted` is inductive with
these: a step moves one term of the sum. That the batches add up to the
measurements is `BatchesTotal`: cutting is a partition of an interval.
`TotalsProofs` has how a sum changes when a point, an end of a sequence or
everything changes.

**HttpClient.** `HttpInv` adds to the properties what a request that is still
being retried has logged (one entry per attempt given up, none final) and spent
(`attempt` timeouts and the back-offs slept so far), and that it has an attempt number. Without it the two
properties that speak about the answer are not inductive. That a read timeout is
final needs `ElapsedBound`: it takes at least the total timeout, so the test for
another attempt fails whatever the clock adds.

**CompressedBuffer.** `BufferInv` says where every byte appended is: in units already
written below `dest_index_`, held back by zlib, or not yet taken from the input
(`BytesConserved`). A call of `deflate` moves a boundary between them: `InputSplit` cuts
the input, `WrittenBehind` has the new units behind the old, and what units stand for
is the concatenation of what each stands for (`JoinedConcat`). At `Finish` nothing
is held back and nothing is left.

**Payload.** `IntRead` is the round trip of one number: the cases of
`SmilePayload::Append` are exclusive, and the parts that division cuts off are put
together again. From it follow, by induction on their number, a list of numbers
(`IntsRead`), and then a measurement (`MeasurementRead`): its ids tell its tags
(`Tells`), because a string of the batch has a number in the table. The invariant
`PayloadInv` says that a reader of what is behind the table finds the measurements
before `next`, whatever follows (`ReadsFirst`); without the last two words a
measurement more could not be appended to it. `SmallBatches` is needed: the fourth
length has the wrong token (section 6).

**Buckets.** 2^n is treated as the number of subsets of a set of n elements, of which
half contain any given element (`BitNext`). The table that the generator computes by
pushing and sorting has a closed form, `Table`: 1 to 14, then for every power of four up
to the last but one nine values a third of it apart, then the largest integer; the
closed form of `powerOf4Index` follows (`Indexes`). What the index formula selects is
then an entry whose neighbours enclose the amount (`BelowNextValue`, `NotBelowValue`).
`WidthAssumption` is the least from which the regular part of the table exists; the code has 64.

**Counter.** `LoadsCurrent` relates what an adder has loaded to the count now: if
nobody measures, the count only grows, so a successful compare puts all of
`current <= loaded <= count = current`; if nobody else adds, the count is what
was loaded or was reset to zero. With two adders and a measurer neither holds,
and `counter_two_adders` shows the amount reported twice. The refinement step is
then immediate: a successful compare-exchange is `FetchAdd!Add`, `Measure` is
`FetchAdd!Measure`, all else stutters.

**MaxGauge.** The invariant is the property plus `upArg > upCurrent` at the
compare-exchange: it fails unless the maximum is the one that was beaten.

**Timer and DistributionSummary.** `DistInv` says what the parts hold while
recorders are at work, as long as nothing is mixed: each sum lacks exactly what the
recorders that have not reached it will add (`SumsExact`), the maximum is there or
on its way (`MaxExact`); and during a `Measure` that met nobody the parts taken so
far are zero. That the maximum vanishes with the sums takes a third part: no count,
nothing recorded.

**MonotonicCounter.** `Bounded` splits the property by the position of `Measure`:
between its second load and its store, growth since the load is still owed.
`GrowthTriangle` is the arithmetic: the positive part of a difference is
subadditive, NaN included. `UintBounded` is the same for unsigned numbers, where
growth is a distance modulo `Modulus` for a source that wraps around, and where
`UintReported` shows that the fall of a source that is restarted is a distance
above `kOverflow` and reported as nothing.

**MonotonicSampled.** The property is inductive once the two samples are known to
be in order and to lose no value; `RiseTriangle` is the arithmetic.

**Server.** Four invariants build on one another. `UpkeepInv` has the age of a
waiting `Stop` below the age of the upkeep loop, which a period and a stall bound.
`IoTyped` and `HeapTyped` are types; that the lines left over are lines takes
`NextLinesAreLines`. `HeldInv` has the stamp of the entry in use no older than the
time since the io thread got it, so `MaxStall <= ExpireAfter` keeps it from
expiring. `FedInv` bounds the age of the meter of an entry that was fed: by the
age of the entry while that is not due, and afterwards by `ExpireAfter + Late(i)`,
where `Late` is the age of the loop if `expire` was already called for that cache in
this turn, and a whole late turn more if not. At most two late turns add up, which
is the term in `ServerAssumption`. `LinesInv` is `LinesAccounted`
for the lines handled so far: what is left is an end of the datagram (`EndOf`) that
begins with a line to look at, and what was applied and counted is what the lines
before it require (`Accounts`). The position of a line among those applied is a
cardinality; `OneLine` has how it grows with one line, `NextLinesSkip` that what
`parse_lines` skips after a line is nothing to look at.

**Lines.** `LoopTurns` has a loop as the sequence of its states. `SameScan` relates the
states of the loops over a line and over an id: at a comma they are the same, at the end
of the text the id's loop has ended while the line's is at its ':', and the tags agree
throughout; so `AcceptedLine`, for every text. For a well-formed id `PairsRead` says
that the tags are those of the pieces before the position (`PairMap`,
`PiecesBefore`); a turn adds the pair of one piece (`TurnAtPair`, `PairMapNext`). The
scan of statsd takes a symbol a turn: `StatsdRead` has it in the key or in the value
of a piece, with the pieces before it read (`InKey`, `InValue`). All three say how far
the loop has come after n turns, which is what ends it.

**Tags.** `TagsInv` is `PoolOK` (every string once, valid characters only) and
`GoodTags` of each living object: room where `begin_` points and a capacity that
tells the truth when the memory is outside, pointers into the pool, keys in strict
order. Without the order the binary search could miss a key and `insert` would make
a second one. Every operation takes good tags to good tags and is, on the maps
they stand for, the operation of `TagMap`; interning more strings changes no map
already there. `TagsCompare` has two halves: equal pointers give equal strings; and
equal maps give equal arrays, because the index of a key is the number of smaller
keys (`KeysBelow`) and a string has one pointer.

**Admin.** `HandlerInv`: while a POST is applied, the configuration is that at its
arrival with the tags already handled set or removed (`Applied`), in whatever order
they were handled; and tags are left to apply only if the whole request was
accepted before the first.

Only model-checked:

* all liveness properties (`IdleMeterErased`, `UpdateMeasured`, `ResolverRecovers`,
  `StopTerminates`): fairness and `ENABLED` are outside the prover's reach;
* `LibraryTypeOK`, the conjunction of the type invariants of `MCLibrary`: those of
  the counter, the maximum gauge, the timer, the three monotonic meters, the HTTP
  client, the payload, the buffer, the buckets, the tags, the lines, the admin server
  and the server are parts of theorems of their own;
* what the violation runs show: a counterexample needs no proof.

## 6. Findings

With a run of their own (`findings` in `PROJECT.json` quotes the lines):

* `registry_age_gauge_throw`: an admin deletes an age gauge between `contains`
  and `at` of `GetAgeGauge`, which is `noexcept`: the daemon terminates.
* `registry_dangling`: `Measurements` refer to ids owned by meters that the
  expirer (or a delete) may free before the batch is serialised.
* `registry_sampled`: `mono_sampled_` is visited neither by `measure` nor by
  `remove_expired`; what is recorded for type `X` is never published.
* `counter_two_adders`: `add_double` is not equivalent to `fetch_add` when two
  threads add while a third measures.
* `monotonic_uint_baseline`: a `Measure` before the first `Set` makes the first
  absolute value a delta.
* `server_orphan`: a percentile meter is made around a registered timer that is
  about to expire; once the expirer has erased it, the cache keeps it for as long as
  lines come, and nothing recorded is published. It takes an expiration frequency,
  which the daemon as shipped does not set.
* `common_tags`: a POST of common tags answers "common tags updated", and the
  publisher goes on with the copy it took when it was constructed.

Seen while modelling, without a run:

* Nothing sets `expiration_frequency`, so `expirer` returns at once and the
  "Meter TTL" flag (`bin/spectatord_main.cc:78`) erases nothing; idle meters are
  skipped by `measure` but stay in the maps.
* With an expiration frequency, the daemon's own counters would expire out of
  their map while their handles live on, and later updates would be lost (as it is
  configured, `OnlyDeletableLeave` excludes this).
* `MonotonicCounter::Measure` remembers a second load of `value_`; a `Set`
  between the two loads is never reported.
* `hardware_concurrency()` may be zero: the pool would have no thread and
  `send_metrics` would wait for ever.
* `should_stop_` is never reset: a publisher that is started again sends nothing
  until it is stopped. That last flush posts with a libcurl that has been cleaned
  up, because `GlobalInit` and `GlobalShutdown` act once per process.
* The remainder of a `Record` that a `Measure` cut in two stays in the timer until
  the next `Measure` that finds a count, however much later that is.
* A `--meter_ttl` below `kExpireAfter` plus two periods of upkeep (180 s) lets
  meters expire under cache entries that are in use.
* Type `X` reads the value as an integer although `get_measurement` stored a
  double; `n,x1` is accepted as the value 1; an empty first line counts as an error.
* A negative amount is ignored by `PercentileDistributionSummary`, but a
  `PercentileTimer` counts it in a bucket while the timer ignores it.
* A statsd sampling rate close to zero repeats the update that many times in the io
  thread.
* The terminator that the datagram servers write after the last byte needs one more
  byte than the buffer has when a datagram fills it.
* `Start` throws when a socket cannot be opened, with `upkeep_thread_` joinable:
  the process ends with `std::terminate` (`StartFails`).
* Two admin requests at once race on the `std::map` of the common tags; the admin
  server's threads may outlive the registry in `main`.
* A measurement's tag with the key of a common tag is sent twice.
* A `batch_size` of zero throws in `Start`, which is `noexcept`.
* Two samples with the same timestamp and different values make an infinite rate.
* `Id::Hash` caches its result in a plain field that threads share.
* A table of 2^19 or more strings in one batch would not be readable
  (`smile.cc:63`).
* The move assignment of `Tags` (`tags.h:72`) leaves `capacity_` as it was. Nothing
  in the daemon adds to such an object afterwards, and `Tags` does not model it.
* An `errorCount` above the size of the batch would wrap around in `size_t`; a body
  that is JSON but no object fails an assertion of rapidjson (`publisher.h:354`).
* Time is the wall clock (`registry.h:33`): setting it forward expires live meters.
* A chunk of output of one byte would leave `deflate_chunk` without room
  (`BufferAssumption` excludes it; the daemon uses 32 kB).

## 7. Plan

Done: `Registry`, all meters, `HttpClient`, `Publisher`, `Server` with the cache and
the percentile meters, `LineProtocol`, `Admin`, `Tags`, `Payload`,
`CompressedBuffer`; theorems about all of them, and for every safety property that a
passing run checks (`LibraryTypeOK` by its parts). Next:
action properties of the publisher, what a step of one caller leaves alone of the
other's frame.

## 8. Not modelled

The status metrics and logging of `upkeep`, beyond their updates in `Registry`;
`last_successful_send_` and the age gauge it feeds; wording and logging; the bytes
of strings and doubles in a payload, and its constant header and array tokens; the numbers of lines and of gauges; `WithTags`,
hashing and the statistics of the string pool; errors of a receive; I/O of files,
systemd and certificates; the one-shot `gzip.cc`, which only tests use; configuration and `main`, which are straight-line code
whose parameters are the constants here; the test server, benchmarks and tools. Doubles (rounding, infinities) beyond NaN;
`size_t` arithmetic of an error count larger than its batch; the layout of the
hash tables (`remove_all` advances an iterator to an erased element); a wall
clock that is set back. Reading the clock and the store that follows are one step,
except in `remove_expired`; a gauge that expires between the two readings in
`measure` is not told apart. In `HttpClient` the headers, TLS and certificates.
