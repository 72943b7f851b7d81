# Tuile: models and proofs

TLA+ models of [tuile](../src/README.md), a geospatial tile engine in Rust: what
the code does, where its steps interleave, fail or come in the wrong order, and
what must nevertheless hold. TLC checks the models on small instances; TLAPS
proves what matters most for every value of the constants.

Modules and definitions keep the source's names. `PROJECT.json` maps every
definition that models code to the lines it stands for, lists the runs with the
properties each checks, the hazards the properties are for, the findings, and
the theorems.

## 1. Inventory

tuile is a workspace of 36 crates. Tiles come from remote sources, are kept in a
shared object store, served to instances and clients, turned into geometry and
images by an engine, and drawn or recorded as films.

### 1.1 Storage and serving

**Tile store** (`tuile-tile-server/src/store.rs`, `manifest.rs`, `layer.rs`,
`tiering.rs`, `due.rs`). Tiles of a layer are grouped into *zones*. A zone is a
bucket prefix: immutable *archives* under unique keys, and one *manifest* that
lists the live archives (the last one wins), the retired ones with the time of
their retirement, and a generation.

* State: the bucket; per process, for every zone, a buffer (pending tiles and
  the tiles being flushed), a lock that keeps flush and compaction of a zone
  apart, a cache of manifests with the reads in flight, copies of archives on
  disk, and caches of archive directories.
* Operations: `put_fetched`, `flush_due` / `flush_all` (`flush_zone`: freeze,
  `drop_duplicates`, upload, `publish`, put back on failure), `publish_batch`,
  `compact`, `compact_tiered` and `maintain` (`prune_expired`, `merge_run`,
  `cleanup`), `scrub`, `get` (`held_at`, `archived_in`, `manifest`, `vanished`),
  `forget_zone`.
* Interaction: several processes share the bucket and nothing else. The manifest
  is replaced on condition that it is what was read; an archive is deleted only
  after the manifest stopped naming it, and only after a grace; a process learns
  of others' publications when a cached manifest ages (`max_stale`) or by an
  announcement.
* Hard: every await is a point where a future may be dropped, a process may
  die or another may publish; merges take long; garbage is told from work in
  progress by its age; readers work with manifests that are out of date; a
  buffer that fails to publish must not be lost, nor grow for ever.
* Correct when: nothing published is lost or taken back; what the manifest names
  is in the bucket; a reader finds the copy that was newest when its manifest
  was written; tiles leave with their epoch; garbage goes; a tile put is
  published in the end, and memory stays bounded.
* Modelled: `ZoneStore`, `SharedTiles`, `ZoneReaders`, `ManifestCache`, `Buffers`.

**Ledger, register, index, extraction** (`ledger.rs`, `register.rs`, `index.rs`,
`extract.rs`, `absences.rs`). The store tells a ledger of each archive it is
about to write, each publication, and each archive it is about to delete and has
deleted. `MemoryRegister` keeps the archives, the tiles of each, the zones' live
lists, and answers which tiles a zone has and who covers whom; `rebuild_zone`
makes a zone's rows from the bucket. Hard: the calls follow the bucket's change and
may be refused, lost, late or out of order. Correct when a register that missed
nothing answers what a reader of the manifest would get, and one that missed
something still points at nothing that is gone. Modelled: `Register`.

**Projections** (`projection.rs`): derived tables over the archives, each with
its own progress; rebuilt from nothing when their version changes. Not modelled.

**Tile service and peers** (`service.rs`, `content.rs`, `catalog.rs`,
`upstream.rs`, `peers.rs`). A request is answered from the hot cache, the store
or the source. Concurrent requests for a tile share one fetch in a process
(flights) and, with peers, among instances (a claim with an expiry, hot tiles in
shared memory, announcements of publications). Hard: a claim that expires while
its fetch goes on, a release by one who no longer holds it, a client that leaves
with the only poll of a flight, a source that fails for all who wait. Correct when
every request is answered, a waiter never hangs on a fetcher that died, and a
tile is not fetched twice. Modelled: `TileService`.

**Local copies** (`disk.rs`, `lru.rs`): archives copied whole to a local disk, a
bounded number of bytes, evicted least recently used first, shared by the reads
in progress. **Archive format, grids** (`archive.rs`, `grid.rs`): PMTiles
encoding and the numbering of tiles and zones. Not modelled.

**Repository** (`tuile-repository`): the read side of film buckets: immutable
objects behind caches that revalidate and evict. Not modelled.

**Farm** (`tuile-farm`): a film is produced by several tasks that share a run
store: packs are baked, parts rendered, a receipt vouches for each part's
segment, and the last task to finish joins the film. Hard: tasks know of each
other only through the store, die between two puts, are stopped, fail and are
asked again. Correct when a receipt is never there before what it names, nothing
done is done again, and somebody joins the film. Modelled: `Production`.

**Pack API, metrics** (`tuile-pack-api`, `tuile-metrics`): HTTP faces.

### 1.2 Engine

**Runtime** (`tuile-core/src/runtime.rs`, `traversal.rs`, `protocol.rs`,
`offload.rs`): one loop that traverses the tile tree from the cameras, requests
and cancels loads, and sends deliveries, draws and evictions to a client that
acknowledges uploads. **Graphics budget** (`tuile-budget`): which tiles may stay on
the GPU, at which quality, within bytes and milliseconds; it counts every copy of a
resource by where it is. **Content pump** (`tuile-wgpu/src/pump.rs`): the
renderer's queue of deliveries and what it holds. Hard: the two sides know of each
other only by messages that cross; a load may land after it was cancelled, an
acknowledgment after its delivery was withdrawn; the imagery may change under
everything. Correct when both sides agree on every copy once the messages are read,
what is drawn stays drawn, and what is wanted is drawn in the end. Modelled: `Session`.

**Geometry** (`raster.rs`, `stitch.rs`, `seam.rs`, `math.rs`, and the crates
`tuile-terrain`, `tuile-ground`, `tuile-planetary`, `tuile-b3dm`): floating-point data
conversion. **Content caches** (`tuile-storage-foyer`, `tuile-native-fetchers`): memory and
disk caches keyed by address, with one fetch per key in flight. Not modelled.

### 1.3 Sources, renderers, films, viewers

`tuile-cesium-ion`, `tuile-bing` (remote sources); `tuile-camera`,
`tuile-atmosphere`, `tuile-radiometry`, `tuile-star-catalogue` (continuous
mathematics); `tuile-wgpu`, `tuile-hydra`, `tuile-usd`, `tuile-bevy`,
`tuile-overlay`, `tuile-ui` (rendering); `tuile-film*`, `tuile-tape`,
`tuile-record`, `tuile-mp4`, `tuile-bake`, `tuile-pack` (films and packs);
`tuile-viewer`, `tuile-web` and the examples, integrations, lab, site and
scripts. These are input, output, formats and numerics; `PROJECT.json` says of
each why it is not modelled.

## 2. What is modelled

| module | models | of |
| --- | --- | --- |
| `ZoneStore` | the write path and upkeep of one zone, many processes | `store.rs`, `manifest.rs`, `layer.rs` |
| `SharedTiles` | what the store promises its users (abstract) | implemented by `ZoneStore` |
| `FlushRaces` | what a flush cannot know when it publishes; extends `ZoneStore` | `store.rs`: `drop_duplicates`, `publish_delta` |
| `ZoneReaders` | readers with an older manifest; extends `ZoneStore` | `store.rs`: `archived_in`, `vanished` |
| `ManifestCache` | how one instance knows a zone's manifest | `store.rs`: `Manifests`, `manifest`, `manifest_flight`, `forget_zone` |
| `Buffers` | the buffers of all zones of one instance and their locks | `store.rs`: `put_fetched`, `flush_due`, `flush_all`, `flush_zone`, `end_flush` |
| `Register` | what the register is told of a zone, and what it answers | `ledger.rs`, `register.rs`, `store.rs`: `record_*`, `scrub` |
| `TileService` | one tile asked of several instances | `service.rs`, `peers.rs` |
| `Production` | a film produced by several tasks | `tuile-farm/src/produce.rs` |
| `Session` | the engine's session, its budget and its renderer | `runtime.rs`, `tuile-budget`, `pump.rs` |
| `*_proofs` | the theorems about `ZoneStore`, its refinement and `FlushRaces`, and about `ZoneReaders`, `ManifestCache`, `Buffers`, `Register`, `TileService`, `Production` and `Session` | |
| `MC*` | instances for TLC | |

A definition named `X_Something` is `X` with a plausible bug; no specification
uses it. `PROJECT.json` lists under "mutants" the property that each one breaks.

How they meet: `ZoneReaders` and `FlushRaces` extend `ZoneStore`; `SharedTiles` is instantiated by
it. The others stand at an interface that another one establishes. `Buffers` takes a
publication as one step that ends well or not, which is what `PutsReachReaders` and
`KeepsPromise` say of a zone. `ManifestCache` takes the manifests of a zone as a
sequence, which is what `LeavesOnlyRetired` says, and gives `ZoneReaders` its `MaxAge`
(`BoundedStaleness`). `Register` takes each publication as atomic, as `ZoneStore` shows.
`TileService` takes the store as one in which a tile put is seen by every instance after
a while, by `PutsReachReaders` and `BoundedStaleness`.

### 2.1 ZoneStore

*State.* `archive` is the sequence of all archives ever uploaded (its index is the
archive's unique key), `stored` those the bucket holds, `manifest` the zone's
manifest object. Each writer has `pending` and `flushing` (`Buffer`) and `kept`
(what `drop_duplicates` left). `task[p]` is where process p is: `pc` names the
await, `since` is the `now` its operation took, `base` the manifest it read, `key`
the archive it uploaded and has not published, `run` what it merges, `doomed` what
it is about to delete.

*The list of archives* is kept as a place per archive, because only the order
matters: a delta's place is the generation it joined at, so it comes last, and a
merged archive takes a place of the run it replaces.

*Actions.* One per await of the code, with everything done between two awaits.

| code | actions |
| --- | --- |
| `put_fetched` | `Put` |
| `flush_zone`, `drop_duplicates`, `publish_delta`, `end_flush`, the `PutBack` guard | `Freeze`, `Compare`, `Upload`, `PublishDelta`, `EndFlush`, `PutBack`, `Crash` |
| `publish`, `manifest::replace` | `ReadManifest`, `Conflict`, and the `Publish...` action of each derivation |
| `prune_expired` | `Prune`, `PublishPruned` |
| `compact`, `compact_tiered`, `merge_run` | `Select`, `Nothing`, `Merge`, `PublishMerged`, `Superseded` |
| `cleanup` | `Cleanup`, `Refused`, `PublishForgotten`, `Delete`, `Know`, `List`, `KeepOrphan`, `EndCleanup` |
| an error, a dropped future, a killed process | `PutBack`, `Abort`, `Crash` |

A maintainer is a process of its own. In the code a flush and a merge of the same
process exclude each other by the zone's lock; here they never do, which only adds
behaviours, as other processes never held that lock anyway. A crash of a maintainer
is an `Abort`: it keeps nothing that matters.

*Abstractions.* Bytes are model values. Sizes are left out: a flush may begin
whenever something is pending, and a compaction may pick any contiguous run of one
epoch (`tiering::select` picks one of these). Giving up after `publish_attempts` is
a failure, which may come at any time. All processes share one clock. Two tiles in
one archive share its epoch; an epoch is `EpochLength` ticks instead of a month.

*Two facts of the environment are assumed*, as the code assumes them: no upload waits
for its publication longer than `PublishTime` ("No upload takes this long", the
comment on `DEFAULT_ORPHAN_GRACE`), and no merge lasts longer than `MergeTime`.
They hold back `Tick`, so that time does not pass while someone is late. Left out:
a `compact` called by hand that finds nothing to merge, and so does not clean up.

`publish_batch` is a writer without a buffer: `pending` is then its caller's batch, which is
the caller's again after a failure (`PutBack`), and a tile put twice is the later put, where
a batch keeps the later fetch.

`FlushRaces` adds a history to it, `overtaken`: the tiles a flush publishes without knowing
their newest copy. There are three ways to that, each in the code. Nothing holds the zone
between a flush's comparison and its publication against *other processes* (`Rivals`); a tile
whose stored copy cannot be read is kept whatever its age (`Unread`); and a publisher that named
its epoch before it ended may come after one of the next, so that what expires is not what is
first in the list, and the copy uncovered is one nobody compared with (`EpochsInOrder`).
`NewestFetchWins` speaks of all other tiles.

### 2.2 SharedTiles, and the refinement

`SharedTiles` says what a user of a durable layer may rely on without knowing of
archives: a shared map of tiles (`view`) that changes only when a process shares
copies it holds; a process may accept a copy (and forget others for it), share, and
let go of what it holds, but never of its last copy of a tile that is not shared;
only death loses copies. `KeepsPromise` instantiates it with the merge of the live
archives as `view` and pending and frozen copies as `held`. Compactions, cleanups,
lost races and uploads map to stutters; `PublishDelta` is a share; `PutBack` and
`EndFlush` let go; `Crash` loses.

### 2.3 ZoneReaders

Extends `ZoneStore` with readers of one instance. `known` is the manifest the
instance remembers; a reader works with it if it was current at most `MaxAge` ago
(the bound that `ManifestCache` establishes: ttl, stale time and transfer). A read
looks at its newest archive (`ReadNewest`), then at all older ones at once
(`ReadOlder`, in any order), and answers with the newest hit; past an archive that
is gone, the manifest is forgotten. `now` is taken before the manifest is awaited,
as in the code. Local copies and the process's own buffer are left out: both can
only find more.

### 2.4 ManifestCache

`ZoneStore` shows that a zone's manifests are a sequence, so here a manifest is its
generation. `kept` is what `Manifests::cache` holds, `flight` the shared future of
`manifest_flight`, whose steps are *asked*, *served* (the bucket answered; the value is
fixed, and may be overtaken), *landed* (remembered, still in `flights`) and gone. A shared
future goes on only while someone polls it: a waiting reader, or the task spawned for a
stale answer. `flusher` is the holder of the zone's lock, which reads manifests itself
(`drop_duplicates`) and publishes; pruning and cleanups publish without that lock, like
another instance. What is remembered is forgotten when an archive it names is found gone,
when a newer generation is announced, or at some time after a pruning; announcements may be
late or never come. `floor` is history: the newest generation the instance has learned of
since it last forgot. The client's time-out (external code) is `ReadTime`: an answer older
than that is asked for again.

### 2.5 Buffers

A tile is its size. `pending`, `frozen`, `bytes` and `age` are the fields of each zone's
`Buffer`; `line` is each zone's lock, the holder first and those who wait behind it; `call`
is what each caller has still to do. A put counts, replaces, and joins the line of the zone
it must flush (`Put`: its own if that is full, one of the largest if all together are);
`FlushDue` takes one zone after the other and none after one that failed, `FlushAll` at most
`AtOnce` at a time and every one; `Freeze`, `Publish`, `Fail` and `Drop` are `flush_zone`
and its guard. `Keep` and `Kept` are compactions that hold the same lock. `owed` and `alone`
are history. A call is of one role (`RolesAssumption`: a writer does neither upkeep nor
merges), and tiles and zones are finitely many, so that sizes add up. A publication only
ends well or not: `ZoneStore` has the rest. The crash simulated by the code's own `Fault`
hook is left out.

### 2.6 Register

One side is the bucket: `archive`, `publication` (its index is the generation), `stored`,
and a cleanup (`doomed`, `step`). The other is the register's book: the `state` of each
entry, which only moves forward, the archives whose tiles it `known`s, a `row` per tile,
its zone's `generation` and whether it is `stale`. Between them is `telling`, the
publications made and not yet told: `Tell` takes any of them, and may take it again;
`Miss` drops one. `Flush`, `Merge`, `Scrub`, `ScrubWhole`, `Prune` and `Forget` are the
publications, with what each tells; `LetGo`, `Delete` and `ToldDeleted` the three steps of a
cleanup's deletions, `Stop` its failure. A scrub knows whether
an older archive is in the list from the manifest it began with, which may be old
(`OldersRead`).

A rebuild is two steps, as much later one than the other as may be: `ReadForRebuild` reads a
manifest (`zone_tiles`), and `Rebuild` applies it with the indices of its archives
(`rebuild_zone`), to a book that may have been told of newer publications, and with no index
of what was deleted before it was read (`Indices`). Several may be on their way at once, of the
same or of different manifests. `Rebuilt` is the loop of `apply_tiles`, told by its outcome: the
last archive read that holds a tile takes its row, unless that row is of a newer publication or
of a later archive of the list (`Kept`).

`rebuilt`, `told`, `ordered`, `late` and `outlasted` are history. `late` holds the rebuilds
applied after something newer was told or deleted, `outlasted` those under which the bucket
lost an archive of the manifest they had read, that is, which took longer than the retire
grace; a rebuild that was not overtaken puts right what they left and empties both.

`HeldWhole` is what a register that missed nothing since its last rebuild says of its zone.
It has two exceptions the code makes: a scrub whose older archives were not to be told from
its manifest, and an archive of a missed publication that nothing names any more
(`Forgotten`): the rebuild retires what the manifest says is retired, and an entry that is
live without its tiles and that the manifest has forgotten stays so. `rebuild` shows it.

*Assumed:* the retire grace outlasts the telling of a publication (`PastGrace`). *Left out:*
absences, the SQL store, archives written and never published. A cleanup's archives are
deleted in one step, in the code one by one.

### 2.7 TileService

One tile. Each instance has the tile in memory or not (`hot`), and at most one `flight`,
which its clients share; all share the tile just fetched (`shared`) and the `claim` on
fetching, both with what is left of their time. A client asks (`Ask`), has its look in the
store (`Found`, `NotFound`), waits, or leaves (`Leave`). A flight's steps are `Look`, `Claim`,
`Again` (the second look, after the claim was won), asking the source (`Answered`, `Failed`),
`Share`, `Store`, `Emit`, `Release`; one that lost the claim waits (`Seen`, `GiveUp`). A flight
moves only while a client polls it, and one that nobody polls stays where it is, its
claim running out. `Unreached`, `NotStored`, `NotKept` and `Crash` are what goes wrong.
*Assumed:* a source answers within `FetchTime`, a look takes at most `ReadTime`, and a tile
stored is read by all after `StoreLatency`; in the run these are such that the shared tile
outlasts them, as the code's defaults do. *Left out:* content types, catalogues, batches,
prefetching, `FreshTiles`.

### 2.8 Production

`packs`, `segment`, `receipt`, `film` and `stop` are the objects of the run store. A `task`
lists receipts, reads them (`List`, `Read`), works its packs in lanes, `AtOnce` at a time,
and then finds out whether it is the last (`LanesOver`, `Check`), gets every segment and puts
the film (`Get`, `PutFilm`). A `lane` bakes or finds its pack, keeps it, and renders its parts
one after the other, each tried `Tries` times, its output checked before it is put and then
vouched for (`Bake`, `Keep`, `NextPart`, `Render`, `PutSegment`, `Vouch`). `Fail` ends or kills a
task at any await, `TryFails` a try; `Stop` and `GoOn` are the object `STOP`; `Ask` and
`AskAgain` begin a task anew. *Left out:* the join of a production of one task only, which does
not look again; journals and scratch files. The receipts of one listing are read at once.

### 2.9 Session

The session's task and the renderer's, and two queues of messages. `budget` holds, for each
resource, the copy being loaded, decoded, in transit and on the GPU, each with its
generation and epoch, and the ledger; `inFlight` and `decoded` are what the session itself
holds; `queue`, `held` and `shown` are the pump's. `AnswerClient` takes some of the messages
there are and steps; `AnswerLoads` takes the loads that ended and steps. `Step` is a whole
step of the budget and what the session does about it: cancel, start, deliver, withdraw,
evict, draw. `Pump` is a frame of the renderer: it reads some of the messages and uploads or
refuses some of what is queued. `Redrape` moves the imagery's epoch, `Look` the view,
`Rested` ends a backoff.

*Data left open.* Priorities, bytes, limits, quotas and pre-emption decide *which* copy is
withdrawn, evicted or freed; here any that the guards allow may be (the bounds `MaxSqueezes`
and `MaxFaults` count it). A time-out or a delay is "late" or "rested" at any
time. There is one kind of resource, whose epoch moves. Both sides read a prefix of their
queue, not all of it, because the web worker's and the page's transports are asynchronous
(`WorkerStream` in `tuile-web`, `PageStream` in `tuile-viewer`). *Left out:* store misses,
slots and their pruning, meshes, pins, the traversal.

*The draw set* (`DrawSets`) is all that is wanted, and perhaps more, when all that is wanted
is on the GPU, and otherwise any set of what is there. The code may then leave out what is
wanted, drawable, and was drawn: while wanted ground is lost and the pinned floor is not in,
no ground finer than the floor is drawn (`downstream.rs:1350-1382`), and a mesh none of
whose drapes is there is not drawn (`engine.rs:995-1038`); and it may draw what nobody
wanted, an ancestor or held tiles. So what is drawn does *not* stay drawn, and `StaysWhole`
does not say so: it speaks of a view all of which is drawn, of which nothing is missing that
could hold the rest back. Resources are meshes and drapes alike, and a view wants a mesh's
drapes with it.

One thing seen while modelling has no property: the acknowledgment of a withdrawn delivery
whose decoded copy was released meanwhile is dropped as stale, and the renderer goes on
holding that upload, uncounted, until the next eviction or delivery of the resource. A film
withdraws nothing (`Cancellable`), so `FilmsCountWhatIsHeld` holds for it.

## 3. What the runs check

| run | instance | shows |
| --- | --- | --- |
| `race` | 2 writers, 2 maintainers, 3 puts, 4 archives, a failure, no time | `OnlyFlushesChangeTheView`: no merge, cleanup or lost race changes what readers get. `LeavesOnlyRetired`: no publication undoes another's. `KeepsPromise`: the refinement. |
| `expiry` | 2 writers, 1 maintainer, 2 tiles, 2 puts, 2 ticks, epochs of a tick, unreadable copies | `TilesLiveOutTheirEpoch`: no tile leaves before its full lifetime. `OldestIsOldest`. `NewestFetchWins`: up to what a flush could not know. |
| `progress` | a fair writer and a fair maintainer, a failure, a crash, unreadable copies, 2 ticks, epochs of a tick that expire | `TypeOK`; `NamedStored`: the bucket holds what the manifest names while merges, prunes, cleanups and orphan sweeps go on; `GarbageGoes`; `PutsReachReaders`, as long as no epoch has expired. |
| `readers` | 1 writer, 1 maintainer, 1 reader, 2 tiles, 2 ticks | `ReadersTypeOK`; `OutlivesReaders`: with a grace longer than merge, manifest and read together, a reader finds every archive it lists. `AnswersAsListed`: however the archives answer, the newest copy is the answer. |
| `manifests` | 2 readers, dropped at will, a flusher, others' publications announced or not, archives that vanish, fair runtime, 1 generation, 4 ticks | `NoReadGoesBack`: no read gets an older manifest than its instance knew when it began. `BoundedStaleness`: a reader's manifest was replaced at most ttl + stale time + transfer ago. `ReadersAreAnswered`. |
| `buffers` | 2 zones, 3 tiles, 2 writers, an upkeep task, a maintainer, 3 puts, a failure or drop | `BytesAreCounted`, `Bounded`, `FlushedAll`, `NotLeftInMemory`. |
| `register` | 2 tiles, 3 archives, 3 publications told in any order, two missed, two rebuilds read at one time and applied at another | `TypeOK`; `AnswersAsTold`, `HeldWhole`, `NothingBroughtBack`, `RowsAreStored`, each up to what a late rebuild does. |
| `rebuild` | 1 tile, 2 archives, 4 publications, three missed, one rebuild | violates `RebuiltIsWhole`: see below. |
| `service` | 2 instances, one with a sink, 2 clients, 1 fault | `TypeOK`; `FetchedOnce`: without faults the source is asked once; with them `OneClaimant`, `ClaimsGivenBack`, `RequestsAnswered`. |
| `production` | 2 tasks, 3 packs of a part, 2 at once, 2 tries, a fault, one asked again | `LastJoins`, `ReceiptsVouch`, `DoneOnce`, `FilmInTheEnd`. |
| `session` | 1 resource, both policies, 3 views, an imagery switch, a fault, a squeeze | `BooksAgree`, `StaysWhole`: a view drawn whole stays whole, `DrawnInTheEnd`; for a film `FilmsDrawWhatIsHeld` and `FilmsCountWhatIsHeld`. |
| `ghost_ack` | 1 resource, 6 views, interactive | violates `DrawnIsHeld`: see below. |

### 3.1 Where the code does other than it says

`ghost_ack` shows it: `pump.rs` promises that nothing is drawn through a frame with a
hole. A copy that is delivered, withdrawn and delivered again keeps its generation, and an
acknowledgment names only that. The acknowledgment of the first upload, on its way when
the delivery was withdrawn, counts the second as drawable; if that copy is then evicted,
the second acknowledgment counts it once more, and it is drawn while the renderer drops it.
It takes a view that wants, leaves and wants again within a round trip, and lasts until the
next eviction or delivery. A film, which withdraws nothing, is not exposed.

`rebuild` shows it: `rebuild_zone` promises to leave "what the publications would have left,
and nothing of what they no longer name" (`register.rs:167`). A zone at rest, rebuilt, is not
held whole if an entry of a publication it missed, known by name from a later one, was replaced
and deleted without the register hearing of either: no manifest names it any more, so no
rebuild retires it, and the zone is read by its archives' indices from then on. The proof of
`HeldWhole` found it.

Other differences, met while modelling, that no run shows:

* `put_fetched` promises that the newest fetch wins. The comparison is made before the
  upload; a newer copy published by another process in between is covered by the older
  one. A tile whose stored copy cannot be read is kept whatever its age, and archives may be
  published out of the order of their epochs. `NewestFetchWins` says that nothing else breaks
  the promise, for any number of writers (`expiry`). Without the first or the second exception
  `expiry` finds it violated; without the third it takes a third put and a third tick. One
  process with readable copies needs none of them (`AloneNothingIsOvertaken`).
* `register.rs` says that "Replayed, or told late, a publication changes nothing a newer one
  decided" (`register.rs:29`). A *rebuild* applied late does: `apply_tiles` looks at the
  generation of a row but not at the state of the archive it brings, and a tile that a newer
  publication took away has no row. So a rebuild of a manifest read before a prune or a
  scrub was told brings the rows of the archives pruned back (`late` in `NothingBroughtBack`
  and `AnswersAsTold`), until the next rebuild; the zone is said to be held whole meanwhile,
  and is answered with tiles that are gone. It changes nothing else: a tile that any archive
  still holds is answered as before. A rebuild that takes longer than the retire grace may
  bring rows of archives that are deleted (`outlasted` in `RowsAreStored`). Only tests call
  `rebuild_zone` in this repository, on a zone at rest.
* `layer.rs`: "An archive only ever holds tiles fetched in one epoch". A buffer that
  outlives its epoch is filed under that of its flush: a tile fetched just before a month
  ends is published with the next.
* `forget_zone`: "the next read of the zone reads the manifest again". A manifest served
  before the publication and still on its way is remembered after the announcement dropped
  the older one, and is then fresh. `BoundedStaleness` still holds (`manifests`).
* `DEFAULT_RETIRE_GRACE`: "A retired archive outlives any reader still holding an older
  manifest". A merge retires its run as of its *start*; one that lasted as long as the grace
  lets the cleanup that follows delete archives under readers whose manifest was current the
  moment before. The read then falls through to an older copy or a miss, and forgets its
  manifest. `OutlivesReaders` is proved for `MergeTime + MaxAge + ReaderTime < RetireGrace`,
  and false without `MergeTime` in it.
* `produce.rs`, when asked to render again: each task that finishes finds every receipt
  there and joins a film, of some segments of before; a stale put may land last. `LastJoins`
  is checked, and proved, where nothing is rendered again.
* "All buffers together never hold more than this" (`store.rs:66`) holds of puts that come
  one after the other. Several at once past the bound all choose the same largest zone, and
  all but the first then find it empty; tiles being flushed are not counted at all.
* `flush_due` stops at the first zone that fails (`store.rs:1303`): one that always fails
  keeps those after it waiting. `NotLeftInMemory` is checked where failures end.
* `flush_all` passes over a zone all of whose tiles are frozen by another's flush when it
  looks; if that flush then fails, they are back in the buffer after `flush_all` returned.
  `FlushedAll` is about the tiles that were pending.

`NoReadGoesBack` speaks of what an instance learned and has not forgotten: once a manifest
is forgotten (an archive found gone, an announcement, pruning), a read begun earlier is
remembered with nothing to compare it with, and who looks then may get it; who looked before
does not. The property also needs `ReadTime < Ttl + MaxStale`, which the proof found: with a
shorter `Ttl + MaxStale`, what is remembered may expire before an answer older than it
lands, and a reader that then joins that read goes back (TLC finds it with `ReadTime = 2` in
`manifests.cfg`). The defaults, 2 s and 60 s (`store.rs:73-76`), must therefore not be
lowered under the bucket client's time-out.

### 3.2 Bounds

`MaxClock`, `MaxArchives`, `MaxPuts`, `MaxFaults`, `MaxCrashes`, `MaxGeneration(s)`,
`MaxMissed`, `MaxRebuilds`, `MaxAsks`, `MaxLooks`, `MaxEpochs`, `MaxSqueezes` and `FetchTime`
of `ZoneStore` bound the instances only. Why they are enough:

* *Zone.* Three or four archives are enough for a merge of two with a third published
  meanwhile, or for two merges that overlap; two bodies for copies that differ and copies
  that do not (one in `progress`, which asks only whether there is a copy); one tile for races
  between copies, two where archives hold different tiles.
  Times are in ticks chosen so that each grace can run out: in `progress` an orphan grace of
  1 with uploads published in the tick they are made in, a retire grace of 1 and merges of
  at most 1. `Room` keeps an operation from starting when it could not upload, so that the
  bound never stops one half-way.
* *Buffers.* A put over a frozen tile, one over a pending tile that grew, a zone full by
  itself and both together full, two flushes and a compaction in one line, one failure.
* *Register.* Three archives and three publications: two flushes and their merge or a scrub,
  or a flush, what takes it away, and the publication that forgets it; in any order of
  telling, told twice or never; and two rebuilds, each read before any of them and applied
  after any other, that may cross. It is enough to need each of the exceptions made for
  `late` and `outlasted`: without them TLC finds the property violated. Four publications,
  with one missed and one rebuild, hold as well, in 2.5 million states; longer histories are
  the theorems'.
* *Service.* Two instances and two clients in either, so that clients share a flight and
  instances a claim; a fault, so that a claim's holder dies or fails before the other. A
  claim given back late, by one who no longer has it, needs more, and is `OneFetches`'s.
* *Production.* A task with two lanes and one with a single one; two packs at once; the last
  try may fail; one fault anywhere, a stop, and a task asked again.
* *Session.* One resource, as resources share only limits, which are left open. Three views
  are want, leave, want again; `ghost_ack` needs the three more.

Deadlock is not checked: an instance ends when its bounds are used up. Symmetry is used in
safety runs only, over bodies, tiles, resources, and processes of a kind.

### 3.3 Fairness

`FairSpec` in each module says what is scheduled again and again; failures are never fair
and always bounded, and nobody is made to ask.

* `ZoneStore`: a writer calls `flush_due` and a maintainer `maintain` periodically: weak
  fairness of each process's steps, nothing about which. So a publisher that loses races or
  gives up gets another turn.
* `ManifestCache`: the runtime polls what is awaited and the bucket answers: weak fairness
  of the flight's steps and of a reader that has decided to look for one.
* `Buffers`: `flush_due` is called periodically, publications and compactions end, and a
  mutex lets in those who wait in turn (tokio's is fair).
* `TileService`: a client that is there polls; the source and the store answer or fail in
  time; time passes. A flight nobody polls is not made to move.
* `Production`: the steps of a task and a lane return or time out, `STOP` is taken away in the
  end, and whoever submits a task asks it again unless it ended well.
* `Session`: the session answers messages and loads that are there, the pump runs each
  frame, a view is sent each frame, backoffs end. Fairness of the two turns of the session is
  written out as what WF means, since TLC would enumerate all they may do to find out
  whether they are enabled.

## 4. What is proved

TLAPS checks the theorems below, for any tiles, processes, times and bounds that satisfy the
constants' assumptions. Each follows the same lines: an inductive invariant that contains
the property, one lemma per action or group of actions, and a temporal step at the end.

| module | theorem | says |
| --- | --- | --- |
| `ZoneStore_proofs` | `TypeCorrect` | `Spec => []TypeOK` |
| | `NamedStoredCorrect` | if `PublishTime < OrphanGrace` then `Spec => []NamedStored` |
| | `LeavesOnlyRetiredCorrect` | `Spec => LeavesOnlyRetired` |
| | `OldestIsOldestCorrect` | `Spec => []OldestIsOldest` |
| | `OnlyFlushesChangeTheViewCorrect` | `Spec => OnlyFlushesChangeTheView` |
| | `TilesLiveOutTheirEpochCorrect` | `Spec => TilesLiveOutTheirEpoch` |
| | `KeepsPromiseCorrect` | if `~Expires` then `Spec => KeepsPromise` |
| | `NewestFetchWinsCorrect` | `RacesSpec => NewestFetchWins`, however many writers race |
| | `AloneNothingIsOvertaken` | if `~ReadsFail` and there is at most one writer then `RacesSpec => [](\A w \in Writer : overtaken[w] = {})` |
| `ZoneReaders_proofs` | `ReadersTypeCorrect` | `ReadersSpec => []ReadersTypeOK` |
| | `OutlivesReadersCorrect` | if `PublishTime < OrphanGrace` and `MergeTime + MaxAge + ReaderTime < RetireGrace` then `ReadersSpec => []OutlivesReaders` |
| | `AnswersAsListedCorrect` | under the same conditions `ReadersSpec => AnswersAsListed` |
| `ManifestCache_proofs` | `TypeCorrect` | `Spec => []TypeOK` |
| | `BoundedStalenessCorrect` | `Spec => BoundedStaleness`, whatever is announced, forgotten, dropped or failed |
| | `NoReadGoesBackCorrect` | if `ReadTime < Ttl + MaxStale` then `Spec => []NoReadGoesBack`, whatever is announced, forgotten or dropped |
| `Buffers_proofs` | `Counting` | `Spec => []BytesAreCounted` |
| | `Bounding` | `Spec => []Bounded` |
| | `Emptying` | `Spec => FlushedAll` |
| `Register_proofs` | `TypeCorrect` | `Spec => []TypeOK` |
| | `NothingComesBack` | `Spec => []NothingBroughtBack` |
| | `RowsPointAtStored` | `Spec => []RowsAreStored` |
| | `AnswersAreAsTold` | `Spec => []AnswersAsTold` |
| | `HoldsWhole` | `Spec => []HeldWhole` |
| `TileService_proofs` | `TypeCorrect` | `Spec => []TypeOK` |
| | `OneFetches` | `Spec => []OneClaimant` |
| | `NoClaimLeftBehind` | `Spec => []ClaimsGivenBack` |
| | `AskedOnce` | if `Timely` then `Spec => []FetchedOnce` |
| `Production_proofs` | `TypeCorrect` | `Spec => []TypeOK` |
| | `ReceiptsAreTrue` | `Spec => []ReceiptsVouch` |
| | `TheLastJoins` | if `~RenderAgain` then `Spec => []LastJoins` |
| | `DoneIsDoneOnce` | `Spec => DoneOnce` |
| `Session_proofs` | `Accounting` | `Spec => []BooksAgree` |
| | `Drawing` | `Spec => StaysWhole` |
| | `FilmsDraw` | `Spec => []FilmsDrawWhatIsHeld` |
| | `FilmsCount` | `Spec => []FilmsCountWhatIsHeld` |

*Assumptions.* Only what the modules' `ASSUME`s say of the constants (times and bounds are
naturals, an epoch lasts at least a tick, no process is both writer and maintainer, "no
copy" is not a copy; likewise in the others), and the conditions in the table. The
bounds of an instance appear in the proofs only as guards: any
number of processes, tiles, archives, failures and crashes is allowed. The conditions on
times come with `Tick`'s guards: uploads, merges and reads take no longer than
`PublishTime`, `MergeTime` and `ReaderTime`.

### 4.1 ZoneStore

*Types.* `TypeOK` is not inductive: an archive is looked up by keys that tasks carry, so
`Used` says that every such key is one of an uploaded archive, that a flush about to upload
has kept something and a merge about to upload has a run. A choice of a least number
(`Oldest`, `OldestOf`, `Holder`) has a value by `LeastElement`, taken from the
well-founded order of the naturals, which stands in for induction here as elsewhere.

*`NamedStored`* rests on `StoreInv`, three facts per process. `FreshIsSafe`: what is
uploaded and not yet published is in the bucket, named by nothing, published by nobody else,
and nobody is to delete it, because it is younger than the orphan grace. `DoomedIsGone`: what is to
be deleted is not live, and at the deletion no manifest names it. `KnownIsKnown`: what was not
known when a cleanup read the manifest, and was old by then, is not named since; this is why
the known archives are read *before* the bucket is listed, and where `PublishTime <
OrphanGrace` is used.

*`OldestIsOldest`* is inductive with the types: a merge states the least of what its
inputs state.

### 4.2 What readers get

`CopyIn(a, m, K, t)` is the copy of t that the archives K of a manifest hold. As a choice of
the last holder it is awkward; `Gives` says what it is without a choice, and `GivesCopy`,
`GivesOne` that exactly one copy fits, since places differ (`PlacesDiffer`, kept by
`PlacesStep`). On that rest three lemmas about manifests alone: nothing changes for archives
that keep their places (`CopySame`); a last archive covers the others (`CopyAppended`); and a
contiguous run may be replaced by one archive in a place of the run that holds what the run
held together (`CopyReplaced`), which is where the run's being *contiguous* is needed.

`ViewInv` says what is in progress until then. `IsOwn`: an upload belongs to one process and
no manifest lists it. `Flushes`: a flush uploads what it kept. `Combines`: a merge is of one
epoch, and what it uploaded is what its run holds *in the manifest of the moment*, as long
as the run is still listed, though it read and downloaded it long before. So the publication
of a merge changes nothing, that of a flush only what it kept, and a prune removes what has
expired by the reader's clock as well (`ExpiryGrows`): `OnlyFlushesChangeTheView`. A listed
archive that has not expired stays listed, or is merged into one of its epoch that holds a
copy of each of its tiles: `TilesLiveOutTheirEpoch`, which states the lifetime as a sum of
times, and not by `IsExpired`, so that it says what that comparison must be.

*`NewestFetchWins`* adds `RacesInv`: what a flush compared, kept, and nobody overtook is
still covered by what it compared with: every live archive that holds the tile was, as far
as it states, fetched no later (`Covered`). A merge in between states the oldest of its
inputs and stands in their place, a prune uncovers only what the order of epochs puts behind
the copy that expired, and a retry reads a manifest of which the same holds.

*The refinement* adds `FlushInv`: only a flush has frozen tiles, and those it did not keep,
and all of them once it has published, are there for readers. Then every step of a zone that
does not expire is a step of `SharedTiles` or changes nothing of it: `Put` accepts,
`PublishDelta` shares, what ends a flush or puts it back lets go, and a crash loses; the
maintainers' steps all stutter.

### 4.3 ZoneReaders

`ReadersSpec` steps are steps of `ZoneStore` or leave its variables alone, so its invariants
are used as they are. What a step may do to archives that readers know of is said once
(`ForgetsTheDoomed`, `RetiresInTime`, `DoomsThePast`, `RunsInTime`). `Keeps(k, a)` is the heart:
k, listed at a, is still named, nobody means to delete it, and if it was retired since, then
not before `a - MergeTime`. `KnownKept` says it of the manifest that is remembered, for as
long as a reader may still get it, and `ReaderKept` of what a reader has listed, for as long as
it reads; the sum of the times is what keeps a cleanup from finding such an archive past its
grace. `AnswersAsListed` adds `FindsInv`: what a read has found so far is what the archives it has
read hold.

### 4.4 ManifestCache

`TimesInv` follows one answer from the bucket to a reader: what was learned at a time was
current then (`LearnedBy`), what is remembered was current at most `ReadTime` before it was
remembered, and what a reader tolerates is `Ttl + MaxStale` old at most. `OrderInv` says that
what is remembered only gets newer until it is forgotten, and that who waits after having found
it expired cannot be answered with less, even if it is forgotten meanwhile: what is kept, and a
flush on its way, know as much, and a flight that knows less was answered `Ttl + MaxStale` ago
(`ExpiredAnswer`), and is given up before it lands.

### 4.5 Buffers

`Counted`: a zone's bytes are the sum of the sizes of what its buffer holds. A sum over a set is
a fold, which this library defines by a choice of a function; that there is one, and that any
element may be taken out of a sum first, is shown with a least counterexample, for inclusion,
among the subsets of a finite set. From there it is arithmetic: what a put over a pending tile,
a freeze, a failure under later puts and a drop change of each sum. *`FlushedAll`* needs who
waits for what: who is idle is in no line (`Waits`), what is frozen is being published by the
holder of the zone's lock (`FrozenHeld`), and what `flush_all` owes is there, at a zone it has
still to flush (`Owes`). *`Bounded`* adds `Room`: between puts the total is under the bound, or
it would be without the zone one put is flushing; the largest zone of a total at the bound is
not empty, so that flush takes something.

### 4.6 Register

`Inv` is about the bucket and the publications: what the manifest, or a publication still being
told, lists is stored and not being deleted (`Bucket`, `Listed`, `Tellable`); what was replaced or
retired never comes back (`Gone`); the register heard of nothing listed that it was replaced
(`States`), and of nothing stored that it was deleted (`Swept`).

`History` says of all publications made how one follows another (`Follows`), and any later
one (`Onward`): what was replaced or retired does not come back, what is gone was replaced,
and the rest keeps its place. A telling and a rebuild look at manifests that may be long
replaced, so nothing less than the whole history will do. `Books` says what the register's
book has to do with it.

`Held` is what holds whatever is missed: as long as all publications after one are still to
be told, nothing it lists is let go (`Window`: this is where the retire grace is used); what
has ended in the book is listed no more (`Ended`); and a row points at an archive that is
live and stored, or a rebuild that was overtaken put it there (`Sent`). The register is
asked to let go *before* an archive is deleted, and a telling is ignored once it has; a
rebuild is not, which is what `late` and `outlasted` are for. From it, `NothingBroughtBack`
and `RowsAreStored`.

*`AnswersAsTold`* needs `Told(m)`, the invariant while nothing was missed or told out of
order since the last rebuild: the register holds manifest m. Its archives are live and
known, what is still to be told of older publications is settled, what else is live is
`Forgotten`, and each row is one of two things. It is `Right`: it is the archive that every
publication *since the row's own* gives the tile, so that a rebuild of one of those, applied
late, gives the row the same archive again. Or it is a `Ghost`: a rebuild that was overtaken
left it, for a tile that no archive of m holds. Right alone by m is not inductive: a late
rebuild goes back to a manifest where the tile may have been another's. A telling of the
next publication takes the register from one manifest to the next; an older one, or an older
manifest rebuilt, changes nothing but ghosts. *`HeldWhole`* follows from the same, and its
attempt is what found `Forgotten`; the attempt at `NothingBroughtBack` with rebuilds that
may be late found the ghosts.

### 4.7 TileService

`ClaimsAgree` ties the three places that know of a claim: a flight that has a lease left is
the shared claim's holder, with the same time left, and the holder's flight says it is its
own; before the claim a flight has none. A claim that ran out is nobody's (`NoneLeft`), which is
why a late release frees nobody else's.

*`FetchedOnce`* is about time, and holds where the delays leave room (`Timely`): a claim and the
wait of those who lost it outlast a fetch, and a shared tile outlasts what the store takes to
show a tile and a look that just missed it. While nothing goes wrong a tile goes through three
phases: nobody asked (`Unasked`, with one flight at most between its claim and its second look),
one flight is asking and nobody else can before it ends (`BeingAsked`), and the answer is to be
found, shared or stored, by whoever has still to look (`Answers`). Each action keeps its phase or
begins the next. `service.cfg` is one instance of `Timely`.

### 4.8 Production

`Stored`: a segment there is whole, a receipt names one that is there, and what a lane is
about to vouch for is what it put. `Shared`, where nothing is rendered again: a receipt
vouches for the segment there now; a lane has in hand only parts nobody has vouched for, and
none is forgotten between queue, lane and loss; what a task read of its own parts is so until
its lanes begin. Its last part is the argument that somebody joins: as long as a task has left, or
will leave, the film to another, the film is there or some task is *late*, that is, will yet
find every part there (`LateOne`). `LastJoins` is the case where all have ended.

### 4.9 Session

*The ledger.* Each operation on the copies keeps it (`TakeTransitSound`, `PutGpuSound` and so on:
cardinalities of sets of resources). A turn is then a composition of these: what it makes of the
copies is said once, for the arrivals (`TurnReady`, `LandingReady`: the session's books and its
budget agree, and what was drawn still has a copy) and for the step (`Outcome`, `Becomes`).
`Inv`, which gives *`BooksAgree`* and *`StaysWhole`*, is the types with the ledger (`Typed`), the
books (`Agree`), and that what is drawn has a copy and is not idle (`Draws`), so that neither an
eviction nor a release can touch it: what a view drawn whole wants is on the GPU at the end of
every turn, and drawn. Messages are read by a function over positions; that all of
them keep what one keeps is a least counterexample among the positions.

*Films.* What the renderer holds depends on messages on their way in both directions and on
their order. `FilmIs` says it of one resource, by the positions at which it is spoken of:
what the budget has in transit is at exactly one place (a content on its way, in the pump's
queue, or acknowledged on the way back), a content comes after the evictions before it,
without eviction or acknowledgment on its way the renderer holds what the budget counts, and
whatever a draw set on its way names is held, and left out by a later one before an eviction
takes it (`ShownIs` says the same of what is shown). `FilmAt` takes it from a position on in
each queue, which lets a turn be followed half-way through its messages; one lemma says of
each thing done that it keeps it: a message read by the pump (`ToldFilm`), by the session
(`AnsweredFilm`), an eviction, a draw set or contents sent (`FilmEvicts`, `FilmSelects`,
`FilmDelivers`), the uploads of a frame (`FilmUploads`). That a film withdraws, refuses and
evicts nothing but what is idle and at rest is what makes it inductive; `ghost_ack` is the
counterexample without.

### 4.10 Only model-checked

* Liveness, which this prover does not reach: `GarbageGoes`, `PutsReachReaders`,
  `ReadersAreAnswered`, `RequestsAnswered`, `FilmInTheEnd`, `DrawnInTheEnd`, `NotLeftInMemory`.
* Every other property of a passing run is a theorem.

The other way round, a claim given back late by one who no longer has it exceeds the bounds
of `service` and is left to `OneFetches`. `readers` has merges that take no time; with
`MergeTime = 1` and `RetireGrace = 3` the same holds in 1.9 million states, and
`OutlivesReadersCorrect` says it for all. Under its conditions no archive is found gone, so
that a reader forgets its manifest (`Answer`) only where they do not hold.

## 5. Not modelled

By the plan's order, what a next module would be:

1. *Local copies of archives* (`disk.rs`, `lru.rs`): copies are shared by reads in progress
   and evicted by bytes. They only ever answer for an archive that a reader lists, and
   archives do not change, so `ZoneReaders` holds with or without them.
2. *The choice of a run* (`tiering.rs`) *and of a zone* (`due.rs`): arithmetic on sizes and
   times; `ZoneStore` lets a compaction pick any run that one of them could be.
3. *`scrub`* as readers see it: it takes tiles out on purpose, and only what it tells the
   register is modelled (`Register`).
4. *Repository* (`cached.rs`, `revalidated.rs`), *content caches* (`tuile-storage-foyer`,
   `tuile-native-fetchers`): one fetch per key in flight, as in `ManifestCache`, over bounded
   caches of external libraries.
5. *Projections and absences*: derived tables with a progress of their own.
6. *The rest of the farm*: `jobs.rs` submits what `Production` runs, `assemble.rs` is the
   format of the film.
7. *Traversal and priorities* of the engine: `Session` allows any set to be wanted and any
   eviction the guards allow, so what they choose cannot break it.

Out of reach and left out for good: floating-point geometry, imagery, camera, sky and light;
formats (PMTiles, 3D Tiles, MP4, packs); GPU code and windows; clients of remote services,
which are requests and parsing; command lines, examples, scripts and the site. They are most
of the repository's lines. `PROJECT.json` gives the reason for each component.
