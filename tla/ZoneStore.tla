----------------------------- MODULE ZoneStore -----------------------------
(***************************************************************************)
(* The write path of one zone of the tile store                            *)
(* (crates/tuile-tile-server/src/store.rs, manifest.rs, layer.rs): the     *)
(* bucket that holds the zone's immutable archives and its manifest, the   *)
(* writers that freeze, compare, upload and publish their buffers, and the *)
(* maintainers that prune, merge and clean up.  Every process may be       *)
(* stopped at any await, and a writer may crash.                           *)
(*                                                                         *)
(* Zones share nothing but the memory that bounds all buffers, so one zone *)
(* is enough.  The per-zone lock of a process (zone_lock) keeps its        *)
(* lock-held operations apart: a writer is the lock holder of its process  *)
(* and a maintainer is a process of its own, which only adds               *)
(* interleavings.                                                          *)
(*                                                                         *)
(* A definition whose name ends in _ and a word is the definition before   *)
(* the underscore with a bug; nothing here uses it.                        *)
(***************************************************************************)
EXTENDS Integers, Sequences, FiniteSets

CONSTANTS
  Tile,         \* the tiles of the zone
  Body,         \* what a source may deliver for a tile
  NoCopy,       \* stands for the copy of a tile there is none of
  Writer,       \* processes that buffer and flush tiles
  Maintainer,   \* processes that run maintain (and so compact_tiered and cleanup)
  Expires,      \* does the layer expire (Layer::expiry is Some)?
  EpochLength,  \* ticks in an epoch (a calendar month)
  Expiry,       \* ticks after which a tile must be fetched again
  RetireGrace,  \* StoreConfig::retire_grace
  OrphanGrace,  \* StoreConfig::orphan_grace
  FetchTime,    \* the longest time from a tile's fetch to its put
  PublishTime,  \* the longest time from an upload to its publication
  MergeTime,    \* the longest time from a merge's start to its publication
  ReadsFail,    \* may a stored copy be unreadable when it is compared?
  MaxClock,     \* bound on the clock
  MaxArchives,  \* bound on the archives ever uploaded
  MaxPuts,      \* bound on the tiles ever put
  MaxFaults,    \* bound on errors and dropped futures
  MaxCrashes    \* bound on crashes of writers

ASSUME TimesAssumption ==
  /\ RetireGrace \in Nat /\ OrphanGrace \in Nat
  /\ FetchTime \in Nat /\ PublishTime \in Nat /\ MergeTime \in Nat
  /\ EpochLength \in Nat \ {0} /\ Expiry \in Nat
  /\ Expires \in BOOLEAN /\ ReadsFail \in BOOLEAN

ASSUME BoundsAssumption ==
  /\ MaxClock \in Nat /\ MaxArchives \in Nat
  /\ MaxPuts \in Nat /\ MaxFaults \in Nat /\ MaxCrashes \in Nat

ASSUME ProcessesAssumption == Writer \cap Maintainer = {}

ASSUME NoCopyAssumption == NoCopy \notin [body : Body, fetched : Nat]

VARIABLES
  clock,     \* StoreConfig's clock, the same for every process
  archive,   \* every archive ever uploaded; its index is its key
  stored,    \* the keys of the archives the bucket still holds
  manifest,  \* the zone's manifest, as the bucket holds it
  pending,   \* Buffer::pending of each writer
  flushing,  \* Buffer::flushing of each writer
  kept,      \* what drop_duplicates kept of it
  task,      \* what each process is doing
  puts,      \* how many tiles were put
  faults,    \* how many operations failed
  crashes    \* how many writers crashed

vars == <<clock, archive, stored, manifest, pending, flushing, kept, task,
          puts, faults, crashes>>

bucketVars == <<archive, stored, manifest>>
bufferVars == <<pending, flushing, kept>>
limitVars  == <<puts, faults, crashes>>

Process == Writer \cup Maintainer

\* archive_key: unique.
Key == 1..MaxArchives

----------------------------------------------------------------------------
(* Tiles and epochs.                                                       *)

\* A buffered or stored tile: its bytes and when they were fetched.
Copy == [body : Body, fetched : Nat]

\* What a buffer or an archive holds of each tile.
Contents == [Tile -> Copy \cup {NoCopy}]

NoTiles == [t \in Tile |-> NoCopy]

TilesOf(f) == {t \in Tile : f[t] # NoCopy}

\* f, and g where f has nothing.
Over(f, g) == [t \in Tile |-> IF f[t] # NoCopy THEN f[t] ELSE g[t]]

Restricted(f, T) == [t \in Tile |-> IF t \in T THEN f[t] ELSE NoCopy]

Epoch(now) == IF Expires THEN now \div EpochLength ELSE 0

IsExpired_FromItsEnd(epoch, now) ==
  Expires /\ now - (epoch + 1) * EpochLength >= Expiry

IsExpired(epoch, now) ==
  Expires /\ now - (epoch + 1) * EpochLength > Expiry

----------------------------------------------------------------------------
(* The manifest.  The list of archives gives each live archive its place,   *)
(* and 0 to the others; only the order of places matters, the last wins.    *)
(* A delta's place is the generation it joined at, and a merged archive     *)
(* takes a place of the run it replaces.                                    *)

EmptyManifest ==
  [generation |-> 0, archives |-> [k \in Key |-> 0], retired |-> {}]

Archives(m) == {k \in Key : m.archives[k] # 0}
Retired(m)  == {r.key : r \in m.retired}
Named(m)    == Archives(m) \cup Retired(m)

Live(m, now) == {k \in Archives(m) : ~IsExpired(archive[k].epoch, now)}

\* The archive of K a reader gets t from: the last one that holds it.
Holders(K, t) == {k \in K : archive[k].tiles[t] # NoCopy}
Holder(m, K, t) ==
  CHOOSE k \in Holders(K, t) :
    \A j \in Holders(K, t) : m.archives[j] <= m.archives[k]

\* What the archives K of manifest m hold, the newest archive winning.
Merged(m, K) ==
  [t \in Tile |-> IF Holders(K, t) = {} THEN NoCopy
                  ELSE archive[Holder(m, K, t)].tiles[t]]

\* Is K still there, whole and contiguous?  (Places are never reassigned,
\* so its order cannot have changed.)
Whole(m, K) ==
  /\ K \subseteq Archives(m)
  /\ \A k \in Archives(m) \ K :
       \/ \A j \in K : m.archives[k] < m.archives[j]
       \/ \A j \in K : m.archives[k] > m.archives[j]

\* The runs a compaction may pick: archives of one epoch, not expired, next to
\* each other.  Which of them depends on sizes, which are left out.
Runs(m, now) ==
  {K \in SUBSET Live(m, now) :
     /\ \E j, k \in K : j # k
     /\ Whole(m, K)
     /\ \A j, k \in K : archive[j].epoch = archive[k].epoch}

Retire_Early(K, now) == {[key |-> k, at |-> now - 1] : k \in K}

Retire(K, now) == {[key |-> k, at |-> now] : k \in K}

\* publish writes the generation after the one it derived from.
Successor(m, places, retired) ==
  [generation |-> m.generation + 1, archives |-> places, retired |-> retired]

\* The four derivations a publication may be for.
WithDelta(m, k) ==
  Successor(m, [m.archives EXCEPT ![k] = m.generation + 1], m.retired)

RunPlace_AtEnd(m, K) == m.generation + 1

RunPlace(m, K) == m.archives[CHOOSE k \in K : TRUE]

WithMerged(m, K, k, now) ==
  Successor(m,
        [j \in Key |-> IF j = k THEN RunPlace(m, K)
                       ELSE IF j \in K THEN 0 ELSE m.archives[j]],
        m.retired \cup Retire(K, now))

WithoutExpired(m, now) ==
  LET K == Live(m, now) IN
  Successor(m, [k \in Key |-> IF k \in K THEN m.archives[k] ELSE 0],
        m.retired \cup Retire(Archives(m) \ K, now))

WithoutRetired(m, K) ==
  Successor(m, m.archives, {r \in m.retired : r.key \notin K})

----------------------------------------------------------------------------
(* What a process is doing: the await it is at (pc), the "now" its          *)
(* operation works with (since), the manifest it read (base), the archive   *)
(* it uploaded and has not published, or 0 (key), the archives it is        *)
(* merging (run) and those it is about to delete (doomed).                  *)

Idle == [pc |-> "idle", since |-> 0, base |-> EmptyManifest, key |-> 0,
         run |-> {}, doomed |-> {}]

At(p, step) == task[p].pc = step
Goto(p, step) == task' = [task EXCEPT ![p].pc = step]
Rest(p) == task' = [task EXCEPT ![p] = Idle]

Init ==
  /\ clock = 0
  /\ archive = << >>
  /\ stored = {}
  /\ manifest = EmptyManifest
  /\ pending = [w \in Writer |-> NoTiles]
  /\ flushing = [w \in Writer |-> NoTiles]
  /\ kept = [w \in Writer |-> NoTiles]
  /\ task = [p \in Process |-> Idle]
  /\ puts = 0 /\ faults = 0 /\ crashes = 0

\* Time passes, but no upload stays unpublished for longer than PublishTime
\* and no merge lasts longer than MergeTime.
Timely(p) ==
  /\ task[p].key # 0 => clock < archive[task[p].key].modified + PublishTime
  /\ task[p].run # {} => clock < task[p].since + MergeTime

Tick ==
  /\ clock < MaxClock
  /\ \A p \in Process : Timely(p)
  /\ clock' = clock + 1
  /\ UNCHANGED <<bucketVars, bufferVars, task, limitVars>>

\* The bound on archives holds back what would upload one, before it starts.
Room ==
  Len(archive) + Cardinality({p \in Process : task[p].pc \in {"compare", "upload", "merge"}})
    < MaxArchives

\* A new archive under a key of its own reaches the bucket.
Store(p, tiles, epoch, oldest) ==
  LET k == Len(archive) + 1 IN
  /\ k \in Key
  /\ archive' = Append(archive, [tiles |-> tiles, epoch |-> epoch,
                                 oldest |-> oldest, modified |-> clock])
  /\ stored' = stored \cup {k}
  /\ task' = [task EXCEPT ![p].pc = "publish", ![p].key = k, ![p].base = EmptyManifest]

-----------------------------------------------------------------------------
(* publish: read the manifest, derive the next one, replace what was read.  *)

ReadManifest(p) ==
  /\ At(p, "publish")
  /\ Whole(manifest, task[p].run)
  /\ task' = [task EXCEPT ![p].pc = "replace", ![p].base = manifest]
  /\ UNCHANGED <<clock, bucketVars, bufferVars, limitVars>>

Unchanged_Ignored(p) == TRUE

\* manifest::replace writes on condition that the manifest is what was read.
Unchanged(p) == manifest = task[p].base

Replace(p, next) ==
  /\ Unchanged(p)
  /\ manifest' = next
  /\ UNCHANGED <<clock, archive, stored, bufferVars, limitVars>>

\* Someone else published first: read again and derive again.
Conflict(p) ==
  /\ At(p, "replace")
  /\ ~Unchanged(p)
  /\ task' = [task EXCEPT ![p].pc = "publish", ![p].base = EmptyManifest]
  /\ UNCHANGED <<clock, bucketVars, bufferVars, limitVars>>

-----------------------------------------------------------------------------
(* Writers.                                                                *)

\* put_fetched: the tile replaces the pending one, whatever their ages.
Put(w, t, c) ==
  /\ puts < MaxPuts
  /\ puts' = puts + 1
  /\ pending' = [pending EXCEPT ![w][t] = c]
  /\ UNCHANGED <<clock, bucketVars, flushing, kept, task, faults, crashes>>

\* flush_zone takes the zone's lock and freezes its pending tiles.
Freeze(w) ==
  /\ At(w, "idle")
  /\ pending[w] # NoTiles
  /\ Room
  /\ flushing' = [flushing EXCEPT ![w] = pending[w]]
  /\ pending' = [pending EXCEPT ![w] = NoTiles]
  /\ task' = [task EXCEPT ![w].pc = "compare", ![w].since = clock]
  /\ UNCHANGED <<clock, bucketVars, kept, limitVars>>

Duplicate_IdenticalOnly(m, now, t, c) ==
  LET K == Live(m, now) IN
  Holders(K, t) # {} /\ archive[Holder(m, K, t)].tiles[t].body = c.body

\* Does the store hold t as c is, or a copy certainly fetched after c?
Duplicate(m, now, t, c) ==
  LET K == Live(m, now)
      a == archive[Holder(m, K, t)]
  IN  Holders(K, t) # {} /\ (a.tiles[t].body = c.body \/ a.oldest > c.fetched)

\* drop_duplicates, against the manifest as it is now; a tile whose stored
\* copy cannot be read is kept.  Nothing left ends the flush.
Compare(w, unread) ==
  LET fresh == {t \in TilesOf(flushing[w]) :
                  t \in unread \/ ~Duplicate(manifest, task[w].since, t, flushing[w][t])}
  IN
  /\ At(w, "compare")
  /\ kept' = [kept EXCEPT ![w] = Restricted(flushing[w], fresh)]
  /\ IF fresh = {}
       THEN Rest(w) /\ flushing' = [flushing EXCEPT ![w] = NoTiles]
       ELSE Goto(w, "upload") /\ UNCHANGED flushing
  /\ UNCHANGED <<clock, bucketVars, pending, limitVars>>

Oldest(f) == CHOOSE n \in {f[t].fetched : t \in TilesOf(f)} :
               \A t \in TilesOf(f) : n <= f[t].fetched

\* publish_delta writes what was kept as one archive of the epoch the flush
\* began in, and uploads it.
Upload(w) ==
  /\ At(w, "upload")
  /\ Store(w, kept[w], Epoch(task[w].since), Oldest(kept[w]))
  /\ UNCHANGED <<clock, manifest, bufferVars, limitVars>>

\* The delta is the zone's last archive; telling the ledger and the other
\* instances is still to come.
PublishDelta(w) ==
  /\ At(w, "replace")
  /\ Replace(w, WithDelta(task[w].base, task[w].key))
  /\ task' = [task EXCEPT ![w] = [Idle EXCEPT !.pc = "announce"]]

EndFlush(w) ==
  /\ At(w, "announce")
  /\ flushing' = [flushing EXCEPT ![w] = NoTiles]
  /\ kept' = [kept EXCEPT ![w] = NoTiles]
  /\ Rest(w)
  /\ UNCHANGED <<clock, bucketVars, pending, limitVars>>

BackInBuffer_Lost(w) == pending[w]

\* The frozen tiles back in the buffer, never over a newer write.
BackInBuffer(w) == Over(pending[w], flushing[w])

\* An error, a publication given up or a future dropped at any await.
PutBack(w) ==
  /\ ~At(w, "idle")
  /\ faults < MaxFaults
  /\ faults' = faults + 1
  /\ pending' = [pending EXCEPT ![w] = BackInBuffer(w)]
  /\ flushing' = [flushing EXCEPT ![w] = NoTiles]
  /\ kept' = [kept EXCEPT ![w] = NoTiles]
  /\ Rest(w)
  /\ UNCHANGED <<clock, bucketVars, puts, crashes>>

\* The process dies, its buffer with it.
Crash(w) ==
  /\ crashes < MaxCrashes
  /\ crashes' = crashes + 1
  /\ pending' = [pending EXCEPT ![w] = NoTiles]
  /\ flushing' = [flushing EXCEPT ![w] = NoTiles]
  /\ kept' = [kept EXCEPT ![w] = NoTiles]
  /\ Rest(w)
  /\ UNCHANGED <<clock, bucketVars, puts, faults>>

-----------------------------------------------------------------------------
(* Maintainers: maintain is prune_expired, then compact_tiered until it     *)
(* merges nothing, each merge followed by a cleanup, then a cleanup.        *)

\* prune_expired looks for archives of expired epochs.
Prune(m) ==
  /\ At(m, "idle")
  /\ task' = [task EXCEPT
                ![m].since = clock,
                ![m].pc = IF Live(manifest, clock) = Archives(manifest)
                            THEN "select" ELSE "publish"]
  /\ UNCHANGED <<clock, bucketVars, bufferVars, limitVars>>

PublishPruned(m) ==
  /\ At(m, "replace") /\ task[m].run = {} /\ task[m].doomed = {}
  /\ Replace(m, WithoutExpired(task[m].base, task[m].since))
  /\ task' = [task EXCEPT ![m] = [Idle EXCEPT !.pc = "select"]]

\* compact and compact_tiered: a run of the manifest as it is now.
Select(m) ==
  /\ At(m, "select")
  /\ Room
  /\ \E K \in Runs(manifest, clock) :
       task' = [task EXCEPT ![m] = [Idle EXCEPT !.pc = "merge", !.run = K,
                                                !.since = clock, !.base = manifest]]
  /\ UNCHANGED <<clock, bucketVars, bufferVars, limitVars>>

\* No run is due.
Nothing(m) ==
  /\ At(m, "select")
  /\ Goto(m, "cleanup")
  /\ UNCHANGED <<clock, bucketVars, bufferVars, limitVars>>

OldestOf_Newest(K) ==
  CHOOSE n \in {archive[k].oldest : k \in K} : \A k \in K : archive[k].oldest <= n

\* A merged archive's fetch times span its inputs'.
OldestOf(K) ==
  CHOOSE n \in {archive[k].oldest : k \in K} : \A k \in K : n <= archive[k].oldest

\* merge_run downloads the run, merges it and uploads the result.
Merge(m) ==
  LET K == task[m].run IN
  /\ At(m, "merge")
  /\ K \subseteq stored
  /\ Store(m, Merged(task[m].base, K), archive[CHOOSE k \in K : TRUE].epoch, OldestOf(K))
  /\ UNCHANGED <<clock, manifest, bufferVars, limitVars>>

\* The merged archive in the run's place, the run retired as of the merge's
\* start.
PublishMerged(m) ==
  /\ At(m, "replace") /\ task[m].run # {}
  /\ Replace(m, WithMerged(task[m].base, task[m].run, task[m].key, task[m].since))
  /\ task' = [task EXCEPT ![m] = [Idle EXCEPT !.pc = "cleanup"]]

\* The run is no longer there: the merge is given up and its archive deleted.
Superseded(m) ==
  /\ At(m, "publish")
  /\ ~Whole(manifest, task[m].run)
  /\ stored' = stored \ {task[m].key}
  /\ task' = [task EXCEPT ![m] = [Idle EXCEPT !.pc = "cleanup"]]
  /\ UNCHANGED <<clock, archive, manifest, bufferVars, limitVars>>

-----------------------------------------------------------------------------
(* cleanup: first the retired archives past their grace, then the orphans.  *)

PastGrace_AtOnce(r) == clock >= r.at

PastGrace(r) == clock - r.at >= RetireGrace

Cleanup_DeletesFirst(m) ==
  /\ At(m, "cleanup")
  /\ task' = [task EXCEPT
       ![m] = [Idle EXCEPT
                 !.pc = "delete", !.since = clock,
                 !.doomed = {r.key : r \in {q \in manifest.retired : PastGrace(q)}}]]
  /\ UNCHANGED <<clock, bucketVars, bufferVars, limitVars>>

Cleanup(m) ==
  LET past == {r.key : r \in {q \in manifest.retired : PastGrace(q)}} IN
  /\ At(m, "cleanup")
  /\ task' = [task EXCEPT
       ![m] = [Idle EXCEPT !.pc = IF past = {} THEN "know" ELSE "publish",
                           !.since = clock, !.doomed = past]]
  /\ UNCHANGED <<clock, bucketVars, bufferVars, limitVars>>

\* The ledger does not let go of them: they stay retired.
Refused(m) ==
  /\ At(m, "cleanup")
  /\ \E r \in manifest.retired : PastGrace(r)
  /\ faults < MaxFaults
  /\ faults' = faults + 1
  /\ task' = [task EXCEPT ![m] = [Idle EXCEPT !.pc = "know", !.since = clock]]
  /\ UNCHANGED <<clock, bucketVars, bufferVars, puts, crashes>>

\* No manifest names them any more, and only then are they deleted.
PublishForgotten(m) ==
  /\ At(m, "replace") /\ task[m].run = {} /\ task[m].doomed # {}
  /\ Replace(m, WithoutRetired(task[m].base, task[m].doomed))
  /\ task' = [task EXCEPT ![m].pc = "delete", ![m].base = EmptyManifest]

\* delete_archive, one after the other (in any order).
Delete(m) ==
  /\ At(m, "delete") \/ At(m, "sweep")
  /\ \E k \in task[m].doomed :
       /\ stored' = stored \ {k}
       /\ task' = [task EXCEPT ![m].doomed = @ \ {k}]
  /\ UNCHANGED <<clock, archive, manifest, bufferVars, limitVars>>

\* The archives that are known are read before those in the bucket are listed.
Know(m) ==
  /\ At(m, "know") \/ (At(m, "delete") /\ task[m].doomed = {})
  /\ task' = [task EXCEPT ![m].pc = "list", ![m].base = manifest]
  /\ UNCHANGED <<clock, bucketVars, bufferVars, limitVars>>

IsOrphan_Never(m, k) == FALSE

\* An orphan is an archive that is not known and is old.
IsOrphan(m, k) ==
  /\ k \notin Named(task[m].base)
  /\ task[m].since - archive[k].modified >= OrphanGrace

List(m) ==
  /\ At(m, "list")
  /\ task' = [task EXCEPT ![m].pc = "sweep", ![m].base = EmptyManifest,
                          ![m].doomed = {k \in stored : IsOrphan(m, k)}]
  /\ UNCHANGED <<clock, bucketVars, bufferVars, limitVars>>

\* The ledger does not let go of an orphan: the next cleanup finds it again.
KeepOrphan(m) ==
  /\ At(m, "sweep")
  /\ faults < MaxFaults
  /\ faults' = faults + 1
  /\ \E k \in task[m].doomed : task' = [task EXCEPT ![m].doomed = @ \ {k}]
  /\ UNCHANGED <<clock, bucketVars, bufferVars, puts, crashes>>

\* maintain looks for another run after a merge; compact, and maintain once
\* nothing is left to merge, end here.
EndCleanup(m) ==
  /\ At(m, "sweep") /\ task[m].doomed = {}
  /\ Rest(m) \/ task' = [task EXCEPT ![m] = [Idle EXCEPT !.pc = "select"]]
  /\ UNCHANGED <<clock, bucketVars, bufferVars, limitVars>>

\* An error at any await, the process killed, a merge given up whose archive the
\* ledger keeps: what was done stays done.
Abort(m) ==
  /\ ~At(m, "idle")
  /\ faults < MaxFaults
  /\ faults' = faults + 1
  /\ Rest(m)
  /\ UNCHANGED <<clock, bucketVars, bufferVars, puts, crashes>>

-----------------------------------------------------------------------------

Unreadable(w) == SUBSET (IF ReadsFail THEN TilesOf(flushing[w]) ELSE {})

Publishing(p) == ReadManifest(p) \/ Conflict(p)

WriterStep(w) ==
  \/ Freeze(w)
  \/ \E unread \in Unreadable(w) : Compare(w, unread)
  \/ Upload(w) \/ Publishing(w) \/ PublishDelta(w) \/ EndFlush(w)

MaintainerStep(m) ==
  \/ Prune(m) \/ Publishing(m) \/ PublishPruned(m)
  \/ Select(m) \/ Nothing(m) \/ Merge(m) \/ PublishMerged(m) \/ Superseded(m)
  \/ Cleanup(m) \/ PublishForgotten(m) \/ Delete(m)
  \/ Know(m) \/ List(m) \/ EndCleanup(m)

Next ==
  \/ Tick
  \/ \E w \in Writer :
       \/ \E t \in Tile, b \in Body, f \in 0..clock :
            clock <= f + FetchTime /\ Put(w, t, [body |-> b, fetched |-> f])
       \/ WriterStep(w) \/ PutBack(w) \/ Crash(w)
  \/ \E m \in Maintainer : MaintainerStep(m) \/ Refused(m) \/ KeepOrphan(m) \/ Abort(m)

Spec == Init /\ [][Next]_vars

-----------------------------------------------------------------------------
(* Properties.                                                              *)

PCs == {"idle", "compare", "upload", "publish", "replace", "announce", "select",
        "merge", "cleanup", "delete", "know", "list", "sweep"}

Archive == [tiles : Contents, epoch : Nat, oldest : Nat, modified : Nat]

Manifest ==
  {m \in [generation : Nat, archives : [Key -> Nat],
          retired : SUBSET [key : Key, at : Nat]] :
     \A k \in Key : m.archives[k] <= m.generation}

Task ==
  [pc : PCs, since : Nat, base : Manifest, key : Key \cup {0},
   run : SUBSET Key, doomed : SUBSET Key]

\* Every variable holds what its declaration says, and every key in use is the
\* key of an archive that was uploaded.
TypeOK ==
  /\ clock \in Nat
  /\ archive \in Seq(Archive) /\ Len(archive) <= MaxArchives
  /\ stored \subseteq DOMAIN archive
  /\ manifest \in Manifest
  /\ pending \in [Writer -> Contents]
  /\ flushing \in [Writer -> Contents]
  /\ kept \in [Writer -> Contents]
  /\ task \in [Process -> Task]
  /\ puts \in Nat /\ faults \in Nat /\ crashes \in Nat

\* The bucket holds every archive the manifest names, live or retired: whoever
\* reads the manifest finds what it names, however uploads, merges, cleanups
\* and crashes interleave (store.rs, "Many writers").
NamedStored == Named(manifest) \subseteq stored

\* What a reader with the manifest of the moment gets.
View == Merged(manifest, Live(manifest, clock))

\* Between ticks, the copy a reader gets of a tile changes only when a flush
\* publishes that very copy: no merge, prune, cleanup or lost race ever brings
\* an older copy back or takes a tile away.
OnlyFlushesChangeTheView ==
  [][clock' = clock =>
       \A t \in Tile :
         View'[t] # View[t] =>
           \E w \in Writer :
             /\ At(w, "replace") /\ At(w, "announce")'
             /\ kept[w][t] # NoCopy
             /\ View'[t] = kept[w][t]]_vars

\* A reader loses a tile only once the expiry has passed since the end of the
\* epoch of every archive that holds it, "so no tile is dropped before its full
\* lifetime" (Layer::is_expired): no merge, prune or lost race takes it sooner.
TilesLiveOutTheirEpoch ==
  [][\A k \in Archives(manifest) :
       (Expires => clock' <= (archive[k].epoch + 1) * EpochLength + Expiry) =>
         TilesOf(archive[k].tiles) \subseteq TilesOf(View')]_vars

\* An archive leaves the zone's list only by being retired, whoever races with
\* whom on the manifest: no publication undoes another's.
LeavesOnlyRetired ==
  [][Archives(manifest) \ Archives(manifest') \subseteq
       Retired(manifest')]_vars

\* The fetch time an archive says is its oldest is not after any of its
\* tiles', merged archives included: what drop_duplicates takes for certainly
\* newer is newer.
OldestIsOldest ==
  \A k \in DOMAIN archive : \A t \in TilesOf(archive[k].tiles) :
    archive[k].oldest <= archive[k].tiles[t].fetched

-----------------------------------------------------------------------------
(* Liveness.  A maintainer is a long-lived process that calls maintain again *)
(* and again, and a writer calls flush_due again and again; every request it *)
(* makes is answered.                                                        *)

FairSpec ==
  /\ Spec
  /\ \A m \in Maintainer :
       WF_vars(MaintainerStep(m))
  /\ \A w \in Writer : WF_vars(WriterStep(w))

\* Archives the bucket holds for nothing: past the orphan grace, and either
\* named by no manifest or retired for longer than the retire grace.  (A
\* cleanup cut short may leave a retired archive to the orphan grace.)
Garbage ==
  {k \in stored :
     /\ clock - archive[k].modified >= OrphanGrace
     /\ \/ k \notin Named(manifest)
        \/ \E r \in manifest.retired : r.key = k /\ clock - r.at >= RetireGrace}

\* Garbage is deleted in the end, whatever failed on the way: an upload whose
\* publication never happened, a merge given up, a cleanup cut short between
\* the manifest and the deletion.
GarbageGoes == \A k \in Key : k \in Garbage ~> k \notin stored

\* A tile put reaches every reader in the end, unless its process dies or an
\* epoch expires first: a failed flush is tried again, and a lost race on the
\* manifest too.
PutsReachReaders ==
  \A w \in Writer, t \in Tile :
    pending[w][t] # NoCopy ~>
      (View[t] # NoCopy \/ crashes > 0 \/ IsExpired(0, clock))

-----------------------------------------------------------------------------
(* What a zone that does not expire implements.                             *)

\* The copies a process holds: pending, or frozen and being published.
HeldCopies ==
  [w \in Writer |-> [t \in Tile |-> {pending[w][t], flushing[w][t]} \ {NoCopy}]]

Promise == INSTANCE SharedTiles
             WITH view <- Merged(manifest, Archives(manifest)),
                  held <- HeldCopies,
                  deaths <- crashes

\* The store keeps the promises of SharedTiles: what it hides (archives, races
\* on the manifest, merges, cleanups, failed flushes) never shows as a tile
\* lost, taken back or mixed up.
KeepsPromise == Promise!Spec
=============================================================================
