------------------------------ MODULE Register ------------------------------
(***************************************************************************)
(* What a register of archives is told of one zone of the tile store, and  *)
(* what it answers (crates/tuile-tile-server/src/ledger.rs, register.rs    *)
(* and the record_* helpers of store.rs).                                  *)
(*                                                                         *)
(* The bucket is one side: each publication replaces the zone's manifest   *)
(* atomically (ZoneStore shows how).  The register is the other: a process *)
(* tells it of a publication after it was made, so what several processes  *)
(* publish may be told in another order, told again, or never.             *)
(*                                                                         *)
(* Left out: absences, and archives written and never published (the       *)
(* register holds those as written, and nothing points at them).           *)
(*                                                                         *)
(* A definition whose name ends in _ and a word is the definition before   *)
(* the underscore with a bug; nothing here uses it.                        *)
(***************************************************************************)
EXTENDS Integers, Sequences, FiniteSets

CONSTANTS
  Tile,            \* the tiles of the zone
  MaxArchives,     \* bound on the archives ever written
  MaxGenerations,  \* bound on the publications
  MaxMissed,       \* bound on the publications and deletions never told
  MaxRebuilds      \* bound on the manifests read to rebuild the zone

ASSUME BoundsAssumption ==
  MaxArchives \in Nat /\ MaxGenerations \in Nat
  /\ MaxMissed \in Nat /\ MaxRebuilds \in Nat

VARIABLES
  archive,      \* the archives ever written: the version of each tile, 0 if none
  publication,  \* the publications made; the index of one is its generation
  stored,       \* the archives the bucket holds
  doomed,       \* the archives a cleanup is deleting
  step,         \* the await that cleanup is at
  telling,      \* the publications still being told
  state,        \* Book::archives, the state of each entry
  known,        \* Book::archives, those whose tiles were told
  row,          \* Book::tiles
  generation,   \* ZoneEntry::generation
  stale,        \* ZoneEntry::stale
  missed,       \* how much the register was never told
  reading,      \* the generations of the manifests rebuilds have read
  rebuilds,     \* how many were read
  rebuilt,      \* the generation of the last rebuild, if none newer was told
  late,         \* those rebuilds applied after something newer happened
  outlasted,    \* those that took longer than the retire grace
  told,         \* the publications told
  ordered       \* was everything since rebuilt told, and oldest first?

vars == <<archive, publication, stored, doomed, step, telling, state, known,
          row, generation, stale, missed, reading, rebuilds, rebuilt, late,
          outlasted, told, ordered>>

bookVars  == <<state, known, row, generation, stale>>
cleanVars == <<doomed, step>>
readVars  == <<reading, rebuilds, rebuilt, late, outlasted>>
pastVars  == <<missed, readVars, told, ordered>>

Key == 1..MaxArchives

----------------------------------------------------------------------------
(* The bucket: archives and manifests.  A manifest gives each live archive  *)
(* its place in the list, and 0 to the others.                              *)

TilesOf(k) == {t \in Tile : archive[k][t] # 0}

Publication ==
  [archives : [Key -> Nat], retired : SUBSET Key, added : Key \cup {0},
   replaced : SUBSET Key, uncovering : BOOLEAN]

NoPublication ==
  [archives |-> [k \in Key |-> 0], retired |-> {}, added |-> 0,
   replaced |-> {}, uncovering |-> FALSE]

At(g) == IF g = 0 THEN NoPublication ELSE publication[g]

Newest == Len(publication)
Manifest == At(Newest)

Archives(m) == {k \in Key : m.archives[k] # 0}
Named(m) == Archives(m) \cup m.retired

\* The archives after k in the list: they win a tile over it.
Later(m, k) == {j \in Archives(m) : m.archives[j] > m.archives[k]}

Holders(m, t) == {k \in Archives(m) : archive[k][t] # 0}

\* The archive a reader of manifest m gets t from.
Holder(m, t) ==
  CHOOSE k \in Holders(m, t) : \A j \in Holders(m, t) : m.archives[j] <= m.archives[k]

View(m) ==
  [t \in Tile |-> IF Holders(m, t) = {} THEN 0 ELSE archive[Holder(m, t)][t]]

\* The runs a merge may pick: next to each other in the list.
Runs(m) ==
  {K \in SUBSET Archives(m) :
     /\ \E j, k \in K : j # k
     /\ \A k \in Archives(m) \ K : K \subseteq Later(m, k) \/ K \cap Later(m, k) = {}}

----------------------------------------------------------------------------
(* The register's book.                                                     *)

\* ArchiveState, after the state of an archive it has no entry of.
Unheard == 0
Writing == 1
Live == 2
Retired == 3
Deleted == 4

\* The state of an archive only moves forward.
Forward(s, to) == IF s < to THEN to ELSE s

NoRow == [archive |-> 0, generation |-> 0]

Kept_AnyGeneration(r, m, g, k) == r.archive # 0 /\ r.archive \in Later(m, k)

\* Is row r kept against archive k of manifest m, published at g?
Kept(r, m, g, k) ==
  r.archive # 0 /\ (r.generation > g \/ r.archive \in Later(m, k))

ApplyTiles_Swapped(m, g, k) ==
  [t \in Tile |-> IF t \in TilesOf(k) /\ ~Kept(row[t], m, g, k)
                    THEN [archive |-> g, generation |-> k] ELSE row[t]]

\* apply_tiles
ApplyTiles(m, g, k) ==
  [t \in Tile |-> IF t \in TilesOf(k) /\ ~Kept(row[t], m, g, k)
                    THEN [archive |-> k, generation |-> g] ELSE row[t]]

Without(rows, K) ==
  [t \in Tile |-> IF rows[t].archive \in K THEN NoRow ELSE rows[t]]

\* IndexReader::zones: does the register hold the zone whole?
Indexed == ~stale /\ \A k \in Key : state[k] = Live => k \in known

----------------------------------------------------------------------------

Init ==
  /\ archive = << >>
  /\ publication = << >>
  /\ stored = {}
  /\ doomed = {} /\ step = "idle"
  /\ telling = {}
  /\ state = [k \in Key |-> Unheard]
  /\ known = {}
  /\ row = [t \in Tile |-> NoRow]
  /\ generation = 0
  /\ stale = FALSE
  /\ missed = 0
  /\ reading = {} /\ rebuilds = 0 /\ rebuilt = 0
  /\ late = {} /\ outlasted = {}
  /\ told = {} /\ ordered = TRUE

-----------------------------------------------------------------------------
(* Publications: what publish does to the manifest, and what of it is to be *)
(* told.  The register heard of an archive before it was uploaded           *)
(* (record_writing).                                                        *)

Publish(p) ==
  /\ Newest < MaxGenerations
  /\ publication' = Append(publication, p)
  /\ telling' = telling \cup {Newest + 1}

Write(tiles) ==
  LET k == Len(archive) + 1 IN
  /\ k \in Key
  /\ archive' = Append(archive, tiles)
  /\ stored' = stored \cup {k}
  /\ state' = [state EXCEPT ![k] = Forward(@, Writing)]

\* The archives of K leave the list for k, at k's place.
Instead(K, k, place) ==
  [j \in Key |-> IF j = k THEN place ELSE IF j \in K THEN 0 ELSE Manifest.archives[j]]

\* publish_delta: the archive is the zone's last.
Flush(T) ==
  LET k == Len(archive) + 1 IN
  /\ Write([t \in Tile |-> IF t \in T THEN k ELSE 0])
  /\ Publish([archives |-> [Manifest.archives EXCEPT ![k] = Newest + 1],
              retired |-> Manifest.retired, added |-> k, replaced |-> {},
              uncovering |-> FALSE])
  /\ UNCHANGED <<cleanVars, known, row, generation, stale, pastVars>>

\* merge_run: the merged archive takes the run's place.
Merge(K) ==
  LET k == Len(archive) + 1
      Last(t) == CHOOSE j \in K : archive[j][t] # 0 /\
                   \A i \in K : archive[i][t] # 0 => Manifest.archives[i] <= Manifest.archives[j]
  IN
  /\ Write([t \in Tile |-> IF \E j \in K : archive[j][t] # 0 THEN archive[Last(t)][t] ELSE 0])
  /\ Publish([archives |-> Instead(K, k, Manifest.archives[CHOOSE j \in K : TRUE]),
              retired |-> Manifest.retired \cup K, added |-> k, replaced |-> K,
              uncovering |-> FALSE])
  /\ UNCHANGED <<cleanVars, known, row, generation, stale, pastVars>>

\* Is an archive older than k in the list?
Older(m, k) == \E j \in Archives(m) : k \in Later(m, j)

\* What scrub knows of it, from the manifest it began with.
OldersRead(j) ==
  {Older(publication[g], j) : g \in {g \in 1..Newest : j \in Archives(publication[g])}}

\* scrub: the archive written again without the tiles T.
Scrub(j, T, older) ==
  LET k == Len(archive) + 1 IN
  /\ T # TilesOf(j)
  /\ Write([t \in Tile |-> IF t \in T THEN 0 ELSE archive[j][t]])
  /\ Publish([archives |-> Instead({j}, k, Manifest.archives[j]),
              retired |-> Manifest.retired \cup {j}, added |-> k, replaced |-> {j},
              uncovering |-> older])
  /\ UNCHANGED <<cleanVars, known, row, generation, stale, pastVars>>

\* scrub: nothing is left of the archive.
ScrubWhole(j, older) ==
  /\ Publish([archives |-> [Manifest.archives EXCEPT ![j] = 0],
              retired |-> Manifest.retired \cup {j}, added |-> 0, replaced |-> {j},
              uncovering |-> older])
  /\ UNCHANGED <<archive, stored, cleanVars, bookVars, pastVars>>

\* prune_expired: an archive and those before it (the list is in the order of
\* epochs) leave the zone.
Prune(j) ==
  LET K == {i \in Archives(Manifest) : i = j \/ j \in Later(Manifest, i)} IN
  /\ Publish([archives |-> [i \in Key |-> IF i \in K THEN 0 ELSE Manifest.archives[i]],
              retired |-> Manifest.retired \cup K, added |-> 0, replaced |-> K,
              uncovering |-> FALSE])
  /\ UNCHANGED <<archive, stored, cleanVars, bookVars, pastVars>>

-----------------------------------------------------------------------------
(* cleanup: the register lets go of archives, they are forgotten by the     *)
(* manifest if it names them, deleted, and the register is told.            *)

\* The retire grace outlasts the telling of a publication.
PastGrace(k) ==
  \A g \in telling : k \notin Archives(publication[g]) \cup publication[g].replaced

LetGo_OnlyAsks(K) ==
  /\ step = "idle"
  /\ K # {} /\ K \subseteq stored \ Archives(Manifest)
  /\ \A k \in K : PastGrace(k)
  /\ doomed' = K
  /\ step' = IF K \cap Manifest.retired = {} THEN "delete" ELSE "forget"
  /\ UNCHANGED <<archive, publication, stored, telling, bookVars, pastVars>>

\* record_deleting: no row points at them any more.
LetGo(K) ==
  /\ step = "idle"
  /\ K # {} /\ K \subseteq stored \ Archives(Manifest)
  /\ \A k \in K : PastGrace(k)
  /\ row' = Without(row, K)
  /\ doomed' = K
  /\ step' = IF K \cap Manifest.retired = {} THEN "delete" ELSE "forget"
  /\ UNCHANGED <<archive, publication, stored, telling, state, known, generation,
                 stale, pastVars>>

Forget ==
  /\ step = "forget"
  /\ Publish([Manifest EXCEPT !.retired = @ \ doomed, !.added = 0, !.replaced = {},
                              !.uncovering = FALSE])
  /\ step' = "delete"
  /\ UNCHANGED <<archive, stored, doomed, bookVars, pastVars>>

Delete ==
  /\ step = "delete"
  /\ stored' = stored \ doomed
  /\ step' = "tell"
  /\ UNCHANGED <<archive, publication, doomed, telling, bookVars, pastVars>>

\* record_deleted
ToldDeleted ==
  /\ step = "tell"
  /\ state' = [k \in Key |-> IF k \in doomed /\ state[k] # Unheard
                               THEN Deleted ELSE state[k]]
  /\ doomed' = {} /\ step' = "idle"
  /\ UNCHANGED <<archive, publication, stored, telling, known, row, generation,
                 stale, pastVars>>

\* The cleanup fails or dies on its way; what it did stays done.
Stop ==
  /\ step # "idle"
  /\ missed < MaxMissed
  /\ missed' = missed + 1
  /\ doomed' = {} /\ step' = "idle"
  /\ UNCHANGED <<archive, publication, stored, telling, bookVars, readVars, told, ordered>>

-----------------------------------------------------------------------------
(* The register is told.                                                    *)

\* The state of each archive once those p names are live.
Heard(p) ==
  [k \in Key |-> IF k \in Archives(p) THEN Forward(state[k], Live) ELSE state[k]]

AddsTiles_EvenRetired(p) == p.added # 0

AddsTiles_FlushesOnly(p) == p.added # 0 /\ p.replaced = {} /\ Heard(p)[p.added] = Live

\* Does p bring the tiles of an archive that was not replaced meanwhile?
AddsTiles(p) == p.added # 0 /\ Heard(p)[p.added] = Live

\* Ledger::published.  Again: the publication may be told once more.
Tell(g, again) ==
  LET p == publication[g]
      given == IF AddsTiles(p) THEN ApplyTiles(p, g, p.added) ELSE row
  IN
  /\ telling' = IF again THEN telling ELSE telling \ {g}
  /\ state' = [k \in Key |-> IF k \in p.replaced /\ Heard(p)[k] # Unheard
                               THEN Forward(Heard(p)[k], Retired) ELSE Heard(p)[k]]
  /\ known' = IF AddsTiles(p) THEN known \cup {p.added} ELSE known
  /\ row' = Without(given, p.replaced)
  /\ generation' = Forward(generation, g)
  /\ stale' = (stale \/ (p.uncovering /\ \E t \in Tile : given[t].archive \in p.replaced))
  /\ told' = told \cup {g}
  /\ ordered' = (ordered /\ (g \in told \/ g > generation \/ g <= rebuilt))
  /\ UNCHANGED <<archive, publication, stored, cleanVars, missed, readVars>>

\* The register was out of reach, or the process died: a publication is never
\* told.
Miss(g) ==
  /\ missed < MaxMissed
  /\ missed' = missed + 1
  /\ telling' = telling \ {g}
  /\ ordered' = (ordered /\ g <= rebuilt)
  /\ UNCHANGED <<archive, publication, stored, cleanVars, bookVars, readVars, told>>

\* zone_tiles: a rebuild reads the manifest; the index of each archive follows.
ReadForRebuild ==
  /\ rebuilds < MaxRebuilds
  /\ rebuilds' = rebuilds + 1
  /\ reading' = reading \cup {Newest}
  /\ UNCHANGED <<archive, publication, stored, cleanVars, telling, bookVars, missed,
                 rebuilt, late, outlasted, told, ordered>>

\* The indices a rebuild of the manifest of g may have: an archive deleted before
\* it was read gave none.
Indices(g) == {read \in SUBSET Archives(At(g)) : Archives(At(g)) \cap stored \subseteq read}

\* Did an archive of the manifest a rebuild read leave the bucket under it?
Outlasted(g) == ~(Archives(At(g)) \subseteq stored \ doomed)

\* Did something newer happen while a rebuild read the manifest of g?
Overtaken(g) == g < generation \/ Outlasted(g)

\* The rows once the archives of read are applied in the order of the list: the
\* last of them that holds a tile gives its row.
Rebuilt(m, g, read) ==
  LET Found(t) == Holders(m, t) \cap read
      Last(t) == CHOOSE k \in Found(t) : \A j \in Found(t) : m.archives[j] <= m.archives[k]
  IN [t \in Tile |-> IF Found(t) # {} /\ ~Kept(row[t], m, g, Last(t))
                       THEN [archive |-> Last(t), generation |-> g] ELSE row[t]]

\* rebuild_zone: what was read is applied, to a book that was told of newer
\* publications meanwhile, or whose archives were deleted.  Read are the archives
\* whose index was; those still stored were.  Again: another rebuild read the same
\* manifest.
Rebuild(g, read, again) ==
  LET m == At(g)
      given == Rebuilt(m, g, read)
      unnamed == {k \in Key \ Archives(m) : state[k] # Unheard}
  IN
  /\ again => rebuilds < MaxRebuilds
  /\ reading' = IF again THEN reading ELSE reading \ {g}
  /\ rebuilds' = IF again THEN rebuilds + 1 ELSE rebuilds
  /\ state' = [k \in Key |->
       IF k \in Archives(m) THEN Forward(state[k], Live)
       ELSE IF k \in m.retired /\ state[k] # Unheard THEN Forward(state[k], Retired)
       ELSE state[k]]
  /\ known' = known \cup read
  /\ row' = [t \in Tile |->
       IF given[t].generation <= g /\ given[t].archive \in unnamed THEN NoRow ELSE given[t]]
  /\ generation' = Forward(generation, g)
  /\ stale' = (stale /\ g < generation)
  /\ rebuilt' = IF g < generation THEN rebuilt ELSE g
  /\ ordered' = IF g < generation THEN ordered ELSE (g + 1)..Newest \subseteq telling
  /\ late' = IF Overtaken(g) THEN late \cup {g} ELSE {}
  /\ outlasted' = IF Outlasted(g) THEN outlasted \cup {g}
                  ELSE IF Overtaken(g) THEN outlasted ELSE {}
  /\ UNCHANGED <<archive, publication, stored, cleanVars, telling, missed, told>>

-----------------------------------------------------------------------------

Next ==
  \/ \E T \in SUBSET Tile \ {{}} : Flush(T)
  \/ \E K \in Runs(Manifest) : Merge(K)
  \/ \E j \in Archives(Manifest) :
       \/ Prune(j)
       \/ \E older \in OldersRead(j) :
            \/ ScrubWhole(j, older)
            \/ \E T \in SUBSET TilesOf(j) \ {{}} : Scrub(j, T, older)
  \/ \E K \in SUBSET stored : LetGo(K)
  \/ Forget \/ Delete \/ ToldDeleted \/ Stop
  \/ \E g \in telling : Miss(g) \/ \E again \in BOOLEAN : Tell(g, again)
  \/ ReadForRebuild
  \/ \E g \in reading, again \in BOOLEAN : \E read \in Indices(g) : Rebuild(g, read, again)

Spec == Init /\ [][Next]_vars

-----------------------------------------------------------------------------
(* Properties.                                                              *)

Steps == {"idle", "forget", "delete", "tell"}

\* Every variable holds what its declaration says.
TypeOK ==
  /\ archive \in Seq([Tile -> Key \cup {0}]) /\ Len(archive) <= MaxArchives
  /\ publication \in Seq(Publication)
  /\ stored \subseteq DOMAIN archive
  /\ doomed \subseteq DOMAIN archive /\ step \in Steps
  /\ telling \subseteq DOMAIN publication
  /\ state \in [Key -> Unheard..Deleted]
  /\ known \subseteq DOMAIN archive
  /\ row \in [Tile -> [archive : DOMAIN archive \cup {0}, generation : Nat]]
  /\ generation \in Nat /\ stale \in BOOLEAN
  /\ missed \in Nat /\ reading \subseteq 0..Newest /\ rebuilds \in Nat /\ rebuilt \in Nat
  /\ late \subseteq 0..Newest /\ outlasted \subseteq 0..Newest
  /\ told \subseteq DOMAIN publication /\ ordered \in BOOLEAN

Answer(t) == IF row[t].archive = 0 THEN 0 ELSE archive[row[t].archive][t]

\* Nothing older than the newest publication told is still to be told.
CaughtUp == ~\E g \in telling \ told : rebuilt < g /\ g < generation

\* A zone the register says it holds whole is answered tile for tile as a
\* reader of the manifest it was last told of would be: through merges, scrubs,
\* prunes, deletions, replays and rebuilds, as long as nothing was missed or
\* told out of order since the last rebuild (ledger.rs, KnownZone::indexed).  A
\* rebuild applied after newer publications were told takes nothing of this back
\* but that it may name a tile which is in no archive any more.
AnswersAsTold ==
  ordered /\ CaughtUp /\ Indexed =>
    \A t \in Tile :
      \/ Answer(t) = View(At(generation))[t]
      \/ View(At(generation))[t] = 0 /\ row[t].generation \in late

\* Was k named neither by the last rebuild's manifest nor since?
Forgotten(k) == \A g \in rebuilt..Newest : k \notin Named(At(g))

\* The register holds every zone whole, but for one a scrub left to its
\* archives, or that was rebuilt once an archive had been forgotten which the
\* register had neither the tiles of nor the end: no other zone is read the slow
\* way for ever.
HeldWhole ==
  ordered /\ CaughtUp =>
    \/ Indexed
    \/ \E g \in DOMAIN publication : publication[g].uncovering
    \/ \E k \in Key \ known : state[k] = Live /\ Forgotten(k)

\* Once nothing is being told or deleted, a rebuild leaves the book "what the
\* publications would have left, and nothing of what they no longer name"
\* (register.rs, rebuild_zone), so the register holds the zone whole.  The code
\* does not keep it: an entry that the manifest names no more stays live.
RebuiltIsWhole ==
  rebuilds # 0 /\ rebuilt = Newest /\ telling = {} /\ step = "idle" => Indexed

\* No row points at an archive the register heard was replaced or deleted, in
\* whatever order it heard: a late publication brings nothing back
\* (register.rs, "an archive's state only moves forward"), and of the rebuilds
\* only one that was overtaken does, until one that was not.
NothingBroughtBack ==
  \A t \in Tile : row[t].archive # 0 =>
    state[row[t].archive] = Live \/ row[t].generation \in late

\* No row points at an archive the bucket no longer holds, whatever the
\* register missed (Ledger::deleting, told before objects are deleted), unless a
\* rebuild that outlasted the retire grace put it there.
RowsAreStored ==
  \A t \in Tile : row[t].archive # 0 =>
    row[t].archive \in stored \/ row[t].generation \in outlasted
=============================================================================
