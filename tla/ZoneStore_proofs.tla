-------------------------- MODULE ZoneStore_proofs --------------------------
(***************************************************************************)
(* Theorems about ZoneStore and FlushRaces, for every value of their       *)
(* constants: first what the zone's objects are, then what its readers     *)
(* get.  Nothing but a flush changes that, tiles leave it only with their  *)
(* epoch, and a zone that does not expire implements SharedTiles: readers  *)
(* see the view, buffers hold what is held, and archives, races on the     *)
(* manifest, merges, cleanups and failed flushes never show.  Last, that   *)
(* the newest fetch wins, but for what a flush could not know.             *)
(*                                                                         *)
(* What a manifest's archives hold together is a choice of the last        *)
(* holder; Gives says which copy that is without the choice, and what      *)
(* publications make of it is shown once for each kind.                    *)
(***************************************************************************)
EXTENDS FlushRaces, TLAPS, WellFoundedInduction, SequenceTheorems

(* Every non-empty set of naturals has a least element: the induction that  *)
(* the choices of a minimum or a maximum rest on.                           *)
LEMMA LeastElement ==
  ASSUME NEW S \in SUBSET Nat, S # {}
  PROVE  \E x \in S : \A y \in S : x <= y
<1> DEFINE R == OpToRel(<, Nat)
<1>1. IsWellFoundedOn(R, Nat)
  BY NatLessThanWellFounded
<1>2. \A x, y \in Nat : <<y, x>> \in R <=> y < x
  BY DEF OpToRel
<1> HIDE DEF R
<1>3. PICK x \in S : \A y \in S : ~ (<<y, x>> \in R)
  BY <1>1, WFMin
<1>4. \A y \in S : ~ (y < x)
  BY <1>2, <1>3, Zenon
<1> QED BY <1>4

(* A tile that some archive of K holds has a last holder in K.              *)
LEMMA HolderExists ==
  ASSUME NEW m \in Manifest, NEW K \in SUBSET Key, NEW t \in Tile,
         Holders(K, t) # {}
  PROVE  /\ Holder(m, K, t) \in Holders(K, t)
         /\ \A j \in Holders(K, t) : m.archives[j] <= m.archives[Holder(m, K, t)]
<1> DEFINE H == Holders(K, t)
           S == {m.generation - m.archives[k] : k \in H}
<1>1. H \subseteq Key
  BY DEF Holders
<1>2. /\ m.generation \in Nat
      /\ \A k \in H : m.archives[k] \in Nat /\ m.archives[k] <= m.generation
  BY <1>1 DEF Manifest
<1>3. S \in SUBSET Nat /\ S # {}
  BY <1>2
<1>4. PICK x \in S : \A y \in S : x <= y
  BY <1>3, LeastElement
<1>5. PICK k \in H : x = m.generation - m.archives[k]
  BY <1>4
<1>6. \A j \in H : m.archives[j] <= m.archives[k]
  <2> TAKE j \in H
  <2>1. m.generation - m.archives[k] <= m.generation - m.archives[j]
    BY <1>4, <1>5
  <2> QED BY <2>1, <1>2
<1> QED BY <1>6 DEF Holder

-----------------------------------------------------------------------------
(* What each publication makes of a manifest.                               *)

LEMMA DeltaManifest ==
  ASSUME NEW m \in Manifest, NEW k \in Key
  PROVE  LET n == WithDelta(m, k) IN
         /\ n \in Manifest
         /\ Archives(n) = Archives(m) \cup {k}
         /\ n.retired = m.retired
         /\ \A j \in Key \ {k} : n.archives[j] = m.archives[j]
         /\ \A j \in Key \ {k} : n.archives[j] < n.archives[k]
BY DEF Manifest, WithDelta, Successor, Archives

LEMMA MergedManifest ==
  ASSUME NEW m \in Manifest, NEW K \in SUBSET Archives(m), K # {},
         NEW k \in Key, NEW now \in Nat
  PROVE  /\ WithMerged(m, K, k, now) \in Manifest
         /\ Archives(WithMerged(m, K, k, now)) = (Archives(m) \ K) \cup {k}
         /\ WithMerged(m, K, k, now).retired = m.retired \cup Retire(K, now)
<1>1. PICK j \in K : RunPlace(m, K) = m.archives[j]
  BY DEF RunPlace
<1>2. K \subseteq Key /\ RunPlace(m, K) \in Nat /\ RunPlace(m, K) # 0
      /\ RunPlace(m, K) <= m.generation
  BY <1>1 DEF Archives, Manifest
<1>3. Retire(K, now) \subseteq [key : Key, at : Nat]
  BY <1>2 DEF Retire
<1> QED BY <1>1, <1>2, <1>3 DEF Manifest, WithMerged, Successor, Archives

LEMMA PrunedManifest ==
  ASSUME NEW m \in Manifest, NEW now \in Nat
  PROVE  LET n == WithoutExpired(m, now) IN
         /\ n \in Manifest
         /\ Archives(n) = Live(m, now)
         /\ n.retired = m.retired \cup Retire(Archives(m) \ Live(m, now), now)
         /\ \A j \in Live(m, now) : n.archives[j] = m.archives[j]
<1>1. Retire(Archives(m) \ Live(m, now), now) \subseteq [key : Key, at : Nat]
  BY DEF Retire, Archives
<1>2. Live(m, now) \subseteq Archives(m) /\ Archives(m) \subseteq Key
  BY DEF Live, Archives
<1> QED BY <1>1, <1>2 DEF Manifest, WithoutExpired, Successor, Archives

LEMMA ForgottenManifest ==
  ASSUME NEW m \in Manifest, NEW K
  PROVE  LET n == WithoutRetired(m, K) IN
         /\ n \in Manifest
         /\ n.archives = m.archives
         /\ Archives(n) = Archives(m)
         /\ n.retired = {r \in m.retired : r.key \notin K}
BY DEF Manifest, WithoutRetired, Successor, Archives

-----------------------------------------------------------------------------
(* Type correctness.                                                        *)

\* Keys in use are keys of archives that were uploaded; a flush that uploads has
\* something to upload, and a merge something to merge.
Uses(p) ==
  /\ Named(task[p].base) \subseteq DOMAIN archive
  /\ task[p].key \in DOMAIN archive \cup {0}
  /\ task[p].run \subseteq DOMAIN archive
  /\ task[p].doomed \subseteq DOMAIN archive
  /\ At(p, "upload") /\ p \in Writer => TilesOf(kept[p]) # {}
  /\ At(p, "merge") => task[p].run # {}
  /\ At(p, "replace") => task[p].run \subseteq Archives(task[p].base)
  /\ /\ At(p, "publish") \/ At(p, "replace")
     /\ p \in Writer \/ task[p].run # {}
     => task[p].key # 0

Used ==
  /\ Named(manifest) \subseteq DOMAIN archive
  /\ \A p \in Process : Uses(p)

TypeInv == TypeOK /\ Used

USE DEF bucketVars, bufferVars, limitVars, At, Goto, Rest, Process

LEMMA EmptyManifestType ==
  /\ EmptyManifest \in Manifest
  /\ Named(EmptyManifest) = {}
<1> DEFINE none == [k \in Key |-> 0]
<1>1. none \in [Key -> Nat] /\ \A k \in Key : none[k] = 0
  OBVIOUS
<1>2. EmptyManifest = [generation |-> 0, archives |-> none, retired |-> {}]
  BY DEF EmptyManifest
<1> HIDE DEF none
<1> QED BY <1>1, <1>2 DEF Manifest, Named, Archives, Retired

LEMMA IdleType == Idle \in Task
BY EmptyManifestType DEF Idle, Task, PCs

LEMMA ArchiveElement ==
  ASSUME archive \in Seq(Archive)
  PROVE  /\ DOMAIN archive = 1..Len(archive) /\ Len(archive) \in Nat
         /\ \A k \in DOMAIN archive : archive[k] \in Archive
BY ElementOfSeq, LenProperties

(* The tiles of a merge are those of its archives.                          *)
LEMMA MergedType ==
  ASSUME NEW m \in Manifest, NEW K \in SUBSET Key, K \subseteq DOMAIN archive,
         archive \in Seq(Archive)
  PROVE  Merged(m, K) \in Contents
<1>1. \A k \in K : archive[k].tiles \in Contents
  BY ArchiveElement DEF Archive
<1>2. \A t \in Tile : Holders(K, t) # {} => Holder(m, K, t) \in K
  BY HolderExists DEF Holders
<1> QED BY <1>1, <1>2 DEF Merged, Contents

(* A step of one process leaves the others' keys in use alone.              *)
LEMMA UsedFrame ==
  ASSUME Used, NEW p \in Process,
         \A q \in Process \ {p} : task'[q] = task[q],
         \A w \in Writer \ {p} : kept'[w] = kept[w],
         DOMAIN archive \subseteq DOMAIN archive',
         Named(manifest') \subseteq DOMAIN archive',
         Uses(p)'
  PROVE  Used'
<1>1. ASSUME NEW q \in Process \ {p} PROVE Uses(q)'
  BY <1>1 DEF Used, Uses
<1> QED BY <1>1 DEF Used

LEMMA TypeInvInit == Init => TypeInv
<1> SUFFICES ASSUME Init PROVE TypeInv
  OBVIOUS
<1>1. TypeOK
  BY EmptyManifestType, IdleType, BoundsAssumption
  DEF Init, TypeOK, NoTiles, Contents
<1>2. Used
  BY EmptyManifestType DEF Init, Used, Uses, Idle
<1> QED BY <1>1, <1>2 DEF TypeInv

LEMMA EpochType ==
  ASSUME NEW now \in Nat
  PROVE  Epoch(now) \in Nat
BY TimesAssumption DEF Epoch

(* The oldest fetch of what is uploaded, and of what is merged.             *)
LEMMA OldestIsLeast ==
  ASSUME NEW f \in Contents, TilesOf(f) # {}
  PROVE  Oldest(f) \in Nat /\ \A t \in TilesOf(f) : Oldest(f) <= f[t].fetched
<1> DEFINE S == {f[t].fetched : t \in TilesOf(f)}
<1>1. S \in SUBSET Nat /\ S # {}
  BY DEF TilesOf, Contents, Copy
<1>2. PICK x \in S : \A y \in S : x <= y
  BY <1>1, LeastElement
<1>3. \A t \in TilesOf(f) : x <= f[t].fetched
  BY <1>2
<1> QED BY <1>1, <1>3 DEF Oldest

LEMMA OldestOfIsLeast ==
  ASSUME archive \in Seq(Archive), NEW K \in SUBSET DOMAIN archive, K # {}
  PROVE  OldestOf(K) \in Nat /\ \A k \in K : OldestOf(K) <= archive[k].oldest
<1> DEFINE S == {archive[k].oldest : k \in K}
<1>1. S \in SUBSET Nat /\ S # {}
  BY ArchiveElement DEF Archive
<1>2. PICK x \in S : \A y \in S : x <= y
  BY <1>1, LeastElement
<1>3. \A k \in K : x <= archive[k].oldest
  BY <1>2
<1> QED BY <1>1, <1>3 DEF OldestOf

(* An upload: Store adds an archive under a key that no one used.           *)
LEMMA StoreType ==
  ASSUME TypeInv, NEW p \in Process, NEW tiles \in Contents, NEW epoch \in Nat,
         NEW oldest \in Nat, Store(p, tiles, epoch, oldest)
  PROVE  LET k == Len(archive) + 1 IN
         /\ k \in Key /\ k \notin DOMAIN archive
         /\ archive' \in Seq(Archive) /\ Len(archive') = k
         /\ DOMAIN archive' = DOMAIN archive \cup {k}
         /\ \A j \in DOMAIN archive : archive'[j] = archive[j]
         /\ archive'[k] = [tiles |-> tiles, epoch |-> epoch, oldest |-> oldest,
                           modified |-> clock]
         /\ stored' = stored \cup {k}
         /\ task' \in [Process -> Task]
         /\ \A q \in Process \ {p} : task'[q] = task[q]
         /\ task'[p].pc = "publish" /\ task'[p].key = k
         /\ task'[p].base = EmptyManifest
         /\ task'[p].run = task[p].run /\ task'[p].doomed = task[p].doomed
         /\ task'[p].since = task[p].since
<1>1. archive \in Seq(Archive) /\ clock \in Nat /\ task \in [Process -> Task]
  BY DEF TypeInv, TypeOK
<1> DEFINE a == [tiles |-> tiles, epoch |-> epoch, oldest |-> oldest, modified |-> clock]
<1>2. a \in Archive
  BY <1>1 DEF Archive
<1>3. archive' = Append(archive, a) /\ stored' = stored \cup {Len(archive) + 1}
      /\ Len(archive) + 1 \in Key
  BY DEF Store
<1> HIDE DEF a
<1>4. /\ archive' \in Seq(Archive) /\ Len(archive') = Len(archive) + 1
      /\ \A j \in 1..Len(archive) : archive'[j] = archive[j]
      /\ archive'[Len(archive) + 1] = a
  BY <1>1, <1>2, <1>3, AppendProperties
<1>5. /\ DOMAIN archive = 1..Len(archive) /\ Len(archive) \in Nat
      /\ DOMAIN archive' = 1..Len(archive')
  BY <1>1, <1>4, LenProperties
<1> DEFINE k == Len(archive) + 1
<1>6. task' = [task EXCEPT ![p].pc = "publish", ![p].key = k, ![p].base = EmptyManifest]
  BY DEF Store
<1>7. k \in Key /\ "publish" \in PCs /\ EmptyManifest \in Manifest
  BY <1>3, EmptyManifestType DEF PCs
<1> HIDE DEF k
<1>8. /\ task' \in [Process -> Task]
      /\ \A q \in Process \ {p} : task'[q] = task[q]
      /\ task'[p].pc = "publish" /\ task'[p].key = k
      /\ task'[p].base = EmptyManifest
      /\ task'[p].run = task[p].run /\ task'[p].doomed = task[p].doomed
      /\ task'[p].since = task[p].since
  <2>1. task[p] \in Task /\ k \in Key \cup {0}
    BY <1>1, <1>7
  <2> DEFINE s == [task[p] EXCEPT !.pc = "publish", !.key = k, !.base = EmptyManifest]
  <2>2. s \in Task
    BY <1>7, <2>1 DEF Task
  <2>3. task' = [task EXCEPT ![p] = s]
    BY <1>6
  <2>4. /\ s.pc = "publish" /\ s.key = k /\ s.base = EmptyManifest
        /\ s.run = task[p].run /\ s.doomed = task[p].doomed
        /\ s.since = task[p].since
    BY <2>1 DEF Task
  <2> HIDE DEF s
  <2> QED BY <1>1, <2>2, <2>3, <2>4
<1> QED BY <1>3, <1>4, <1>5, <1>8 DEF a, k

LEMMA TypeInvStep == TypeInv /\ [Next]_vars => TypeInv'
<1> SUFFICES ASSUME TypeInv, [Next]_vars PROVE TypeInv'
  OBVIOUS
<1>ok. TypeOK /\ Used
  BY DEF TypeInv
<1>key. \A k \in DOMAIN archive : k \in Key
  BY <1>ok, LenProperties, BoundsAssumption DEF TypeOK, Key
<1>task. task \in [Process -> Task]
  BY <1>ok DEF TypeOK
<1>clock. clock \in Nat /\ manifest \in Manifest
  BY <1>ok DEF TypeOK
<1>pc. /\ {"idle", "compare", "upload", "publish", "replace", "announce"} \subseteq PCs
      /\ {"select", "merge", "cleanup", "delete", "know", "list", "sweep"} \subseteq PCs
  BY DEF PCs
<1>1. ASSUME Tick PROVE TypeInv'
  BY <1>ok, <1>1 DEF TypeInv, Tick, TypeOK, Used, Uses, BoundsAssumption
<1>2. ASSUME NEW w \in Writer, NEW t \in Tile, NEW b \in Body, NEW f \in 0..clock,
             Put(w, t, [body |-> b, fetched |-> f])
      PROVE  TypeInv'
  <2>1. [body |-> b, fetched |-> f] \in Copy
    BY <1>ok DEF Copy, TypeOK
  <2>2. pending' \in [Writer -> Contents]
    BY <1>ok, <1>2, <2>1 DEF Put, TypeOK, Contents
  <2> QED BY <1>ok, <1>2, <2>2 DEF TypeInv, Put, TypeOK, Used, Uses
<1>3. ASSUME NEW p \in Process, ReadManifest(p) PROVE TypeInv'
  <2>1. task' \in [Process -> Task]
    BY <1>task, <1>pc, <1>clock, <1>3 DEF ReadManifest, Task
  <2>2. Used'
    <3>1. /\ \A q \in Process \ {p} : task'[q] = task[q]
          /\ \A v \in Writer \ {p} : kept'[v] = kept[v]
          /\ DOMAIN archive \subseteq DOMAIN archive'
          /\ Named(manifest') \subseteq DOMAIN archive'
      BY <1>ok, <1>task, <1>3 DEF ReadManifest, Used, TypeOK
    <3>2. /\ task'[p].pc = "replace" /\ task'[p].base = manifest
          /\ task'[p].run = task[p].run /\ task'[p].key = task[p].key
          /\ task'[p].doomed = task[p].doomed /\ task[p].pc = "publish"
          /\ task[p].run \subseteq Archives(manifest)
      BY <1>task, <1>3 DEF ReadManifest, Task, Whole
    <3>3. Uses(p)'
      BY <1>ok, <1>3, <3>2 DEF ReadManifest, Used, Uses
    <3> QED BY <1>ok, <3>1, <3>3, UsedFrame
  <2> QED BY <1>ok, <1>3, <2>1, <2>2 DEF TypeInv, ReadManifest, TypeOK
<1>4. ASSUME NEW p \in Process, Conflict(p) PROVE TypeInv'
  <2>1. task' \in [Process -> Task]
    BY <1>task, <1>pc, <1>clock, <1>4, EmptyManifestType DEF Conflict, Task
  <2>2. Used'
    <3>1. /\ \A q \in Process \ {p} : task'[q] = task[q]
          /\ \A v \in Writer \ {p} : kept'[v] = kept[v]
          /\ DOMAIN archive \subseteq DOMAIN archive'
          /\ Named(manifest') \subseteq DOMAIN archive'
      BY <1>ok, <1>task, <1>4, EmptyManifestType DEF Conflict, Used, TypeOK
    <3>2. Uses(p)'
      BY <1>ok, <1>task, <1>4, EmptyManifestType DEF Conflict, Used, Uses, Task
    <3> QED BY <1>ok, <3>1, <3>2, UsedFrame
  <2> QED BY <1>ok, <1>4, <2>1, <2>2 DEF TypeInv, Conflict, TypeOK
<1>5. ASSUME NEW w \in Writer, Freeze(w) PROVE TypeInv'
  <2>1. task' \in [Process -> Task]
    <3>1. task' = [task EXCEPT ![w].pc = "compare", ![w].since = clock]
      BY <1>5 DEF Freeze
    <3>2. task[w] \in Task /\ "compare" \in PCs /\ clock \in Nat
      BY <1>task, <1>pc, <1>clock, EmptyManifestType
    <3>3. [task[w] EXCEPT !.pc = "compare", !.since = clock] \in Task
      BY <3>2 DEF Task
    <3> QED BY <1>task, <3>1, <3>3
  <2>2. /\ NoTiles \in Contents
        /\ flushing' \in [Writer -> Contents] /\ pending' \in [Writer -> Contents]
    BY <1>ok, <1>5 DEF Freeze, TypeOK, Contents, NoTiles
  <2>3. Used'
    <3>1. /\ \A q \in Process \ {w} : task'[q] = task[q]
          /\ \A v \in Writer \ {w} : kept'[v] = kept[v]
          /\ DOMAIN archive \subseteq DOMAIN archive'
          /\ Named(manifest') \subseteq DOMAIN archive'
      BY <1>ok, <1>task, <1>5 DEF Freeze, Used, TypeOK
    <3>2. Uses(w)'
      BY <1>ok, <1>task, <1>5 DEF Freeze, Used, Uses, Task
    <3> QED BY <1>ok, <3>1, <3>2, UsedFrame
  <2> QED BY <1>ok, <1>5, <2>1, <2>2, <2>3 DEF TypeInv, Freeze, TypeOK
<1>6. ASSUME NEW w \in Writer, NEW unread, Compare(w, unread) PROVE TypeInv'
  <2> DEFINE fresh == {t \in TilesOf(flushing[w]) :
                 t \in unread \/ ~Duplicate(manifest, task[w].since, t, flushing[w][t])}
             left == Restricted(flushing[w], fresh)
  <2>1. flushing[w] \in Contents /\ fresh \subseteq TilesOf(flushing[w])
    BY <1>ok DEF TypeOK
  <2>2. left \in Contents /\ TilesOf(left) = fresh /\ NoTiles \in Contents
    BY <2>1 DEF Restricted, Contents, NoTiles, TilesOf
  <2>3. /\ kept' = [kept EXCEPT ![w] = left]
        /\ fresh = {} => task' = [task EXCEPT ![w] = Idle]
                        /\ flushing' = [flushing EXCEPT ![w] = NoTiles]
        /\ fresh # {} => task' = [task EXCEPT ![w].pc = "upload"] /\ flushing' = flushing
        /\ UNCHANGED <<clock, archive, stored, manifest, pending, puts, faults, crashes>>
    BY <1>6 DEF Compare
  <2> HIDE DEF left, fresh
  <2>4. kept' \in [Writer -> Contents] /\ flushing' \in [Writer -> Contents]
    BY <1>ok, <2>2, <2>3 DEF TypeOK
  <2>5. task' \in [Process -> Task]
    BY <1>task, <1>pc, <1>clock, <2>3, IdleType DEF Task
  <2>6. Used'
    <3>1. /\ \A q \in Process \ {w} : task'[q] = task[q]
          /\ \A v \in Writer \ {w} : kept'[v] = kept[v]
          /\ kept'[w] = left
      BY <1>task, <1>ok, <2>3 DEF TypeOK
    <3>2. Uses(w)'
      <4>1. CASE fresh = {}
        <5>1. task'[w] = Idle /\ archive' = archive
          BY <1>task, <2>3, <4>1
        <5> QED BY <5>1, EmptyManifestType DEF Uses, Idle
      <4>2. CASE fresh # {}
        <5>1. /\ task'[w].pc = "upload" /\ task'[w].base = task[w].base
              /\ task'[w].run = task[w].run /\ task'[w].key = task[w].key
              /\ task'[w].doomed = task[w].doomed /\ archive' = archive
          BY <1>task, <2>3, <4>2 DEF Task
        <5> QED BY <1>ok, <2>2, <3>1, <4>2, <5>1 DEF Used, Uses
      <4> QED BY <4>1, <4>2
    <3> QED BY <1>ok, <2>3, <3>1, <3>2, UsedFrame DEF Used
  <2> QED BY <1>ok, <2>3, <2>4, <2>5, <2>6 DEF TypeInv, TypeOK
<1>7. ASSUME NEW w \in Writer, Upload(w) PROVE TypeInv'
  <2>1. kept[w] \in Contents /\ TilesOf(kept[w]) # {}
    BY <1>ok, <1>7 DEF Upload, TypeOK, Used, Uses
  <2>2. Oldest(kept[w]) \in Nat
    BY <2>1, OldestIsLeast
  <2>3. Epoch(task[w].since) \in Nat
    BY <1>ok, EpochType DEF TypeOK, Task
  <2>4. Store(w, kept[w], Epoch(task[w].since), Oldest(kept[w]))
    BY <1>7 DEF Upload
  <2> DEFINE k == Len(archive) + 1
  <2>5. /\ k \in Key /\ archive' \in Seq(Archive) /\ Len(archive') = k
        /\ DOMAIN archive' = DOMAIN archive \cup {k} /\ stored' = stored \cup {k}
        /\ task' \in [Process -> Task]
    BY <2>1, <2>2, <2>3, <2>4, StoreType
  <2>6. /\ \A q \in Process \ {w} : task'[q] = task[q]
        /\ task'[w].pc = "publish" /\ task'[w].key = k
        /\ task'[w].base = EmptyManifest
        /\ task'[w].run = task[w].run /\ task'[w].doomed = task[w].doomed
    BY <2>1, <2>2, <2>3, <2>4, StoreType
  <2>7. UNCHANGED <<clock, manifest, pending, flushing, kept, puts, faults, crashes>>
    BY <1>7 DEF Upload
  <2> HIDE DEF k
  <2>8. Used'
    <3>1. Uses(w)'
      BY <1>ok, <2>5, <2>6, EmptyManifestType DEF Used, Uses, Key
    <3> QED BY <1>ok, <2>5, <2>6, <2>7, <3>1, UsedFrame DEF Used
  <2> QED BY <1>ok, <2>5, <2>7, <2>8 DEF TypeInv, TypeOK, Key
<1>8. ASSUME NEW w \in Writer, PublishDelta(w) PROVE TypeInv'
  <2> DEFINE m == task[w].base
             k == task[w].key
  <2>1. /\ m = manifest /\ m \in Manifest /\ manifest' = WithDelta(m, k)
        /\ k \in Key \cup {0} /\ k \in DOMAIN archive \cup {0}
    BY <1>ok, <1>8 DEF PublishDelta, Replace, Unchanged, TypeOK, Task, Used, Uses
  <2>2. manifest' \in Manifest /\ Named(manifest') \subseteq DOMAIN archive
    <3>1. k \in Key /\ k \in DOMAIN archive
      BY <1>ok, <1>8, <2>1 DEF PublishDelta, Used, Uses
    <3> QED BY <1>ok, <3>1, <2>1, DeltaManifest DEF Named, Retired, Used
  <2>3. task' \in [Process -> Task]
    BY <1>task, <1>pc, <1>clock, <1>8, IdleType DEF PublishDelta, Task
  <2>4. Used'
    <3>1. /\ \A q \in Process \ {w} : task'[q] = task[q]
          /\ \A v \in Writer \ {w} : kept'[v] = kept[v]
          /\ DOMAIN archive \subseteq DOMAIN archive'
          /\ Named(manifest') \subseteq DOMAIN archive'
      BY <1>ok, <1>task, <1>8, <2>2, EmptyManifestType DEF PublishDelta, Replace, Idle, Used, TypeOK
    <3>2. Uses(w)'
      BY <1>ok, <1>task, <1>8, <2>2, EmptyManifestType DEF PublishDelta, Replace, Idle, Used, Uses, Task
    <3> QED BY <1>ok, <3>1, <3>2, UsedFrame
  <2> QED BY <1>ok, <1>8, <2>2, <2>3, <2>4 DEF TypeInv, PublishDelta, Replace, TypeOK
<1>9. ASSUME NEW w \in Writer, EndFlush(w) PROVE TypeInv'
  <2>1. /\ NoTiles \in Contents
        /\ flushing' \in [Writer -> Contents] /\ kept' \in [Writer -> Contents]
        /\ pending' \in [Writer -> Contents]
    BY <1>ok, <1>9 DEF EndFlush, TypeOK, Contents, NoTiles
  <2>2. task' \in [Process -> Task]
    BY <1>task, <1>pc, <1>clock, <1>9, IdleType DEF EndFlush, TypeOK
  <2>3. Used'
    <3>1. /\ \A q \in Process \ {w} : task'[q] = task[q]
          /\ \A v \in Writer \ {w} : kept'[v] = kept[v]
          /\ DOMAIN archive \subseteq DOMAIN archive'
          /\ Named(manifest') \subseteq DOMAIN archive'
      BY <1>ok, <1>task, <1>9, EmptyManifestType DEF EndFlush, Idle, Used, TypeOK
    <3>2. Uses(w)'
      BY <1>ok, <1>task, <1>9, EmptyManifestType DEF EndFlush, Idle, Used, Uses, Task
    <3> QED BY <1>ok, <3>1, <3>2, UsedFrame
  <2> QED BY <1>ok, <1>9, <2>1, <2>2, <2>3 DEF TypeInv, EndFlush, TypeOK
<1>10. ASSUME NEW w \in Writer, PutBack(w) PROVE TypeInv'
  <2>1. /\ NoTiles \in Contents
        /\ flushing' \in [Writer -> Contents] /\ kept' \in [Writer -> Contents]
        /\ pending' \in [Writer -> Contents]
    BY <1>ok, <1>10 DEF PutBack, TypeOK, Contents, NoTiles, BackInBuffer, Over
  <2>2. task' \in [Process -> Task]
    BY <1>task, <1>pc, <1>clock, <1>10, IdleType DEF PutBack, TypeOK
  <2>3. Used'
    <3>1. /\ \A q \in Process \ {w} : task'[q] = task[q]
          /\ \A v \in Writer \ {w} : kept'[v] = kept[v]
          /\ DOMAIN archive \subseteq DOMAIN archive'
          /\ Named(manifest') \subseteq DOMAIN archive'
      BY <1>ok, <1>task, <1>10, EmptyManifestType DEF PutBack, Idle, Used, TypeOK
    <3>2. Uses(w)'
      BY <1>ok, <1>task, <1>10, EmptyManifestType DEF PutBack, Idle, Used, Uses, Task
    <3> QED BY <1>ok, <3>1, <3>2, UsedFrame
  <2> QED BY <1>ok, <1>10, <2>1, <2>2, <2>3 DEF TypeInv, PutBack, TypeOK
<1>11. ASSUME NEW w \in Writer, Crash(w) PROVE TypeInv'
  <2>1. /\ NoTiles \in Contents
        /\ flushing' \in [Writer -> Contents] /\ kept' \in [Writer -> Contents]
        /\ pending' \in [Writer -> Contents]
    BY <1>ok, <1>11 DEF Crash, TypeOK, Contents, NoTiles
  <2>2. task' \in [Process -> Task]
    BY <1>task, <1>pc, <1>clock, <1>11, IdleType DEF Crash, TypeOK
  <2>3. Used'
    <3>1. /\ \A q \in Process \ {w} : task'[q] = task[q]
          /\ \A v \in Writer \ {w} : kept'[v] = kept[v]
          /\ DOMAIN archive \subseteq DOMAIN archive'
          /\ Named(manifest') \subseteq DOMAIN archive'
      BY <1>ok, <1>task, <1>11, EmptyManifestType DEF Crash, Idle, Used, TypeOK
    <3>2. Uses(w)'
      BY <1>ok, <1>task, <1>11, EmptyManifestType DEF Crash, Idle, Used, Uses, Task
    <3> QED BY <1>ok, <3>1, <3>2, UsedFrame
  <2> QED BY <1>ok, <1>11, <2>1, <2>2, <2>3 DEF TypeInv, Crash, TypeOK
<1>12. ASSUME NEW m \in Maintainer, Prune(m) PROVE TypeInv'
  <2>1. task' \in [Process -> Task]
    BY <1>task, <1>pc, <1>clock, <1>12 DEF Prune, Task
  <2>2. Used'
    <3>1. /\ \A q \in Process \ {m} : task'[q] = task[q]
          /\ \A v \in Writer \ {m} : kept'[v] = kept[v]
          /\ DOMAIN archive \subseteq DOMAIN archive'
          /\ Named(manifest') \subseteq DOMAIN archive'
      BY <1>ok, <1>task, <1>12 DEF Prune, Used, TypeOK
    <3>2. Uses(m)'
      BY <1>ok, <1>task, <1>12 DEF Prune, Used, Uses, Task
    <3> QED BY <1>ok, <3>1, <3>2, UsedFrame
  <2> QED BY <1>ok, <1>12, <2>1, <2>2 DEF TypeInv, Prune, TypeOK
<1>13. ASSUME NEW m \in Maintainer, PublishPruned(m) PROVE TypeInv'
  <2> DEFINE b == task[m].base
  <2>1. /\ b = manifest /\ b \in Manifest /\ task[m].since \in Nat
        /\ manifest' = WithoutExpired(b, task[m].since)
    BY <1>ok, <1>13 DEF PublishPruned, Replace, Unchanged, TypeOK, Task
  <2>2. manifest' \in Manifest /\ Named(manifest') \subseteq Named(manifest)
    <3>1. Live(b, task[m].since) \subseteq Archives(b)
      BY DEF Live
    <3> QED BY <2>1, <3>1, PrunedManifest DEF Named, Retired, Retire
  <2>3. task' \in [Process -> Task]
    BY <1>task, <1>pc, <1>clock, <1>13, IdleType DEF PublishPruned, Task
  <2>4. Used'
    <3>1. /\ \A q \in Process \ {m} : task'[q] = task[q]
          /\ \A v \in Writer \ {m} : kept'[v] = kept[v]
          /\ DOMAIN archive \subseteq DOMAIN archive'
          /\ Named(manifest') \subseteq DOMAIN archive'
      BY <1>ok, <1>task, <1>13, <2>2, EmptyManifestType DEF PublishPruned, Replace, Idle, Used, TypeOK
    <3>2. Uses(m)'
      BY <1>ok, <1>task, <1>13, <2>2, EmptyManifestType DEF PublishPruned, Replace, Idle, Used, Uses, Task
    <3> QED BY <1>ok, <3>1, <3>2, UsedFrame
  <2> QED BY <1>ok, <1>13, <2>2, <2>3, <2>4 DEF TypeInv, PublishPruned, Replace, TypeOK
<1>14. ASSUME NEW m \in Maintainer, Select(m) PROVE TypeInv'
  <2>1. PICK K \in Runs(manifest, clock) :
          task' = [task EXCEPT ![m] = [Idle EXCEPT !.pc = "merge", !.run = K,
                                                   !.since = clock, !.base = manifest]]
    BY <1>14 DEF Select
  <2>2. K # {} /\ K \subseteq Archives(manifest) /\ K \subseteq Key
    BY DEF Runs, Live, Archives
  <2>3. K \subseteq DOMAIN archive
    BY <1>ok, <2>2 DEF Used, Named
  <2>4. task' \in [Process -> Task]
    BY <1>task, <1>pc, <1>clock, <2>1, <2>2, IdleType DEF Task
  <2>5. Used'
    <3>1. /\ \A q \in Process \ {m} : task'[q] = task[q]
          /\ \A v \in Writer \ {m} : kept'[v] = kept[v]
          /\ DOMAIN archive \subseteq DOMAIN archive'
          /\ Named(manifest') \subseteq DOMAIN archive'
      BY <1>ok, <1>task, <1>14, <2>1, <2>2, <2>3, EmptyManifestType DEF Select, Idle, Used, TypeOK
    <3>2. Uses(m)'
      BY <1>ok, <1>task, <1>14, <2>1, <2>2, <2>3, EmptyManifestType DEF Select, Idle, Used, Uses, Task
    <3> QED BY <1>ok, <3>1, <3>2, UsedFrame
  <2> QED BY <1>ok, <1>14, <2>4, <2>5 DEF TypeInv, Select, TypeOK
<1>15. ASSUME NEW m \in Maintainer, Nothing(m) PROVE TypeInv'
  <2>1. task' \in [Process -> Task]
    BY <1>task, <1>pc, <1>clock, <1>15 DEF Nothing, Task
  <2>2. Used'
    <3>1. /\ \A q \in Process \ {m} : task'[q] = task[q]
          /\ \A v \in Writer \ {m} : kept'[v] = kept[v]
          /\ DOMAIN archive \subseteq DOMAIN archive'
          /\ Named(manifest') \subseteq DOMAIN archive'
      BY <1>ok, <1>task, <1>15 DEF Nothing, Used, TypeOK
    <3>2. Uses(m)'
      BY <1>ok, <1>task, <1>15 DEF Nothing, Used, Uses, Task
    <3> QED BY <1>ok, <3>1, <3>2, UsedFrame
  <2> QED BY <1>ok, <1>15, <2>1, <2>2 DEF TypeInv, Nothing, TypeOK
<1>16. ASSUME NEW m \in Maintainer, Merge(m) PROVE TypeInv'
  <2> DEFINE K == task[m].run
             b == task[m].base
             e == archive[CHOOSE i \in K : TRUE].epoch
  <2>1. K # {} /\ K \subseteq DOMAIN archive /\ K \in SUBSET Key /\ b \in Manifest
    BY <1>ok, <1>16 DEF Merge, TypeOK, Task, Used, Uses
  <2>2. Merged(b, K) \in Contents
    BY <1>ok, <2>1, MergedType DEF TypeOK
  <2>3. e \in Nat
    BY <1>ok, <2>1, ArchiveElement DEF TypeOK, Archive
  <2>4. OldestOf(K) \in Nat
    BY <1>ok, <2>1, OldestOfIsLeast DEF TypeOK
  <2>5. Store(m, Merged(b, K), e, OldestOf(K))
    BY <1>16 DEF Merge
  <2>6. UNCHANGED <<clock, manifest, pending, flushing, kept, puts, faults, crashes>>
    BY <1>16 DEF Merge
  <2> DEFINE k == Len(archive) + 1
  <2> HIDE DEF e, K, b
  <2>7. /\ k \in Key /\ archive' \in Seq(Archive) /\ Len(archive') = k
        /\ DOMAIN archive' = DOMAIN archive \cup {k} /\ stored' = stored \cup {k}
        /\ task' \in [Process -> Task]
    BY <2>2, <2>3, <2>4, <2>5, StoreType
  <2>8. /\ \A q \in Process \ {m} : task'[q] = task[q]
        /\ task'[m].pc = "publish" /\ task'[m].key = k
        /\ task'[m].base = EmptyManifest
        /\ task'[m].run = task[m].run /\ task'[m].doomed = task[m].doomed
    BY <2>2, <2>3, <2>4, <2>5, StoreType
  <2> HIDE DEF k
  <2>9. Used'
    <3>1. Uses(m)'
      BY <1>ok, <2>7, <2>8, EmptyManifestType DEF Used, Uses, Key
    <3> QED BY <1>ok, <2>6, <2>7, <2>8, <3>1, UsedFrame DEF Used
  <2> QED BY <1>ok, <2>6, <2>7, <2>9 DEF TypeInv, TypeOK, Key
<1>17. ASSUME NEW m \in Maintainer, PublishMerged(m) PROVE TypeInv'
  <2> DEFINE b == task[m].base
             K == task[m].run
             k == task[m].key
  <2>1. /\ b = manifest /\ b \in Manifest /\ task[m].since \in Nat
        /\ manifest' = WithMerged(b, K, k, task[m].since)
    BY <1>ok, <1>17 DEF PublishMerged, Replace, Unchanged, TypeOK, Task
  <2>2. K # {} /\ K \subseteq Archives(b) /\ k \in Key /\ k \in DOMAIN archive
    <3>1. Uses(m) /\ At(m, "replace") /\ K # {}
      BY <1>ok, <1>17 DEF PublishMerged, Used
    <3> QED BY <1>key, <3>1 DEF Uses
  <2>3. manifest' \in Manifest /\ Named(manifest') \subseteq Named(manifest) \cup {k}
    <3>1. /\ manifest' \in Manifest
          /\ Archives(manifest') = (Archives(b) \ K) \cup {k}
          /\ manifest'.retired = b.retired \cup Retire(K, task[m].since)
      <4> DEFINE now == task[m].since
      <4>1. /\ b \in Manifest /\ now \in Nat /\ manifest' = WithMerged(b, K, k, now)
            /\ K \in SUBSET Archives(b) /\ K # {} /\ k \in Key
        BY <2>1, <2>2
      <4> HIDE DEF b, K, k, now
      <4>2. manifest' \in Manifest
        BY <4>1, MergedManifest
      <4>3. Archives(WithMerged(b, K, k, now)) = (Archives(b) \ K) \cup {k}
        <5>1. K \subseteq Key /\ RunPlace(b, K) # 0
          BY <4>1 DEF RunPlace, Archives
        <5> QED BY <4>1, <5>1 DEF Archives, WithMerged, Successor
      <4>4. manifest'.retired = b.retired \cup Retire(K, now)
        BY <4>1, MergedManifest
      <4> QED BY <4>1, <4>2, <4>3, <4>4 DEF now
    <3>2. Retired(manifest') \subseteq Retired(b) \cup K
      BY <3>1 DEF Retired, Retire
    <3> QED BY <2>1, <2>2, <3>1, <3>2 DEF Named
  <2>4. task' \in [Process -> Task]
    BY <1>task, <1>pc, <1>clock, <1>17, IdleType DEF PublishMerged, Task
  <2>5. Used'
    <3>1. /\ \A q \in Process \ {m} : task'[q] = task[q]
          /\ \A v \in Writer \ {m} : kept'[v] = kept[v]
          /\ DOMAIN archive \subseteq DOMAIN archive'
          /\ Named(manifest') \subseteq DOMAIN archive'
      BY <1>ok, <1>task, <1>17, <2>1, <2>2, <2>3, EmptyManifestType DEF PublishMerged, Replace, Idle, Key, Used, TypeOK
    <3>2. Uses(m)'
      BY <1>ok, <1>task, <1>17, <2>1, <2>2, <2>3, EmptyManifestType DEF PublishMerged, Replace, Idle, Key, Used, Uses, Task
    <3> QED BY <1>ok, <3>1, <3>2, UsedFrame
  <2> QED BY <1>ok, <1>17, <2>3, <2>4, <2>5 DEF TypeInv, PublishMerged, Replace, TypeOK
<1>18. ASSUME NEW m \in Maintainer, Superseded(m) PROVE TypeInv'
  <2>1. task' \in [Process -> Task]
    BY <1>task, <1>pc, <1>clock, <1>18, IdleType DEF Superseded, Task
  <2>2. Used'
    <3>1. /\ \A q \in Process \ {m} : task'[q] = task[q]
          /\ \A v \in Writer \ {m} : kept'[v] = kept[v]
          /\ DOMAIN archive \subseteq DOMAIN archive'
          /\ Named(manifest') \subseteq DOMAIN archive'
      BY <1>ok, <1>task, <1>18, EmptyManifestType DEF Superseded, Idle, Used, TypeOK
    <3>2. Uses(m)'
      BY <1>ok, <1>task, <1>18, EmptyManifestType DEF Superseded, Idle, Used, Uses, Task
    <3> QED BY <1>ok, <3>1, <3>2, UsedFrame
  <2> QED BY <1>ok, <1>18, <2>1, <2>2 DEF TypeInv, Superseded, TypeOK
<1>19. ASSUME NEW m \in Maintainer, Cleanup(m) PROVE TypeInv'
  <2> DEFINE past == {r.key : r \in {q \in manifest.retired : PastGrace(q)}}
  <2>1. past \subseteq Retired(manifest) /\ past \subseteq Key
    BY <1>ok DEF Retired, TypeOK, Manifest
  <2>2. task' = [task EXCEPT
          ![m] = [Idle EXCEPT !.pc = IF past = {} THEN "know" ELSE "publish",
                              !.since = clock, !.doomed = past]]
    BY <1>19 DEF Cleanup
  <2> HIDE DEF past
  <2>3. task' \in [Process -> Task]
    BY <1>task, <1>pc, <1>clock, <2>1, <2>2, IdleType DEF Task
  <2>4. Used'
    <3>1. /\ \A q \in Process \ {m} : task'[q] = task[q]
          /\ \A v \in Writer \ {m} : kept'[v] = kept[v]
          /\ DOMAIN archive \subseteq DOMAIN archive'
          /\ Named(manifest') \subseteq DOMAIN archive'
      BY <1>ok, <1>task, <1>19, <2>1, <2>2, EmptyManifestType DEF Cleanup, Idle, Named, Used, TypeOK
    <3>2. /\ task'[m].pc \in {"know", "publish"} /\ task'[m].base = EmptyManifest
          /\ task'[m].key = 0 /\ task'[m].run = {} /\ task'[m].doomed = past
      BY <1>task, <2>2 DEF Idle
    <3>3. m \notin Writer
      BY ProcessesAssumption
    <3>4. Uses(m)'
      BY <1>ok, <1>19, <2>1, <3>2, <3>3, EmptyManifestType DEF Cleanup, Used, Uses, Named
    <3> QED BY <1>ok, <3>1, <3>4, UsedFrame
  <2> QED BY <1>ok, <1>19, <2>3, <2>4 DEF TypeInv, Cleanup, TypeOK
<1>20. ASSUME NEW m \in Maintainer, PublishForgotten(m) PROVE TypeInv'
  <2> DEFINE b == task[m].base
  <2>1. b = manifest /\ b \in Manifest /\ manifest' = WithoutRetired(b, task[m].doomed)
    BY <1>ok, <1>20 DEF PublishForgotten, Replace, Unchanged, TypeOK, Task
  <2>2. manifest' \in Manifest /\ Named(manifest') \subseteq Named(manifest)
    BY <2>1, ForgottenManifest DEF Named, Retired
  <2>3. task' \in [Process -> Task]
    <3>1. task' = [task EXCEPT ![m].pc = "delete", ![m].base = EmptyManifest]
      BY <1>20 DEF PublishForgotten
    <3>2. task[m] \in Task /\ "delete" \in PCs /\ EmptyManifest \in Manifest
      BY <1>task, <1>pc, <1>clock, EmptyManifestType
    <3>3. [task[m] EXCEPT !.pc = "delete", !.base = EmptyManifest] \in Task
      BY <3>2 DEF Task
    <3> QED BY <1>task, <3>1, <3>3
  <2>4. Used'
    <3>1. /\ \A q \in Process \ {m} : task'[q] = task[q]
          /\ \A v \in Writer \ {m} : kept'[v] = kept[v]
          /\ DOMAIN archive \subseteq DOMAIN archive'
          /\ Named(manifest') \subseteq DOMAIN archive'
      BY <1>ok, <1>task, <1>20, <2>2, EmptyManifestType DEF PublishForgotten, Replace, Used, TypeOK
    <3>2. Uses(m)'
      BY <1>ok, <1>task, <1>20, <2>2, EmptyManifestType DEF PublishForgotten, Replace, Used, Uses, Task
    <3> QED BY <1>ok, <3>1, <3>2, UsedFrame
  <2> QED BY <1>ok, <1>20, <2>2, <2>3, <2>4 DEF TypeInv, PublishForgotten, Replace, TypeOK
<1>21. ASSUME NEW m \in Maintainer, Delete(m) PROVE TypeInv'
  <2>1. task' \in [Process -> Task]
    BY <1>task, <1>pc, <1>clock, <1>21 DEF Delete, Task
  <2>2. Used'
    <3>1. /\ \A q \in Process \ {m} : task'[q] = task[q]
          /\ \A v \in Writer \ {m} : kept'[v] = kept[v]
          /\ DOMAIN archive \subseteq DOMAIN archive'
          /\ Named(manifest') \subseteq DOMAIN archive'
      BY <1>ok, <1>task, <1>21 DEF Delete, Used, TypeOK
    <3>2. Uses(m)'
      BY <1>ok, <1>task, <1>21 DEF Delete, Used, Uses, Task
    <3> QED BY <1>ok, <3>1, <3>2, UsedFrame
  <2> QED BY <1>ok, <1>21, <2>1, <2>2 DEF TypeInv, Delete, TypeOK
<1>22. ASSUME NEW m \in Maintainer, Know(m) PROVE TypeInv'
  <2>1. task' \in [Process -> Task]
    <3>1. task' = [task EXCEPT ![m].pc = "list", ![m].base = manifest]
      BY <1>22 DEF Know
    <3>2. task[m] \in Task /\ "list" \in PCs /\ manifest \in Manifest
      BY <1>task, <1>pc, <1>clock, EmptyManifestType
    <3>3. [task[m] EXCEPT !.pc = "list", !.base = manifest] \in Task
      BY <3>2 DEF Task
    <3> QED BY <1>task, <3>1, <3>3
  <2>2. Used'
    <3>1. /\ \A q \in Process \ {m} : task'[q] = task[q]
          /\ \A v \in Writer \ {m} : kept'[v] = kept[v]
          /\ DOMAIN archive \subseteq DOMAIN archive'
          /\ Named(manifest') \subseteq DOMAIN archive'
      BY <1>ok, <1>task, <1>22 DEF Know, Used, TypeOK
    <3>2. Uses(m)'
      BY <1>ok, <1>task, <1>22 DEF Know, Used, Uses, Task
    <3> QED BY <1>ok, <3>1, <3>2, UsedFrame
  <2> QED BY <1>ok, <1>22, <2>1, <2>2 DEF TypeInv, Know, TypeOK
<1>23. ASSUME NEW m \in Maintainer, List(m) PROVE TypeInv'
  <2> DEFINE old == {k \in stored : IsOrphan(m, k)}
  <2>1. old \subseteq stored /\ old \subseteq DOMAIN archive /\ old \subseteq Key
    BY <1>ok, <1>key DEF TypeOK
  <2>2. task' = [task EXCEPT ![m].pc = "sweep", ![m].base = EmptyManifest, ![m].doomed = old]
    BY <1>23 DEF List
  <2> HIDE DEF old
  <2>3. task' \in [Process -> Task]
    <3>1. /\ task[m] \in Task /\ "sweep" \in PCs
          /\ EmptyManifest \in Manifest /\ old \in SUBSET Key
      BY <1>task, <1>pc, <2>1, EmptyManifestType
    <3>2. [task[m] EXCEPT !.pc = "sweep", !.base = EmptyManifest, !.doomed = old] \in Task
      BY <3>1 DEF Task
    <3> QED BY <1>task, <2>2, <3>2
  <2>4. Used'
    <3>1. /\ \A q \in Process \ {m} : task'[q] = task[q]
          /\ \A v \in Writer \ {m} : kept'[v] = kept[v]
          /\ DOMAIN archive \subseteq DOMAIN archive'
          /\ Named(manifest') \subseteq DOMAIN archive'
      BY <1>ok, <1>task, <1>23, <2>1, <2>2, EmptyManifestType DEF List, Used, TypeOK
    <3>2. Uses(m)'
      BY <1>ok, <1>task, <1>23, <2>1, <2>2, EmptyManifestType DEF List, Used, Uses, Task
    <3> QED BY <1>ok, <3>1, <3>2, UsedFrame
  <2> QED BY <1>ok, <1>23, <2>3, <2>4 DEF TypeInv, List, TypeOK
<1>24. ASSUME NEW m \in Maintainer, EndCleanup(m) PROVE TypeInv'
  <2>1. task' \in [Process -> Task]
    BY <1>task, <1>pc, <1>clock, <1>24, EmptyManifestType DEF EndCleanup, Idle, Task
  <2>2. Used'
    <3>1. /\ \A q \in Process \ {m} : task'[q] = task[q]
          /\ \A v \in Writer \ {m} : kept'[v] = kept[v]
          /\ DOMAIN archive \subseteq DOMAIN archive'
          /\ Named(manifest') \subseteq DOMAIN archive'
      BY <1>ok, <1>task, <1>24, EmptyManifestType DEF EndCleanup, Idle, Used, TypeOK
    <3>2. Uses(m)'
      BY <1>ok, <1>task, <1>24, EmptyManifestType DEF EndCleanup, Idle, Used, Uses, Task
    <3> QED BY <1>ok, <3>1, <3>2, UsedFrame
  <2> QED BY <1>ok, <1>24, <2>1, <2>2 DEF TypeInv, EndCleanup, Idle, TypeOK
<1>25. ASSUME NEW m \in Maintainer, Abort(m) PROVE TypeInv'
  <2>1. task' \in [Process -> Task]
    BY <1>task, <1>pc, <1>clock, <1>25, EmptyManifestType DEF Abort, Idle, Task
  <2>2. Used'
    <3>1. /\ \A q \in Process \ {m} : task'[q] = task[q]
          /\ \A v \in Writer \ {m} : kept'[v] = kept[v]
          /\ DOMAIN archive \subseteq DOMAIN archive'
          /\ Named(manifest') \subseteq DOMAIN archive'
      BY <1>ok, <1>task, <1>25, EmptyManifestType DEF Abort, Idle, Used, TypeOK
    <3>2. Uses(m)'
      BY <1>ok, <1>task, <1>25, EmptyManifestType DEF Abort, Idle, Used, Uses, Task
    <3> QED BY <1>ok, <3>1, <3>2, UsedFrame
  <2> QED BY <1>ok, <1>25, <2>1, <2>2 DEF TypeInv, Abort, Idle, TypeOK
<1>27. ASSUME NEW m \in Maintainer, Refused(m) PROVE TypeInv'
  <2>1. task' \in [Process -> Task]
    BY <1>task, <1>pc, <1>clock, <1>27, IdleType DEF Refused, Task
  <2>2. Used'
    <3>1. /\ \A q \in Process \ {m} : task'[q] = task[q]
          /\ \A v \in Writer \ {m} : kept'[v] = kept[v]
          /\ DOMAIN archive \subseteq DOMAIN archive'
          /\ Named(manifest') \subseteq DOMAIN archive'
      BY <1>ok, <1>task, <1>27 DEF Refused, Used, TypeOK
    <3>2. Uses(m)'
      BY <1>ok, <1>task, <1>27, EmptyManifestType DEF Refused, Idle, Used, Uses, Task
    <3> QED BY <1>ok, <3>1, <3>2, UsedFrame
  <2> QED BY <1>ok, <1>27, <2>1, <2>2 DEF TypeInv, Refused, TypeOK
<1>28. ASSUME NEW m \in Maintainer, KeepOrphan(m) PROVE TypeInv'
  <2>1. PICK k \in task[m].doomed : task' = [task EXCEPT ![m].doomed = @ \ {k}]
    BY <1>28 DEF KeepOrphan
  <2>2. task' \in [Process -> Task]
    BY <1>task, <2>1 DEF Task
  <2>3. Used'
    <3>1. /\ \A q \in Process \ {m} : task'[q] = task[q]
          /\ \A v \in Writer \ {m} : kept'[v] = kept[v]
          /\ DOMAIN archive \subseteq DOMAIN archive'
          /\ Named(manifest') \subseteq DOMAIN archive'
      BY <1>ok, <1>task, <1>28, <2>1 DEF KeepOrphan, Used, TypeOK
    <3>2. Uses(m)'
      BY <1>ok, <1>task, <1>28, <2>1 DEF KeepOrphan, Used, Uses, Task
    <3> QED BY <1>ok, <3>1, <3>2, UsedFrame
  <2> QED BY <1>ok, <1>28, <2>2, <2>3 DEF TypeInv, KeepOrphan, TypeOK
<1>26. ASSUME UNCHANGED vars PROVE TypeInv'
  BY <1>ok, <1>26 DEF TypeInv, vars, TypeOK, Used, Uses
<1> QED
  BY <1>1, <1>2, <1>3, <1>4, <1>5, <1>6, <1>7, <1>8, <1>9, <1>10, <1>11, <1>12, <1>13,
     <1>14, <1>15, <1>16, <1>17, <1>18, <1>19, <1>20, <1>21, <1>22, <1>23, <1>24,
     <1>25, <1>26, <1>27, <1>28
  DEF Next, WriterStep, MaintainerStep, Publishing

(* Type correctness: every variable holds what its declaration says, and    *)
(* the keys in use are those of uploaded archives, in every run of ZoneStore.*)
THEOREM TypeCorrect == Spec => []TypeOK
<1>1. TypeInv => TypeOK
  BY DEF TypeInv
<1> QED BY <1>1, TypeInvInit, TypeInvStep, PTL DEF Spec

-----------------------------------------------------------------------------
(* The bucket holds what the manifest names.                                *)

\* An archive that is uploaded and not yet published: the bucket holds it, no
\* manifest names it, no one is to delete it and no one else publishes it.
FreshIsSafe(p) ==
  LET k == task[p].key IN
  k # 0 =>
    /\ At(p, "publish") \/ At(p, "replace")
    /\ k \in stored /\ k \notin Named(manifest)
    /\ clock <= archive[k].modified + PublishTime
    /\ \A q \in Process : k \notin task[q].doomed /\ (q # p => task[q].key # k)

\* What is to be deleted is not live, and at the time of the deletion the
\* manifest does not name it at all.
DoomedIsGone(p) ==
  /\ task[p].doomed \cap Archives(manifest) = {}
  /\ At(p, "delete") \/ At(p, "sweep") => task[p].doomed \cap Named(manifest) = {}
  /\ task[p].doomed # {} =>
       task[p].key = 0 /\ task[p].pc \in {"publish", "replace", "delete", "sweep"}

\* What a cleanup does not know and is old is not named since.
KnownIsKnown(p) ==
  /\ task[p].since <= clock
  /\ At(p, "list") =>
       \A k \in DOMAIN archive \ Named(task[p].base) :
         task[p].since - archive[k].modified >= OrphanGrace => k \notin Named(manifest)

StoreInv ==
  /\ Named(manifest) \subseteq stored
  /\ Archives(manifest) \cap Retired(manifest) = {}
  /\ \A p \in Process : FreshIsSafe(p) /\ DoomedIsGone(p) /\ KnownIsKnown(p)

LEMMA StoreInvInit == Init => StoreInv
BY EmptyManifestType
DEF Init, StoreInv, FreshIsSafe, DoomedIsGone, KnownIsKnown, Idle, Named

(* A step of p keeps what StoreInv says of the other processes, if all it    *)
(* publishes is its own archive, all it deletes is its own archive or what  *)
(* it was about to delete, and it does not mean to delete a fresh archive.   *)
LEMMA OthersSafe ==
  ASSUME PublishTime < OrphanGrace, TypeInv, StoreInv, NEW p \in Process,
         \A q \in Process \ {p} : task'[q] = task[q],
         clock' = clock,
         DOMAIN archive \subseteq DOMAIN archive', 0 \notin DOMAIN archive',
         \A j \in DOMAIN archive : archive'[j] = archive[j],
         Archives(manifest') \subseteq Archives(manifest) \cup {task[p].key},
         Named(manifest') \subseteq Named(manifest) \cup {task[p].key},
         stored \subseteq stored' \cup task[p].doomed \cup {task[p].key},
         task'[p].key \in {0, task[p].key} \/ task'[p].key \notin DOMAIN archive,
         \A j \in task'[p].doomed :
           j \in task[p].doomed \/ j \in Named(manifest)
             \/ (j \in DOMAIN archive /\ clock - archive[j].modified > PublishTime)
  PROVE  \A q \in Process \ {p} :
           FreshIsSafe(q)' /\ DoomedIsGone(q)' /\ KnownIsKnown(q)'
<1> SUFFICES ASSUME NEW q \in Process \ {p}
             PROVE  FreshIsSafe(q)' /\ DoomedIsGone(q)' /\ KnownIsKnown(q)'
  OBVIOUS
<1> DEFINE k == task[p].key
           j == task[q].key
<1>1. /\ clock \in Nat /\ PublishTime \in Nat /\ OrphanGrace \in Nat
      /\ \A i \in DOMAIN archive : archive[i].modified \in Nat /\ i # 0
      /\ task[q].since \in Nat /\ task[q].since <= clock
      /\ Named(manifest) \subseteq DOMAIN archive
      /\ k \in DOMAIN archive \cup {0} /\ j \in DOMAIN archive \cup {0}
      /\ task[q].doomed \subseteq DOMAIN archive
  <2>1. TypeOK /\ Used /\ KnownIsKnown(q)
    BY DEF TypeInv, StoreInv
  <2>2. \A i \in DOMAIN archive : archive[i].modified \in Nat /\ i # 0
    BY <2>1, ArchiveElement DEF TypeOK, Archive
  <2> QED BY <2>1, <2>2, TimesAssumption DEF TypeOK, Used, Uses, Task, KnownIsKnown
<1>2. /\ FreshIsSafe(p) /\ FreshIsSafe(q) /\ DoomedIsGone(q) /\ KnownIsKnown(q)
      /\ task'[q] = task[q]
  BY DEF StoreInv
<1>3. k # 0 => /\ clock <= archive[k].modified + PublishTime
               /\ k \notin task[q].doomed /\ k # j
  BY <1>2 DEF FreshIsSafe
<1>4. j # 0 => /\ At(q, "publish") \/ At(q, "replace")
               /\ j \in stored /\ j \notin Named(manifest)
               /\ clock <= archive[j].modified + PublishTime
               /\ \A r \in Process : j \notin task[r].doomed /\ (r # q => task[r].key # j)
  BY <1>2 DEF FreshIsSafe
<1>5. FreshIsSafe(q)'
  <2> SUFFICES ASSUME j # 0
               PROVE  /\ At(q, "publish") \/ At(q, "replace")
                      /\ j \in stored' /\ j \notin Named(manifest')
                      /\ clock <= archive'[j].modified + PublishTime
                      /\ \A r \in Process : j \notin task'[r].doomed
                                            /\ (r # q => task'[r].key # j)
    BY <1>2 DEF FreshIsSafe
  <2>1. j \in DOMAIN archive /\ archive'[j] = archive[j] /\ j # k
    BY <1>1, <1>4
  <2>2. j \in stored' /\ j \notin Named(manifest')
    BY <1>4, <2>1
  <2>3. j \notin task'[p].doomed
    BY <1>1, <1>4, <2>1
  <2>4. task'[p].key # j
    BY <2>1
  <2>5. \A r \in Process : j \notin task'[r].doomed /\ (r # q => task'[r].key # j)
    BY <1>4, <2>3, <2>4
  <2> QED BY <1>4, <2>1, <2>2, <2>5
<1>6. DoomedIsGone(q)'
  <2>1. k \notin task[q].doomed
    BY <1>1, <1>3
  <2> QED BY <1>2, <2>1 DEF DoomedIsGone
<1>7. KnownIsKnown(q)'
  <2> SUFFICES ASSUME At(q, "list"), NEW i \in DOMAIN archive' \ Named(task[q].base),
                      task[q].since - archive'[i].modified >= OrphanGrace,
                      i \in Named(manifest')
               PROVE  FALSE
    BY <1>1, <1>2 DEF KnownIsKnown
  <2>1. CASE i = k
    BY <1>1, <1>3, <2>1
  <2>2. CASE i # k
    <3>1. i \in Named(manifest) /\ i \in DOMAIN archive
      BY <1>1, <2>2
    <3> QED BY <1>2, <3>1 DEF KnownIsKnown
  <2> QED BY <2>1, <2>2
<1> QED BY <1>5, <1>6, <1>7

(* A step that touches nothing but p's task, and that means to delete       *)
(* nothing it did not mean to delete before.                                *)
LEMMA QuietStep ==
  ASSUME PublishTime < OrphanGrace, TypeInv, StoreInv, NEW p \in Process,
         \A q \in Process \ {p} : task'[q] = task[q],
         UNCHANGED <<clock, archive, stored, manifest>>,
         task'[p].key \in {0, task[p].key},
         task'[p].key # 0 => task'[p].pc \in {"publish", "replace"},
         task'[p].since <= clock, task'[p].pc # "list",
         task'[p].doomed \subseteq task[p].doomed,
         task'[p].pc \in {"delete", "sweep"} =>
           task[p].pc \in {"delete", "sweep"} \/ task'[p].doomed = {},
         task'[p].pc \notin {"publish", "replace", "delete", "sweep"} =>
           task'[p].doomed = {}
  PROVE  StoreInv'
<1>0. 0 \notin DOMAIN archive
  BY ArchiveElement DEF TypeInv, TypeOK
<1>1. \A q \in Process \ {p} : FreshIsSafe(q)' /\ DoomedIsGone(q)' /\ KnownIsKnown(q)'
  BY <1>0, OthersSafe
<1>2. FreshIsSafe(p) /\ DoomedIsGone(p) /\ KnownIsKnown(p)
  BY DEF StoreInv
<1>3. FreshIsSafe(p)'
  BY <1>2 DEF FreshIsSafe
<1>4. DoomedIsGone(p)'
  BY <1>2 DEF DoomedIsGone
<1>5. KnownIsKnown(p)'
  BY <1>2 DEF KnownIsKnown
<1> QED BY <1>1, <1>3, <1>4, <1>5 DEF StoreInv

(* A publication by p of its own archive, or of none, after which p has      *)
(* nothing to publish and nothing to delete that is named.                  *)
LEMMA PublishSafe ==
  ASSUME PublishTime < OrphanGrace, TypeInv, StoreInv, TypeInv', NEW p \in Process,
         \A q \in Process \ {p} : task'[q] = task[q],
         UNCHANGED <<clock, archive, stored>>,
         Archives(manifest') \subseteq Archives(manifest) \cup {task[p].key},
         Named(manifest') \subseteq Named(manifest) \cup {task[p].key},
         Archives(manifest') \cap Retired(manifest') = {},
         task'[p].key = 0, task'[p].since <= clock, task'[p].pc # "list",
         task'[p].doomed \subseteq task[p].doomed,
         task'[p].doomed \cap Named(manifest') = {},
         task'[p].doomed # {} => task'[p].pc = "delete"
  PROVE  StoreInv'
<1>1. 0 \notin DOMAIN archive /\ Named(manifest') \subseteq DOMAIN archive
  BY ArchiveElement DEF TypeInv, TypeOK, Used
<1>2. \A q \in Process \ {p} : FreshIsSafe(q)' /\ DoomedIsGone(q)' /\ KnownIsKnown(q)'
  BY <1>1, OthersSafe
<1>3. FreshIsSafe(p)' /\ KnownIsKnown(p)'
  BY DEF FreshIsSafe, KnownIsKnown
<1>4. DoomedIsGone(p)'
  BY DEF DoomedIsGone, Named
<1>5. Named(manifest') \subseteq stored'
  <2>1. FreshIsSafe(p) /\ Named(manifest) \subseteq stored
    BY DEF StoreInv
  <2>2. task[p].key # 0 => task[p].key \in stored
    BY <2>1 DEF FreshIsSafe
  <2> QED BY <1>1, <2>1, <2>2
<1> QED BY <1>2, <1>3, <1>4, <1>5 DEF StoreInv

(* An upload: no one knows the new archive's key.                           *)
LEMMA StoreSafe ==
  ASSUME PublishTime < OrphanGrace, TypeInv, StoreInv, NEW p \in Process,
         NEW tiles \in Contents, NEW epoch \in Nat, NEW oldest \in Nat,
         Store(p, tiles, epoch, oldest), task[p].key = 0, task[p].doomed = {},
         UNCHANGED <<clock, manifest>>
  PROVE  StoreInv'
<1> DEFINE k == Len(archive) + 1
<1>1. /\ k \notin DOMAIN archive /\ k # 0
      /\ DOMAIN archive' = DOMAIN archive \cup {k}
      /\ \A j \in DOMAIN archive : archive'[j] = archive[j]
      /\ archive'[k].modified = clock
      /\ stored' = stored \cup {k}
      /\ \A q \in Process \ {p} : task'[q] = task[q]
      /\ task'[p].pc = "publish" /\ task'[p].key = k
      /\ task'[p].doomed = task[p].doomed
      /\ task'[p].since = task[p].since
  <2>1. k \notin DOMAIN archive /\ k # 0
    BY LenProperties, StoreType DEF TypeInv, TypeOK, Key
  <2>2. /\ DOMAIN archive' = DOMAIN archive \cup {k}
        /\ \A j \in DOMAIN archive : archive'[j] = archive[j]
        /\ archive'[k] = [tiles |-> tiles, epoch |-> epoch, oldest |-> oldest,
                          modified |-> clock]
        /\ stored' = stored \cup {k}
    BY StoreType
  <2>3. /\ \A q \in Process \ {p} : task'[q] = task[q]
        /\ task'[p].pc = "publish" /\ task'[p].key = k
        /\ task'[p].doomed = task[p].doomed
        /\ task'[p].since = task[p].since
    BY StoreType
  <2> QED BY <2>1, <2>2, <2>3
<1> HIDE DEF k
<1>2. /\ 0 \notin DOMAIN archive /\ clock \in Nat /\ PublishTime \in Nat
      /\ Named(manifest) \subseteq DOMAIN archive
      /\ \A q \in Process : /\ task[q].doomed \subseteq DOMAIN archive
                            /\ task[q].key \in DOMAIN archive \cup {0}
  BY ArchiveElement, TimesAssumption DEF TypeInv, TypeOK, Used, Uses
<1>3. \A q \in Process \ {p} : FreshIsSafe(q)' /\ DoomedIsGone(q)' /\ KnownIsKnown(q)'
  BY <1>1, <1>2, OthersSafe
<1>4. FreshIsSafe(p)'
  <2>1. k \in stored' /\ k \notin Named(manifest') /\ clock' <= archive'[k].modified + PublishTime
    BY <1>1, <1>2
  <2>2. \A q \in Process : k \notin task'[q].doomed /\ (q # p => task'[q].key # k)
    BY <1>1, <1>2
  <2> QED BY <1>1, <2>1, <2>2 DEF FreshIsSafe
<1>5. DoomedIsGone(p)' /\ KnownIsKnown(p)'
  <2>1. DoomedIsGone(p) /\ KnownIsKnown(p)
    BY DEF StoreInv
  <2> QED BY <1>1, <2>1 DEF DoomedIsGone, KnownIsKnown
<1> QED BY <1>1, <1>3, <1>4, <1>5 DEF StoreInv

LEMMA RetiredGrows ==
  ASSUME NEW m, NEW n, NEW K, NEW now, n.retired = m.retired \cup Retire(K, now)
  PROVE  Retired(n) = Retired(m) \cup K
<1>1. \A r \in Retire(K, now) : r.key \in K
  BY DEF Retire
<1>2. \A k \in K : \E r \in Retire(K, now) : r.key = k
  <2> TAKE k \in K
  <2>1. [key |-> k, at |-> now] \in Retire(K, now)
    BY DEF Retire
  <2> QED BY <2>1
<1>3. Retired(n) = {r.key : r \in m.retired \cup Retire(K, now)}
  BY DEF Retired
<1> HIDE DEF Retire
<1> QED BY <1>1, <1>2, <1>3 DEF Retired

LEMMA StoreInvStep ==
  ASSUME PublishTime < OrphanGrace
  PROVE  TypeInv /\ StoreInv /\ [Next]_vars => StoreInv'
<1> SUFFICES ASSUME TypeInv, StoreInv, [Next]_vars PROVE StoreInv'
  OBVIOUS
<1>inv. PublishTime < OrphanGrace /\ TypeInv /\ StoreInv /\ TypeInv'
  BY TypeInvStep
<1>ok. TypeOK /\ Used
  BY DEF TypeInv
<1>task. task \in [Process -> Task]
  BY <1>ok DEF TypeOK
<1>clock. clock \in Nat /\ 0 <= clock /\ manifest \in Manifest
  BY <1>ok DEF TypeOK
<1>fresh. \A p \in Process :
            task[p].key # 0 => task[p].pc \in {"publish", "replace"}
  BY DEF StoreInv, FreshIsSafe
<1>doomed. \A p \in Process : task[p].doomed # {} =>
             task[p].key = 0 /\ task[p].pc \in {"publish", "replace", "delete", "sweep"}
  BY DEF StoreInv, DoomedIsGone
<1>known. \A p \in Process : task[p].since <= clock
  BY DEF StoreInv, KnownIsKnown
<1>1. ASSUME NEW p \in Process, ReadManifest(p) PROVE StoreInv'
  <2>1. /\ UNCHANGED <<clock, archive, stored, manifest>>
        /\ \A q \in Process \ {p} : task'[q] = task[q]
    BY <1>task, <1>1 DEF ReadManifest
  <2>2. /\ task'[p].key = task[p].key /\ task'[p].doomed = task[p].doomed
        /\ task'[p].since = task[p].since /\ task'[p].pc = "replace" /\ task[p].since <= clock
        /\ task'[p].since <= clock
    BY <1>task, <1>fresh, <1>doomed, <1>known, <1>1 DEF ReadManifest, Task, Idle
  <2> QED BY <1>inv, <2>1, <2>2, QuietStep
<1>2. ASSUME NEW p \in Process, Conflict(p) PROVE StoreInv'
  <2>1. /\ UNCHANGED <<clock, archive, stored, manifest>>
        /\ \A q \in Process \ {p} : task'[q] = task[q]
    BY <1>task, <1>2 DEF Conflict
  <2>2. /\ task'[p].key = task[p].key /\ task'[p].doomed = task[p].doomed
        /\ task'[p].since <= clock /\ task'[p].pc = "publish"
    BY <1>task, <1>fresh, <1>doomed, <1>known, <1>2 DEF Conflict, Task, Idle
  <2> QED BY <1>inv, <2>1, <2>2, QuietStep
<1>3. ASSUME NEW p \in Writer, Freeze(p) PROVE StoreInv'
  <2>1. /\ UNCHANGED <<clock, archive, stored, manifest>>
        /\ \A q \in Process \ {p} : task'[q] = task[q]
    BY <1>task, <1>3 DEF Freeze
  <2>2. /\ task'[p].key = 0 /\ task'[p].doomed = {} /\ task[p].doomed = {}
        /\ task'[p].since <= clock /\ task'[p].pc = "compare"
    BY <1>task, <1>fresh, <1>doomed, <1>known, <1>3 DEF Freeze, Task, Idle
  <2> QED BY <1>inv, <2>1, <2>2, QuietStep
<1>4. ASSUME NEW p \in Writer, NEW unread, Compare(p, unread) PROVE StoreInv'
  <2>1. /\ UNCHANGED <<clock, archive, stored, manifest>>
        /\ \A q \in Process \ {p} : task'[q] = task[q]
    BY <1>task, <1>4 DEF Compare
  <2>2. \/ task'[p] = Idle
        \/ /\ task'[p].key = 0 /\ task'[p].doomed = {}
           /\ task'[p].since <= clock /\ task'[p].pc = "upload"
    BY <1>task, <1>fresh, <1>doomed, <1>known, <1>4 DEF Compare, Task
  <2>3. /\ task'[p].key = 0 /\ task'[p].doomed = {}
        /\ task'[p].since <= clock /\ task'[p].pc \notin {"list", "delete", "sweep"}
    BY <1>clock, <2>2 DEF Idle
  <2> QED BY <1>inv, <2>1, <2>3, QuietStep
<1>5. ASSUME NEW p \in Writer, EndFlush(p) PROVE StoreInv'
  <2>1. /\ UNCHANGED <<clock, archive, stored, manifest>>
        /\ \A q \in Process \ {p} : task'[q] = task[q]
    BY <1>task, <1>5 DEF EndFlush
  <2>2. /\ task'[p].key = 0 /\ task'[p].doomed = {}
        /\ task'[p].since <= clock /\ task'[p].pc \in {"idle"}
    BY <1>task, <1>clock, <1>5 DEF EndFlush, Task, Idle
  <2> QED BY <1>inv, <2>1, <2>2, QuietStep
<1>6. ASSUME NEW p \in Writer, PutBack(p) PROVE StoreInv'
  <2>1. /\ UNCHANGED <<clock, archive, stored, manifest>>
        /\ \A q \in Process \ {p} : task'[q] = task[q]
    BY <1>task, <1>6 DEF PutBack
  <2>2. /\ task'[p].key = 0 /\ task'[p].doomed = {}
        /\ task'[p].since <= clock /\ task'[p].pc \in {"idle"}
    BY <1>task, <1>clock, <1>6 DEF PutBack, Task, Idle
  <2> QED BY <1>inv, <2>1, <2>2, QuietStep
<1>7. ASSUME NEW p \in Writer, Crash(p) PROVE StoreInv'
  <2>1. /\ UNCHANGED <<clock, archive, stored, manifest>>
        /\ \A q \in Process \ {p} : task'[q] = task[q]
    BY <1>task, <1>7 DEF Crash
  <2>2. /\ task'[p].key = 0 /\ task'[p].doomed = {}
        /\ task'[p].since <= clock /\ task'[p].pc \in {"idle"}
    BY <1>task, <1>clock, <1>7 DEF Crash, Task, Idle
  <2> QED BY <1>inv, <2>1, <2>2, QuietStep
<1>8. ASSUME NEW p \in Maintainer, Prune(p) PROVE StoreInv'
  <2>1. /\ UNCHANGED <<clock, archive, stored, manifest>>
        /\ \A q \in Process \ {p} : task'[q] = task[q]
    BY <1>task, <1>8 DEF Prune
  <2>2. /\ task'[p].key = 0 /\ task'[p].doomed = {} /\ task[p].doomed = {}
        /\ task'[p].since <= clock /\ task'[p].pc \in {"select", "publish"}
    BY <1>task, <1>fresh, <1>doomed, <1>known, <1>8 DEF Prune, Task, Idle
  <2> QED BY <1>inv, <2>1, <2>2, QuietStep
<1>9. ASSUME NEW p \in Maintainer, Select(p) PROVE StoreInv'
  <2>1. /\ UNCHANGED <<clock, archive, stored, manifest>>
        /\ \A q \in Process \ {p} : task'[q] = task[q]
    BY <1>task, <1>9 DEF Select
  <2>2. /\ task'[p].key = 0 /\ task'[p].doomed = {}
        /\ task'[p].since <= clock /\ task'[p].pc \in {"merge"}
    BY <1>task, <1>clock, <1>9 DEF Select, Task, Idle
  <2> QED BY <1>inv, <2>1, <2>2, QuietStep
<1>10. ASSUME NEW p \in Maintainer, Nothing(p) PROVE StoreInv'
  <2>1. /\ UNCHANGED <<clock, archive, stored, manifest>>
        /\ \A q \in Process \ {p} : task'[q] = task[q]
    BY <1>task, <1>10 DEF Nothing
  <2>2. /\ task'[p].key = 0 /\ task'[p].doomed = {} /\ task[p].doomed = {}
        /\ task'[p].since <= clock /\ task'[p].pc = "cleanup"
    BY <1>task, <1>fresh, <1>doomed, <1>known, <1>10 DEF Nothing, Task, Idle
  <2> QED BY <1>inv, <2>1, <2>2, QuietStep
<1>11. ASSUME NEW p \in Maintainer, EndCleanup(p) PROVE StoreInv'
  <2>1. /\ UNCHANGED <<clock, archive, stored, manifest>>
        /\ \A q \in Process \ {p} : task'[q] = task[q]
    BY <1>task, <1>11 DEF EndCleanup
  <2>2. /\ task'[p].key = 0 /\ task'[p].doomed = {}
        /\ task'[p].since <= clock /\ task'[p].pc \in {"idle", "select"}
    BY <1>task, <1>clock, <1>11 DEF EndCleanup, Task, Idle
  <2> QED BY <1>inv, <2>1, <2>2, QuietStep
<1>12. ASSUME NEW p \in Maintainer, Abort(p) PROVE StoreInv'
  <2>1. /\ UNCHANGED <<clock, archive, stored, manifest>>
        /\ \A q \in Process \ {p} : task'[q] = task[q]
    BY <1>task, <1>12 DEF Abort
  <2>2. /\ task'[p].key = 0 /\ task'[p].doomed = {}
        /\ task'[p].since <= clock /\ task'[p].pc \in {"idle"}
    BY <1>task, <1>clock, <1>12 DEF Abort, Task, Idle
  <2> QED BY <1>inv, <2>1, <2>2, QuietStep
<1>28. ASSUME NEW p \in Maintainer, Refused(p) PROVE StoreInv'
  <2>1. /\ UNCHANGED <<clock, archive, stored, manifest>>
        /\ \A q \in Process \ {p} : task'[q] = task[q]
    BY <1>task, <1>28 DEF Refused
  <2>2. /\ task'[p].key = 0 /\ task'[p].doomed = {}
        /\ task'[p].since <= clock /\ task'[p].pc = "know"
    BY <1>task, <1>clock, <1>28 DEF Refused, Idle
  <2> QED BY <1>inv, <2>1, <2>2, QuietStep
<1>29. ASSUME NEW p \in Maintainer, KeepOrphan(p) PROVE StoreInv'
  <2>1. PICK k \in task[p].doomed : task' = [task EXCEPT ![p].doomed = @ \ {k}]
    BY <1>29 DEF KeepOrphan
  <2>2. /\ UNCHANGED <<clock, archive, stored, manifest>>
        /\ \A q \in Process \ {p} : task'[q] = task[q]
        /\ task'[p].key = 0 /\ task'[p].doomed = task[p].doomed \ {k}
        /\ task'[p].since <= clock /\ task'[p].pc = "sweep" /\ task[p].pc = "sweep"
    BY <1>task, <1>fresh, <1>known, <1>29, <2>1 DEF KeepOrphan, Task
  <2> QED BY <1>inv, <2>2, QuietStep
<1>13. ASSUME Tick PROVE StoreInv'
  <2>1. /\ clock' = clock + 1 /\ \A p \in Process : Timely(p)
        /\ UNCHANGED <<archive, stored, manifest, task>>
    BY <1>13 DEF Tick
  <2>2. ASSUME NEW p \in Process
        PROVE  FreshIsSafe(p)' /\ DoomedIsGone(p)' /\ KnownIsKnown(p)'
    <3>1. Timely(p) /\ FreshIsSafe(p) /\ DoomedIsGone(p) /\ KnownIsKnown(p)
      BY <2>1 DEF StoreInv
    <3>2. /\ task[p].key \in DOMAIN archive \cup {0} /\ task[p].since \in Nat
          /\ \A k \in DOMAIN archive : archive[k].modified \in Nat
      BY <1>ok, ArchiveElement DEF TypeOK, Task, Used, Uses, Archive
    <3>3. FreshIsSafe(p)'
      BY <1>clock, <2>1, <3>1, <3>2, TimesAssumption DEF FreshIsSafe, Timely
    <3>4. DoomedIsGone(p)' /\ KnownIsKnown(p)'
      BY <1>clock, <2>1, <3>1, <3>2 DEF DoomedIsGone, KnownIsKnown
    <3> QED BY <3>3, <3>4
  <2> QED BY <2>1, <2>2 DEF StoreInv
<1>14. ASSUME UNCHANGED <<clock, archive, stored, manifest, task>> PROVE StoreInv'
  BY <1>14 DEF StoreInv, FreshIsSafe, DoomedIsGone, KnownIsKnown
<1>15. ASSUME NEW p \in Writer, Upload(p) PROVE StoreInv'
  <2>1. /\ TilesOf(kept[p]) # {} /\ kept[p] \in Contents /\ task[p].since \in Nat
        /\ task[p].key = 0 /\ task[p].doomed = {}
    BY <1>ok, <1>fresh, <1>doomed, <1>15 DEF Upload, Used, Uses, TypeOK, Task
  <2>2. Oldest(kept[p]) \in Nat /\ Epoch(task[p].since) \in Nat
    BY <2>1, OldestIsLeast, EpochType
  <2> QED BY <1>inv, <1>15, <2>1, <2>2, StoreSafe DEF Upload
<1>16. ASSUME NEW p \in Maintainer, Merge(p) PROVE StoreInv'
  <2> DEFINE K == task[p].run
             b == task[p].base
             e == archive[CHOOSE i \in K : TRUE].epoch
  <2>1. /\ K # {} /\ K \subseteq DOMAIN archive /\ K \in SUBSET Key /\ b \in Manifest
        /\ task[p].key = 0 /\ task[p].doomed = {} /\ archive \in Seq(Archive)
    BY <1>ok, <1>fresh, <1>doomed, <1>16 DEF Merge, TypeOK, Task, Used, Uses
  <2>2. Merged(b, K) \in Contents /\ OldestOf(K) \in Nat
    BY <2>1, MergedType, OldestOfIsLeast
  <2>3. e \in Nat
    BY <2>1, ArchiveElement DEF Archive
  <2>4. Store(p, Merged(b, K), e, OldestOf(K)) /\ UNCHANGED <<clock, manifest>>
    BY <1>16 DEF Merge
  <2> HIDE DEF K, b, e
  <2> QED BY <1>inv, <2>1, <2>2, <2>3, <2>4, StoreSafe
<1>17. ASSUME NEW p \in Writer, PublishDelta(p) PROVE StoreInv'
  <2> DEFINE k == task[p].key
  <2>1. /\ manifest' = WithDelta(manifest, k)
        /\ UNCHANGED <<clock, archive, stored>>
        /\ \A q \in Process \ {p} : task'[q] = task[q]
        /\ task'[p].key = 0 /\ task'[p].doomed = {} /\ task'[p].since = 0
        /\ task'[p].pc = "announce"
    BY <1>task, <1>17 DEF PublishDelta, Replace, Unchanged, Idle, Task
  <2>2. k \in Key /\ k \notin Named(manifest)
    <3>1. k # 0 /\ k \in Key \cup {0} /\ FreshIsSafe(p)
      BY <1>ok, <1>task, <1>17 DEF PublishDelta, Used, Uses, StoreInv, Task
    <3> QED BY <3>1 DEF FreshIsSafe
  <2> HIDE DEF k
  <2>3. Archives(manifest') = Archives(manifest) \cup {k} /\ manifest'.retired = manifest.retired
    <3>1. \A m : manifest = m => m \in Manifest
      BY <1>clock
    <3> QED BY <1>clock, <2>1, <2>2, DeltaManifest
  <2>4. /\ Retired(manifest') = Retired(manifest)
        /\ Named(manifest') = Named(manifest) \cup {k}
        /\ Archives(manifest') \cap Retired(manifest') = {}
    BY <2>2, <2>3 DEF Retired, Named, StoreInv
  <2> QED BY <1>inv, <1>clock, <2>1, <2>3, <2>4, PublishSafe DEF k
<1>18. ASSUME NEW p \in Maintainer, PublishPruned(p) PROVE StoreInv'
  <2> DEFINE now == task[p].since
             K == Archives(manifest) \ Live(manifest, now)
  <2>1. /\ manifest' = WithoutExpired(manifest, now)
        /\ UNCHANGED <<clock, archive, stored>>
        /\ \A q \in Process \ {p} : task'[q] = task[q]
        /\ task'[p].key = 0 /\ task'[p].doomed = {} /\ task'[p].since = 0
        /\ task'[p].pc = "select" /\ now \in Nat
    BY <1>task, <1>18 DEF PublishPruned, Replace, Unchanged, Idle, Task
  <2>2. /\ Archives(manifest') = Live(manifest, now)
        /\ manifest'.retired = manifest.retired \cup Retire(K, now)
    BY <1>clock, <2>1, PrunedManifest
  <2>3. /\ Live(manifest, now) \subseteq Archives(manifest)
        /\ Retired(manifest') = Retired(manifest) \cup K
    <3> HIDE DEF K
    <3>1. Retired(manifest') = Retired(manifest) \cup K
      BY <2>2, RetiredGrows
    <3> QED BY <3>1 DEF Live
  <2> HIDE DEF now
  <2>4. /\ Archives(manifest') \subseteq Archives(manifest)
        /\ Named(manifest') \subseteq Named(manifest)
        /\ Archives(manifest') \cap Retired(manifest') = {}
    BY <2>2, <2>3 DEF Named, StoreInv
  <2> QED BY <1>inv, <1>clock, <2>1, <2>4, PublishSafe
<1>19. ASSUME NEW p \in Maintainer, PublishMerged(p) PROVE StoreInv'
  <2> DEFINE k == task[p].key
             K == task[p].run
             now == task[p].since
  <2>1. /\ manifest' = WithMerged(manifest, K, k, now)
        /\ UNCHANGED <<clock, archive, stored>>
        /\ \A q \in Process \ {p} : task'[q] = task[q]
        /\ task'[p].key = 0 /\ task'[p].doomed = {} /\ task'[p].since = 0
        /\ task'[p].pc = "cleanup" /\ now \in Nat /\ K # {}
    BY <1>task, <1>19 DEF PublishMerged, Replace, Unchanged, Idle, Task
  <2>2. k \in Key /\ k \notin Named(manifest) /\ K \in SUBSET Archives(manifest)
    <3>1. k # 0 /\ k \in Key \cup {0} /\ FreshIsSafe(p) /\ K \subseteq Archives(manifest)
      BY <1>ok, <1>task, <1>19
      DEF PublishMerged, Replace, Unchanged, Used, Uses, StoreInv, Task
    <3> QED BY <3>1 DEF FreshIsSafe
  <2> HIDE DEF k, K, now
  <2>3. /\ Archives(manifest') = (Archives(manifest) \ K) \cup {k}
        /\ manifest'.retired = manifest.retired \cup Retire(K, now)
    <3>1. Archives(WithMerged(manifest, K, k, now)) = (Archives(manifest) \ K) \cup {k}
      <4>1. K \subseteq Key /\ RunPlace(manifest, K) # 0
        BY <2>1, <2>2 DEF RunPlace, Archives
      <4> QED BY <2>2, <4>1 DEF Archives, WithMerged, Successor
    <3>2. WithMerged(manifest, K, k, now).retired = manifest.retired \cup Retire(K, now)
      BY DEF WithMerged, Successor
    <3> QED BY <2>1, <3>1, <3>2
  <2>4. Retired(manifest') = Retired(manifest) \cup K
    BY <2>3, RetiredGrows
  <2>5. /\ Archives(manifest') \subseteq Archives(manifest) \cup {k}
        /\ Named(manifest') \subseteq Named(manifest) \cup {k}
        /\ Archives(manifest') \cap Retired(manifest') = {}
    BY <2>2, <2>3, <2>4 DEF Named, StoreInv
  <2> QED BY <1>inv, <1>clock, <2>1, <2>5, PublishSafe DEF k
<1>20. ASSUME NEW p \in Maintainer, Superseded(p) PROVE StoreInv'
  <2> DEFINE k == task[p].key
  <2>1. /\ stored' = stored \ {k} /\ UNCHANGED <<clock, archive, manifest>>
        /\ \A q \in Process \ {p} : task'[q] = task[q]
        /\ task'[p].key = 0 /\ task'[p].doomed = {} /\ task'[p].since = 0
        /\ task'[p].pc = "cleanup"
    BY <1>task, <1>20 DEF Superseded, Idle, Task
  <2>2. k \notin Named(manifest)
    <3>1. task[p].run # {} /\ k # 0 /\ FreshIsSafe(p)
      BY <1>ok, <1>20 DEF Superseded, Whole, Used, Uses, StoreInv
    <3> QED BY <3>1 DEF FreshIsSafe
  <2>3. 0 \notin DOMAIN archive
    BY <1>ok, ArchiveElement DEF TypeOK
  <2>4. \A q \in Process \ {p} : FreshIsSafe(q)' /\ DoomedIsGone(q)' /\ KnownIsKnown(q)'
    BY <1>inv, <2>1, <2>3, OthersSafe
  <2>5. FreshIsSafe(p)' /\ DoomedIsGone(p)' /\ KnownIsKnown(p)'
    BY <1>clock, <2>1 DEF FreshIsSafe, DoomedIsGone, KnownIsKnown
  <2> QED BY <2>1, <2>2, <2>4, <2>5 DEF StoreInv
<1>21. ASSUME NEW p \in Maintainer, Cleanup(p) PROVE StoreInv'
  <2> DEFINE past == {r.key : r \in {q \in manifest.retired : PastGrace(q)}}
  <2>1. /\ UNCHANGED <<clock, archive, stored, manifest>>
        /\ \A q \in Process \ {p} : task'[q] = task[q]
        /\ task'[p].key = 0 /\ task'[p].doomed = past /\ task'[p].since = clock
        /\ task'[p].pc = IF past = {} THEN "know" ELSE "publish"
    BY <1>task, <1>21 DEF Cleanup, Idle, Task
  <2>2. past \subseteq Retired(manifest) /\ past \subseteq Named(manifest)
    BY DEF Retired, Named
  <2> HIDE DEF past
  <2>3. 0 \notin DOMAIN archive
    BY <1>ok, ArchiveElement DEF TypeOK
  <2>4. \A q \in Process \ {p} : FreshIsSafe(q)' /\ DoomedIsGone(q)' /\ KnownIsKnown(q)'
    BY <1>inv, <2>1, <2>2, <2>3, OthersSafe
  <2>5. past \cap Archives(manifest) = {}
    BY <2>2 DEF StoreInv
  <2>6. FreshIsSafe(p)' /\ DoomedIsGone(p)' /\ KnownIsKnown(p)'
    BY <1>clock, <2>1, <2>5 DEF FreshIsSafe, DoomedIsGone, KnownIsKnown
  <2> QED BY <2>1, <2>4, <2>6 DEF StoreInv
<1>22. ASSUME NEW p \in Maintainer, PublishForgotten(p) PROVE StoreInv'
  <2> DEFINE D == task[p].doomed
  <2>1. /\ manifest' = WithoutRetired(manifest, D)
        /\ UNCHANGED <<clock, archive, stored>>
        /\ \A q \in Process \ {p} : task'[q] = task[q]
        /\ task'[p].key = task[p].key /\ task'[p].doomed = D
        /\ task'[p].since = task[p].since /\ task'[p].pc = "delete"
    BY <1>task, <1>22 DEF PublishForgotten, Replace, Unchanged, Task
  <2>2. /\ Archives(manifest') = Archives(manifest)
        /\ manifest'.retired = {r \in manifest.retired : r.key \notin D}
    BY <1>clock, <2>1, ForgottenManifest
  <2>3. Retired(manifest') = Retired(manifest) \ D
    BY <2>2 DEF Retired
  <2>4. D \cap Archives(manifest) = {}
    BY DEF D, StoreInv, DoomedIsGone
  <2>5. /\ Named(manifest') \subseteq Named(manifest)
        /\ Archives(manifest') \cap Retired(manifest') = {}
        /\ D \cap Named(manifest') = {}
    BY <2>2, <2>3, <2>4 DEF Named, StoreInv
  <2>6. task'[p].key = 0
    <3>1. task[p].key = 0
      BY <1>doomed, <1>22 DEF PublishForgotten
    <3> QED BY <2>1, <3>1
  <2>7. /\ task'[p].since <= clock /\ task'[p].doomed \cap Named(manifest') = {}
        /\ Archives(manifest') \subseteq Archives(manifest) \cup {task[p].key}
        /\ Named(manifest') \subseteq Named(manifest) \cup {task[p].key}
    BY <1>known, <2>1, <2>2, <2>5
  <2> QED BY <1>inv, <2>1, <2>5, <2>6, <2>7, PublishSafe
<1>23. ASSUME NEW p \in Maintainer, Delete(p) PROVE StoreInv'
  <2>1. PICK k \in task[p].doomed :
          /\ stored' = stored \ {k}
          /\ task' = [task EXCEPT ![p].doomed = @ \ {k}]
    BY <1>23 DEF Delete
  <2>2. /\ UNCHANGED <<clock, archive, manifest>>
        /\ \A q \in Process \ {p} : task'[q] = task[q]
        /\ task'[p].key = task[p].key /\ task'[p].doomed = task[p].doomed \ {k}
        /\ task'[p].since = task[p].since /\ task'[p].pc = task[p].pc
        /\ task[p].pc \in {"delete", "sweep"}
    BY <1>task, <1>23, <2>1 DEF Delete, Task
  <2>3. k \notin Named(manifest) /\ task[p].key = 0
    BY <1>fresh, <2>2 DEF StoreInv, DoomedIsGone
  <2>4. 0 \notin DOMAIN archive
    BY <1>ok, ArchiveElement DEF TypeOK
  <2>5. \A q \in Process \ {p} : FreshIsSafe(q)' /\ DoomedIsGone(q)' /\ KnownIsKnown(q)'
    BY <1>inv, <2>1, <2>2, <2>3, <2>4, OthersSafe
  <2>6. FreshIsSafe(p)' /\ DoomedIsGone(p)' /\ KnownIsKnown(p)'
    BY <1>known, <2>2, <2>3 DEF StoreInv, FreshIsSafe, DoomedIsGone, KnownIsKnown
  <2> QED BY <2>1, <2>2, <2>3, <2>5, <2>6 DEF StoreInv
<1>24. ASSUME NEW p \in Maintainer, Know(p) PROVE StoreInv'
  <2>1. /\ UNCHANGED <<clock, archive, stored, manifest>>
        /\ \A q \in Process \ {p} : task'[q] = task[q]
        /\ task'[p].key = 0 /\ task'[p].doomed = {} /\ task[p].doomed = {}
        /\ task'[p].since = task[p].since /\ task'[p].base = manifest
        /\ task'[p].pc = "list"
    BY <1>task, <1>fresh, <1>doomed, <1>24 DEF Know, Task
  <2>2. 0 \notin DOMAIN archive
    BY <1>ok, ArchiveElement DEF TypeOK
  <2>3. \A q \in Process \ {p} : FreshIsSafe(q)' /\ DoomedIsGone(q)' /\ KnownIsKnown(q)'
    BY <1>inv, <2>1, <2>2, OthersSafe
  <2>4. FreshIsSafe(p)' /\ DoomedIsGone(p)' /\ KnownIsKnown(p)'
    BY <1>known, <2>1 DEF StoreInv, FreshIsSafe, DoomedIsGone, KnownIsKnown
  <2> QED BY <2>1, <2>3, <2>4 DEF StoreInv
<1>25. ASSUME NEW p \in Maintainer, List(p) PROVE StoreInv'
  <2> DEFINE old == {k \in stored : IsOrphan(p, k)}
  <2>1. /\ UNCHANGED <<clock, archive, stored, manifest>>
        /\ \A q \in Process \ {p} : task'[q] = task[q]
        /\ task'[p].key = 0 /\ task'[p].doomed = old
        /\ task'[p].since = task[p].since /\ task'[p].pc = "sweep"
        /\ task[p].pc = "list"
    BY <1>task, <1>fresh, <1>25 DEF List, Task
  <2>2. /\ 0 \notin DOMAIN archive /\ stored \subseteq DOMAIN archive
        /\ \A k \in DOMAIN archive : archive[k].modified \in Nat
        /\ task[p].since \in Nat /\ task[p].since <= clock
    BY <1>ok, <1>known, ArchiveElement DEF TypeOK, Archive, Task
  <2>3. \A k \in old : /\ k \in DOMAIN archive
                       /\ clock - archive[k].modified > PublishTime
                       /\ k \notin Named(manifest)
    <3> TAKE k \in old
    <3>1. k \in DOMAIN archive \ Named(task[p].base)
          /\ task[p].since - archive[k].modified >= OrphanGrace
      BY <2>2 DEF IsOrphan
    <3>2. KnownIsKnown(p)
      BY DEF StoreInv
    <3>3. k \notin Named(manifest)
      BY <2>1, <3>1, <3>2 DEF KnownIsKnown
    <3> QED BY <1>inv, <1>clock, <2>2, <3>1, <3>3, TimesAssumption
  <2> HIDE DEF old
  <2>4. \A q \in Process \ {p} : FreshIsSafe(q)' /\ DoomedIsGone(q)' /\ KnownIsKnown(q)'
    BY <1>inv, <2>1, <2>2, <2>3, OthersSafe
  <2>5. FreshIsSafe(p)' /\ DoomedIsGone(p)' /\ KnownIsKnown(p)'
    BY <1>known, <2>1, <2>3 DEF FreshIsSafe, DoomedIsGone, KnownIsKnown, Named
  <2> QED BY <2>1, <2>4, <2>5 DEF StoreInv
<1>26. ASSUME NEW w \in Writer, NEW t, NEW c, Put(w, t, c) PROVE StoreInv'
  BY <1>14, <1>26 DEF Put
<1>27. ASSUME UNCHANGED vars PROVE StoreInv'
  BY <1>14, <1>27 DEF vars
<1> QED
  BY <1>1, <1>2, <1>3, <1>4, <1>5, <1>6, <1>7, <1>8, <1>9, <1>10, <1>11, <1>12, <1>13,
     <1>15, <1>16, <1>17, <1>18, <1>19, <1>20, <1>21, <1>22, <1>23, <1>24, <1>25,
     <1>26, <1>27, <1>28, <1>29
  DEF Next, WriterStep, MaintainerStep, Publishing

(* The bucket holds every archive the manifest names, live or retired, in    *)
(* every run in which no upload waits longer for its publication than the    *)
(* orphan grace: uploads, lost races, merges given up, cleanups cut short   *)
(* and crashes included (store.rs, cleanup and publish).                     *)
THEOREM NamedStoredCorrect ==
  ASSUME PublishTime < OrphanGrace
  PROVE  Spec => []NamedStored
<1>1. Init => TypeInv /\ StoreInv
  BY TypeInvInit, StoreInvInit
<1>2. TypeInv /\ StoreInv /\ [Next]_vars => (TypeInv /\ StoreInv)'
  BY TypeInvStep, StoreInvStep
<1>3. TypeInv /\ StoreInv => NamedStored
  BY DEF StoreInv, NamedStored
<1> QED BY <1>1, <1>2, <1>3, PTL DEF Spec

-----------------------------------------------------------------------------
(* No publication undoes another's.                                         *)

LEMMA ListStep ==
  TypeInv /\ [Next]_vars
    => Archives(manifest) \ Archives(manifest') \subseteq Retired(manifest')
<1> SUFFICES ASSUME TypeInv, [Next]_vars
             PROVE  Archives(manifest) \ Archives(manifest') \subseteq Retired(manifest')
  OBVIOUS
<1>ok. TypeOK /\ Used
  BY DEF TypeInv
<1>manifest. manifest \in Manifest /\ task \in [Process -> Task]
  BY <1>ok DEF TypeOK
<1>1. CASE manifest' = manifest
  BY <1>1
<1>2. ASSUME NEW w \in Writer, PublishDelta(w)
      PROVE  Archives(manifest) \subseteq Archives(manifest')
  <2>1. manifest' = WithDelta(manifest, task[w].key)
    BY <1>2 DEF PublishDelta, Replace, Unchanged
  <2> QED BY <1>manifest, <2>1 DEF WithDelta, Successor, Archives, Manifest
<1>3. ASSUME NEW m \in Maintainer, PublishPruned(m)
      PROVE  Archives(manifest) \ Archives(manifest') \subseteq Retired(manifest')
  <2> DEFINE K == Archives(manifest) \ Live(manifest, task[m].since)
  <2>1. /\ manifest' = WithoutExpired(manifest, task[m].since)
        /\ task[m].since \in Nat
    BY <1>manifest, <1>3 DEF PublishPruned, Replace, Unchanged, Task
  <2>2. /\ Archives(manifest') = Live(manifest, task[m].since)
        /\ manifest'.retired = manifest.retired \cup Retire(K, task[m].since)
    BY <1>manifest, <2>1, PrunedManifest
  <2> HIDE DEF K
  <2>3. K \subseteq Retired(manifest')
    BY <2>2, RetiredGrows
  <2> QED BY <2>2, <2>3 DEF K
<1>4. ASSUME NEW m \in Maintainer, PublishMerged(m)
      PROVE  Archives(manifest) \ Archives(manifest') \subseteq Retired(manifest')
  <2> DEFINE K == task[m].run
             k == task[m].key
             now == task[m].since
  <2>1. manifest' = WithMerged(manifest, K, k, now)
    BY <1>4 DEF PublishMerged, Replace, Unchanged
  <2> HIDE DEF K, k, now
  <2>2. manifest'.retired = manifest.retired \cup Retire(K, now)
    BY <2>1 DEF WithMerged, Successor
  <2>3. K \subseteq Retired(manifest')
    BY <2>2, RetiredGrows
  <2>4. \A j \in Archives(manifest) \ (K \cup {k}) : j \in Archives(manifest')
    BY <2>1 DEF WithMerged, Successor, Archives
  <2>5. k \in Key /\ K # {} /\ K \subseteq Archives(manifest) => k \in Archives(manifest')
    BY <2>1 DEF WithMerged, Successor, Archives, RunPlace
  <2>6. k \in Key /\ K # {} /\ K \subseteq Archives(manifest)
    <3>1. Uses(m) /\ At(m, "replace") /\ m \in Process /\ task[m].base = manifest
          /\ task[m].run # {}
      BY <1>ok, <1>4 DEF PublishMerged, Replace, Unchanged, Used
    <3> QED BY <1>manifest, <3>1 DEF Uses, Task, K, k
  <2> QED BY <2>3, <2>4, <2>5, <2>6
<1>5. ASSUME NEW m \in Maintainer, PublishForgotten(m)
      PROVE  Archives(manifest') = Archives(manifest)
  BY <1>5 DEF PublishForgotten, Replace, Unchanged, WithoutRetired, Successor, Archives
<1>6. \/ manifest' = manifest
      \/ \E w \in Writer : PublishDelta(w)
      \/ \E m \in Maintainer : PublishPruned(m) \/ PublishMerged(m) \/ PublishForgotten(m)
  <2>1. ASSUME NEW w \in Writer, WriterStep(w) \/ PutBack(w) \/ Crash(w)
        PROVE  manifest' = manifest \/ PublishDelta(w)
    BY <2>1 DEF WriterStep, Publishing, Freeze, Compare, Upload, ReadManifest,
      Conflict, EndFlush, PutBack, Crash
  <2>2. ASSUME NEW m \in Maintainer, MaintainerStep(m) \/ Refused(m) \/ KeepOrphan(m) \/ Abort(m)
        PROVE  \/ manifest' = manifest
               \/ PublishPruned(m) \/ PublishMerged(m) \/ PublishForgotten(m)
    BY <2>2 DEF MaintainerStep, Publishing, ReadManifest, Conflict, Prune, Select,
      Nothing, Merge, Superseded, Cleanup, Refused, Delete, Know, List, KeepOrphan,
      EndCleanup, Abort
  <2> QED BY <2>1, <2>2 DEF Next, vars, Tick, Put
<1> QED BY <1>1, <1>2, <1>3, <1>4, <1>5, <1>6

(* An archive leaves the zone's list only by being retired: a publication   *)
(* that lost the race on the manifest derives again and never undoes what   *)
(* it had not seen (store.rs, publish).                                      *)
THEOREM LeavesOnlyRetiredCorrect == Spec => LeavesOnlyRetired
<1>1. Init => TypeInv
  BY TypeInvInit
<1>2. TypeInv /\ [Next]_vars => TypeInv'
  BY TypeInvStep
<1>3. TypeInv /\ [Next]_vars
        => [Archives(manifest) \ Archives(manifest') \subseteq Retired(manifest')]_vars
  BY ListStep
<1> QED BY <1>1, <1>2, <1>3, PTL DEF Spec, LeavesOnlyRetired

-----------------------------------------------------------------------------
(* What an archive says of its oldest fetch.                                *)

LEMMA StoreKeepsOldest ==
  ASSUME TypeInv, OldestIsOldest, NEW p \in Process, NEW tiles \in Contents,
         NEW epoch \in Nat, NEW oldest \in Nat, Store(p, tiles, epoch, oldest),
         \A t \in TilesOf(tiles) : oldest <= tiles[t].fetched
  PROVE  OldestIsOldest'
<1> DEFINE k == Len(archive) + 1
<1>1. /\ DOMAIN archive' = DOMAIN archive \cup {k}
      /\ \A j \in DOMAIN archive : archive'[j] = archive[j]
      /\ archive'[k] = [tiles |-> tiles, epoch |-> epoch, oldest |-> oldest,
                        modified |-> clock]
  BY StoreType
<1> HIDE DEF k
<1>2. archive'[k].tiles = tiles /\ archive'[k].oldest = oldest
  BY <1>1
<1> QED BY <1>1, <1>2 DEF OldestIsOldest

LEMMA OldestStep == TypeInv /\ OldestIsOldest /\ [Next]_vars => OldestIsOldest'
<1> SUFFICES ASSUME TypeInv, OldestIsOldest, [Next]_vars PROVE OldestIsOldest'
  OBVIOUS
<1>ok. TypeOK /\ Used
  BY DEF TypeInv
<1>1. CASE archive' = archive
  BY <1>1 DEF OldestIsOldest
<1>2. ASSUME NEW w \in Writer, Upload(w) PROVE OldestIsOldest'
  <2>1. TilesOf(kept[w]) # {} /\ kept[w] \in Contents /\ task[w].since \in Nat
    BY <1>ok, <1>2 DEF Upload, Used, Uses, TypeOK, Task
  <2>2. /\ Oldest(kept[w]) \in Nat /\ Epoch(task[w].since) \in Nat
        /\ \A t \in TilesOf(kept[w]) : Oldest(kept[w]) <= kept[w][t].fetched
    BY <2>1, OldestIsLeast, EpochType
  <2> QED BY <1>2, <2>1, <2>2, StoreKeepsOldest DEF Upload
<1>3. ASSUME NEW m \in Maintainer, Merge(m) PROVE OldestIsOldest'
  <2> DEFINE K == task[m].run
             b == task[m].base
             e == archive[CHOOSE i \in K : TRUE].epoch
             T == Merged(b, K)
  <2>1. /\ K # {} /\ K \subseteq DOMAIN archive /\ K \in SUBSET Key /\ b \in Manifest
        /\ archive \in Seq(Archive)
    BY <1>ok, <1>3 DEF Merge, TypeOK, Task, Used, Uses
  <2>2. Store(m, T, e, OldestOf(K))
    BY <1>3 DEF Merge
  <2> HIDE DEF K, b
  <2>3. /\ e \in Nat /\ T \in Contents /\ OldestOf(K) \in Nat
        /\ \A k \in K : OldestOf(K) <= archive[k].oldest /\ archive[k] \in Archive
    BY <2>1, ArchiveElement, OldestOfIsLeast, MergedType DEF Archive
  <2>4. ASSUME NEW t \in TilesOf(T) PROVE OldestOf(K) <= T[t].fetched
    <3> DEFINE h == Holder(b, K, t)
    <3>1. t \in Tile /\ Holders(K, t) # {} /\ T[t] = archive[h].tiles[t]
      BY <2>4 DEF TilesOf, Merged
    <3>2. h \in K /\ archive[h].tiles[t] # NoCopy
      BY <2>1, <3>1, HolderExists DEF Holders
    <3> HIDE DEF h, T
    <3>3. archive[h].oldest <= archive[h].tiles[t].fetched
      BY <2>1, <3>1, <3>2 DEF OldestIsOldest, TilesOf
    <3>4. archive[h].tiles[t].fetched \in Nat /\ archive[h].oldest \in Nat
      BY <2>3, <3>1, <3>2 DEF Archive, Contents, Copy
    <3> QED BY <2>3, <3>1, <3>2, <3>3, <3>4
  <2> HIDE DEF e, T
  <2> QED BY <2>2, <2>3, <2>4, StoreKeepsOldest
<1>4. \/ archive' = archive
      \/ \E w \in Writer : Upload(w)
      \/ \E m \in Maintainer : Merge(m)
  <2>1. ASSUME NEW w \in Writer, WriterStep(w) \/ PutBack(w) \/ Crash(w)
        PROVE  archive' = archive \/ Upload(w)
    BY <2>1 DEF WriterStep, Publishing, Freeze, Compare, ReadManifest, Conflict,
      PublishDelta, Replace, EndFlush, PutBack, Crash
  <2>2. ASSUME NEW m \in Maintainer, MaintainerStep(m) \/ Refused(m) \/ KeepOrphan(m) \/ Abort(m)
        PROVE  archive' = archive \/ Merge(m)
    BY <2>2 DEF MaintainerStep, Publishing, ReadManifest, Conflict, Prune,
      PublishPruned, Replace, Select, Nothing, PublishMerged, Superseded, Cleanup,
      Refused, PublishForgotten, Delete, Know, List, KeepOrphan, EndCleanup, Abort
  <2> QED BY <2>1, <2>2 DEF Next, vars, Tick, Put
<1> QED BY <1>1, <1>2, <1>3, <1>4

(* No tile of an archive was fetched before the oldest fetch the archive     *)
(* states, merged archives included (archive.rs and merge_run): a stored     *)
(* copy that drop_duplicates takes for certainly newer is newer.            *)
THEOREM OldestIsOldestCorrect == Spec => []OldestIsOldest
<1>1. Init => TypeInv /\ OldestIsOldest
  BY TypeInvInit DEF Init, OldestIsOldest
<1>2. TypeInv /\ OldestIsOldest /\ [Next]_vars => (TypeInv /\ OldestIsOldest)'
  BY TypeInvStep, OldestStep
<1> QED BY <1>1, <1>2, PTL DEF Spec

-----------------------------------------------------------------------------
(* What no step does: change an archive, or give two the same place.        *)

\* Archives never change once they are uploaded.
ArchivesStay ==
  /\ DOMAIN archive \subseteq DOMAIN archive'
  /\ \A k \in DOMAIN archive : archive'[k] = archive[k]

(* What has expired stays expired.                                           *)
LEMMA ExpiryGrows ==
  ASSUME NEW e \in Nat, NEW m \in Int, NEW n \in Int, m <= n, IsExpired(e, m)
  PROVE  IsExpired(e, n)
<1>1. (e + 1) * EpochLength \in Int
  BY TimesAssumption
<1> DEFINE s == (e + 1) * EpochLength
<1>2. Expires /\ m - s > Expiry
  BY DEF IsExpired
<1>3. s \in Int
  BY <1>1
<1> HIDE DEF s
<1>4. n - s > Expiry
  BY <1>2, <1>3, TimesAssumption
<1> QED BY <1>2, <1>4 DEF IsExpired, s

(* No step changes an archive that was uploaded, and no time goes back.     *)
LEMMA ArchivesStep ==
  ASSUME TypeInv, [Next]_vars
  PROVE  ArchivesStay /\ clock <= clock'
<1>ok. TypeOK /\ Used /\ clock \in Nat
  BY DEF TypeInv, TypeOK
<1>1. ASSUME NEW p \in Process, NEW tiles \in Contents, NEW epoch \in Nat, NEW oldest \in Nat,
             Store(p, tiles, epoch, oldest)
      PROVE  ArchivesStay
  BY <1>1, StoreType DEF ArchivesStay
<1>2. ASSUME NEW p \in Writer, Upload(p) PROVE ArchivesStay
  <2>1. TilesOf(kept[p]) # {} /\ kept[p] \in Contents /\ task[p].since \in Nat
    BY <1>ok, <1>2 DEF Upload, Used, Uses, TypeOK, Task
  <2>2. Oldest(kept[p]) \in Nat /\ Epoch(task[p].since) \in Nat
    BY <2>1, OldestIsLeast, EpochType
  <2> QED BY <1>1, <1>2, <2>1, <2>2 DEF Upload
<1>3. ASSUME NEW p \in Maintainer, Merge(p) PROVE ArchivesStay
  <2> DEFINE K == task[p].run
             b == task[p].base
             e == archive[CHOOSE i \in K : TRUE].epoch
  <2>1. /\ K # {} /\ K \subseteq DOMAIN archive /\ K \in SUBSET Key /\ b \in Manifest
        /\ archive \in Seq(Archive)
    BY <1>ok, <1>3 DEF Merge, TypeOK, Task, Used, Uses
  <2>2. Merged(b, K) \in Contents /\ OldestOf(K) \in Nat
    BY <2>1, MergedType, OldestOfIsLeast
  <2>3. e \in Nat
    BY <2>1, ArchiveElement DEF Archive
  <2>4. Store(p, Merged(b, K), e, OldestOf(K))
    BY <1>3 DEF Merge
  <2> HIDE DEF K, b, e
  <2> QED BY <1>1, <2>2, <2>3, <2>4
<1>4. /\ \/ archive' = archive
         \/ \E w \in Writer : Upload(w)
         \/ \E m \in Maintainer : Merge(m)
      /\ clock' = clock \/ clock' = clock + 1
  BY DEF Next, WriterStep, MaintainerStep, Publishing, vars, Tick, Put, Freeze, Compare,
         Upload, ReadManifest, Conflict, PublishDelta, Replace, EndFlush, PutBack, Crash,
         Prune, PublishPruned, Select, Nothing, Merge, PublishMerged, Superseded, Cleanup,
         Refused, PublishForgotten, Delete, Know, List, KeepOrphan, EndCleanup, Abort
<1>5. ArchivesStay
  BY <1>2, <1>3, <1>4 DEF ArchivesStay
<1> QED BY <1>ok, <1>4, <1>5

\* No two archives of a manifest have the same place.
PlacesDiffer(m) ==
  \A j, k \in Archives(m) : j # k => m.archives[j] # m.archives[k]

LEMMA PlacesStep ==
  ASSUME TypeInv, PlacesDiffer(manifest), [Next]_vars
  PROVE  PlacesDiffer(manifest')
<1>ok. TypeOK /\ Used /\ manifest \in Manifest /\ task \in [Process -> Task]
  BY DEF TypeInv, TypeOK
<1>1. ASSUME NEW w \in Writer, PublishDelta(w) PROVE PlacesDiffer(manifest')
  <2> DEFINE k == task[w].key
  <2>1. manifest' = WithDelta(manifest, k)
    BY <1>1 DEF PublishDelta, Replace, Unchanged
  <2>2. k \in Key
    BY <1>ok, <1>1 DEF PublishDelta, Used, Uses, Task
  <2> HIDE DEF k
  <2>3. /\ Archives(manifest') = Archives(manifest) \cup {k}
        /\ \A j \in Key \ {k} : manifest'.archives[j] = manifest.archives[j]
        /\ \A j \in Key \ {k} : manifest'.archives[j] < manifest'.archives[k]
        /\ manifest' \in Manifest
    BY <1>ok, <2>1, <2>2, DeltaManifest
  <2>4. \A j \in Key : manifest'.archives[j] \in Nat
    BY <2>3 DEF Manifest
  <2>5. Archives(manifest) \subseteq Key
    BY DEF Archives
  <2> QED BY <2>2, <2>3, <2>4, <2>5 DEF PlacesDiffer
<1>2. ASSUME NEW m \in Maintainer, PublishMerged(m) PROVE PlacesDiffer(manifest')
  <2> DEFINE k == task[m].key
             K == task[m].run
             now == task[m].since
  <2>1. /\ manifest' = WithMerged(manifest, K, k, now) /\ now \in Nat /\ K # {}
    BY <1>ok, <1>2 DEF PublishMerged, Replace, Unchanged, Task
  <2>2. k \in Key /\ K \in SUBSET Archives(manifest)
    BY <1>ok, <1>2 DEF PublishMerged, Replace, Unchanged, Used, Uses, Task
  <2> HIDE DEF k, K, now
  <2>3. PICK i \in K : RunPlace(manifest, K) = manifest.archives[i]
    BY <2>1 DEF RunPlace
  <2>4. manifest'.archives = [j \in Key |-> IF j = k THEN manifest.archives[i]
                                            ELSE IF j \in K THEN 0 ELSE manifest.archives[j]]
    BY <2>1, <2>3 DEF WithMerged, Successor
  <2>5. i \in Archives(manifest)
    BY <2>2
  <2> QED BY <2>2, <2>3, <2>4, <2>5 DEF PlacesDiffer, Archives
<1>3. ASSUME NEW m \in Maintainer, PublishPruned(m) PROVE PlacesDiffer(manifest')
  <2> DEFINE now == task[m].since
  <2>1. manifest' = WithoutExpired(manifest, now) /\ now \in Nat
    BY <1>ok, <1>3 DEF PublishPruned, Replace, Unchanged, Task
  <2> HIDE DEF now
  <2>2. /\ Archives(manifest') = Live(manifest, now)
        /\ \A j \in Live(manifest, now) : manifest'.archives[j] = manifest.archives[j]
    BY <1>ok, <2>1, PrunedManifest
  <2> QED BY <2>2 DEF PlacesDiffer, Live
<1>4. ASSUME NEW m \in Maintainer, PublishForgotten(m) PROVE PlacesDiffer(manifest')
  <2>1. manifest'.archives = manifest.archives
    BY <1>4 DEF PublishForgotten, Replace, Unchanged, WithoutRetired, Successor
  <2> QED BY <2>1 DEF PlacesDiffer, Archives
<1>5. \/ manifest' = manifest
      \/ \E w \in Writer : PublishDelta(w)
      \/ \E m \in Maintainer : PublishMerged(m) \/ PublishPruned(m) \/ PublishForgotten(m)
  BY DEF Next, WriterStep, MaintainerStep, Publishing, vars, Tick, Put, Freeze, Compare,
         Upload, ReadManifest, Conflict, EndFlush, PutBack, Crash,
         Prune, Select, Nothing, Merge, Superseded, Cleanup,
         Refused, Delete, Know, List, KeepOrphan, EndCleanup, Abort
<1> QED BY <1>1, <1>2, <1>3, <1>4, <1>5

(* A zone that was never published to.                                       *)
LEMMA NoPlaces == PlacesDiffer(EmptyManifest)
BY EmptyManifestType DEF PlacesDiffer, Named

-----------------------------------------------------------------------------
(* The copy of t that the archives K of m hold, for any archives a.         *)

HoldersIn(a, K, t) == {k \in K : a[k].tiles[t] # NoCopy}

CopyIn(a, m, K, t) ==
  IF HoldersIn(a, K, t) = {} THEN NoCopy
  ELSE a[CHOOSE k \in HoldersIn(a, K, t) :
           \A j \in HoldersIn(a, K, t) : m.archives[j] <= m.archives[k]].tiles[t]

\* None of K holds t and c is no copy, or the last holder holds c.
Gives(a, m, K, t, c) ==
  \/ c = NoCopy /\ \A k \in K : a[k].tiles[t] = NoCopy
  \/ c # NoCopy /\ \E k \in K :
       /\ a[k].tiles[t] = c
       /\ \A j \in K : a[j].tiles[t] # NoCopy => m.archives[j] <= m.archives[k]

Differ(m, K) == \A j, k \in K : j # k => m.archives[j] # m.archives[k]

LEMMA GivesCopy ==
  ASSUME NEW a, NEW m \in Manifest, NEW K \in SUBSET Key, NEW t
  PROVE  Gives(a, m, K, t, CopyIn(a, m, K, t))
<1> DEFINE H == HoldersIn(a, K, t)
           S == {m.generation - m.archives[k] : k \in H}
<1>0. CASE H = {}
  BY <1>0 DEF HoldersIn, CopyIn, Gives
<1>1. CASE H # {}
  <2>1. H \subseteq K /\ H \subseteq Key /\ \A k \in H : a[k].tiles[t] # NoCopy
    BY DEF HoldersIn
  <2>2. /\ m.generation \in Nat
        /\ \A k \in H : m.archives[k] \in Nat /\ m.archives[k] <= m.generation
    BY <2>1 DEF Manifest
  <2>3. S \in SUBSET Nat /\ S # {}
    BY <1>1, <2>2
  <2>4. PICK x \in S : \A y \in S : x <= y
    BY <2>3, LeastElement
  <2>5. PICK k \in H : x = m.generation - m.archives[k]
    BY <2>4
  <2>6. \A j \in H : m.archives[j] <= m.archives[k]
    <3> TAKE j \in H
    <3>1. m.generation - m.archives[k] <= m.generation - m.archives[j]
      BY <2>4, <2>5
    <3> QED BY <3>1, <2>2
  <2> DEFINE top == CHOOSE i \in H : \A j \in H : m.archives[j] <= m.archives[i]
  <2>7. top \in H /\ \A j \in H : m.archives[j] <= m.archives[top]
    BY <2>6
  <2>8. CopyIn(a, m, K, t) = a[top].tiles[t]
    BY <1>1 DEF CopyIn
  <2> HIDE DEF top
  <2> QED BY <2>1, <2>7, <2>8 DEF Gives, HoldersIn
<1> QED BY <1>0, <1>1

LEMMA GivesOne ==
  ASSUME NEW a, NEW m \in Manifest, NEW K \in SUBSET Key, NEW t, Differ(m, K),
         NEW c, NEW d, Gives(a, m, K, t, c), Gives(a, m, K, t, d)
  PROVE  c = d
<1>1. \A k \in K : m.archives[k] \in Nat
  BY DEF Manifest
<1> QED BY <1>1 DEF Gives, Differ

(* What a manifest says of K depends on the places and the archives of K.   *)
LEMMA GivesSame ==
  ASSUME NEW a, NEW b, NEW m, NEW n, NEW K, NEW t,
         \A k \in K : b[k] = a[k] /\ n.archives[k] = m.archives[k],
         NEW c, Gives(a, m, K, t, c)
  PROVE  Gives(b, n, K, t, c)
BY DEF Gives

LEMMA CopySame ==
  ASSUME NEW a, NEW b, NEW m \in Manifest, NEW n \in Manifest, NEW K \in SUBSET Key, NEW t,
         Differ(m, K),
         \A k \in K : b[k] = a[k] /\ n.archives[k] = m.archives[k]
  PROVE  CopyIn(b, n, K, t) = CopyIn(a, m, K, t)
<1>1. Gives(a, m, K, t, CopyIn(a, m, K, t)) /\ Gives(b, n, K, t, CopyIn(b, n, K, t))
  BY GivesCopy
<1> DEFINE c == CopyIn(a, m, K, t)
           d == CopyIn(b, n, K, t)
<1> HIDE DEF c, d
<1>2. Gives(b, n, K, t, c)
  BY <1>1, GivesSame DEF c
<1>3. Differ(n, K)
  BY DEF Differ
<1> QED BY <1>1, <1>2, <1>3, GivesOne DEF c, d

(* A new last archive: its copies, and the others' where it has none.       *)
LEMMA CopyAppended ==
  ASSUME NEW a, NEW m \in Manifest, NEW n \in Manifest, NEW K \in SUBSET Key, NEW t,
         Differ(m, K), NEW k \in Key \ K,
         \A j \in K : n.archives[j] = m.archives[j] /\ n.archives[j] < n.archives[k]
  PROVE  CopyIn(a, n, K \cup {k}, t) =
           IF a[k].tiles[t] # NoCopy THEN a[k].tiles[t] ELSE CopyIn(a, m, K, t)
<1> DEFINE c == CopyIn(a, m, K, t)
           L == K \cup {k}
           d == CopyIn(a, n, L, t)
           e == IF a[k].tiles[t] # NoCopy THEN a[k].tiles[t] ELSE c
<1>1. Gives(a, m, K, t, c) /\ Gives(a, n, L, t, d)
  BY GivesCopy
<1>2. \A j \in L : n.archives[j] \in Nat
  BY DEF Manifest
<1>3. Differ(n, L)
  BY <1>2 DEF Differ
<1> HIDE DEF c, d
<1>4. Gives(a, n, L, t, e)
  BY <1>1, <1>2 DEF Gives
<1> HIDE DEF L, e
<1>5. L \in SUBSET Key
  BY DEF L
<1>6. d = e
  BY <1>1, <1>3, <1>4, <1>5, GivesOne
<1> QED BY <1>6 DEF d, L, e, c

(* A contiguous run replaced by one archive that holds what the run held.   *)
LEMMA CopyReplaced ==
  ASSUME NEW a, NEW m \in Manifest, NEW n \in Manifest, NEW L \in SUBSET Key, NEW t,
         Differ(m, L), NEW K \in SUBSET L, NEW i \in K, NEW k \in Key \ L,
         \A j \in L \ K : \/ \A h \in K : m.archives[j] < m.archives[h]
                          \/ \A h \in K : m.archives[j] > m.archives[h],
         \A j \in L \ K : n.archives[j] = m.archives[j],
         n.archives[k] = m.archives[i],
         a[k].tiles[t] = CopyIn(a, m, K, t)
  PROVE  CopyIn(a, n, (L \ K) \cup {k}, t) = CopyIn(a, m, L, t)
<1> DEFINE c == CopyIn(a, m, L, t)
           N == (L \ K) \cup {k}
           d == CopyIn(a, n, N, t)
           e == CopyIn(a, m, K, t)
<1>1. Gives(a, m, L, t, c) /\ Gives(a, n, N, t, d) /\ Gives(a, m, K, t, e)
  BY GivesCopy
<1>2. /\ \A j \in L : m.archives[j] \in Nat
      /\ \A j \in N : n.archives[j] \in Nat
  BY DEF Manifest
<1>3. Differ(n, N)
  BY <1>2 DEF Differ
<1>4. Differ(m, K)
  BY DEF Differ
<1>5. a[k].tiles[t] = e
  OBVIOUS
<1> HIDE DEF c, d, e
<1>6. Gives(a, n, N, t, c)
  <2>1. CASE c = NoCopy
    <3>1. \A j \in L : a[j].tiles[t] = NoCopy
      BY <1>1, <2>1 DEF Gives
    <3>2. e = NoCopy
      BY <1>1, <3>1 DEF Gives
    <3> QED BY <1>5, <2>1, <3>1, <3>2 DEF Gives
  <2>2. CASE c # NoCopy
    <3>1. PICK h \in L : /\ a[h].tiles[t] = c
                         /\ \A j \in L : a[j].tiles[t] # NoCopy => m.archives[j] <= m.archives[h]
      BY <1>1, <2>2 DEF Gives
    <3>2. CASE h \in K
      <4>1. Gives(a, m, K, t, c)
        BY <2>2, <3>1, <3>2 DEF Gives
      <4>2. c = e
        BY <1>1, <1>4, <4>1, GivesOne
      <4>3. \A j \in L \ K : a[j].tiles[t] # NoCopy => m.archives[j] < m.archives[i]
        BY <1>2, <3>1, <3>2
      <4> QED BY <1>2, <1>5, <2>2, <4>2, <4>3 DEF Gives
    <3>3. CASE h \notin K
      <4>1. CASE e = NoCopy
        BY <1>5, <2>2, <3>1, <3>3, <4>1 DEF Gives
      <4>2. CASE e # NoCopy
        <5>1. PICK g \in K : a[g].tiles[t] # NoCopy
          BY <1>1, <4>2 DEF Gives
        <5>2. m.archives[i] < m.archives[h]
          BY <1>2, <3>1, <3>3, <5>1
        <5> QED BY <1>2, <2>2, <3>1, <3>3, <5>2 DEF Gives
      <4> QED BY <4>1, <4>2
    <3> QED BY <3>2, <3>3
  <2> QED BY <2>1, <2>2
<1> HIDE DEF N
<1>7. N \in SUBSET Key
  BY DEF N
<1>8. d = c
  BY <1>1, <1>3, <1>6, <1>7, GivesOne
<1> QED BY <1>8 DEF c, d, N

(* Somebody of K holds t: there is a copy.                                  *)
LEMMA CopyThere ==
  ASSUME NEW a, NEW m \in Manifest, NEW K \in SUBSET Key, NEW t,
         NEW k \in K, a[k].tiles[t] # NoCopy
  PROVE  CopyIn(a, m, K, t) # NoCopy
<1> DEFINE c == CopyIn(a, m, K, t)
<1>1. Gives(a, m, K, t, c)
  BY GivesCopy
<1> HIDE DEF c
<1> QED BY <1>1 DEF Gives, c

LEMMA MergedIsCopy ==
  \A m, K : \A t \in Tile : Merged(m, K)[t] = CopyIn(archive, m, K, t)
BY DEF Merged, CopyIn, Holders, HoldersIn, Holder

LiveIn(a, m, now) == {k \in Archives(m) : ~IsExpired(a[k].epoch, now)}

LEMMA ViewIsCopy ==
  \A t \in Tile :
    /\ View[t] = CopyIn(archive, manifest, LiveIn(archive, manifest, clock), t)
    /\ View'[t] = CopyIn(archive', manifest', LiveIn(archive', manifest', clock'), t)
BY DEF View, Merged, Live, LiveIn, CopyIn, Holders, HoldersIn, Holder, Archives

-----------------------------------------------------------------------------
(* What an upload in progress is, until it is published.                    *)

\* p alone has what it uploaded, and no manifest lists it yet.
IsOwn(p) ==
  task[p].key # 0 =>
    /\ task[p].pc \in {"publish", "replace"}
    /\ p \in Writer \/ task[p].run # {}
    /\ task[p].key \notin Archives(manifest)
    /\ \A q \in Process : task[p].key \notin task[q].run
    /\ \A q \in Process \ {p} : task[p].key # task[q].key

\* A flush uploads what it kept.
Flushes(w) ==
  /\ task[w].run = {}
  /\ task[w].key # 0 => archive[task[w].key].tiles = kept[w]

\* A merge is of one epoch, and has what its run holds together for as long as
\* the run is listed.
Combines(p) ==
  LET K == task[p].run IN
  K # {} =>
    /\ task[p].pc \in {"merge", "publish", "replace"}
    /\ \A j, k \in K : archive[j].epoch = archive[k].epoch
    /\ task[p].pc = "merge" /\ K \subseteq Archives(manifest) =>
         \A k \in K : task[p].base.archives[k] = manifest.archives[k]
    /\ task[p].pc # "merge" =>
         /\ \A k \in K : archive[task[p].key].epoch = archive[k].epoch
         /\ K \subseteq Archives(manifest) =>
              \A t \in Tile :
                archive[task[p].key].tiles[t] = CopyIn(archive, manifest, K, t)
    /\ task[p].pc = "replace" => Whole(task[p].base, K)

Uploads(p) ==
  /\ IsOwn(p)
  /\ p \in Writer => Flushes(p)
  /\ Combines(p)
  /\ task[p].since <= clock

ViewInv == PlacesDiffer(manifest) /\ \A p \in Process : Uploads(p)

LEMMA ViewInvInit == Init => ViewInv
<1> SUFFICES ASSUME Init PROVE ViewInv
  OBVIOUS
<1>1. PlacesDiffer(manifest)
  BY NoPlaces DEF Init
<1>2. ASSUME NEW p \in Process PROVE Uploads(p)
  BY DEF Init, Idle, Uploads, IsOwn, Flushes, Combines
<1> QED BY <1>1, <1>2 DEF ViewInv

(* What p does to the others: nothing, whatever it uploads or publishes.    *)
LEMMA OthersUploads ==
  ASSUME TypeInv, TypeInv', ViewInv, NEW p \in Process, ArchivesStay, clock <= clock',
         \A q \in Process \ {p} : task'[q] = task[q],
         \A w \in Writer \ {p} : kept'[w] = kept[w],
         \A k \in Archives(manifest') :
           \/ k \in Archives(manifest) /\ manifest'.archives[k] = manifest.archives[k]
           \/ k = task[p].key,
         task'[p].run \subseteq task[p].run \cup Archives(manifest),
         task'[p].key \in {0, task[p].key} \cup (Key \ DOMAIN archive),
         NEW q \in Process \ {p}
  PROVE  Uploads(q)'
<1>ok. /\ TypeOK /\ Used /\ manifest \in Manifest /\ manifest' \in Manifest
       /\ task \in [Process -> Task] /\ Uploads(p) /\ Uploads(q) /\ clock \in Nat /\ clock' \in Nat
  BY DEF TypeInv, TypeOK, ViewInv
<1>same. task'[q] = task[q] /\ (q \in Writer => kept'[q] = kept[q])
  OBVIOUS
<1> DEFINE h == task[q].key
           K == task[q].run
<1>key. /\ h \in DOMAIN archive \cup {0} /\ K \subseteq DOMAIN archive /\ K \subseteq Key
        /\ h # 0 => archive'[h] = archive[h]
        /\ \A k \in K : archive'[k] = archive[k]
  BY <1>ok DEF Used, Uses, ArchivesStay, Task
<1>1. IsOwn(q)'
  <2>1. h # 0 => h \notin Archives(manifest')
    BY <1>ok DEF Uploads, IsOwn
  <2>2. h # 0 => \A r \in Process : h \notin task'[r].run
    BY <1>ok DEF Uploads, IsOwn
  <2>3. h # 0 => \A r \in Process \ {q} : h # task'[r].key
    BY <1>ok, <1>key DEF Uploads, IsOwn
  <2> QED BY <1>ok, <1>same, <2>1, <2>2, <2>3 DEF Uploads, IsOwn
<1>2. q \in Writer => Flushes(q)'
  BY <1>ok, <1>same, <1>key DEF Uploads, Flushes
<1>3. K \subseteq Archives(manifest') =>
        /\ K \subseteq Archives(manifest)
        /\ \A k \in K : manifest'.archives[k] = manifest.archives[k]
  <2>0. 0 \notin K
    BY <1>key DEF Key
  <2>1. task[p].key \notin K
    BY <1>ok, <2>0 DEF Uploads, IsOwn
  <2> QED BY <2>1
<1>4. ASSUME K \subseteq Archives(manifest')
      PROVE  \A t \in Tile : CopyIn(archive', manifest', K, t) = CopyIn(archive, manifest, K, t)
  <2>1. Differ(manifest, K)
    BY <1>3, <1>4 DEF ViewInv, PlacesDiffer, Differ
  <2>2. \A k \in K : archive'[k] = archive[k] /\ manifest'.archives[k] = manifest.archives[k]
    BY <1>3, <1>4, <1>key
  <2>3. K \in SUBSET Key
    BY <1>key
  <2> HIDE DEF K
  <2> QED BY <1>ok, <2>1, <2>2, <2>3, CopySame
<1>5. Combines(q)'
  <2>1. K # {} /\ task[q].pc # "merge" => h # 0
    BY <1>ok DEF Uploads, Combines, Used, Uses
  <2>2. SUFFICES ASSUME K # {} PROVE Combines(q)'
    BY <1>same DEF Combines
  <2>3. /\ task[q].pc \in {"merge", "publish", "replace"}
        /\ \A j, k \in K : archive'[j].epoch = archive'[k].epoch
        /\ task[q].pc = "replace" => Whole(task[q].base, K)
    BY <1>ok, <1>key, <2>2 DEF Uploads, Combines
  <2>4. task[q].pc = "merge" /\ K \subseteq Archives(manifest') =>
          \A k \in K : task[q].base.archives[k] = manifest'.archives[k]
    BY <1>ok, <1>3, <2>2 DEF Uploads, Combines
  <2>5. task[q].pc # "merge" =>
          /\ \A k \in K : archive'[h].epoch = archive'[k].epoch
          /\ K \subseteq Archives(manifest') =>
               \A t \in Tile : archive'[h].tiles[t] = CopyIn(archive', manifest', K, t)
    <3>1. SUFFICES ASSUME task[q].pc # "merge"
                   PROVE  /\ \A k \in K : archive'[h].epoch = archive'[k].epoch
                          /\ K \subseteq Archives(manifest') =>
                               \A t \in Tile : archive'[h].tiles[t] = CopyIn(archive', manifest', K, t)
      OBVIOUS
    <3>2. /\ \A k \in K : archive[h].epoch = archive[k].epoch
          /\ K \subseteq Archives(manifest) =>
               \A t \in Tile : archive[h].tiles[t] = CopyIn(archive, manifest, K, t)
      BY <1>ok, <2>2, <3>1 DEF Uploads, Combines
    <3>3. archive'[h] = archive[h]
      BY <1>key, <2>1, <2>2, <3>1
    <3> HIDE DEF h, K
    <3> QED BY <1>key, <1>3, <1>4, <3>2, <3>3
  <2> HIDE DEF h, K
  <2>6. task'[q].run = K /\ task'[q].key = h /\ task'[q].pc = task[q].pc /\ task'[q].base = task[q].base
    BY <1>same DEF h, K
  <2>7. Whole(task[q].base, K) => Whole(task[q].base, K)'
    BY <1>same DEF Whole, Archives, K
  <2> QED BY <2>3, <2>4, <2>5, <2>6, <2>7 DEF Combines
<1>6. task'[q].since <= clock'
  BY <1>ok, <1>same DEF Uploads, Task
<1> QED BY <1>1, <1>2, <1>5, <1>6 DEF Uploads

(* p rests, or does anything else that uploads and merges nothing.          *)
LEMMA RestsUploads ==
  ASSUME NEW p \in Process, task'[p].key = 0, task'[p].run = {}, task'[p].since <= clock'
  PROVE  Uploads(p)'
BY DEF Uploads, IsOwn, Flushes, Combines

(* A step of p that leaves the manifest's list alone, or publishes what p    *)
(* uploaded: what is left to show is what p has in hand then.               *)
LEMMA ViewInvFrame ==
  ASSUME TypeInv, ViewInv, [Next]_vars, NEW p \in Process,
         \A q \in Process \ {p} : task'[q] = task[q],
         \A w \in Writer \ {p} : kept'[w] = kept[w],
         \A k \in Archives(manifest') :
           \/ k \in Archives(manifest) /\ manifest'.archives[k] = manifest.archives[k]
           \/ k = task[p].key,
         task'[p].run \subseteq task[p].run \cup Archives(manifest),
         task'[p].key \in {0, task[p].key} \cup (Key \ DOMAIN archive),
         Uploads(p)'
  PROVE  ViewInv'
<1>1. ArchivesStay /\ clock <= clock' /\ TypeInv'
  BY ArchivesStep, TypeInvStep
<1>2. ASSUME NEW q \in Process \ {p} PROVE Uploads(q)'
  BY <1>1, OthersUploads
<1>3. PlacesDiffer(manifest)'
  <2>1. PlacesDiffer(manifest')
    BY PlacesStep DEF ViewInv
  <2> QED BY <2>1 DEF PlacesDiffer, Archives
<1> QED BY <1>2, <1>3 DEF ViewInv

(* What these publications list: what was listed, in its place, and at most  *)
(* the archive they are for.                                                *)
LEMMA PublishedLists ==
  ASSUME TypeInv, NEW p \in Process,
         \/ p \in Writer /\ PublishDelta(p)
         \/ PublishMerged(p)
         \/ PublishPruned(p)
         \/ PublishForgotten(p)
  PROVE  \A k \in Archives(manifest') :
           \/ k \in Archives(manifest) /\ manifest'.archives[k] = manifest.archives[k]
           \/ k = task[p].key
<1> DEFINE Listed == \A k \in Archives(manifest') :
             \/ k \in Archives(manifest) /\ manifest'.archives[k] = manifest.archives[k]
             \/ k = task[p].key
<1>ok. TypeOK /\ Used /\ manifest \in Manifest /\ task \in [Process -> Task]
  BY DEF TypeInv, TypeOK
<1>1. ASSUME p \in Writer, PublishDelta(p) PROVE Listed
  <2> DEFINE h == task[p].key
  <2>1. manifest' = WithDelta(manifest, h)
    BY <1>1 DEF PublishDelta, Replace, Unchanged
  <2> HIDE DEF h
  <2> QED BY <2>1 DEF WithDelta, Successor, Archives, h
<1>2. ASSUME PublishMerged(p) PROVE Listed
  <2> DEFINE h == task[p].key
             K == task[p].run
  <2>1. manifest' = WithMerged(manifest, K, h, task[p].since)
    BY <1>2 DEF PublishMerged, Replace, Unchanged
  <2>2. manifest'.archives = [j \in Key |-> IF j = h THEN RunPlace(manifest, K)
                                            ELSE IF j \in K THEN 0 ELSE manifest.archives[j]]
    BY <2>1 DEF WithMerged, Successor
  <2> HIDE DEF h, K
  <2> QED BY <2>2 DEF Archives, h
<1>3. ASSUME PublishPruned(p) PROVE Listed
  <2> DEFINE now == task[p].since
  <2>1. manifest' = WithoutExpired(manifest, now) /\ now \in Nat
    BY <1>ok, <1>3 DEF PublishPruned, Replace, Unchanged, Task
  <2> HIDE DEF now
  <2>2. /\ Archives(manifest') = Live(manifest, now)
        /\ \A j \in Live(manifest, now) : manifest'.archives[j] = manifest.archives[j]
    BY <1>ok, <2>1, PrunedManifest
  <2> QED BY <2>2 DEF Live
<1>4. ASSUME PublishForgotten(p) PROVE Listed
  <2>1. manifest'.archives = manifest.archives
    BY <1>4 DEF PublishForgotten, Replace, Unchanged, WithoutRetired, Successor
  <2> QED BY <2>1 DEF Archives
<1> QED BY <1>1, <1>2, <1>3, <1>4

LEMMA ViewInvStep == TypeInv /\ ViewInv /\ [Next]_vars => ViewInv'
<1> SUFFICES ASSUME TypeInv, ViewInv, [Next]_vars PROVE ViewInv'
  OBVIOUS
<1>ok. /\ TypeOK /\ Used /\ task \in [Process -> Task] /\ clock \in Nat /\ manifest \in Manifest
       /\ archive \in Seq(Archive) /\ PlacesDiffer(manifest)
  BY DEF TypeInv, TypeOK, ViewInv
<1>up. \A p \in Process : Uploads(p)
  BY DEF ViewInv
<1>stay. ArchivesStay /\ clock <= clock'
  BY ArchivesStep
<1>two. Writer \cap Maintainer = {}
  BY ProcessesAssumption
<1>none. \A p \in Process :
           task[p].pc \notin {"merge", "publish", "replace"} => task[p].key = 0 /\ task[p].run = {}
  BY <1>up DEF Uploads, IsOwn, Combines
\* p goes on with nothing uploaded and nothing to merge.
<1>quiet. ASSUME NEW p \in Process,
                 \A q \in Process \ {p} : task'[q] = task[q],
                 \A w \in Writer \ {p} : kept'[w] = kept[w],
                 \/ manifest' = manifest
                 \/ \A k \in Archives(manifest') :
                      \/ k \in Archives(manifest) /\ manifest'.archives[k] = manifest.archives[k]
                      \/ k = task[p].key,
                 task'[p].key = 0, task'[p].run = {}, task'[p].since <= clock'
          PROVE  ViewInv'
  <2>1. Uploads(p)'
    BY <1>quiet, RestsUploads
  <2>2. \A k \in Archives(manifest') :
          \/ k \in Archives(manifest) /\ manifest'.archives[k] = manifest.archives[k]
          \/ k = task[p].key
    BY <1>quiet DEF Archives
  <2>3. /\ task'[p].run \subseteq task[p].run \cup Archives(manifest)
        /\ task'[p].key \in {0, task[p].key} \cup (Key \ DOMAIN archive)
    BY <1>quiet
  <2> QED BY <1>quiet, <2>1, <2>2, <2>3, ViewInvFrame
<1>rest. ASSUME NEW p \in Process, Rest(p), UNCHANGED <<manifest, clock>>,
                \A w \in Writer \ {p} : kept'[w] = kept[w]
         PROVE  ViewInv'
  <2>1. /\ \A q \in Process \ {p} : task'[q] = task[q]
        /\ task'[p].key = 0 /\ task'[p].run = {} /\ task'[p].since <= clock'
    BY <1>ok, <1>rest DEF Idle
  <2> QED BY <1>rest, <1>quiet, <2>1
\* p goes on from where it has nothing uploaded and nothing to merge.
<1>goes. ASSUME NEW p \in Process, task[p].pc \notin {"merge", "publish", "replace"},
                UNCHANGED <<manifest, clock>>,
                \A w \in Writer \ {p} : kept'[w] = kept[w],
                \A q \in Process \ {p} : task'[q] = task[q],
                task'[p].key \in {0, task[p].key}, task'[p].run \in {{}, task[p].run},
                task'[p].since \in {0, clock, task[p].since}
         PROVE  ViewInv'
  <2>1. task'[p].key = 0 /\ task'[p].run = {}
    BY <1>none, <1>goes
  <2>2. task'[p].since <= clock'
    BY <1>ok, <1>up, <1>goes DEF Uploads
  <2> QED BY <1>goes, <1>quiet, <2>1, <2>2
<1>1. ASSUME UNCHANGED <<archive, manifest, task, kept>> PROVE ViewInv'
  <2>1. PlacesDiffer(manifest)'
    BY <1>ok, <1>1 DEF PlacesDiffer, Archives
  <2>2. clock' \in Nat
    BY <1>ok, TypeInvStep DEF TypeInv, TypeOK
  <2>3. ASSUME NEW p \in Process PROVE Uploads(p)'
    <3>1. Uploads(p) /\ task[p].since \in Nat
      BY <1>ok, <1>up DEF Task
    <3>2. IsOwn(p)' /\ (p \in Writer => Flushes(p)')
      BY <1>1, <3>1 DEF Uploads, IsOwn, Flushes, Archives
    <3>3. Combines(p)'
      BY <1>1, <3>1 DEF Uploads, Combines, Archives, Whole, CopyIn, HoldersIn
    <3> QED BY <1>ok, <1>1, <1>stay, <2>2, <3>1, <3>2, <3>3 DEF Uploads
  <2> QED BY <2>1, <2>3 DEF ViewInv
<1>2. ASSUME Tick PROVE ViewInv'
  BY <1>1, <1>2 DEF Tick
<1>3. ASSUME NEW w \in Writer, NEW t, NEW c, Put(w, t, c) PROVE ViewInv'
  BY <1>1, <1>3 DEF Put
<1>4. ASSUME NEW p \in Process, ReadManifest(p) PROVE ViewInv'
  <2>1. /\ task'[p].pc = "replace" /\ task'[p].base = manifest /\ task[p].pc = "publish"
        /\ task'[p].key = task[p].key /\ task'[p].run = task[p].run
        /\ task'[p].since = task[p].since
        /\ \A q \in Process \ {p} : task'[q] = task[q]
        /\ UNCHANGED <<archive, manifest, kept, clock>>
        /\ Whole(manifest, task[p].run)
    BY <1>ok, <1>4 DEF ReadManifest, Task
  <2>2. Uploads(p)
    BY <1>up
  <2>3. IsOwn(p)' /\ (p \in Writer => Flushes(p)') /\ task'[p].since <= clock'
    <3>1. \A q \in Process : task'[q].run = task[q].run /\ task'[q].key = task[q].key
      BY <2>1
    <3> QED BY <2>1, <2>2, <3>1 DEF Uploads, IsOwn, Flushes, Archives
  <2>4. Combines(p)'
    <3>1. Whole(task[p].base, task[p].run)'
      BY <2>1 DEF Whole, Archives
    <3> QED BY <2>1, <2>2, <3>1 DEF Uploads, Combines, Archives, CopyIn, HoldersIn
  <2>5. Uploads(p)'
    BY <2>3, <2>4 DEF Uploads
  <2> QED BY <2>1, <2>5, ViewInvFrame DEF Archives
<1>5. ASSUME NEW p \in Process, Conflict(p) PROVE ViewInv'
  <2>1. /\ task'[p].pc = "publish" /\ task[p].pc = "replace"
        /\ task'[p].key = task[p].key /\ task'[p].run = task[p].run
        /\ task'[p].since = task[p].since
        /\ \A q \in Process \ {p} : task'[q] = task[q]
        /\ UNCHANGED <<archive, manifest, kept, clock>>
    BY <1>ok, <1>5 DEF Conflict, Task
  <2>2. Uploads(p)
    BY <1>up
  <2>3. IsOwn(p)' /\ (p \in Writer => Flushes(p)') /\ task'[p].since <= clock'
    <3>1. \A q \in Process : task'[q].run = task[q].run /\ task'[q].key = task[q].key
      BY <2>1
    <3> QED BY <2>1, <2>2, <3>1 DEF Uploads, IsOwn, Flushes, Archives
  <2>4. Combines(p)'
    BY <2>1, <2>2 DEF Uploads, Combines, Archives, CopyIn, HoldersIn
  <2>5. Uploads(p)'
    BY <2>3, <2>4 DEF Uploads
  <2> QED BY <2>1, <2>5, ViewInvFrame DEF Archives
<1>6. ASSUME NEW w \in Writer, Freeze(w) PROVE ViewInv'
  BY <1>ok, <1>6, <1>goes DEF Freeze, Task
<1>7. ASSUME NEW w \in Writer, NEW unread, Compare(w, unread) PROVE ViewInv'
  <2>1. /\ UNCHANGED <<manifest, clock>> /\ \A v \in Writer \ {w} : kept'[v] = kept[v]
        /\ task[w].pc = "compare"
        /\ Rest(w) \/ task' = [task EXCEPT ![w].pc = "upload"]
    BY <1>ok, <1>7 DEF Compare, TypeOK
  <2>2. CASE task' = [task EXCEPT ![w].pc = "upload"]
    BY <1>ok, <1>goes, <2>1, <2>2 DEF Task
  <2> QED BY <1>rest, <2>1, <2>2
<1>8. ASSUME NEW w \in Writer, EndFlush(w) \/ PutBack(w) \/ Crash(w) PROVE ViewInv'
  <2>1. /\ UNCHANGED <<manifest, clock>> /\ \A v \in Writer \ {w} : kept'[v] = kept[v]
        /\ Rest(w)
    <3>1. CASE EndFlush(w)
      BY <1>ok, <3>1 DEF EndFlush, TypeOK
    <3>2. CASE PutBack(w)
      BY <1>ok, <3>2 DEF PutBack, TypeOK
    <3>3. CASE Crash(w)
      BY <1>ok, <3>3 DEF Crash, TypeOK
    <3> QED BY <1>8, <3>1, <3>2, <3>3
  <2> QED BY <1>rest, <2>1
<1>9. ASSUME NEW p \in Maintainer, Abort(p) PROVE ViewInv'
  BY <1>9, <1>rest DEF Abort
<1>10. ASSUME NEW p \in Maintainer, Prune(p) PROVE ViewInv'
  BY <1>ok, <1>10, <1>goes DEF Prune, Task
<1>11. ASSUME NEW p \in Maintainer, Nothing(p) PROVE ViewInv'
  BY <1>ok, <1>11, <1>goes DEF Nothing, Task
<1>12. ASSUME NEW p \in Maintainer, Cleanup(p) \/ Refused(p) PROVE ViewInv'
  <2>1. /\ UNCHANGED <<manifest, clock, kept>> /\ \A q \in Process \ {p} : task'[q] = task[q]
        /\ task'[p].key = 0 /\ task'[p].run = {} /\ task'[p].since = clock
    <3>1. CASE Cleanup(p)
      BY <1>ok, <3>1 DEF Cleanup, Idle
    <3>2. CASE Refused(p)
      BY <1>ok, <3>2 DEF Refused, Idle
    <3> QED BY <1>12, <3>1, <3>2
  <2> QED BY <1>ok, <1>quiet, <2>1
<1>13. ASSUME NEW p \in Maintainer, Delete(p) \/ Know(p) \/ List(p) \/ KeepOrphan(p) PROVE ViewInv'
  BY <1>ok, <1>13, <1>goes DEF Delete, Know, List, KeepOrphan, Task
<1>14. ASSUME NEW p \in Maintainer, EndCleanup(p) PROVE ViewInv'
  BY <1>ok, <1>14, <1>goes DEF EndCleanup, Task, Idle
<1>15. ASSUME NEW p \in Maintainer, Superseded(p) PROVE ViewInv'
  <2>1. /\ UNCHANGED <<manifest, clock, kept>> /\ \A q \in Process \ {p} : task'[q] = task[q]
        /\ task'[p].key = 0 /\ task'[p].run = {} /\ task'[p].since <= clock'
    BY <1>ok, <1>15 DEF Superseded, Idle
  <2> QED BY <1>quiet, <2>1
<1>16. ASSUME NEW p \in Process,
              \/ p \in Writer /\ PublishDelta(p)
              \/ p \in Maintainer /\ (PublishMerged(p) \/ PublishPruned(p))
       PROVE  ViewInv'
  <2>1. /\ UNCHANGED <<clock, kept>> /\ \A q \in Process \ {p} : task'[q] = task[q]
        /\ task'[p].key = 0 /\ task'[p].run = {} /\ task'[p].since <= clock'
    BY <1>ok, <1>16 DEF PublishDelta, PublishMerged, PublishPruned, Replace, Idle
  <2>2. \A k \in Archives(manifest') :
          \/ k \in Archives(manifest) /\ manifest'.archives[k] = manifest.archives[k]
          \/ k = task[p].key
    BY <1>16, PublishedLists
  <2> QED BY <1>quiet, <2>1, <2>2
<1>17. ASSUME NEW p \in Maintainer, PublishForgotten(p) PROVE ViewInv'
  <2>1. /\ UNCHANGED <<clock, kept>> /\ \A q \in Process \ {p} : task'[q] = task[q]
        /\ task'[p].key = task[p].key /\ task'[p].run = {} /\ task[p].run = {}
        /\ task'[p].since = task[p].since
    BY <1>ok, <1>17 DEF PublishForgotten, Replace, Task
  <2>2. task[p].key = 0 /\ task[p].since <= clock
    BY <1>up, <1>two, <2>1 DEF Uploads, IsOwn
  <2>3. \A k \in Archives(manifest') :
          \/ k \in Archives(manifest) /\ manifest'.archives[k] = manifest.archives[k]
          \/ k = task[p].key
    BY <1>17, PublishedLists
  <2> QED BY <1>quiet, <2>1, <2>2, <2>3
<1>18. ASSUME NEW p \in Maintainer, Select(p) PROVE ViewInv'
  <2>1. PICK K \in Runs(manifest, clock) :
          task' = [task EXCEPT ![p] = [Idle EXCEPT !.pc = "merge", !.run = K,
                                                   !.since = clock, !.base = manifest]]
    BY <1>18 DEF Select
  <2>2. /\ task'[p].pc = "merge" /\ task'[p].run = K /\ task'[p].base = manifest
        /\ task'[p].key = 0 /\ task'[p].since = clock
        /\ \A q \in Process \ {p} : task'[q] = task[q]
        /\ UNCHANGED <<archive, manifest, kept, clock>>
    BY <1>ok, <1>18, <2>1 DEF Select, Idle
  <2>3. K \subseteq Archives(manifest) /\ \A j, k \in K : archive[j].epoch = archive[k].epoch
    BY DEF Runs, Live
  <2>4. IsOwn(p)' /\ (p \in Writer => Flushes(p)') /\ task'[p].since <= clock'
    BY <1>ok, <1>two, <2>2 DEF IsOwn
  <2>5. Combines(p)'
    BY <2>2, <2>3 DEF Combines
  <2>6. Uploads(p)'
    BY <2>4, <2>5 DEF Uploads
  <2> QED BY <2>2, <2>3, <2>6, ViewInvFrame DEF Archives
\* p uploads an archive.
<1>19. ASSUME NEW p \in Process, NEW tiles \in Contents, NEW epoch \in Nat, NEW oldest \in Nat,
              Store(p, tiles, epoch, oldest), UNCHANGED <<clock, manifest, kept>>,
              p \in Writer \/ task[p].run # {},
              p \in Writer => Flushes(p) /\ tiles = kept[p],
              \A k \in task[p].run : epoch = archive[k].epoch,
              task[p].run # {} /\ task[p].run \subseteq Archives(manifest) =>
                \A t \in Tile : tiles[t] = CopyIn(archive, manifest, task[p].run, t)
       PROVE  ViewInv'
  <2> DEFINE h == Len(archive) + 1
             K == task[p].run
  <2>0. /\ h \in Key /\ h \notin DOMAIN archive
        /\ archive'[h] = [tiles |-> tiles, epoch |-> epoch, oldest |-> oldest, modified |-> clock]
        /\ task'[p].pc = "publish" /\ task'[p].key = h
        /\ task'[p].run = K /\ task'[p].since = task[p].since
        /\ \A q \in Process \ {p} : task'[q] = task[q]
        /\ \A j \in DOMAIN archive : archive'[j] = archive[j]
    BY <1>19, StoreType
  <2> HIDE DEF h
  <2>1. /\ h \in Key /\ h \notin DOMAIN archive /\ h # 0
        /\ archive'[h].tiles = tiles /\ archive'[h].epoch = epoch
        /\ task'[p].pc = "publish" /\ task'[p].key = h
        /\ task'[p].run = K /\ task'[p].since = task[p].since
        /\ \A q \in Process \ {p} : task'[q] = task[q]
        /\ \A j \in DOMAIN archive : archive'[j] = archive[j]
    BY <2>0 DEF Key
  <2>2. /\ Archives(manifest) \subseteq DOMAIN archive
        /\ \A q \in Process : task[q].run \subseteq DOMAIN archive
                              /\ task[q].key \in DOMAIN archive \cup {0}
    BY <1>ok DEF Used, Uses, Named
  <2>3. IsOwn(p)'
    <3>1. \A q \in Process : task'[q].run = task[q].run
      BY <2>1
    <3> QED BY <1>19, <2>1, <2>2, <3>1 DEF IsOwn, Archives
  <2>4. p \in Writer => Flushes(p)'
    BY <1>19, <2>1 DEF Flushes
  <2>5. Combines(p)'
    <3>1. SUFFICES ASSUME K # {} PROVE Combines(p)'
      BY <2>1 DEF Combines
    <3>2. \A j, k \in K : archive'[j].epoch = archive'[k].epoch
      BY <1>up, <2>1, <2>2, <3>1 DEF Uploads, Combines
    <3>3. \A k \in K : archive'[h].epoch = archive'[k].epoch
      BY <1>19, <2>1, <2>2
    <3>4. ASSUME K \subseteq Archives(manifest'), NEW t \in Tile
          PROVE  archive'[h].tiles[t] = CopyIn(archive', manifest', K, t)
      <4>1. Differ(manifest, K) /\ K \subseteq Archives(manifest)
        BY <1>ok, <1>19, <3>4 DEF PlacesDiffer, Differ
      <4>2. \A k \in K : archive'[k] = archive[k] /\ manifest'.archives[k] = manifest.archives[k]
        BY <1>19, <2>1, <2>2
      <4>3. K \in SUBSET Key /\ manifest' \in Manifest
        BY <1>ok, <1>19 DEF Task
      <4>4. archive'[h].tiles[t] = CopyIn(archive, manifest, K, t)
        BY <1>19, <2>1, <3>1, <4>1
      <4> HIDE DEF K
      <4>5. CopyIn(archive', manifest', K, t) = CopyIn(archive, manifest, K, t)
        BY <1>ok, <4>1, <4>2, <4>3, CopySame
      <4> QED BY <4>4, <4>5
    <3> HIDE DEF K
    <3> QED BY <2>1, <3>2, <3>3, <3>4 DEF Combines
  <2>6. Uploads(p)'
    BY <1>up, <1>19, <2>1, <2>3, <2>4, <2>5 DEF Uploads
  <2>7. \A w \in Writer \ {p} : kept'[w] = kept[w]
    BY <1>19
  <2>8. \A k \in Archives(manifest') :
          k \in Archives(manifest) /\ manifest'.archives[k] = manifest.archives[k]
    BY <1>19
  <2>9. task'[p].run \subseteq task[p].run \cup Archives(manifest)
        /\ task'[p].key \in {0, task[p].key} \cup (Key \ DOMAIN archive)
    BY <2>1
  <2> HIDE DEF K
  <2> QED BY <2>1, <2>6, <2>7, <2>8, <2>9, ViewInvFrame
<1>20. ASSUME NEW p \in Writer, Upload(p) PROVE ViewInv'
  <2>1. TilesOf(kept[p]) # {} /\ kept[p] \in Contents /\ task[p].since \in Nat
    BY <1>ok, <1>20 DEF Upload, Used, Uses, TypeOK, Task
  <2>2. Oldest(kept[p]) \in Nat /\ Epoch(task[p].since) \in Nat
    BY <2>1, OldestIsLeast, EpochType
  <2>3. Flushes(p) /\ task[p].run = {}
    BY <1>up DEF Uploads, Flushes
  <2>4. Store(p, kept[p], Epoch(task[p].since), Oldest(kept[p])) /\ UNCHANGED <<clock, manifest, kept>>
    BY <1>20 DEF Upload
  <2> QED BY <1>19, <2>1, <2>2, <2>3, <2>4
<1>21. ASSUME NEW p \in Maintainer, Merge(p) PROVE ViewInv'
  <2> DEFINE K == task[p].run
             b == task[p].base
             e == archive[CHOOSE i \in K : TRUE].epoch
  <2>1. /\ K # {} /\ K \subseteq DOMAIN archive /\ K \in SUBSET Key /\ b \in Manifest
        /\ task[p].pc = "merge"
    BY <1>ok, <1>21 DEF Merge, TypeOK, Task, Used, Uses
  <2>2. Merged(b, K) \in Contents /\ OldestOf(K) \in Nat
    BY <1>ok, <2>1, MergedType, OldestOfIsLeast
  <2>3. e \in Nat /\ \A k \in K : e = archive[k].epoch
    <3>1. \A j, k \in K : archive[j].epoch = archive[k].epoch
      BY <1>up, <2>1 DEF Uploads, Combines
    <3>2. (CHOOSE i \in K : TRUE) \in K
      BY <2>1
    <3> QED BY <1>ok, <2>1, <3>1, <3>2, ArchiveElement DEF Archive
  <2>4. Store(p, Merged(b, K), e, OldestOf(K)) /\ UNCHANGED <<clock, manifest, kept>>
    BY <1>21 DEF Merge
  <2>5. K \subseteq Archives(manifest) =>
          \A t \in Tile : Merged(b, K)[t] = CopyIn(archive, manifest, K, t)
    <3>1. SUFFICES ASSUME K \subseteq Archives(manifest), NEW t \in Tile
                   PROVE  Merged(b, K)[t] = CopyIn(archive, manifest, K, t)
      OBVIOUS
    <3>2. \A k \in K : b.archives[k] = manifest.archives[k]
      BY <1>up, <2>1, <3>1 DEF Uploads, Combines
    <3>3. Differ(manifest, K)
      BY <1>ok, <3>1 DEF PlacesDiffer, Differ
    <3> HIDE DEF K, b
    <3>4. CopyIn(archive, b, K, t) = CopyIn(archive, manifest, K, t)
      BY <1>ok, <2>1, <3>2, <3>3, CopySame
    <3> QED BY <3>4, MergedIsCopy
  <2>6. p \notin Writer
    BY <1>two
  <2> HIDE DEF b, e
  <2> QED BY <1>19, <2>1, <2>2, <2>3, <2>4, <2>5, <2>6
<1>22. CASE UNCHANGED vars
  BY <1>1, <1>22 DEF vars
<1> QED
  <2>1. ASSUME NEW w \in Writer, WriterStep(w) PROVE ViewInv'
    BY <1>4, <1>5, <1>6, <1>7, <1>8, <1>16, <1>20, <2>1 DEF WriterStep, Publishing
  <2>2. ASSUME NEW m \in Maintainer, MaintainerStep(m) PROVE ViewInv'
    BY <1>4, <1>5, <1>10, <1>11, <1>12, <1>13, <1>14, <1>15, <1>16, <1>17, <1>18, <1>21, <2>2
    DEF MaintainerStep, Publishing
  <2> QED BY <1>2, <1>3, <1>8, <1>9, <1>12, <1>13, <1>22, <2>1, <2>2 DEF Next

-----------------------------------------------------------------------------
(* What each publication makes of what a reader gets.                       *)

Now == LiveIn(archive, manifest, clock)
Then == LiveIn(archive', manifest', clock')

LEMMA ViewFacts ==
  ASSUME TypeInv, ViewInv, [Next]_vars
  PROVE  /\ manifest \in Manifest /\ manifest' \in Manifest /\ clock \in Nat
         /\ Now \in SUBSET Key /\ Then \in SUBSET Key
         /\ Differ(manifest, Now)
         /\ Archives(manifest) \subseteq DOMAIN archive
         /\ \A k \in Archives(manifest) : archive'[k] = archive[k]
<1>1. TypeInv' /\ ArchivesStay
  BY TypeInvStep, ArchivesStep
<1>2. Now \in SUBSET Key /\ Then \in SUBSET Key /\ Now \subseteq Archives(manifest)
  BY DEF Now, Then, LiveIn, Archives
<1>3. Archives(manifest) \subseteq DOMAIN archive
  BY DEF TypeInv, Used, Named
<1> QED BY <1>1, <1>2, <1>3 DEF TypeInv, TypeOK, ArchivesStay, ViewInv, PlacesDiffer, Differ

(* The same live archives in the same places: the same copies.              *)
LEMMA SameView ==
  ASSUME TypeInv, ViewInv, [Next]_vars, NEW t \in Tile,
         Then = Now, \A k \in Now : manifest'.archives[k] = manifest.archives[k]
  PROVE  View'[t] = View[t]
<1>1. /\ manifest \in Manifest /\ manifest' \in Manifest /\ Now \in SUBSET Key
      /\ Differ(manifest, Now) /\ \A k \in Archives(manifest) : archive'[k] = archive[k]
  BY ViewFacts
<1>2. \A k \in Now : archive'[k] = archive[k]
  BY <1>1 DEF Now, LiveIn
<1>3. View[t] = CopyIn(archive, manifest, Now, t) /\ View'[t] = CopyIn(archive', manifest', Then, t)
  BY ViewIsCopy DEF Now, Then
<1> HIDE DEF Now, Then
<1> QED BY <1>1, <1>2, <1>3, CopySame

LEMMA SameListView ==
  ASSUME TypeInv, ViewInv, [Next]_vars, NEW t \in Tile,
         clock' = clock, manifest'.archives = manifest.archives
  PROVE  View'[t] = View[t]
<1>1. \A k \in Archives(manifest) : archive'[k] = archive[k]
  BY ViewFacts
<1>2. Then = Now /\ \A k \in Now : manifest'.archives[k] = manifest.archives[k]
  BY <1>1 DEF Now, Then, LiveIn, Archives
<1> QED BY <1>2, SameView

LEMMA DeltaView ==
  ASSUME TypeInv, ViewInv, [Next]_vars, NEW t \in Tile, NEW w \in Writer, PublishDelta(w)
  PROVE  \/ View'[t] = View[t]
         \/ kept[w][t] # NoCopy /\ View'[t] = kept[w][t]
<1> DEFINE h == task[w].key
<1>ok. TypeOK /\ Used /\ manifest \in Manifest /\ task \in [Process -> Task] /\ Uploads(w)
  BY DEF TypeInv, TypeOK, ViewInv
<1>1. /\ manifest' = WithDelta(manifest, h) /\ archive' = archive /\ clock' = clock
      /\ task[w].pc = "replace"
  BY DEF PublishDelta, Replace, Unchanged
<1>2. h \in Key /\ h # 0
  BY <1>ok, <1>1 DEF Used, Uses, Task, Key
<1>3. h \notin Archives(manifest) /\ archive[h].tiles = kept[w]
  BY <1>ok, <1>2 DEF Uploads, IsOwn, Flushes
<1>4. /\ manifest \in Manifest /\ manifest' \in Manifest /\ Now \in SUBSET Key
      /\ Differ(manifest, Now) /\ Now \subseteq Archives(manifest)
  BY ViewFacts DEF Now, LiveIn
<1> HIDE DEF h
<1>5. /\ Archives(manifest') = Archives(manifest) \cup {h}
      /\ \A j \in Key \ {h} : manifest'.archives[j] = manifest.archives[j]
      /\ \A j \in Key \ {h} : manifest'.archives[j] < manifest'.archives[h]
  BY <1>1, <1>2, <1>4, DeltaManifest
<1>6. CASE IsExpired(archive[h].epoch, clock)
  <2>1. Then = Now
    BY <1>1, <1>5, <1>6 DEF Now, Then, LiveIn
  <2> QED BY <1>3, <1>4, <1>5, <2>1, SameView
<1>7. CASE ~IsExpired(archive[h].epoch, clock)
  <2>1. Then = Now \cup {h}
    BY <1>1, <1>5, <1>7 DEF Now, Then, LiveIn
  <2>2. h \in Key \ Now
    BY <1>2, <1>3, <1>4
  <2>3. View[t] = CopyIn(archive, manifest, Now, t) /\ View'[t] = CopyIn(archive, manifest', Then, t)
    BY <1>1, ViewIsCopy DEF Now, Then
  <2> HIDE DEF Now, Then
  <2>4. \A j \in Now : manifest'.archives[j] = manifest.archives[j]
                       /\ manifest'.archives[j] < manifest'.archives[h]
    BY <1>4, <1>5, <2>2
  <2>5. View'[t] = IF archive[h].tiles[t] # NoCopy THEN archive[h].tiles[t] ELSE View[t]
    BY <1>4, <2>1, <2>2, <2>3, <2>4, CopyAppended
  <2> QED BY <1>3, <2>5
<1> QED BY <1>6, <1>7

(* What a merge that is about to be published puts in its run's place.      *)
LEMMA MergeFacts ==
  ASSUME TypeInv, ViewInv, NEW m \in Maintainer, PublishMerged(m)
  PROVE  LET h == task[m].key
             K == task[m].run
         IN  /\ h \in Key /\ h \notin Archives(manifest)
             /\ K # {} /\ K \in SUBSET Archives(manifest) /\ Whole(manifest, K)
             /\ manifest' = WithMerged(manifest, K, h, task[m].since)
             /\ archive' = archive /\ clock' = clock
             /\ Archives(manifest') = (Archives(manifest) \ K) \cup {h}
             /\ \E i \in K : manifest'.archives[h] = manifest.archives[i]
             /\ \A j \in Key \ (K \cup {h}) : manifest'.archives[j] = manifest.archives[j]
             /\ \A k \in K : archive[h].epoch = archive[k].epoch
             /\ \A t \in Tile : archive[h].tiles[t] = CopyIn(archive, manifest, K, t)
<1> DEFINE h == task[m].key
           K == task[m].run
           now == task[m].since
<1>ok. TypeOK /\ Used /\ manifest \in Manifest /\ task \in [Process -> Task] /\ Uploads(m)
  BY DEF TypeInv, TypeOK, ViewInv
<1>1. /\ manifest' = WithMerged(manifest, K, h, now) /\ archive' = archive /\ clock' = clock
      /\ task[m].pc = "replace" /\ task[m].base = manifest /\ K # {} /\ now \in Nat
  BY <1>ok DEF PublishMerged, Replace, Unchanged, Task
<1>2. h \in Key /\ h # 0 /\ K \in SUBSET Archives(manifest)
  BY <1>ok, <1>1 DEF Used, Uses, Task, Key
<1>3. /\ h \notin Archives(manifest) /\ Whole(manifest, K)
      /\ \A k \in K : archive[h].epoch = archive[k].epoch
      /\ \A t \in Tile : archive[h].tiles[t] = CopyIn(archive, manifest, K, t)
  BY <1>ok, <1>1, <1>2 DEF Uploads, IsOwn, Combines
<1> HIDE DEF h, K, now
<1>4. PICK i \in K : RunPlace(manifest, K) = manifest.archives[i]
  BY <1>1 DEF RunPlace
<1>5. manifest'.archives = [j \in Key |-> IF j = h THEN manifest.archives[i]
                                          ELSE IF j \in K THEN 0 ELSE manifest.archives[j]]
  BY <1>1, <1>4 DEF WithMerged, Successor
<1>6. i \in Archives(manifest)
  BY <1>2
<1>7. /\ Archives(manifest') = (Archives(manifest) \ K) \cup {h}
      /\ \E g \in K : manifest'.archives[h] = manifest.archives[g]
      /\ \A j \in Key \ (K \cup {h}) : manifest'.archives[j] = manifest.archives[j]
  BY <1>2, <1>5, <1>6 DEF Archives
<1> QED BY <1>1, <1>2, <1>3, <1>7 DEF h, K, now

LEMMA MergedView ==
  ASSUME TypeInv, ViewInv, [Next]_vars, NEW t \in Tile, NEW m \in Maintainer, PublishMerged(m)
  PROVE  View'[t] = View[t]
<1> DEFINE h == task[m].key
           K == task[m].run
<1>1. /\ h \in Key /\ h \notin Archives(manifest)
      /\ K # {} /\ K \in SUBSET Archives(manifest) /\ Whole(manifest, K)
      /\ archive' = archive /\ clock' = clock
      /\ Archives(manifest') = (Archives(manifest) \ K) \cup {h}
      /\ \E i \in K : manifest'.archives[h] = manifest.archives[i]
      /\ \A j \in Key \ (K \cup {h}) : manifest'.archives[j] = manifest.archives[j]
      /\ \A k \in K : archive[h].epoch = archive[k].epoch
      /\ archive[h].tiles[t] = CopyIn(archive, manifest, K, t)
  BY MergeFacts
<1>2. /\ manifest \in Manifest /\ manifest' \in Manifest /\ Now \in SUBSET Key
      /\ Differ(manifest, Now) /\ Now \subseteq Archives(manifest)
  BY ViewFacts DEF Now, LiveIn
<1> HIDE DEF h, K
<1>3. PICK i \in K : manifest'.archives[h] = manifest.archives[i]
  BY <1>1
<1>4. CASE IsExpired(archive[h].epoch, clock)
  <2>1. Then = Now /\ Now \cap K = {} /\ h \notin Now
    BY <1>1, <1>4 DEF Now, Then, LiveIn
  <2> QED BY <1>1, <1>2, <2>1, SameView
<1>5. CASE ~IsExpired(archive[h].epoch, clock)
  <2>1. Then = (Now \ K) \cup {h} /\ K \subseteq Now /\ h \in Key \ Now
    BY <1>1, <1>5 DEF Now, Then, LiveIn
  <2>2. View[t] = CopyIn(archive, manifest, Now, t) /\ View'[t] = CopyIn(archive, manifest', Then, t)
    BY <1>1, ViewIsCopy DEF Now, Then
  <2>3. \A j \in Now \ K : \/ \A g \in K : manifest.archives[j] < manifest.archives[g]
                           \/ \A g \in K : manifest.archives[j] > manifest.archives[g]
    BY <1>1, <1>2 DEF Whole
  <2>4. \A j \in Now \ K : manifest'.archives[j] = manifest.archives[j]
    BY <1>1, <1>2, <2>1
  <2> HIDE DEF Now, Then
  <2> QED BY <1>1, <1>2, <1>3, <2>1, <2>2, <2>3, <2>4, CopyReplaced
<1> QED BY <1>4, <1>5

LEMMA PrunedView ==
  ASSUME TypeInv, ViewInv, [Next]_vars, NEW m \in Maintainer, PublishPruned(m)
  PROVE  /\ clock' = clock /\ archive' = archive
         /\ Then = Now /\ \A k \in Now : manifest'.archives[k] = manifest.archives[k]
         /\ \A k \in Archives(manifest) \ Archives(manifest') : IsExpired(archive[k].epoch, clock)
         /\ \A t \in Tile : View'[t] = View[t]
<1> DEFINE now == task[m].since
<1>ok. /\ TypeOK /\ Used /\ manifest \in Manifest /\ task \in [Process -> Task] /\ Uploads(m)
       /\ clock \in Nat /\ archive \in Seq(Archive)
  BY DEF TypeInv, TypeOK, ViewInv
<1>1. /\ manifest' = WithoutExpired(manifest, now) /\ now \in Nat /\ now <= clock
      /\ archive' = archive /\ clock' = clock
  BY <1>ok DEF PublishPruned, Replace, Unchanged, Task, Uploads
<1> HIDE DEF now
<1>2. /\ Archives(manifest') = Live(manifest, now)
      /\ \A j \in Live(manifest, now) : manifest'.archives[j] = manifest.archives[j]
  BY <1>ok, <1>1, PrunedManifest
<1>3. \A k \in Archives(manifest) : IsExpired(archive[k].epoch, now) => IsExpired(archive[k].epoch, clock)
  <2> TAKE k \in Archives(manifest)
  <2>1. archive[k].epoch \in Nat
    BY <1>ok, ViewFacts, ArchiveElement DEF Archive
  <2> QED BY <1>ok, <1>1, <2>1, ExpiryGrows
<1>4. Then = Now /\ Now \subseteq Live(manifest, now)
  BY <1>1, <1>2, <1>3 DEF Now, Then, LiveIn, Live
<1>5. \A t \in Tile : View'[t] = View[t]
  BY <1>2, <1>4, SameView
<1>6. \A k \in Archives(manifest) \ Archives(manifest') : IsExpired(archive[k].epoch, clock)
  <2> TAKE k \in Archives(manifest) \ Archives(manifest')
  <2>1. k \in Archives(manifest) /\ k \notin Live(manifest, now)
    BY <1>2
  <2> QED BY <1>3, <2>1 DEF Live
<1> QED BY <1>1, <1>2, <1>4, <1>5, <1>6

LEMMA Publications ==
  ASSUME [Next]_vars
  PROVE  \/ manifest' = manifest
         \/ \E w \in Writer : PublishDelta(w)
         \/ \E m \in Maintainer : PublishMerged(m) \/ PublishPruned(m) \/ PublishForgotten(m)
BY DEF Next, WriterStep, MaintainerStep, Publishing, vars, Tick, Put, Freeze, Compare,
       Upload, ReadManifest, Conflict, EndFlush, PutBack, Crash,
       Prune, Select, Nothing, Merge, Superseded, Cleanup,
       Refused, Delete, Know, List, KeepOrphan, EndCleanup, Abort

OnlyFlushes ==
  clock' = clock =>
    \A t \in Tile :
      View'[t] # View[t] =>
        \E w \in Writer :
          /\ At(w, "replace") /\ At(w, "announce")'
          /\ kept[w][t] # NoCopy
          /\ View'[t] = kept[w][t]

LEMMA OnlyFlushesStep == TypeInv /\ ViewInv /\ [Next]_vars => OnlyFlushes
<1> SUFFICES ASSUME TypeInv, ViewInv, [Next]_vars, clock' = clock,
                    NEW t \in Tile, View'[t] # View[t]
             PROVE  \E w \in Writer :
                      /\ At(w, "replace") /\ At(w, "announce")'
                      /\ kept[w][t] # NoCopy
                      /\ View'[t] = kept[w][t]
  BY DEF OnlyFlushes
<1>1. manifest' # manifest
  BY SameListView
<1>2. ~ \E m \in Maintainer : PublishMerged(m) \/ PublishPruned(m)
  BY MergedView, PrunedView
<1>3. ASSUME NEW m \in Maintainer, PublishForgotten(m) PROVE FALSE
  <2>1. manifest'.archives = manifest.archives
    BY <1>3 DEF PublishForgotten, Replace, Unchanged, WithoutRetired, Successor
  <2> QED BY <2>1, SameListView
<1>4. PICK w \in Writer : PublishDelta(w)
  BY <1>1, <1>2, <1>3, Publications
<1>5. At(w, "replace") /\ task' = [task EXCEPT ![w] = [Idle EXCEPT !.pc = "announce"]]
  BY <1>4 DEF PublishDelta
<1>6. At(w, "announce")'
  BY <1>5 DEF TypeInv, TypeOK, Idle
<1>7. kept[w][t] # NoCopy /\ View'[t] = kept[w][t]
  BY <1>4, DeltaView
<1> QED BY <1>5, <1>6, <1>7

(* Between ticks nothing but the publication of a flush changes the copy a  *)
(* reader gets of a tile, whatever merges, prunes and races there are on    *)
(* the manifest (publish, merge_run, prune_expired).                        *)
THEOREM OnlyFlushesChangeTheViewCorrect == Spec => OnlyFlushesChangeTheView
<1>1. Init => TypeInv /\ ViewInv
  BY TypeInvInit, ViewInvInit
<1>2. TypeInv /\ ViewInv /\ [Next]_vars => (TypeInv /\ ViewInv)'
  BY TypeInvStep, ViewInvStep
<1>3. TypeInv /\ ViewInv /\ [Next]_vars =>
        (clock' = clock =>
           \A t \in Tile :
             View'[t] # View[t] =>
               \E w \in Writer :
                 /\ At(w, "replace") /\ At(w, "announce")'
                 /\ kept[w][t] # NoCopy
                 /\ View'[t] = kept[w][t])
  BY OnlyFlushesStep DEF OnlyFlushes
<1> QED BY <1>1, <1>2, <1>3, PTL DEF Spec, OnlyFlushesChangeTheView

LEMMA AliveStill ==
  ASSUME NEW e \in Nat, NEW now \in Nat, Expires => now <= (e + 1) * EpochLength + Expiry
  PROVE  ~IsExpired(e, now)
<1> SUFFICES ASSUME IsExpired(e, now) PROVE FALSE
  OBVIOUS
<1> DEFINE s == (e + 1) * EpochLength
<1>1. s \in Nat /\ Expiry \in Nat
  BY TimesAssumption
<1>2. Expires /\ now - s > Expiry
  BY DEF IsExpired
<1>3. now <= s + Expiry
  BY <1>2
<1> HIDE DEF s
<1> QED BY <1>1, <1>2, <1>3

LEMMA LiveOutStep ==
  ASSUME TypeInv, ViewInv, [Next]_vars, NEW k \in Archives(manifest),
         ~IsExpired(archive[k].epoch, clock')
  PROVE  TilesOf(archive[k].tiles) \subseteq TilesOf(View')
<1> SUFFICES ASSUME NEW t \in Tile, archive[k].tiles[t] # NoCopy PROVE View'[t] # NoCopy
  BY DEF TilesOf
<1>ok. /\ manifest \in Manifest /\ manifest' \in Manifest /\ Then \in SUBSET Key
       /\ archive'[k] = archive[k]
  BY ViewFacts
<1>1. View'[t] = CopyIn(archive', manifest', Then, t)
  BY ViewIsCopy DEF Then
<1>2. CASE k \in Archives(manifest')
  <2>1. k \in Then
    BY <1>ok, <1>2 DEF Then, LiveIn
  <2> HIDE DEF Then
  <2> QED BY <1>ok, <1>1, <2>1, CopyThere
<1>3. ASSUME k \notin Archives(manifest'), NEW m \in Maintainer, PublishMerged(m)
      PROVE  View'[t] # NoCopy
  <2> DEFINE h == task[m].key
             K == task[m].run
  <2>1. /\ K \in SUBSET Archives(manifest)
        /\ archive' = archive
        /\ Archives(manifest') = (Archives(manifest) \ K) \cup {h}
        /\ \A j \in K : archive[h].epoch = archive[j].epoch
        /\ archive[h].tiles[t] = CopyIn(archive, manifest, K, t)
    BY <1>3, MergeFacts
  <2> HIDE DEF h, K
  <2>2. k \in K /\ K \in SUBSET Key
    BY <1>3, <2>1 DEF Archives
  <2>3. archive[h].tiles[t] # NoCopy
    BY <1>ok, <2>1, <2>2, CopyThere
  <2>4. h \in Then
    BY <2>1, <2>2 DEF Then, LiveIn
  <2> HIDE DEF Then
  <2> QED BY <1>ok, <1>1, <2>1, <2>3, <2>4, CopyThere
<1>4. ASSUME k \notin Archives(manifest'), NEW m \in Maintainer, PublishPruned(m) PROVE FALSE
  BY <1>4, PrunedView
<1>5. ASSUME NEW w \in Writer, PublishDelta(w) PROVE k \in Archives(manifest')
  <2> DEFINE h == task[w].key
  <2>1. manifest' = WithDelta(manifest, h) /\ h \in Key
    BY <1>5 DEF PublishDelta, Replace, Unchanged, TypeInv, TypeOK, Used, Uses, Task
  <2> HIDE DEF h
  <2> QED BY <1>ok, <2>1, DeltaManifest
<1>6. ASSUME NEW m \in Maintainer, PublishForgotten(m) PROVE k \in Archives(manifest')
  <2>1. manifest'.archives = manifest.archives
    BY <1>6 DEF PublishForgotten, Replace, Unchanged, WithoutRetired, Successor
  <2> QED BY <2>1 DEF Archives
<1> QED BY <1>2, <1>3, <1>4, <1>5, <1>6, Publications

(* A tile leaves a reader's view only once the expiry has passed since the   *)
(* end of the epoch of every archive that holds it: a merge keeps what it    *)
(* replaces, and a prune removes what has expired by the reader's clock too. *)
THEOREM TilesLiveOutTheirEpochCorrect == Spec => TilesLiveOutTheirEpoch
<1>1. Init => TypeInv /\ ViewInv
  BY TypeInvInit, ViewInvInit
<1>2. TypeInv /\ ViewInv /\ [Next]_vars => (TypeInv /\ ViewInv)'
  BY TypeInvStep, ViewInvStep
<1>3. TypeInv /\ ViewInv /\ [Next]_vars =>
        \A k \in Archives(manifest) :
          (Expires => clock' <= (archive[k].epoch + 1) * EpochLength + Expiry) =>
            TilesOf(archive[k].tiles) \subseteq TilesOf(View')
  <2> SUFFICES ASSUME TypeInv, ViewInv, [Next]_vars, NEW k \in Archives(manifest),
                      Expires => clock' <= (archive[k].epoch + 1) * EpochLength + Expiry
               PROVE  TilesOf(archive[k].tiles) \subseteq TilesOf(View')
    OBVIOUS
  <2>1. archive[k].epoch \in Nat /\ clock' \in Nat
    BY TypeInvStep, ArchiveElement DEF TypeInv, TypeOK, Used, Named, Archive
  <2>2. ~IsExpired(archive[k].epoch, clock')
    BY <2>1, AliveStill
  <2> QED BY <2>2, LiveOutStep
<1> QED BY <1>1, <1>2, <1>3, PTL DEF Spec, TilesLiveOutTheirEpoch

-----------------------------------------------------------------------------
(* Without expiry every listed archive is live.                             *)

LEMMA AllLive ==
  ASSUME ~Expires
  PROVE  /\ \A m, now : Live(m, now) = Archives(m)
         /\ Now = Archives(manifest) /\ Then = Archives(manifest')
BY DEF Live, Now, Then, LiveIn, IsExpired

LEMMA ViewIsShared ==
  ASSUME ~Expires
  PROVE  /\ Merged(manifest, Archives(manifest)) = View
         /\ Merged(manifest, Archives(manifest))' = View'
BY DEF View, Live, IsExpired

(* A reader who gets a copy of a tile gets one for ever.                    *)
LEMMA ViewStays ==
  ASSUME ~Expires, TypeInv, ViewInv, [Next]_vars, NEW t \in Tile, View[t] # NoCopy
  PROVE  View'[t] # NoCopy
<1>1. PICK k \in Now : archive[k].tiles[t] # NoCopy
  BY ViewIsCopy DEF CopyIn, HoldersIn, Now
<1>2. k \in Archives(manifest) /\ ~IsExpired(archive[k].epoch, clock')
  BY DEF Now, LiveIn, IsExpired
<1>3. t \in TilesOf(archive[k].tiles)
  BY <1>1 DEF TilesOf
<1> QED BY <1>2, <1>3, LiveOutStep DEF TilesOf

(* What a flush publishes is there for readers.                             *)
LEMMA PublishedIsThere ==
  ASSUME ~Expires, TypeInv, ViewInv, [Next]_vars, NEW w \in Writer, PublishDelta(w),
         NEW t \in Tile, kept[w][t] # NoCopy
  PROVE  View'[t] # NoCopy
<1> DEFINE h == task[w].key
<1>ok. TypeOK /\ Used /\ manifest \in Manifest /\ task \in [Process -> Task] /\ Uploads(w)
  BY DEF TypeInv, TypeOK, ViewInv
<1>1. /\ manifest' = WithDelta(manifest, h) /\ archive' = archive /\ task[w].pc = "replace"
  BY DEF PublishDelta, Replace, Unchanged
<1>2. h \in Key /\ h # 0
  BY <1>ok, <1>1 DEF Used, Uses, Task, Key
<1>3. archive[h].tiles = kept[w]
  BY <1>ok, <1>2 DEF Uploads, Flushes
<1> HIDE DEF h
<1>4. h \in Archives(manifest')
  BY <1>ok, <1>1, <1>2, DeltaManifest
<1>5. h \in Then /\ Then \in SUBSET Key /\ manifest' \in Manifest
  BY <1>4, AllLive, ViewFacts
<1>6. View'[t] = CopyIn(archive', manifest', Then, t)
  BY ViewIsCopy DEF Then
<1> HIDE DEF Then
<1> QED BY <1>1, <1>3, <1>5, <1>6, CopyThere

(* What drop_duplicates drops is there for readers.                         *)
LEMMA DuplicateIsThere ==
  ASSUME ~Expires, TypeInv, ViewInv, [Next]_vars, NEW t \in Tile, NEW now, NEW c,
         Duplicate(manifest, now, t, c)
  PROVE  View[t] # NoCopy
<1>1. PICK k \in Now : archive[k].tiles[t] # NoCopy
  BY AllLive DEF Duplicate, Holders
<1>2. Now \in SUBSET Key /\ manifest \in Manifest
  BY ViewFacts
<1>3. View[t] = CopyIn(archive, manifest, Now, t)
  BY ViewIsCopy DEF Now
<1> HIDE DEF Now
<1> QED BY <1>1, <1>2, <1>3, CopyThere

-----------------------------------------------------------------------------
(* What a flush has in hand.                                                *)

\* Only a flush has frozen tiles; what it keeps are some of them, and the
\* others, like all of them once it has published, are there for readers.
Flushing(w) ==
  /\ task[w].pc = "idle" => flushing[w] = NoTiles
  /\ task[w].pc \in {"upload", "publish", "replace", "announce"} =>
       \A t \in Tile :
         /\ kept[w][t] \in {flushing[w][t], NoCopy}
         /\ flushing[w][t] # NoCopy /\ (kept[w][t] = NoCopy \/ task[w].pc = "announce") =>
              View[t] # NoCopy

FlushInv == \A w \in Writer : Flushing(w)

LEMMA FlushInvInit == Init => FlushInv
BY DEF Init, Idle, FlushInv, Flushing

(* What a maintainer leaves alone.                                          *)
LEMMA MaintainersKeepOut ==
  ASSUME TypeInv, NEW m \in Maintainer,
         MaintainerStep(m) \/ Refused(m) \/ KeepOrphan(m) \/ Abort(m)
  PROVE  /\ \A w \in Writer : task'[w] = task[w]
         /\ UNCHANGED <<clock, pending, flushing, kept, crashes>>
<1>0. task \in [Process -> Task] /\ \A w \in Writer : w # m
  BY ProcessesAssumption DEF TypeInv, TypeOK
<1>1. CASE Prune(m) \/ ReadManifest(m) \/ Conflict(m)
  BY <1>0, <1>1 DEF Prune, ReadManifest, Conflict
<1>2. CASE PublishPruned(m) \/ PublishMerged(m) \/ PublishForgotten(m)
  BY <1>0, <1>2 DEF PublishPruned, PublishMerged, PublishForgotten, Replace
<1>3. CASE Select(m) \/ Nothing(m) \/ Merge(m) \/ Superseded(m)
  BY <1>0, <1>3 DEF Select, Nothing, Merge, Store, Superseded
<1>4. CASE Cleanup(m) \/ Refused(m)
  BY <1>0, <1>4 DEF Cleanup, Refused
<1>5. CASE Delete(m) \/ Know(m) \/ List(m)
  BY <1>0, <1>5 DEF Delete, Know, List
<1>6. CASE KeepOrphan(m) \/ EndCleanup(m) \/ Abort(m)
  BY <1>0, <1>6 DEF KeepOrphan, EndCleanup, Abort
<1> QED BY <1>1, <1>2, <1>3, <1>4, <1>5, <1>6 DEF MaintainerStep, Publishing

(* What a writer's upload or a race on the manifest leaves alone.           *)
LEMMA UploadsKeepOut ==
  ASSUME TypeInv, NEW w \in Writer,
         \/ Upload(w) \/ ReadManifest(w) \/ Conflict(w)
  PROVE  /\ \A v \in Writer \ {w} : task'[v] = task[v]
         /\ task[w].pc \in {"upload", "publish", "replace"}
         /\ task'[w].pc \in {"publish", "replace"}
         /\ UNCHANGED <<clock, pending, flushing, kept, crashes>>
BY DEF TypeInv, TypeOK, Task, Upload, Store, ReadManifest, Conflict

LEMMA FlushInvStep ==
  ASSUME ~Expires, TypeInv, ViewInv, FlushInv, [Next]_vars
  PROVE  FlushInv'
<1>ok. /\ TypeOK /\ task \in [Process -> Task]
       /\ flushing \in [Writer -> Contents] /\ kept \in [Writer -> Contents]
       /\ \A w \in Writer : Flushing(w)
  BY DEF TypeInv, TypeOK, FlushInv
<1>stays. \A t \in Tile : View[t] # NoCopy => View'[t] # NoCopy
  BY ViewStays
<1>same. ASSUME NEW v \in Writer, task'[v] = task[v], flushing'[v] = flushing[v], kept'[v] = kept[v]
         PROVE  Flushing(v)'
  BY <1>ok, <1>stays, <1>same DEF Flushing
\* Only w does anything.
<1>alone. ASSUME NEW w \in Writer, \A v \in Writer \ {w} : task'[v] = task[v],
                 \A v \in Writer \ {w} : flushing'[v] = flushing[v] /\ kept'[v] = kept[v],
                 Flushing(w)'
          PROVE  FlushInv'
  BY <1>same, <1>alone DEF FlushInv
<1>rest. ASSUME NEW w \in Writer, Rest(w),
                \A v \in Writer \ {w} : flushing'[v] = flushing[v] /\ kept'[v] = kept[v],
                flushing'[w] = NoTiles
         PROVE  FlushInv'
  <2>1. Flushing(w)' /\ \A v \in Writer \ {w} : task'[v] = task[v]
    BY <1>ok, <1>rest DEF Flushing, Idle
  <2> QED BY <1>alone, <1>rest, <2>1
<1>1. ASSUME UNCHANGED <<flushing, kept>>, \A w \in Writer : task'[w] = task[w] PROVE FlushInv'
  BY <1>1, <1>same DEF FlushInv
<1>2. ASSUME Tick PROVE FlushInv'
  BY <1>1, <1>2 DEF Tick
<1>3. ASSUME NEW w \in Writer, NEW t, NEW c, Put(w, t, c) PROVE FlushInv'
  BY <1>1, <1>3 DEF Put
<1>4. ASSUME NEW w \in Writer, Freeze(w) PROVE FlushInv'
  <2>1. /\ \A v \in Writer \ {w} : flushing'[v] = flushing[v] /\ kept'[v] = kept[v]
        /\ \A v \in Writer \ {w} : task'[v] = task[v]
        /\ task'[w].pc = "compare"
    BY <1>ok, <1>4 DEF Freeze, Task
  <2>2. Flushing(w)'
    BY <2>1 DEF Flushing
  <2> QED BY <1>alone, <2>1, <2>2
<1>5. ASSUME NEW w \in Writer, NEW unread, Compare(w, unread) PROVE FlushInv'
  <2> DEFINE fresh == {t \in TilesOf(flushing[w]) :
                         t \in unread \/ ~Duplicate(manifest, task[w].since, t, flushing[w][t])}
  <2>1. /\ kept'[w] = Restricted(flushing[w], fresh)
        /\ \A v \in Writer \ {w} : kept'[v] = kept[v]
        /\ \/ Rest(w) /\ flushing' = [flushing EXCEPT ![w] = NoTiles]
           \/ Goto(w, "upload") /\ UNCHANGED flushing
    BY <1>ok, <1>5 DEF Compare
  <2>2. CASE Rest(w) /\ flushing' = [flushing EXCEPT ![w] = NoTiles]
    <3>1. /\ flushing'[w] = NoTiles
          /\ \A v \in Writer \ {w} : flushing'[v] = flushing[v] /\ kept'[v] = kept[v]
      BY <1>ok, <2>1, <2>2
    <3> QED BY <1>rest, <2>2, <3>1
  <2>3. CASE Goto(w, "upload") /\ UNCHANGED flushing
    <3>1. task'[w].pc = "upload" /\ \A v \in Writer \ {w} : task'[v] = task[v]
      BY <1>ok, <2>3 DEF Task
    <3>2. ASSUME NEW t \in Tile
          PROVE  /\ kept'[w][t] \in {flushing[w][t], NoCopy}
                 /\ flushing[w][t] # NoCopy /\ kept'[w][t] = NoCopy => View'[t] # NoCopy
      <4>1. kept'[w][t] = IF t \in fresh THEN flushing[w][t] ELSE NoCopy
        BY <2>1 DEF Restricted
      <4>2. flushing[w][t] # NoCopy /\ t \notin fresh =>
              Duplicate(manifest, task[w].since, t, flushing[w][t])
        BY DEF TilesOf
      <4> HIDE DEF fresh
      <4>3. flushing[w][t] # NoCopy /\ t \notin fresh => View[t] # NoCopy
        BY <4>2, DuplicateIsThere
      <4> QED BY <1>stays, <4>1, <4>3
    <3>3. Flushing(w)'
      BY <2>3, <3>1, <3>2 DEF Flushing
    <3> QED BY <1>alone, <2>1, <2>3, <3>1, <3>3
  <2> QED BY <2>1, <2>2, <2>3
<1>6. ASSUME NEW w \in Writer, Upload(w) \/ ReadManifest(w) \/ Conflict(w) PROVE FlushInv'
  <2>1. /\ \A v \in Writer \ {w} : task'[v] = task[v]
        /\ task[w].pc \in {"upload", "publish", "replace"}
        /\ task'[w].pc \in {"publish", "replace"}
        /\ UNCHANGED <<flushing, kept>>
    BY <1>6, UploadsKeepOut
  <2>2. Flushing(w)'
    BY <1>ok, <1>stays, <2>1 DEF Flushing
  <2> QED BY <1>alone, <2>1, <2>2
<1>7. ASSUME NEW w \in Writer, PublishDelta(w) PROVE FlushInv'
  <2>1. /\ \A v \in Writer \ {w} : task'[v] = task[v]
        /\ task[w].pc = "replace" /\ task'[w].pc = "announce"
        /\ UNCHANGED <<flushing, kept>>
    BY <1>ok, <1>7 DEF PublishDelta, Replace, Idle
  <2>2. \A t \in Tile : kept[w][t] # NoCopy => View'[t] # NoCopy
    BY <1>7, PublishedIsThere
  <2>3. Flushing(w)'
    BY <1>ok, <1>stays, <2>1, <2>2 DEF Flushing
  <2> QED BY <1>alone, <2>1, <2>3
<1>8. ASSUME NEW w \in Writer, EndFlush(w) \/ PutBack(w) \/ Crash(w) PROVE FlushInv'
  <2>1. /\ Rest(w) /\ flushing'[w] = NoTiles
        /\ \A v \in Writer \ {w} : flushing'[v] = flushing[v] /\ kept'[v] = kept[v]
    BY <1>ok, <1>8 DEF EndFlush, PutBack, Crash
  <2> QED BY <1>rest, <2>1
<1>9. ASSUME NEW m \in Maintainer, MaintainerStep(m) \/ Refused(m) \/ KeepOrphan(m) \/ Abort(m)
      PROVE  FlushInv'
  BY <1>1, <1>9, MaintainersKeepOut
<1>10. CASE UNCHANGED vars
  BY <1>1, <1>10 DEF vars
<1> QED BY <1>2, <1>3, <1>4, <1>5, <1>6, <1>7, <1>8, <1>9, <1>10
        DEF Next, WriterStep, Publishing

-----------------------------------------------------------------------------
(* The refinement.                                                          *)

Held(w, t) == {pending[w][t], flushing[w][t]} \ {NoCopy}

\* Two processes' buffers are the same if they hold the same of each tile.
LEMMA SameHeld ==
  ASSUME NEW w \in Writer, \A t \in Tile : Held(w, t)' = Held(w, t)
  PROVE  HeldCopies'[w] = HeldCopies[w]
BY DEF HeldCopies, Held

LEMMA HeldIsCopies ==
  \A w \in Writer, t \in Tile : HeldCopies[w][t] = Held(w, t) /\ HeldCopies'[w][t] = Held(w, t)'
BY DEF HeldCopies, Held

LEMMA AllSameHeld ==
  ASSUME \A w \in Writer : HeldCopies'[w] = HeldCopies[w]
  PROVE  HeldCopies' = HeldCopies
BY DEF HeldCopies

LEMMA SameShared ==
  ASSUME ~Expires, \A t \in Tile : View'[t] = View[t]
  PROVE  Merged(manifest, Archives(manifest))' = Merged(manifest, Archives(manifest))
<1>1. View' = View
  BY DEF View, Merged
<1> QED BY <1>1, ViewIsShared

LEMMA PromiseInit == Init => Promise!Init
<1> SUFFICES ASSUME Init PROVE Promise!Init
  OBVIOUS
<1>1. Archives(manifest) = {}
  BY EmptyManifestType DEF Init, Named
<1>2. Merged(manifest, Archives(manifest)) = [t \in Tile |-> NoCopy]
  BY <1>1 DEF Merged, Holders
<1>3. HeldCopies = [w \in Writer |-> [t \in Tile |-> {}]]
  BY DEF HeldCopies, Init, NoTiles
<1> QED BY <1>2, <1>3 DEF Promise!Init, Init

LEMMA PromiseStep ==
  ASSUME ~Expires, TypeInv, ViewInv, FlushInv, [Next]_vars
  PROVE  [Promise!Next]_<<Merged(manifest, Archives(manifest)), HeldCopies, crashes>>
<1> DEFINE Shared == Merged(manifest, Archives(manifest))
           Step == [Promise!Next]_<<Shared, HeldCopies, crashes>>
<1>ok. /\ TypeOK /\ task \in [Process -> Task]
       /\ pending \in [Writer -> Contents]
       /\ flushing \in [Writer -> Contents] /\ kept \in [Writer -> Contents]
       /\ \A w \in Writer : Flushing(w)
  BY DEF TypeInv, TypeOK, FlushInv
<1>shared. \A t \in Tile : Shared[t] = View[t] /\ Shared'[t] = View'[t]
  BY ViewIsShared
\* Without a publication of a flush the view stays.
<1>view. ASSUME clock' = clock, \A w \in Writer : ~ (At(w, "replace") /\ At(w, "announce")')
         PROVE  Shared' = Shared
  <2>1. \A t \in Tile : View'[t] = View[t]
    BY <1>view, OnlyFlushesStep DEF OnlyFlushes
  <2> QED BY <2>1, SameShared
<1>still. ASSUME Shared' = Shared, UNCHANGED <<pending, flushing, crashes>> PROVE Step
  BY <1>still DEF HeldCopies
\* w lets go of what it holds of some tiles, and readers have them.
<1>goes. ASSUME NEW w \in Writer, Shared' = Shared, crashes' = crashes,
                \A v \in Writer \ {w} : pending'[v] = pending[v] /\ flushing'[v] = flushing[v],
                \A t \in Tile : /\ Held(w, t)' \subseteq Held(w, t)
                                /\ Held(w, t)' = {} /\ Held(w, t) # {} => View[t] # NoCopy
         PROVE  Step
  <2>1. \A v \in Writer \ {w} : HeldCopies'[v] = HeldCopies[v]
    BY <1>goes, SameHeld DEF Held
  <2>2. Promise!Release(w)
    BY <1>goes, <1>shared, <2>1, HeldIsCopies DEF Promise!Release, Promise!Others
  <2> QED BY <2>2 DEF Promise!Next
<1>1. ASSUME Tick PROVE Step
  <2>1. \A t \in Tile : View'[t] = View[t]
    BY <1>1, AllLive, ViewIsCopy DEF Tick, LiveIn, IsExpired
  <2> QED BY <1>1, <1>still, <2>1, SameShared DEF Tick
<1>2. ASSUME NEW w \in Writer, NEW t \in Tile, NEW c \in Copy, Put(w, t, c) PROVE Step
  <2>1. Shared' = Shared /\ UNCHANGED <<flushing, crashes>>
        /\ pending' = [pending EXCEPT ![w][t] = c]
    BY <1>2, <1>view DEF Put
  <2>2. \A v \in Writer \ {w} : HeldCopies'[v] = HeldCopies[v]
    BY <1>ok, <2>1, SameHeld DEF Held
  <2>3. /\ Held(w, t)' = {c, flushing[w][t]} \ {NoCopy} /\ c # NoCopy
        /\ \A u \in Tile \ {t} : Held(w, u)' = Held(w, u)
    BY <1>ok, <2>1, NoCopyAssumption DEF Held, Contents, Copy
  <2>4. /\ c \in HeldCopies'[w][t] /\ HeldCopies'[w][t] \ {c} \subseteq HeldCopies[w][t]
        /\ \A u \in Tile \ {t} : HeldCopies'[w][u] = HeldCopies[w][u]
    <3>1. c \in Held(w, t)' /\ Held(w, t)' \ {c} \subseteq Held(w, t)
      BY <2>3 DEF Held
    <3>2. \A u \in Tile : HeldCopies[w][u] = Held(w, u) /\ HeldCopies'[w][u] = Held(w, u)'
      BY HeldIsCopies
    <3> QED BY <2>3, <3>1, <3>2
  <2>5. Promise!Accept(w)
    BY <2>1, <2>2, <2>4 DEF Promise!Accept, Promise!Others
  <2> QED BY <2>5 DEF Promise!Next
<1>3. ASSUME NEW w \in Writer, Freeze(w) PROVE Step
  <2>1. flushing[w] = NoTiles
    BY <1>ok, <1>3 DEF Freeze, Flushing
  <2>2. /\ Shared' = Shared /\ crashes' = crashes
        /\ \A v \in Writer \ {w} : pending'[v] = pending[v] /\ flushing'[v] = flushing[v]
        /\ pending'[w] = NoTiles /\ flushing'[w] = pending[w]
    <3>1. task'[w].pc = "compare" /\ \A v \in Writer \ {w} : task'[v] = task[v]
      BY <1>ok, <1>3 DEF Freeze, Task
    <3>2. Shared' = Shared
      BY <1>3, <1>view, <3>1 DEF Freeze
    <3> QED BY <1>ok, <1>3, <3>2 DEF Freeze
  <2>3. \A t \in Tile : Held(w, t)' = Held(w, t)
    BY <2>1, <2>2 DEF Held, NoTiles
  <2> QED BY <1>goes, <2>2, <2>3
<1>4. ASSUME NEW w \in Writer, NEW unread, Compare(w, unread) PROVE Step
  <2> DEFINE fresh == {t \in TilesOf(flushing[w]) :
                         t \in unread \/ ~Duplicate(manifest, task[w].since, t, flushing[w][t])}
  <2>1. /\ UNCHANGED <<clock, pending, crashes>>
        /\ \/ fresh = {} /\ Rest(w) /\ flushing' = [flushing EXCEPT ![w] = NoTiles]
           \/ Goto(w, "upload") /\ UNCHANGED flushing
    BY <1>4 DEF Compare
  <2>2. Shared' = Shared
    <3>1. task'[w].pc \in {"idle", "upload"} /\ \A v \in Writer \ {w} : task'[v] = task[v]
      BY <1>ok, <2>1 DEF Idle, Task
    <3> QED BY <1>view, <2>1, <3>1
  <2>3. CASE fresh = {} /\ flushing' = [flushing EXCEPT ![w] = NoTiles]
    <3>1. \A t \in Tile : flushing[w][t] # NoCopy =>
                            Duplicate(manifest, task[w].since, t, flushing[w][t])
      BY <2>3 DEF TilesOf
    <3> HIDE DEF fresh
    <3>2. \A t \in Tile : flushing[w][t] # NoCopy => View[t] # NoCopy
      BY <3>1, DuplicateIsThere
    <3>3. /\ \A v \in Writer \ {w} : pending'[v] = pending[v] /\ flushing'[v] = flushing[v]
          /\ pending'[w] = pending[w] /\ flushing'[w] = NoTiles
      BY <1>ok, <2>1, <2>3
    <3>4. \A t \in Tile : /\ Held(w, t)' \subseteq Held(w, t)
                          /\ Held(w, t)' = {} /\ Held(w, t) # {} => View[t] # NoCopy
      BY <3>2, <3>3 DEF Held, NoTiles
    <3> QED BY <1>goes, <2>1, <2>2, <3>3, <3>4
  <2>4. CASE UNCHANGED flushing
    BY <1>still, <2>1, <2>2, <2>4
  <2> QED BY <2>1, <2>3, <2>4
<1>5. ASSUME NEW w \in Writer, Upload(w) \/ ReadManifest(w) \/ Conflict(w) PROVE Step
  <2>1. /\ \A v \in Writer \ {w} : task'[v] = task[v]
        /\ task'[w].pc \in {"publish", "replace"}
        /\ UNCHANGED <<clock, pending, flushing, crashes>>
    BY <1>5, UploadsKeepOut
  <2>2. Shared' = Shared
    BY <1>view, <2>1
  <2> QED BY <1>still, <2>1, <2>2
<1>6. ASSUME NEW w \in Writer, PublishDelta(w) PROVE Step
  <2>1. UNCHANGED <<pending, flushing, crashes>> /\ task[w].pc = "replace"
    BY <1>6 DEF PublishDelta, Replace
  <2>2. \A t \in Tile : View'[t] # View[t] => View'[t] \in Held(w, t)
    BY <1>ok, <1>6, <2>1, DeltaView DEF Held, Flushing
  <2>3. HeldCopies' = HeldCopies
    BY <2>1 DEF HeldCopies
  <2>4. Promise!Share(w)
    BY <1>shared, <2>1, <2>2, <2>3, HeldIsCopies DEF Promise!Share
  <2> QED BY <2>4 DEF Promise!Next
<1>7. ASSUME NEW w \in Writer, EndFlush(w) PROVE Step
  <2>1. /\ task[w].pc = "announce" /\ Rest(w) /\ UNCHANGED <<clock, pending, crashes>>
        /\ flushing'[w] = NoTiles
        /\ \A v \in Writer \ {w} : flushing'[v] = flushing[v]
    BY <1>ok, <1>7 DEF EndFlush
  <2>2. Shared' = Shared
    <3>1. task'[w].pc = "idle" /\ \A v \in Writer \ {w} : task'[v] = task[v]
      BY <1>ok, <2>1 DEF Idle
    <3> QED BY <1>view, <2>1, <3>1
  <2>3. \A t \in Tile : flushing[w][t] # NoCopy => View[t] # NoCopy
    BY <1>ok, <2>1 DEF Flushing
  <2>4. \A t \in Tile : /\ Held(w, t)' \subseteq Held(w, t)
                        /\ Held(w, t)' = {} /\ Held(w, t) # {} => View[t] # NoCopy
    BY <2>1, <2>3 DEF Held, NoTiles
  <2> QED BY <1>goes, <2>1, <2>2, <2>4
<1>8. ASSUME NEW w \in Writer, PutBack(w) PROVE Step
  <2>1. /\ Rest(w) /\ UNCHANGED <<clock, crashes>>
        /\ flushing'[w] = NoTiles /\ pending'[w] = Over(pending[w], flushing[w])
        /\ \A v \in Writer \ {w} : pending'[v] = pending[v] /\ flushing'[v] = flushing[v]
    BY <1>ok, <1>8 DEF PutBack, BackInBuffer
  <2>2. Shared' = Shared
    <3>1. task'[w].pc = "idle" /\ \A v \in Writer \ {w} : task'[v] = task[v]
      BY <1>ok, <2>1 DEF Idle
    <3> QED BY <1>view, <2>1, <3>1
  <2>3. \A t \in Tile : /\ Held(w, t)' \subseteq Held(w, t)
                        /\ Held(w, t)' = {} => Held(w, t) = {}
    BY <2>1 DEF Held, NoTiles, Over
  <2> QED BY <1>goes, <2>1, <2>2, <2>3
<1>9. ASSUME NEW w \in Writer, Crash(w) PROVE Step
  <2>1. /\ Rest(w) /\ clock' = clock /\ crashes' = crashes + 1
        /\ flushing'[w] = NoTiles /\ pending'[w] = NoTiles
        /\ \A v \in Writer \ {w} : pending'[v] = pending[v] /\ flushing'[v] = flushing[v]
    BY <1>ok, <1>9 DEF Crash
  <2>2. Shared' = Shared
    <3>1. task'[w].pc = "idle" /\ \A v \in Writer \ {w} : task'[v] = task[v]
      BY <1>ok, <2>1 DEF Idle
    <3> QED BY <1>view, <2>1, <3>1
  <2>3. \A v \in Writer \ {w} : HeldCopies'[v] = HeldCopies[v]
    BY <2>1, SameHeld DEF Held
  <2>4. HeldCopies'[w] = [t \in Tile |-> {}]
    BY <2>1 DEF HeldCopies, NoTiles
  <2>5. Promise!Lose(w)
    BY <2>1, <2>2, <2>3, <2>4 DEF Promise!Lose, Promise!Others
  <2> QED BY <2>5 DEF Promise!Next
<1>10. ASSUME NEW m \in Maintainer, MaintainerStep(m) \/ Refused(m) \/ KeepOrphan(m) \/ Abort(m)
       PROVE  Step
  <2>1. /\ \A w \in Writer : task'[w] = task[w]
        /\ UNCHANGED <<clock, pending, flushing, crashes>>
    BY <1>10, MaintainersKeepOut
  <2>2. Shared' = Shared
    BY <1>view, <2>1
  <2> QED BY <1>still, <2>1, <2>2
<1>11. ASSUME UNCHANGED vars PROVE Step
  <2>1. UNCHANGED <<clock, manifest, pending, flushing, crashes>>
    BY <1>11 DEF vars
  <2>2. \A t \in Tile : View'[t] = View[t]
    BY <2>1, SameListView
  <2> QED BY <1>still, <2>1, <2>2, SameShared
<1>12. \A f \in 0..clock, b \in Body : [body |-> b, fetched |-> f] \in Copy
  BY DEF Copy
<1> HIDE DEF Step
<1>13. ASSUME NEW w \in Writer, WriterStep(w) PROVE Step
  BY <1>3, <1>4, <1>5, <1>6, <1>7, <1>13 DEF WriterStep, Publishing
<1>14. ASSUME NEW w \in Writer, NEW t \in Tile, NEW b \in Body, NEW f \in 0..clock,
              Put(w, t, [body |-> b, fetched |-> f])
       PROVE  Step
  <2> DEFINE c == [body |-> b, fetched |-> f]
  <2>1. c \in Copy
    BY <1>12
  <2> HIDE DEF c
  <2>2. Put(w, t, c)
    BY <1>14 DEF c
  <2> QED BY <1>2, <2>1, <2>2
<1>15. Step
  BY <1>1, <1>8, <1>9, <1>10, <1>11, <1>13, <1>14 DEF Next
<1> QED BY <1>15 DEF Step

(* A zone whose tiles do not expire keeps SharedTiles' promises: no tile     *)
(* accepted is lost unless its process dies, none a reader gets is taken     *)
(* back, and nothing but a copy a process holds replaces it (store.rs,       *)
(* "Many writers", and the flush, publish and merge it describes).          *)
THEOREM KeepsPromiseCorrect == ~Expires => (Spec => KeepsPromise)
<1> SUFFICES ASSUME ~Expires PROVE Spec => KeepsPromise
  OBVIOUS
<1>1. Init => TypeInv /\ ViewInv /\ FlushInv /\ Promise!Init
  BY TypeInvInit, ViewInvInit, FlushInvInit, PromiseInit
<1>2. TypeInv /\ ViewInv /\ FlushInv /\ [Next]_vars =>
        /\ (TypeInv /\ ViewInv /\ FlushInv)'
        /\ [Promise!Next]_<<Merged(manifest, Archives(manifest)), HeldCopies, crashes>>
  BY TypeInvStep, ViewInvStep, FlushInvStep, PromiseStep
<1> QED BY <1>1, <1>2, PTL DEF Spec, KeepsPromise, Promise!Spec

-----------------------------------------------------------------------------
(* The newest fetch wins: the last live archive that holds a tile a flush   *)
(* is to publish is none whose tiles were all fetched later.  It was so     *)
(* when drop_duplicates compared; time, merges and prunes keep it so,       *)
(* because epochs expire in the order of the archives, and what rivals      *)
(* publish meanwhile is overtaken.                                          *)

\* k is the last archive of K that holds t.
IsLast(a, m, K, t, k) ==
  /\ k \in K /\ a[k].tiles[t] # NoCopy
  /\ \A j \in K : a[j].tiles[t] # NoCopy => m.archives[j] <= m.archives[k]

\* Readers get t from no archive whose tiles were all fetched after n.
Covered(t, n) ==
  \A k \in Key : IsLast(archive, manifest, Now, t, k) => archive[k].oldest <= n

NoneAhead == \A k \in DOMAIN archive : archive[k].epoch <= Epoch(clock)

\* The epoch a flush is of is the last there is.
Dated(w) ==
  task[w].pc \in {"compare", "upload", "publish", "replace"} =>
    /\ \A k \in DOMAIN archive : archive[k].epoch <= Epoch(task[w].since)
    /\ task[w].key # 0 => archive[task[w].key].epoch = Epoch(task[w].since)

\* What a merge says is its oldest fetch is not after its run's.
Least(p) ==
  task[p].run # {} /\ task[p].pc # "merge" =>
    \A k \in task[p].run : archive[task[p].key].oldest <= archive[k].oldest

(* Later is of a later epoch, and later epochs expire later.                *)
LEMMA EpochGrows ==
  ASSUME NEW m \in Nat, NEW n \in Nat, m <= n
  PROVE  Epoch(m) <= Epoch(n)
<1> DEFINE L == EpochLength
           q == m \div L
           r == n \div L
<1>1. L \in Nat /\ L > 0
  BY TimesAssumption
<1> HIDE DEF L
<1>2. /\ q \in Nat /\ r \in Nat
      /\ L * q <= m /\ n < L * (r + 1)
  BY <1>1
<1> HIDE DEF q, r
<1>3. q <= r
  <2> SUFFICES ASSUME r + 1 <= q PROVE FALSE
    BY <1>2
  <2>1. L * (r + 1) <= L * q
    BY <1>1, <1>2
  <2>2. L * (r + 1) \in Nat /\ L * q \in Nat
    BY <1>1, <1>2
  <2> QED BY <1>2, <2>1, <2>2
<1> QED BY <1>3 DEF Epoch, q, r, L

LEMMA ExpiryOrder ==
  ASSUME NEW e \in Nat, NEW f \in Nat, e <= f, NEW now \in Nat, IsExpired(f, now)
  PROVE  IsExpired(e, now)
<1> DEFINE L == EpochLength
<1>1. L \in Nat /\ Expiry \in Nat
  BY TimesAssumption
<1>2. Expires /\ now - (f + 1) * L > Expiry
  BY DEF IsExpired
<1> HIDE DEF L
<1>3. (e + 1) * L <= (f + 1) * L /\ (e + 1) * L \in Nat /\ (f + 1) * L \in Nat
  BY <1>1
<1>4. now - (e + 1) * L > Expiry
  BY <1>1, <1>2, <1>3
<1> QED BY <1>2, <1>4 DEF IsExpired, L

(* What has expired by a later time was before what has not.                *)
LEMMA ExpiredAreFirst ==
  ASSUME TypeInv, ViewInv, EpochsInOrder, NEW now \in Nat,
         NEW k \in Archives(manifest), ~IsExpired(archive[k].epoch, now),
         NEW j \in Archives(manifest), IsExpired(archive[j].epoch, now)
  PROVE  manifest.archives[j] < manifest.archives[k]
<1>1. archive[j].epoch \in Nat /\ archive[k].epoch \in Nat
  BY ArchiveElement DEF TypeInv, TypeOK, Used, Named, Archive
<1>2. manifest.archives[j] \in Nat /\ manifest.archives[k] \in Nat
  BY DEF TypeInv, TypeOK, Manifest, Archives
<1>3. ~(manifest.archives[k] < manifest.archives[j])
  <2> SUFFICES ASSUME manifest.archives[k] < manifest.archives[j] PROVE FALSE
    OBVIOUS
  <2>1. archive[k].epoch <= archive[j].epoch
    BY DEF EpochsInOrder
  <2> QED BY <1>1, <2>1, ExpiryOrder
<1>4. manifest.archives[j] # manifest.archives[k]
  BY DEF ViewInv, PlacesDiffer
<1> QED BY <1>2, <1>3, <1>4

(* The last of some archives is the last of those before them, too.         *)
LEMMA LastOfMore ==
  ASSUME NEW a, NEW m \in Manifest, NEW K, NEW L \in SUBSET Key, NEW t, NEW k,
         K \subseteq L, IsLast(a, m, K, t, k),
         \A j \in L \ K : m.archives[j] < m.archives[k]
  PROVE  IsLast(a, m, L, t, k)
<1>1. \A j \in L : m.archives[j] \in Nat
  BY DEF Manifest
<1> QED BY <1>1 DEF IsLast

(* Which archives a step adds.                                              *)
LEMMA NewArchives ==
  ASSUME TypeInv, ViewInv, [Next]_vars, NEW k \in DOMAIN archive' \ DOMAIN archive
  PROVE  /\ clock' = clock
         /\ \/ \E w \in Writer :
                 /\ Upload(w) /\ task'[w].key = k
                 /\ archive'[k].epoch = Epoch(task[w].since)
            \/ \E m \in Maintainer : \E j \in DOMAIN archive :
                 Merge(m) /\ archive'[k].epoch = archive[j].epoch
<1>ok. TypeOK /\ Used /\ clock \in Nat
  BY DEF TypeInv, TypeOK
<1>0. ASSUME NEW p \in Process, NEW tiles \in Contents, NEW epoch \in Nat, NEW oldest \in Nat,
             Store(p, tiles, epoch, oldest)
      PROVE  task'[p].key = k /\ archive'[k].epoch = epoch
  <2>1. /\ DOMAIN archive' = DOMAIN archive \cup {Len(archive) + 1}
        /\ archive'[Len(archive) + 1] = [tiles |-> tiles, epoch |-> epoch, oldest |-> oldest,
                                         modified |-> clock]
        /\ task'[p].key = Len(archive) + 1
    BY <1>0, StoreType
  <2> QED BY <2>1
<1>1. ASSUME NEW p \in Writer, Upload(p)
      PROVE  task'[p].key = k /\ archive'[k].epoch = Epoch(task[p].since)
  <2>1. TilesOf(kept[p]) # {} /\ kept[p] \in Contents /\ task[p].since \in Nat
    BY <1>ok, <1>1 DEF Upload, Used, Uses, TypeOK, Task
  <2>2. Oldest(kept[p]) \in Nat /\ Epoch(task[p].since) \in Nat
    BY <2>1, OldestIsLeast, EpochType
  <2>3. Store(p, kept[p], Epoch(task[p].since), Oldest(kept[p]))
    BY <1>1 DEF Upload
  <2> DEFINE e == Epoch(task[p].since)
             o == Oldest(kept[p])
             f == kept[p]
  <2> HIDE DEF e, o, f
  <2>4. Store(p, f, e, o) /\ f \in Contents /\ e \in Nat /\ o \in Nat
    BY <2>1, <2>2, <2>3 DEF e, o, f
  <2> QED BY <1>0, <2>4 DEF e
<1>2. ASSUME NEW p \in Maintainer, Merge(p)
      PROVE  \E j \in DOMAIN archive : archive'[k].epoch = archive[j].epoch
  <2> DEFINE K == task[p].run
             b == task[p].base
             i == CHOOSE j \in K : TRUE
             e == archive[i].epoch
             o == OldestOf(K)
             f == Merged(b, K)
  <2>1. /\ K # {} /\ K \subseteq DOMAIN archive /\ K \in SUBSET Key /\ b \in Manifest
        /\ archive \in Seq(Archive)
    BY <1>ok, <1>2 DEF Merge, TypeOK, Task, Used, Uses
  <2>2. f \in Contents /\ o \in Nat
    BY <2>1, MergedType, OldestOfIsLeast
  <2>3. i \in DOMAIN archive /\ e \in Nat
    BY <2>1, ArchiveElement DEF Archive
  <2>4. Store(p, f, e, o)
    BY <1>2 DEF Merge
  <2> HIDE DEF e, o, f, K, b, i
  <2>5. archive'[k].epoch = e
    BY <1>0, <2>2, <2>3, <2>4
  <2> QED BY <2>3, <2>5 DEF e
<1>3. /\ \/ archive' = archive
         \/ \E w \in Writer : Upload(w)
         \/ \E m \in Maintainer : Merge(m)
      /\ archive' # archive => clock' = clock
  BY DEF Next, WriterStep, MaintainerStep, Publishing, vars, Tick, Put, Freeze, Compare,
         Upload, ReadManifest, Conflict, PublishDelta, Replace, EndFlush, PutBack, Crash,
         Prune, PublishPruned, Select, Nothing, Merge, PublishMerged, Superseded, Cleanup,
         Refused, PublishForgotten, Delete, Know, List, KeepOrphan, EndCleanup, Abort
<1> QED BY <1>1, <1>2, <1>3

LEMMA NoneAheadStep ==
  ASSUME TypeInv, ViewInv, NoneAhead, [Next]_vars
  PROVE  NoneAhead'
<1>ok. /\ clock \in Nat /\ clock' \in Nat /\ clock <= clock' /\ ArchivesStay
       /\ task \in [Process -> Task] /\ \A p \in Process : Uploads(p)
       /\ \A k \in DOMAIN archive : archive[k].epoch \in Nat
  BY TypeInvStep, ArchivesStep, ArchiveElement DEF TypeInv, TypeOK, ViewInv, Archive
<1>1. Epoch(clock) <= Epoch(clock') /\ Epoch(clock) \in Nat /\ Epoch(clock') \in Nat
  BY <1>ok, EpochGrows, EpochType
<1>2. ASSUME NEW k \in DOMAIN archive' PROVE archive'[k].epoch <= Epoch(clock')
  <2>1. CASE k \in DOMAIN archive
    BY <1>ok, <1>1, <2>1 DEF NoneAhead, ArchivesStay
  <2>2. CASE k \notin DOMAIN archive
    <3>1. /\ clock' = clock
          /\ \/ \E w \in Writer : archive'[k].epoch = Epoch(task[w].since)
             \/ \E j \in DOMAIN archive : archive'[k].epoch = archive[j].epoch
      BY <2>2, NewArchives
    <3>2. ASSUME NEW w \in Writer PROVE Epoch(task[w].since) <= Epoch(clock)
      <4>1. task[w].since \in Nat /\ task[w].since <= clock
        BY <1>ok DEF Task, Uploads
      <4> QED BY <1>ok, <4>1, EpochGrows
    <3> QED BY <3>1, <3>2 DEF NoneAhead
  <2> QED BY <2>1, <2>2
<1>3. \A k \in DOMAIN archive' : archive'[k].epoch <= Epoch(clock')
  BY <1>2
<1> QED BY <1>3 DEF NoneAhead, Epoch

LEMMA EpochsInOrderStep ==
  ASSUME TypeInv, ViewInv, EpochsInOrder, \A w \in Writer : Dated(w), [Next]_vars
  PROVE  EpochsInOrder'
<1>ok. /\ TypeOK /\ Used /\ manifest \in Manifest /\ task \in [Process -> Task]
       /\ Archives(manifest) \subseteq DOMAIN archive /\ Archives(manifest) \subseteq Key
       /\ \A k \in Archives(manifest) : archive'[k] = archive[k]
  BY ViewFacts DEF TypeInv, TypeOK, Archives
<1> DEFINE InOrder(j, k) ==
      manifest'.archives[j] < manifest'.archives[k] => archive'[j].epoch <= archive'[k].epoch
<1>e. \A k \in DOMAIN archive : archive[k].epoch \in Nat
  BY <1>ok, ArchiveElement DEF TypeOK, Archive
<1> SUFFICES ASSUME NEW j \in Archives(manifest'), NEW k \in Archives(manifest')
             PROVE  InOrder(j, k)
  BY DEF EpochsInOrder, Archives
<1>same. ASSUME j \in Archives(manifest), k \in Archives(manifest),
                manifest'.archives[j] = manifest.archives[j],
                manifest'.archives[k] = manifest.archives[k]
         PROVE  InOrder(j, k)
  BY <1>ok, <1>same DEF EpochsInOrder
<1>1. CASE manifest' = manifest
  BY <1>1, <1>same
<1>2. ASSUME NEW w \in Writer, PublishDelta(w) PROVE InOrder(j, k)
  <2> DEFINE h == task[w].key
  <2>1. manifest' = WithDelta(manifest, h) /\ archive' = archive /\ task[w].pc = "replace"
    BY <1>2 DEF PublishDelta, Replace, Unchanged
  <2>2. h \in Key /\ h # 0
    BY <1>ok, <1>2 DEF PublishDelta, Used, Uses, Task, Key
  <2>3. \A i \in DOMAIN archive : archive[i].epoch <= archive[h].epoch
    BY <2>1, <2>2 DEF Dated
  <2> HIDE DEF h
  <2>4. /\ Archives(manifest') = Archives(manifest) \cup {h}
        /\ \A i \in Key \ {h} : manifest'.archives[i] = manifest.archives[i]
        /\ \A i \in Key \ {h} : manifest'.archives[i] < manifest'.archives[h]
        /\ manifest' \in Manifest
    BY <1>ok, <2>1, <2>2, DeltaManifest
  <2>5. manifest'.archives[j] \in Nat /\ manifest'.archives[k] \in Nat /\ j \in Key /\ k \in Key
    BY <2>4 DEF Manifest, Archives
  <2>6. CASE k = h /\ j # h
    BY <1>ok, <2>1, <2>3, <2>4, <2>6
  <2>7. CASE j = h
    BY <2>4, <2>5, <2>7
  <2>8. CASE j # h /\ k # h
    BY <1>same, <2>4, <2>5, <2>8
  <2> QED BY <2>6, <2>7, <2>8
<1>3. ASSUME NEW m \in Maintainer, PublishMerged(m) PROVE InOrder(j, k)
  <2> DEFINE h == task[m].key
             K == task[m].run
  <2>1. /\ h \in Key /\ h \notin Archives(manifest)
        /\ K # {} /\ K \in SUBSET Archives(manifest) /\ Whole(manifest, K)
        /\ archive' = archive
        /\ Archives(manifest') = (Archives(manifest) \ K) \cup {h}
        /\ \E g \in K : manifest'.archives[h] = manifest.archives[g]
        /\ \A g \in Key \ (K \cup {h}) : manifest'.archives[g] = manifest.archives[g]
        /\ \A g \in K : archive[h].epoch = archive[g].epoch
    BY <1>3, MergeFacts
  <2> HIDE DEF h, K
  <2>2. PICK g \in K : manifest'.archives[h] = manifest.archives[g]
    BY <2>1
  <2>3. \A i \in Archives(manifest') \ {h} :
          i \in Archives(manifest) /\ manifest'.archives[i] = manifest.archives[i]
    BY <1>ok, <2>1
  <2>4. CASE j = h /\ k = h
    <3>1. manifest.archives[g] \in Nat
      BY <1>ok, <2>1 DEF Manifest
    <3> QED BY <2>2, <2>4, <3>1
  <2>5. CASE j = h /\ k # h
    BY <1>ok, <2>1, <2>2, <2>3, <2>5 DEF EpochsInOrder
  <2>6. CASE j # h /\ k = h
    BY <1>ok, <2>1, <2>2, <2>3, <2>6 DEF EpochsInOrder
  <2>7. CASE j # h /\ k # h
    BY <1>same, <2>3, <2>7
  <2> QED BY <2>4, <2>5, <2>6, <2>7
<1>4. ASSUME NEW m \in Maintainer, PublishPruned(m) PROVE InOrder(j, k)
  <2> DEFINE now == task[m].since
  <2>1. manifest' = WithoutExpired(manifest, now) /\ now \in Nat
    BY <1>ok, <1>4 DEF PublishPruned, Replace, Unchanged, Task
  <2> HIDE DEF now
  <2>2. /\ Archives(manifest') = Live(manifest, now)
        /\ \A i \in Live(manifest, now) : manifest'.archives[i] = manifest.archives[i]
    BY <1>ok, <2>1, PrunedManifest
  <2> QED BY <1>same, <2>2 DEF Live
<1>5. ASSUME NEW m \in Maintainer, PublishForgotten(m) PROVE InOrder(j, k)
  <2>1. manifest'.archives = manifest.archives
    BY <1>5 DEF PublishForgotten, Replace, Unchanged, WithoutRetired, Successor
  <2> QED BY <1>same, <2>1 DEF Archives
<1> QED BY <1>1, <1>2, <1>3, <1>4, <1>5, Publications

(* How a run being merged changes: not at all, but for the merge itself.    *)
LEMMA RunMoves ==
  ASSUME TypeInv, ViewInv, [Next]_vars, NEW p \in Process,
         task'[p].run # {}, task'[p].pc # "merge"
  PROVE  \/ /\ task'[p].run = task[p].run /\ task'[p].key = task[p].key
            /\ task[p].pc # "merge"
         \/ p \in Maintainer /\ Merge(p)
<1> DEFINE Moves == \/ /\ task'[p].run = task[p].run /\ task'[p].key = task[p].key
                       /\ task[p].pc # "merge"
                    \/ p \in Maintainer /\ Merge(p)
<1>ok. task \in [Process -> Task]
  BY DEF TypeInv, TypeOK
<1>0. p \in Maintainer
  <2>1. ASSUME p \in Writer PROVE FALSE
    <3>1. Uploads(p)'
      BY ViewInvStep DEF ViewInv
    <3> QED BY <2>1, <3>1 DEF Uploads, Flushes
  <2> QED BY <2>1
<1>1. ASSUME task'[p] = task[p] PROVE Moves
  BY <1>1
<1>2. ASSUME NEW w \in Writer, WriterStep(w) \/ PutBack(w) \/ Crash(w) PROVE Moves
  <2>1. w # p
    BY <1>0, ProcessesAssumption
  <2>2. CASE Freeze(w) \/ Upload(w) \/ ReadManifest(w) \/ Conflict(w)
    BY <1>ok, <1>1, <2>1, <2>2 DEF Freeze, Upload, Store, ReadManifest, Conflict
  <2>3. CASE \E unread \in Unreadable(w) : Compare(w, unread)
    BY <1>ok, <1>1, <2>1, <2>3 DEF Compare
  <2>4. CASE PublishDelta(w) \/ EndFlush(w) \/ PutBack(w) \/ Crash(w)
    BY <1>ok, <1>1, <2>1, <2>4 DEF PublishDelta, EndFlush, PutBack, Crash
  <2> QED BY <1>2, <2>2, <2>3, <2>4 DEF WriterStep, Publishing
<1>3. ASSUME NEW m \in Maintainer, m # p,
             MaintainerStep(m) \/ Refused(m) \/ KeepOrphan(m) \/ Abort(m)
      PROVE  Moves
  <2>1. task'[p] = task[p]
    <3>1. CASE Prune(m) \/ ReadManifest(m) \/ Conflict(m)
      BY <1>ok, <1>3, <3>1 DEF Prune, ReadManifest, Conflict
    <3>2. CASE PublishPruned(m) \/ PublishMerged(m) \/ PublishForgotten(m)
      BY <1>ok, <1>3, <3>2 DEF PublishPruned, PublishMerged, PublishForgotten
    <3>3. CASE Select(m) \/ Nothing(m) \/ Merge(m) \/ Superseded(m)
      BY <1>ok, <1>3, <3>3 DEF Select, Nothing, Merge, Store, Superseded
    <3>4. CASE Cleanup(m) \/ Refused(m)
      BY <1>ok, <1>3, <3>4 DEF Cleanup, Refused
    <3>5. CASE Delete(m) \/ Know(m) \/ List(m)
      BY <1>ok, <1>3, <3>5 DEF Delete, Know, List
    <3>6. CASE KeepOrphan(m) \/ EndCleanup(m) \/ Abort(m)
      BY <1>ok, <1>3, <3>6 DEF KeepOrphan, EndCleanup, Abort
    <3> QED BY <1>3, <3>1, <3>2, <3>3, <3>4, <3>5, <3>6 DEF MaintainerStep, Publishing
  <2> QED BY <1>1, <2>1
<1>4. ASSUME MaintainerStep(p) \/ Refused(p) \/ KeepOrphan(p) \/ Abort(p) PROVE Moves
  <2>1. CASE Prune(p) \/ ReadManifest(p) \/ Conflict(p)
    BY <1>ok, <2>1 DEF Prune, ReadManifest, Conflict, Task
  <2>2. CASE PublishPruned(p) \/ PublishMerged(p)
    BY <1>ok, <2>2 DEF PublishPruned, PublishMerged, Idle
  <2>3. CASE PublishForgotten(p) \/ Nothing(p)
    BY <1>ok, <2>3 DEF PublishForgotten, Nothing, Task
  <2>4. CASE Select(p)
    <3>1. task'[p].pc = "merge"
      BY <1>ok, <2>4 DEF Select, Idle
    <3> QED BY <3>1
  <2>5. CASE Merge(p)
    BY <1>0, <2>5
  <2>6. CASE Superseded(p) \/ Cleanup(p) \/ Refused(p)
    BY <1>ok, <2>6 DEF Superseded, Cleanup, Refused, Idle
  <2>7. CASE Delete(p) \/ Know(p) \/ List(p) \/ KeepOrphan(p)
    BY <1>ok, <2>7 DEF Delete, Know, List, KeepOrphan, Task
  <2>8. CASE EndCleanup(p) \/ Abort(p)
    BY <1>ok, <2>8 DEF EndCleanup, Abort, Idle
  <2> QED BY <1>4, <2>1, <2>2, <2>3, <2>4, <2>5, <2>6, <2>7, <2>8 DEF MaintainerStep, Publishing
<1>5. ASSUME Tick \/ UNCHANGED vars PROVE Moves
  BY <1>1, <1>5 DEF Tick, vars
<1>6. ASSUME NEW w \in Writer, NEW t, NEW c, Put(w, t, c) PROVE Moves
  BY <1>1, <1>6 DEF Put
<1> HIDE DEF Moves
<1>7. ASSUME NEW m \in Maintainer, MaintainerStep(m) \/ Refused(m) \/ KeepOrphan(m) \/ Abort(m)
      PROVE  Moves
  <2>1. CASE m = p
    BY <1>4, <1>7, <2>1
  <2> QED BY <1>3, <1>7, <2>1
<1>8. Moves
  BY <1>2, <1>5, <1>6, <1>7 DEF Next
<1> QED BY <1>8 DEF Moves

LEMMA LeastStep ==
  ASSUME TypeInv, ViewInv, NEW p \in Process, Least(p), [Next]_vars
  PROVE  Least(p)'
<1>ok. /\ TypeOK /\ Used /\ task \in [Process -> Task] /\ archive \in Seq(Archive)
       /\ ArchivesStay /\ Uploads(p)
  BY ArchivesStep DEF TypeInv, TypeOK, ViewInv
<1> SUFFICES ASSUME task'[p].run # {}, task'[p].pc # "merge"
             PROVE  \A k \in task'[p].run : archive'[task'[p].key].oldest <= archive'[k].oldest
  BY DEF Least
<1>1. CASE /\ task'[p].run = task[p].run /\ task'[p].key = task[p].key
           /\ task[p].pc # "merge"
  <2>1. task[p].pc \in {"publish", "replace"} /\ task[p].run # {}
    BY <1>ok, <1>1 DEF Uploads, Combines
  <2>2. task[p].key \in DOMAIN archive /\ task[p].run \subseteq DOMAIN archive
    BY <1>ok, <2>1 DEF Used, Uses
  <2> QED BY <1>ok, <1>1, <2>2 DEF Least, ArchivesStay
<1>2. CASE p \in Maintainer /\ Merge(p)
  <2> DEFINE K == task[p].run
             b == task[p].base
             e == archive[CHOOSE j \in K : TRUE].epoch
             o == OldestOf(K)
             f == Merged(b, K)
  <2>1. /\ K # {} /\ K \subseteq DOMAIN archive /\ K \in SUBSET Key /\ b \in Manifest
    BY <1>ok, <1>2 DEF Merge, TypeOK, Task, Used, Uses
  <2>2. f \in Contents /\ o \in Nat /\ \A k \in K : o <= archive[k].oldest
    BY <1>ok, <2>1, MergedType, OldestOfIsLeast
  <2>3. e \in Nat
    BY <1>ok, <2>1, ArchiveElement DEF Archive
  <2>4. Store(p, f, e, o)
    BY <1>2 DEF Merge
  <2> HIDE DEF e, o, f, K, b
  <2>5. /\ task'[p].run = task[p].run
        /\ archive'[task'[p].key] = [tiles |-> f, epoch |-> e, oldest |-> o, modified |-> clock]
    <3>1. ASSUME NEW q \in Process, NEW tiles \in Contents, NEW epoch \in Nat, NEW oldest \in Nat,
                 Store(q, tiles, epoch, oldest)
          PROVE  /\ task'[q].run = task[q].run
                 /\ archive'[task'[q].key] = [tiles |-> tiles, epoch |-> epoch, oldest |-> oldest,
                                              modified |-> clock]
      <4>1. /\ archive'[Len(archive) + 1] = [tiles |-> tiles, epoch |-> epoch, oldest |-> oldest,
                                             modified |-> clock]
            /\ task'[q].key = Len(archive) + 1 /\ task'[q].run = task[q].run
        BY <3>1, StoreType
      <4> QED BY <4>1
    <3> QED BY <2>2, <2>3, <2>4, <3>1
  <2>6. \A k \in K : archive'[k] = archive[k]
    BY <1>ok, <2>1 DEF ArchivesStay
  <2> QED BY <2>2, <2>5, <2>6 DEF K
<1> QED BY <1>1, <1>2, RunMoves

(* How a flush goes on.                                                     *)
LEMMA FlushMoves ==
  ASSUME TypeInv, ViewInv, NEW w \in Writer, [Next]_vars,
         task'[w].pc \in {"compare", "upload", "publish", "replace"}
  PROVE  /\ ~PublishDelta(w)
         /\ \/ /\ Freeze(w) /\ task'[w].pc = "compare" /\ task'[w].since = clock
               /\ task'[w].key = 0
            \/ /\ \E unread \in Unreadable(w) : Compare(w, unread)
               /\ task[w].pc = "compare"
               /\ task'[w].since = task[w].since /\ task'[w].key = task[w].key
            \/ /\ task'[w].pc = "compare" => task[w].pc = "compare"
               /\ task[w].pc \in {"compare", "upload", "publish", "replace"}
               /\ task'[w].pc # "compare" => task[w].pc # "compare"
               /\ kept'[w] = kept[w]
               /\ task'[w].since = task[w].since
               /\ task'[w].key = task[w].key \/ Upload(w)
<1> DEFINE Freezes == /\ Freeze(w) /\ task'[w].pc = "compare" /\ task'[w].since = clock
                      /\ task'[w].key = 0
           Compares == /\ \E unread \in Unreadable(w) : Compare(w, unread)
                       /\ task[w].pc = "compare"
                       /\ task'[w].since = task[w].since /\ task'[w].key = task[w].key
           GoesOn == /\ task'[w].pc = "compare" => task[w].pc = "compare"
                     /\ task[w].pc \in {"compare", "upload", "publish", "replace"}
                     /\ task'[w].pc # "compare" => task[w].pc # "compare"
                     /\ kept'[w] = kept[w]
                     /\ task'[w].since = task[w].since
                     /\ task'[w].key = task[w].key \/ Upload(w)
           Moves == ~PublishDelta(w) /\ (Freezes \/ Compares \/ GoesOn)
<1>ok. /\ task \in [Process -> Task] /\ kept \in [Writer -> Contents] /\ Uploads(w)
  BY DEF TypeInv, TypeOK, ViewInv
<1>0. ~PublishDelta(w) /\ ~EndFlush(w) /\ ~PutBack(w) /\ ~Crash(w)
  BY <1>ok DEF PublishDelta, EndFlush, PutBack, Crash, Idle
<1>1. ASSUME task'[w] = task[w], kept'[w] = kept[w] PROVE Moves
  BY <1>0, <1>1
<1>2. ASSUME Freeze(w) PROVE Moves
  <2>1. task[w].key = 0
    BY <1>ok, <1>2 DEF Freeze, Uploads, IsOwn
  <2>2. task'[w].pc = "compare" /\ task'[w].since = clock /\ task'[w].key = task[w].key
    BY <1>ok, <1>2 DEF Freeze, Task
  <2> QED BY <1>0, <1>2, <2>1, <2>2
<1>3. ASSUME \E unread \in Unreadable(w) : Compare(w, unread) PROVE Moves
  <2>1. task[w].pc = "compare" /\ (Rest(w) \/ Goto(w, "upload"))
    BY <1>3 DEF Compare
  <2>2. ~Rest(w)
    BY <1>ok DEF Idle
  <2>3. task'[w].since = task[w].since /\ task'[w].key = task[w].key
    BY <1>ok, <2>1, <2>2 DEF Task
  <2> QED BY <1>0, <1>3, <2>1, <2>3
<1>4. ASSUME Upload(w) \/ ReadManifest(w) \/ Conflict(w) PROVE Moves
  <2>1. /\ task[w].pc \in {"upload", "publish", "replace"}
        /\ task'[w].pc \in {"publish", "replace"}
        /\ kept' = kept
    BY <1>4, UploadsKeepOut
  <2>2. task'[w].since = task[w].since
    BY <1>ok, <1>4 DEF Upload, Store, ReadManifest, Conflict, Task
  <2>3. task'[w].key = task[w].key \/ Upload(w)
    BY <1>ok, <1>4 DEF ReadManifest, Conflict, Task
  <2> QED BY <1>0, <2>1, <2>2, <2>3
<1>5. ASSUME WriterStep(w) PROVE Moves
  BY <1>0, <1>2, <1>3, <1>4, <1>5 DEF WriterStep, Publishing
<1>6. ASSUME NEW m \in Maintainer, MaintainerStep(m) \/ Refused(m) \/ KeepOrphan(m) \/ Abort(m)
      PROVE  Moves
  <2>1. task'[w] = task[w] /\ kept' = kept
    BY <1>6, MaintainersKeepOut
  <2> QED BY <1>1, <2>1
<1>7. ASSUME Tick \/ UNCHANGED vars PROVE Moves
  BY <1>1, <1>7 DEF Tick, vars
<1>8. ASSUME NEW v \in Writer, NEW t, NEW c, Put(v, t, c) PROVE Moves
  BY <1>1, <1>8 DEF Put
<1>9. ASSUME NEW v \in Writer, v # w, WriterStep(v) \/ PutBack(v) \/ Crash(v) PROVE Moves
  <2>1. task'[w] = task[w] /\ kept'[w] = kept[w]
    <3>1. CASE Freeze(v) \/ Upload(v) \/ ReadManifest(v) \/ Conflict(v)
      BY <1>ok, <1>9, <3>1 DEF Freeze, Upload, Store, ReadManifest, Conflict
    <3>2. CASE \E unread \in Unreadable(v) : Compare(v, unread)
      BY <1>ok, <1>9, <3>2 DEF Compare
    <3>3. CASE PublishDelta(v) \/ EndFlush(v) \/ PutBack(v) \/ Crash(v)
      BY <1>ok, <1>9, <3>3 DEF PublishDelta, Replace, EndFlush, PutBack, Crash
    <3> QED BY <1>9, <3>1, <3>2, <3>3 DEF WriterStep, Publishing
  <2> QED BY <1>1, <2>1
<1> HIDE DEF Moves
<1>10. Moves
  BY <1>0, <1>5, <1>6, <1>7, <1>8, <1>9 DEF Next
<1> QED BY <1>10 DEF Moves, Freezes, Compares, GoesOn

LEMMA DatedStep ==
  ASSUME TypeInv, ViewInv, NEW w \in Writer, \A v \in Writer : v = w,
         NoneAhead, Dated(w), [Next]_vars
  PROVE  Dated(w)'
<1>ok. /\ TypeOK /\ Used /\ task \in [Process -> Task] /\ clock \in Nat
       /\ ArchivesStay /\ Uploads(w) /\ TypeInv'
       /\ \A k \in DOMAIN archive : archive[k].epoch \in Nat
  BY ArchivesStep, TypeInvStep, ArchiveElement DEF TypeInv, TypeOK, ViewInv, Archive
<1> DEFINE e == Epoch(task'[w].since)
<1> SUFFICES ASSUME task'[w].pc \in {"compare", "upload", "publish", "replace"}
             PROVE  /\ \A k \in DOMAIN archive' : archive'[k].epoch <= e
                    /\ task'[w].key # 0 => archive'[task'[w].key].epoch = e
  BY DEF Dated, Epoch
<1>e. e \in Nat
  BY <1>ok, EpochType DEF TypeInv, TypeOK, Task
\* What there was is of no later epoch.
<1>1. \A k \in DOMAIN archive : archive[k].epoch <= e
  <2>1. CASE task'[w].since = clock
    BY <2>1 DEF NoneAhead
  <2>2. CASE /\ task'[w].since = task[w].since
             /\ task[w].pc \in {"compare", "upload", "publish", "replace"}
    BY <2>2 DEF Dated
  <2> QED BY <2>1, <2>2, FlushMoves
<1>2. ASSUME NEW k \in DOMAIN archive' \ DOMAIN archive PROVE archive'[k].epoch <= e
  <2>1. \/ Upload(w) /\ archive'[k].epoch = Epoch(task[w].since)
        \/ \E j \in DOMAIN archive : archive'[k].epoch = archive[j].epoch
    BY <1>2, NewArchives
  <2>2. CASE Upload(w) /\ archive'[k].epoch = Epoch(task[w].since)
    <3>1. task'[w].since = task[w].since
      BY <1>ok, <2>2 DEF Upload, Store, Task
    <3> QED BY <1>e, <2>2, <3>1
  <2> QED BY <1>1, <2>1, <2>2
<1>3. ASSUME task'[w].key # 0 PROVE archive'[task'[w].key].epoch = e
  <2>1. CASE /\ task'[w].key = task[w].key /\ task'[w].since = task[w].since
             /\ task[w].pc \in {"compare", "upload", "publish", "replace"}
    <3>1. task[w].key \in DOMAIN archive
      BY <1>ok, <1>3, <2>1 DEF Used, Uses
    <3> QED BY <1>ok, <1>3, <2>1, <3>1 DEF Dated, ArchivesStay
  <2>2. CASE Upload(w)
    <3>1. task'[w].since = task[w].since /\ task'[w].key = Len(archive) + 1
      BY <1>ok, <2>2 DEF Upload, Store, Task
    <3>2. task'[w].key \in DOMAIN archive' \ DOMAIN archive
      <4>1. DOMAIN archive = 1..Len(archive) /\ Len(archive) \in Nat
        BY <1>ok, ArchiveElement DEF TypeOK
      <4>2. task'[w].key \in DOMAIN archive'
        BY <1>ok, <1>3 DEF TypeInv, Used, Uses
      <4> QED BY <3>1, <4>1, <4>2
    <3>3. \A k \in DOMAIN archive' \ DOMAIN archive : archive'[k].epoch = Epoch(task[w].since)
      <4> TAKE k \in DOMAIN archive' \ DOMAIN archive
      <4>1. ASSUME NEW m \in Maintainer, Merge(m) PROVE FALSE
        <5>1. task'[w] = task[w]
          BY <4>1, MaintainersKeepOut DEF MaintainerStep
        <5>2. task'[w].pc = "publish" /\ task[w].pc = "upload"
          BY <1>ok, <2>2 DEF Upload, Store, Task
        <5> QED BY <5>1, <5>2
      <4> QED BY <4>1, NewArchives
    <3> QED BY <3>1, <3>2, <3>3
  <2> QED BY <1>3, <2>1, <2>2, FlushMoves
<1>4. \A k \in DOMAIN archive' : archive'[k].epoch <= e
  BY <1>ok, <1>1, <1>2 DEF ArchivesStay
<1> QED BY <1>3, <1>4

(* What is covered stays so, but for the publication of a copy.             *)
LEMMA CoveredStep ==
  ASSUME TypeInv, ViewInv, EpochsInOrder, \A p \in Process : Least(p), [Next]_vars,
         NEW t \in Tile, \A w \in Writer : PublishDelta(w) => kept[w][t] = NoCopy,
         NEW n \in Nat, Covered(t, n)
  PROVE  Covered(t, n)'
<1>ok. /\ TypeOK /\ Used /\ manifest \in Manifest /\ manifest' \in Manifest
       /\ clock \in Nat /\ clock' \in Nat /\ clock <= clock' /\ TypeInv' /\ EpochsInOrder
       /\ Now \in SUBSET Key /\ Now \subseteq Archives(manifest)
       /\ \A k \in Archives(manifest) :
            archive'[k] = archive[k] /\ archive[k].epoch \in Nat /\ archive[k].oldest \in Nat
  BY ViewFacts, ArchivesStep, TypeInvStep, ArchiveElement
  DEF TypeInv, TypeOK, Archive, Now, LiveIn
<1> DEFINE Old(k) == archive'[k].oldest <= n
<1> SUFFICES ASSUME NEW k \in Key, IsLast(archive', manifest', Then, t, k)
             PROVE  Old(k)
  BY DEF Covered, Now, Then, LiveIn, Archives
\* The last that holds t is what it was, and as it was.
<1>same. ASSUME IsLast(archive, manifest, Now, t, k) PROVE Old(k)
  <2>1. k \in Archives(manifest) /\ archive[k].oldest <= n
    BY <1>ok, <1>same DEF Covered, IsLast
  <2> QED BY <1>ok, <2>1
<1>1. ASSUME manifest'.archives = manifest.archives PROVE Old(k)
  <2>1. Archives(manifest') = Archives(manifest)
    BY <1>1 DEF Archives
  <2>2. Then \subseteq Now
    <3> SUFFICES ASSUME NEW j \in Then PROVE j \in Now
      OBVIOUS
    <3>1. j \in Archives(manifest) /\ ~IsExpired(archive[j].epoch, clock')
      BY <1>ok, <2>1 DEF Then, LiveIn
    <3>2. ~IsExpired(archive[j].epoch, clock)
      BY <1>ok, <3>1, ExpiryGrows
    <3> QED BY <3>1, <3>2 DEF Now, LiveIn
  <2>3. k \in Then
    BY DEF IsLast
  <2>4. IsLast(archive, manifest, Then, t, k)
    BY <1>ok, <1>1, <2>2 DEF IsLast
  <2>5. \A j \in Now \ Then : manifest.archives[j] < manifest.archives[k]
    <3> TAKE j \in Now \ Then
    <3>1. j \in Archives(manifest) /\ IsExpired(archive[j].epoch, clock')
      BY <1>ok, <2>1 DEF Then, LiveIn
    <3>2. k \in Archives(manifest) /\ ~IsExpired(archive[k].epoch, clock')
      BY <1>ok, <2>1, <2>3 DEF Then, LiveIn
    <3> QED BY <1>ok, <3>1, <3>2, ExpiredAreFirst
  <2>6. IsLast(archive, manifest, Now, t, k)
    BY <1>ok, <2>2, <2>4, <2>5, LastOfMore
  <2> QED BY <1>same, <2>6
<1>2. ASSUME NEW m \in Maintainer, PublishPruned(m) PROVE Old(k)
  <2>1. /\ archive' = archive /\ Then = Now
        /\ \A j \in Now : manifest'.archives[j] = manifest.archives[j]
    BY <1>2, PrunedView
  <2>2. IsLast(archive, manifest, Now, t, k)
    BY <2>1 DEF IsLast
  <2> QED BY <1>same, <2>2
<1>3. ASSUME NEW m \in Maintainer, PublishMerged(m) PROVE Old(k)
  <2> DEFINE h == task[m].key
             K == task[m].run
  <2>1. /\ h \in Key /\ h \notin Archives(manifest)
        /\ K # {} /\ K \in SUBSET Archives(manifest) /\ Whole(manifest, K)
        /\ archive' = archive /\ clock' = clock
        /\ Archives(manifest') = (Archives(manifest) \ K) \cup {h}
        /\ \E i \in K : manifest'.archives[h] = manifest.archives[i]
        /\ \A j \in Key \ (K \cup {h}) : manifest'.archives[j] = manifest.archives[j]
        /\ \A j \in K : archive[h].epoch = archive[j].epoch
        /\ archive[h].tiles[t] = CopyIn(archive, manifest, K, t)
    BY <1>3, MergeFacts
  <2>2. task[m].pc = "replace"
    BY <1>3 DEF PublishMerged
  <2>3. h \in DOMAIN archive /\ \A j \in K : archive[h].oldest <= archive[j].oldest
    <3>1. h # 0
      BY <2>1 DEF Key
    <3> QED BY <1>ok, <2>1, <2>2, <3>1 DEF Least, Used, Uses
  <2>4. archive[h].oldest \in Nat
    BY <1>ok, <2>3, ArchiveElement DEF TypeOK, Archive
  <2> HIDE DEF h, K
  <2>5. PICK i \in K : manifest'.archives[h] = manifest.archives[i]
    BY <2>1
  <2>6. CASE IsExpired(archive[h].epoch, clock)
    <3>1. Then = Now /\ Now \cap K = {} /\ h \notin Now
      BY <1>ok, <2>1, <2>6 DEF Now, Then, LiveIn
    <3>2. \A j \in Now : manifest'.archives[j] = manifest.archives[j]
      BY <1>ok, <2>1, <3>1
    <3>3. IsLast(archive, manifest, Now, t, k)
      BY <2>1, <3>1, <3>2 DEF IsLast
    <3> QED BY <1>same, <3>3
  <2>7. CASE ~IsExpired(archive[h].epoch, clock)
    <3>1. Then = (Now \ K) \cup {h} /\ K \subseteq Now /\ h \notin Now
      BY <1>ok, <2>1, <2>7 DEF Now, Then, LiveIn
    <3>2. \A j \in Now : manifest.archives[j] \in Nat
      BY <1>ok DEF Manifest
    <3>3. \A j \in Now \ K : manifest'.archives[j] = manifest.archives[j]
      BY <1>ok, <2>1, <3>1
    <3>4. \A j \in Now \ K : \/ \A g \in K : manifest.archives[j] < manifest.archives[g]
                             \/ \A g \in K : manifest.archives[j] > manifest.archives[g]
      BY <1>ok, <2>1 DEF Whole
    <3>5. K \in SUBSET Key
      BY <1>ok, <3>1
    <3>6. CASE k = h
      \* What the merged archive holds, the last of the run that holds it held.
      <4>1. PICK g \in K : /\ archive[g].tiles[t] # NoCopy
                           /\ \A j \in K : archive[j].tiles[t] # NoCopy =>
                                manifest.archives[j] <= manifest.archives[g]
        <5>1. Gives(archive, manifest, K, t, CopyIn(archive, manifest, K, t))
          BY <1>ok, <3>5, GivesCopy
        <5>2. CopyIn(archive, manifest, K, t) # NoCopy
          BY <2>1, <3>6 DEF IsLast
        <5> QED BY <5>1, <5>2 DEF Gives
      <4>2. \A j \in Now \ K : archive[j].tiles[t] # NoCopy =>
              manifest.archives[j] <= manifest.archives[i]
        BY <2>1, <2>5, <3>1, <3>3, <3>6 DEF IsLast
      <4>3. \A j \in Now \ K : archive[j].tiles[t] # NoCopy =>
              manifest.archives[j] <= manifest.archives[g]
        BY <3>1, <3>2, <3>4, <4>2
      <4>4. IsLast(archive, manifest, Now, t, g)
        BY <3>1, <4>1, <4>3 DEF IsLast
      <4>5. g \in Key /\ archive[g].oldest <= n
        BY <1>ok, <3>1, <4>4 DEF Covered
      <4>6. archive[g].oldest \in Nat
        BY <1>ok, <3>1
      <4> QED BY <2>1, <2>3, <2>4, <3>6, <4>5, <4>6
    <3>7. CASE k # h
      <4>1. k \in Now \ K /\ archive[k].tiles[t] # NoCopy
        BY <2>1, <3>1, <3>7 DEF IsLast
      <4>2. \A j \in Now \ K : archive[j].tiles[t] # NoCopy =>
              manifest.archives[j] <= manifest.archives[k]
        BY <2>1, <3>1, <3>3, <4>1 DEF IsLast
      <4>3. ASSUME NEW j \in K, archive[j].tiles[t] # NoCopy
            PROVE  manifest.archives[j] <= manifest.archives[k]
        <5>1. archive[h].tiles[t] # NoCopy
          BY <1>ok, <2>1, <3>5, <4>3, CopyThere
        <5>2. manifest.archives[i] <= manifest.archives[k]
          BY <2>1, <2>5, <3>1, <3>3, <4>1, <5>1 DEF IsLast
        <5> QED BY <3>1, <3>2, <3>4, <4>1, <5>2
      <4>4. IsLast(archive, manifest, Now, t, k)
        BY <4>1, <4>2, <4>3 DEF IsLast
      <4> QED BY <1>same, <4>4
    <3> QED BY <3>6, <3>7
  <2> QED BY <2>6, <2>7
<1>4. ASSUME NEW m \in Maintainer, PublishForgotten(m) PROVE Old(k)
  <2>1. manifest'.archives = manifest.archives
    BY <1>4 DEF PublishForgotten, Replace, Unchanged, WithoutRetired, Successor
  <2> QED BY <1>1, <2>1
<1>5. ASSUME manifest' = manifest PROVE Old(k)
  BY <1>1, <1>5
<1>6. ASSUME NEW w \in Writer, PublishDelta(w) PROVE Old(k)
  <2> DEFINE h == task[w].key
  <2>1. /\ manifest' = WithDelta(manifest, h) /\ archive' = archive /\ clock' = clock
        /\ task[w].pc = "replace"
    BY <1>6 DEF PublishDelta, Replace, Unchanged
  <2>2. h \in Key /\ h # 0
    BY <1>ok, <1>6, <2>1 DEF Used, Uses, Task, Key, TypeOK
  <2>3. h \notin Archives(manifest) /\ archive[h].tiles[t] = NoCopy
    BY <1>6, <2>1, <2>2 DEF ViewInv, Uploads, IsOwn, Flushes
  <2> HIDE DEF h
  <2>4. /\ Archives(manifest') = Archives(manifest) \cup {h}
        /\ \A j \in Key \ {h} : manifest'.archives[j] = manifest.archives[j]
    BY <1>ok, <2>1, <2>2, DeltaManifest
  <2>5. Now \subseteq Then /\ Then \subseteq Now \cup {h} /\ h \notin Now
    BY <1>ok, <2>1, <2>3, <2>4 DEF Now, Then, LiveIn
  <2>6. \A j \in Now : j \in Then /\ manifest'.archives[j] = manifest.archives[j]
    BY <1>ok, <2>4, <2>5
  <2>7. k \in Now
    BY <2>1, <2>3, <2>5 DEF IsLast
  <2>8. IsLast(archive, manifest, Now, t, k)
    BY <2>1, <2>6, <2>7 DEF IsLast
  <2> QED BY <1>same, <2>8
<1> HIDE DEF Old
<1>7. Old(k)
  BY <1>2, <1>3, <1>4, <1>5, <1>6, Publications
<1> QED BY <1>7 DEF Old

(* What drop_duplicates keeps is covered: no copy of it is certainly newer. *)
LEMMA KeptIsCovered ==
  ASSUME TypeInv, ViewInv, EpochsInOrder, NEW now \in Nat, now <= clock,
         NEW t \in Tile, NEW c \in Copy, ~Duplicate(manifest, now, t, c)
  PROVE  Covered(t, c.fetched)
<1> DEFINE L == Live(manifest, now)
           h == Holder(manifest, L, t)
<1>ok. /\ manifest \in Manifest /\ clock \in Nat /\ EpochsInOrder
       /\ Now \subseteq Archives(manifest) /\ L \in SUBSET Key
       /\ \A k \in Archives(manifest) :
            archive[k].epoch \in Nat /\ archive[k].oldest \in Nat
       /\ c.fetched \in Nat
  BY ArchiveElement
  DEF TypeInv, TypeOK, Used, Named, Archive, Now, LiveIn, Live, Archives, Copy
<1> SUFFICES ASSUME NEW k \in Key, IsLast(archive, manifest, Now, t, k)
             PROVE  archive[k].oldest <= c.fetched
  BY DEF Covered
<1>1. k \in Archives(manifest) /\ ~IsExpired(archive[k].epoch, clock)
  BY DEF IsLast, Now, LiveIn
<1>2. Now \subseteq L
  <2> SUFFICES ASSUME NEW j \in Now PROVE j \in L
    OBVIOUS
  <2>1. j \in Archives(manifest) /\ ~IsExpired(archive[j].epoch, clock)
    BY DEF Now, LiveIn
  <2>2. ~IsExpired(archive[j].epoch, now)
    BY <1>ok, <2>1, ExpiryGrows
  <2> QED BY <2>1, <2>2 DEF Live
<1>3. \A j \in L \ Now : manifest.archives[j] < manifest.archives[k]
  <2> TAKE j \in L \ Now
  <2>1. j \in Archives(manifest) /\ IsExpired(archive[j].epoch, clock)
    BY DEF Now, LiveIn, Live
  <2> QED BY <1>ok, <1>1, <2>1, ExpiredAreFirst
<1>n. ~Duplicate(manifest, now, t, c)
  OBVIOUS
<1> HIDE DEF L
<1>4. IsLast(archive, manifest, L, t, k)
  BY <1>ok, <1>2, <1>3, LastOfMore
<1>5. k \in Holders(L, t) /\ \A j \in Holders(L, t) : manifest.archives[j] <= manifest.archives[k]
  BY <1>4 DEF IsLast, Holders
<1>6. h \in Holders(L, t) /\ manifest.archives[k] <= manifest.archives[h]
  BY <1>ok, <1>5, HolderExists
<1>7. ~(archive[h].oldest > c.fetched)
  BY <1>n, <1>5 DEF Duplicate, L
<1> HIDE DEF h
<1>8. h \in Archives(manifest) /\ manifest.archives[h] \in Nat /\ manifest.archives[k] \in Nat
  BY <1>ok, <1>6 DEF Holders, L, Live, Manifest
<1>9. manifest.archives[h] = manifest.archives[k]
  BY <1>5, <1>6, <1>8
<1>10. h = k
  BY <1>1, <1>8, <1>9 DEF ViewInv, PlacesDiffer
<1> QED BY <1>ok, <1>1, <1>7, <1>10

(* What a flush kept and nothing overtakes is covered.                      *)
Wins(w) ==
  Compared(w) =>
    \A t \in TilesOf(kept[w]) \ overtaken[w] : Covered(t, kept[w][t].fetched)

RacesInv ==
  /\ \A p \in Process : Least(p)
  /\ \A w \in Writer : Wins(w) /\ (Compared(w) /\ overtaken[w] # Tile => EpochsInOrder)

LEMMA RacesInvInit == RacesInit => RacesInv
<1> SUFFICES ASSUME RacesInit PROVE RacesInv
  OBVIOUS
<1>1. \A p \in Process : task[p].pc = "idle" /\ task[p].run = {}
  BY DEF RacesInit, Init, Idle
<1> QED BY <1>1 DEF RacesInv, Wins, Compared, Least

LEMMA RacesStep == [RacesNext]_racesVars => [Next]_vars
BY DEF RacesNext, racesVars

(* A flush that has compared, and what it knows of t: no rival published it.*)
LEMMA NotOvertaken ==
  ASSUME TypeInv, ViewInv, [RacesNext]_racesVars, NEW w \in Writer, Compared(w), Compared(w)',
         NEW t \in Tile, t \notin overtaken'[w]
  PROVE  t \notin overtaken[w] /\ \A v \in Writer : PublishDelta(v) => kept[v][t] = NoCopy
<1>ok. task \in [Process -> Task]
  BY DEF TypeInv, TypeOK
<1>1. CASE UNCHANGED racesVars
  <2>1. \A v \in Writer : ~PublishDelta(v)
    BY <1>ok, <1>1 DEF PublishDelta, Idle, racesVars, vars
  <2> QED BY <1>1, <2>1 DEF racesVars
<1>2. CASE RacesNext
  <2>1. overtaken'[w] = IF ~EpochsInOrder' THEN Tile ELSE overtaken[w] \cup Rivals(w)
    BY <1>2 DEF RacesNext, Overtakes
  <2>2. t \notin overtaken[w] /\ t \notin Rivals(w)
    BY <2>1
  <2>3. ~PublishDelta(w)
    BY RacesStep, FlushMoves DEF Compared
  <2> QED BY <2>2, <2>3 DEF Rivals, TilesOf
<1> QED BY <1>1, <1>2

(* A flush that has just compared: what it knows of t it read.              *)
LEMMA JustCompared ==
  ASSUME [RacesNext]_racesVars, NEW w \in Writer, ~Compared(w), Compared(w)',
         NEW t \in TilesOf(kept'[w]), t \notin overtaken'[w]
  PROVE  EpochsInOrder' /\ ~Duplicate(manifest, task[w].since, t, kept'[w][t])
<1>1. RacesNext
  BY DEF racesVars, vars, Compared
<1>2. overtaken'[w] = IF ~EpochsInOrder' THEN Tile ELSE Unread(w)
  BY <1>1 DEF RacesNext, Overtakes
<1> QED BY <1>2 DEF Unread, TilesOf

LEMMA WinsStep ==
  ASSUME TypeInv, ViewInv, RacesInv, NEW w \in Writer, [RacesNext]_racesVars
  PROVE  Wins(w)'
<1>ok. /\ TypeOK /\ task \in [Process -> Task] /\ kept \in [Writer -> Contents]
       /\ Uploads(w) /\ kept' \in [Writer -> Contents] /\ [Next]_vars
       /\ \A p \in Process : Least(p)
  BY TypeInvStep, RacesStep DEF TypeInv, TypeOK, ViewInv, RacesInv
<1> DEFINE Covers(t, n) ==
      \A k \in Key : IsLast(archive', manifest', Then, t, k) => archive'[k].oldest <= n
<1> SUFFICES ASSUME Compared(w)', NEW t \in Tile, kept'[w][t] # NoCopy, t \notin overtaken'[w]
             PROVE  Covers(t, kept'[w][t].fetched)
  BY DEF Wins, Covered, TilesOf, Now, Then, LiveIn, Archives
<1>t. kept'[w][t] \in Copy /\ t \in TilesOf(kept'[w])
  BY <1>ok DEF Contents, TilesOf
<1>moves. \/ \E unread \in Unreadable(w) : Compare(w, unread)
          \/ kept'[w] = kept[w] /\ Compared(w)
  BY <1>ok, FlushMoves DEF Compared
<1> DEFINE c == kept'[w][t]
<1> HIDE DEF c
<1>1. ASSUME EpochsInOrder, Covered(t, c.fetched),
             \A v \in Writer : PublishDelta(v) => kept[v][t] = NoCopy
      PROVE  Covers(t, c.fetched)
  <2>1. PICK n \in Nat : n = c.fetched
    BY <1>t DEF Copy, c
  <2>2. Covered(t, n)'
    BY <1>ok, <1>1, <2>1, CoveredStep
  <2>3. Covers(t, n)
    BY <2>2 DEF Covered, Now, Then, LiveIn, Archives
  <2> QED BY <2>1, <2>3
<1>2. ASSUME NEW unread \in Unreadable(w), Compare(w, unread) PROVE Covers(t, c.fetched)
  <2>1. /\ ~Compared(w) /\ UNCHANGED <<archive, manifest, clock>>
        /\ \A v \in Writer : ~PublishDelta(v)
    <3>1. task[w].pc = "compare" /\ UNCHANGED <<archive, manifest, clock>>
      BY <1>2 DEF Compare
    <3>2. ASSUME NEW v \in Writer, PublishDelta(v) PROVE FALSE
      <4>1. manifest' # manifest
        <5>1. manifest' = WithDelta(manifest, task[v].key) /\ manifest \in Manifest
          BY <3>2 DEF PublishDelta, Replace, Unchanged, TypeInv, TypeOK
        <5>2. manifest'.generation = manifest.generation + 1 /\ manifest.generation \in Nat
          BY <5>1 DEF WithDelta, Successor, Manifest
        <5> QED BY <5>2
      <4> QED BY <3>1, <4>1
    <3> QED BY <3>1, <3>2 DEF Compared
  <2>2. EpochsInOrder' /\ ~Duplicate(manifest, task[w].since, t, c)
    BY <1>t, <2>1, JustCompared DEF c
  <2>3. EpochsInOrder
    BY <2>1, <2>2 DEF EpochsInOrder, Archives
  <2>4. task[w].since \in Nat /\ task[w].since <= clock
    BY <1>ok DEF Task, Uploads
  <2>5. c \in Copy
    BY <1>t DEF c
  <2>6. Covered(t, c.fetched)
    BY <2>2, <2>3, <2>4, <2>5, KeptIsCovered
  <2> QED BY <1>1, <2>1, <2>3, <2>6
<1>3. ASSUME kept'[w] = kept[w], Compared(w) PROVE Covers(t, c.fetched)
  <2>1. t \notin overtaken[w] /\ \A v \in Writer : PublishDelta(v) => kept[v][t] = NoCopy
    BY <1>3, NotOvertaken
  <2>2. EpochsInOrder
    BY <1>3, <2>1 DEF RacesInv
  <2>3. Covered(t, c.fetched)
    BY <1>3, <1>t, <2>1 DEF RacesInv, Wins, c
  <2> QED BY <1>1, <2>1, <2>2, <2>3
<1> HIDE DEF Covers
<1> QED BY <1>2, <1>3, <1>moves DEF c

LEMMA RacesInvStep ==
  ASSUME TypeInv, ViewInv, RacesInv, [RacesNext]_racesVars
  PROVE  RacesInv'
<1>1. \A p \in Process : Least(p)'
  BY RacesStep, LeastStep DEF RacesInv
<1>2. ASSUME NEW w \in Writer PROVE Wins(w)'
  BY WinsStep
<1>3. ASSUME NEW w \in Writer, Compared(w)', overtaken'[w] # Tile PROVE EpochsInOrder'
  <2>1. CASE UNCHANGED racesVars
    <3>1. Compared(w) /\ overtaken[w] # Tile /\ UNCHANGED <<archive, manifest>>
      BY <1>3, <2>1 DEF Compared, racesVars, vars, bucketVars
    <3>2. EpochsInOrder
      BY <3>1 DEF RacesInv
    <3> QED BY <3>1, <3>2 DEF EpochsInOrder, Archives
  <2>2. CASE RacesNext
    BY <1>3, <2>2 DEF RacesNext, Overtakes
  <2> QED BY <2>1, <2>2
<1> QED BY <1>1, <1>2, <1>3 DEF RacesInv

NewestWins ==
  \A w \in Writer : PublishDelta(w) =>
    \A t \in TilesOf(View) \cap (TilesOf(kept[w]) \ overtaken[w]) :
      archive[Holder(manifest, Live(manifest, clock), t)].oldest <= kept[w][t].fetched

LEMMA NewestWinsStep ==
  ASSUME TypeInv, ViewInv, RacesInv, [Next]_vars
  PROVE  NewestWins
<1> SUFFICES ASSUME NEW w \in Writer, PublishDelta(w),
                    NEW t \in Tile, View[t] # NoCopy, kept[w][t] # NoCopy, t \notin overtaken[w]
             PROVE  archive[Holder(manifest, Live(manifest, clock), t)].oldest
                      <= kept[w][t].fetched
  BY DEF NewestWins, TilesOf
<1>1. Compared(w)
  BY DEF PublishDelta, Compared
<1>2. Covered(t, kept[w][t].fetched)
  BY <1>1 DEF RacesInv, Wins, TilesOf
<1> DEFINE h == Holder(manifest, Now, t)
<1>3. Live(manifest, clock) = Now /\ Now \in SUBSET Key /\ manifest \in Manifest
  BY ViewFacts DEF Now, Live, LiveIn
<1>4. Holders(Now, t) # {}
  BY <1>3 DEF View, Merged
<1>5. h \in Holders(Now, t) /\ \A j \in Holders(Now, t) : manifest.archives[j] <= manifest.archives[h]
  BY <1>3, <1>4, HolderExists
<1> HIDE DEF h
<1>6. h \in Key /\ IsLast(archive, manifest, Now, t, h)
  BY <1>3, <1>5 DEF Holders, IsLast
<1>7. archive[h].oldest <= kept[w][t].fetched
  BY <1>2, <1>6 DEF Covered
<1> QED BY <1>3, <1>7 DEF h

(* The newest fetch wins, however many processes write a zone and whatever  *)
(* maintainers, time and failures do meanwhile: a flush puts a copy over    *)
(* one from an archive whose tiles were all fetched after it                *)
(* (drop_duplicates, publish_delta, merge_run) only where a rival published *)
(* the tile since it compared, it could not read the stored copy, or the    *)
(* zone's archives were out of the order of their epochs.                   *)
THEOREM NewestFetchWinsCorrect == RacesSpec => NewestFetchWins
<1>1. RacesInit => TypeInv /\ ViewInv /\ RacesInv
  BY TypeInvInit, ViewInvInit, RacesInvInit DEF RacesInit
<1>2. TypeInv /\ ViewInv /\ RacesInv /\ [RacesNext]_racesVars
        => (TypeInv /\ ViewInv /\ RacesInv)'
  BY RacesStep, TypeInvStep, ViewInvStep, RacesInvStep
<1>3. TypeInv /\ ViewInv /\ RacesInv /\ [RacesNext]_racesVars =>
        \A w \in Writer : PublishDelta(w) =>
          \A t \in TilesOf(View) \cap (TilesOf(kept[w]) \ overtaken[w]) :
            archive[Holder(manifest, Live(manifest, clock), t)].oldest
              <= kept[w][t].fetched
  BY RacesStep, NewestWinsStep DEF NewestWins
<1> QED BY <1>1, <1>2, <1>3, PTL DEF RacesSpec, NewestFetchWins

(* What a lone writer of a zone knows when it publishes.                    *)
Known ==
  /\ EpochsInOrder /\ NoneAhead
  /\ \A w \in Writer : Dated(w) /\ overtaken[w] = {}

LEMMA KnownStep ==
  ASSUME ~ReadsFail, \A v, w \in Writer : v = w,
         TypeInv, ViewInv, Known, [RacesNext]_racesVars
  PROVE  Known'
<1>ok. task \in [Process -> Task] /\ [Next]_vars
  BY RacesStep DEF TypeInv, TypeOK
<1>1. EpochsInOrder' /\ NoneAhead'
  BY <1>ok, EpochsInOrderStep, NoneAheadStep DEF Known
<1>2. ASSUME NEW w \in Writer PROVE Dated(w)'
  <2>1. \A v \in Writer : v = w
    BY <1>2
  <2> QED BY <1>ok, <2>1, DatedStep DEF Known
<1>3. ASSUME NEW w \in Writer, Compared(w)', ~Compared(w) PROVE Unread(w) = {}
  <2>1. PICK unread \in Unreadable(w) : Compare(w, unread)
    BY <1>ok, <1>3, FlushMoves DEF Compared
  <2>2. unread = {}
    BY <2>1 DEF Unreadable
  <2> DEFINE fresh == {s \in TilesOf(flushing[w]) :
                         s \in unread \/ ~Duplicate(manifest, task[w].since, s, flushing[w][s])}
  <2>3. kept'[w] = Restricted(flushing[w], fresh)
    BY <2>1 DEF Compare, TypeInv, TypeOK
  <2>4. ASSUME NEW t \in TilesOf(kept'[w])
        PROVE  ~Duplicate(manifest, task[w].since, t, kept'[w][t])
    BY <2>2, <2>3 DEF TilesOf, Restricted
  <2> QED BY <2>4 DEF Unread
<1>4. ASSUME NEW w \in Writer PROVE overtaken'[w] = {}
  <2>1. CASE UNCHANGED racesVars
    BY <1>4, <2>1 DEF Known, racesVars
  <2>2. CASE RacesNext
    <3>1. overtaken'[w] = IF ~Compared(w)' THEN {}
                          ELSE IF Compared(w) THEN overtaken[w] \cup Rivals(w) ELSE Unread(w)
      BY <1>1, <2>2 DEF RacesNext, Overtakes
    <3>2. Rivals(w) = {}
      BY <1>4 DEF Rivals
    <3>3. overtaken[w] = {}
      BY <1>4 DEF Known
    <3> QED BY <1>3, <3>1, <3>2, <3>3
  <2> QED BY <2>1, <2>2
<1> QED BY <1>1, <1>2, <1>4 DEF Known

(* A zone one process writes, and whose stored copies can be read, is one   *)
(* where nothing is overtaken: there the newest fetch wins without          *)
(* exception.                                                               *)
THEOREM AloneNothingIsOvertaken ==
  ASSUME ~ReadsFail, \A v, w \in Writer : v = w
  PROVE  RacesSpec => [](\A w \in Writer : overtaken[w] = {})
<1>1. RacesInit => TypeInv /\ ViewInv /\ Known
  <2> SUFFICES ASSUME RacesInit PROVE Known
    BY TypeInvInit, ViewInvInit DEF RacesInit
  <2>1. Archives(manifest) = {} /\ DOMAIN archive = {}
    BY EmptyManifestType DEF RacesInit, Init, Named
  <2>2. \A p \in Process : task[p].pc = "idle"
    BY DEF RacesInit, Init, Idle
  <2> QED BY <2>1, <2>2 DEF Known, EpochsInOrder, NoneAhead, Dated, RacesInit
<1>2. TypeInv /\ ViewInv /\ Known /\ [RacesNext]_racesVars => (TypeInv /\ ViewInv /\ Known)'
  BY RacesStep, TypeInvStep, ViewInvStep, KnownStep
<1>3. Known => \A w \in Writer : overtaken[w] = {}
  BY DEF Known
<1> QED BY <1>1, <1>2, <1>3, PTL DEF RacesSpec
=============================================================================
