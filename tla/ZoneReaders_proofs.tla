------------------------- MODULE ZoneReaders_proofs -------------------------
(***************************************************************************)
(* Theorems about ZoneReaders, for every value of its constants: what a     *)
(* reader's manifest lists is there for as long as the read lasts, and the  *)
(* read returns it.                                                         *)
(*                                                                         *)
(* They rest on ZoneStore's invariants (ZoneStore_proofs) and on how long   *)
(* what is retired stays named: an archive that a manifest listed at a time *)
(* is either named since without a break, or was retired, and cleaned up    *)
(* after the whole grace.                                                   *)
(***************************************************************************)
EXTENDS ZoneReaders, ZoneStore_proofs

USE DEF bucketVars, bufferVars, limitVars, At, Goto, Rest, Process

-----------------------------------------------------------------------------
(* What one step of the zone may do to the archives that readers know of.   *)

\* Only what a cleanup set out to delete is no longer named.
ForgetsTheDoomed ==
  Named(manifest) \ Named(manifest') \subseteq UNION {task[p].doomed : p \in Process}

\* An archive is retired as of the start of a merge, or once it has expired.
RetiresInTime ==
  \A e \in manifest'.retired \ manifest.retired :
    \/ e.at >= clock - MergeTime
    \/ e.key \in DOMAIN archive /\ IsExpired(archive[e.key].epoch, e.at)

\* A cleanup sets out to delete what is past its grace or not named.
DoomsThePast ==
  \A p \in Process : \A k \in task'[p].doomed \ task[p].doomed :
    \/ k \notin Named(manifest)
    \/ \E e \in manifest.retired : e.key = k /\ PastGrace(e)

\* A merge works with the time it began at.
RunsInTime ==
  \A p \in Process : task'[p].run # {} =>
    \/ task[p].run # {} /\ task'[p].since = task[p].since
    \/ task'[p].since = clock

\* A merge that is going on began at most MergeTime ago.
MergesInTime ==
  \A p \in Process : task[p].run # {} => clock <= task[p].since + MergeTime

(* A step of p that leaves the manifest alone and dooms nothing more.       *)
LEMMA QuietFacts ==
  ASSUME NEW p \in Process,
         \A q \in Process \ {p} : task'[q] = task[q],
         manifest' = manifest, ArchivesStay,
         task'[p].doomed \subseteq task[p].doomed,
         \/ task'[p].run = {}
         \/ task'[p].run = task[p].run /\ task'[p].since = task[p].since
         \/ task'[p].since = clock
  PROVE  ForgetsTheDoomed /\ RetiresInTime /\ DoomsThePast /\ RunsInTime /\ ArchivesStay
<1>1. DoomsThePast
  <2> SUFFICES ASSUME NEW q \in Process, NEW k \in task'[q].doomed \ task[q].doomed
               PROVE  FALSE
    BY DEF DoomsThePast
  <2>1. q = p
    OBVIOUS
  <2> QED BY <2>1
<1>2. RunsInTime
  <2> SUFFICES ASSUME NEW q \in Process, task'[q].run # {}
               PROVE  \/ task[q].run # {} /\ task'[q].since = task[q].since
                      \/ task'[q].since = clock
    BY DEF RunsInTime
  <2>1. CASE q = p
    BY <2>1
  <2>2. CASE q # p
    BY <2>2
  <2> QED BY <2>1, <2>2
<1> QED BY <1>1, <1>2 DEF ForgetsTheDoomed, RetiresInTime

(* A publication by p after which p merges nothing and dooms nothing more.  *)
LEMMA PublicationFacts ==
  ASSUME NEW p \in Process,
         \A q \in Process \ {p} : task'[q] = task[q],
         archive' = archive,
         task'[p].doomed \subseteq task[p].doomed,
         task'[p].run = {},
         Named(manifest) \subseteq Named(manifest') \cup task[p].doomed,
         RetiresInTime
  PROVE  ForgetsTheDoomed /\ RetiresInTime /\ DoomsThePast /\ RunsInTime /\ ArchivesStay
<1>1. DoomsThePast
  <2> SUFFICES ASSUME NEW q \in Process, NEW k \in task'[q].doomed \ task[q].doomed
               PROVE  FALSE
    BY DEF DoomsThePast
  <2>1. q = p
    OBVIOUS
  <2> QED BY <2>1
<1>2. RunsInTime
  <2> SUFFICES ASSUME NEW q \in Process, task'[q].run # {}
               PROVE  task[q].run # {} /\ task'[q].since = task[q].since
    BY DEF RunsInTime
  <2>1. q # p
    OBVIOUS
  <2> QED BY <2>1
<1>3. ForgetsTheDoomed
  BY DEF ForgetsTheDoomed
<1>4. ArchivesStay
  BY DEF ArchivesStay
<1> QED BY <1>1, <1>2, <1>3, <1>4

(* What every step of the zone does and does not, action by action.         *)
LEMMA StepFacts ==
  ASSUME PublishTime < OrphanGrace, TypeInv, StoreInv, MergesInTime, [Next]_vars
  PROVE  /\ ForgetsTheDoomed /\ RetiresInTime /\ DoomsThePast /\ RunsInTime /\ ArchivesStay
         /\ clock' = clock \/ (clock' = clock + 1 /\ UNCHANGED task
                                /\ \A p \in Process : Timely(p))
<1> DEFINE Facts == /\ ForgetsTheDoomed /\ RetiresInTime /\ DoomsThePast
                    /\ RunsInTime /\ ArchivesStay
<1>ok. TypeOK /\ Used
  BY DEF TypeInv
<1>task. task \in [Process -> Task]
  BY <1>ok DEF TypeOK
<1>clock. clock \in Nat /\ manifest \in Manifest /\ archive \in Seq(Archive)
  BY <1>ok DEF TypeOK
<1>same. archive' = archive => ArchivesStay
  BY DEF ArchivesStay
<1>0. ASSUME UNCHANGED <<archive, manifest, task>> PROVE Facts
  BY <1>0, <1>same DEF ForgetsTheDoomed, RetiresInTime, DoomsThePast, RunsInTime
<1>1. ASSUME Tick PROVE Facts
  BY <1>0, <1>1 DEF Tick
<1>2. ASSUME NEW w \in Writer, NEW t, NEW c, Put(w, t, c) PROVE Facts
  BY <1>0, <1>2 DEF Put
<1>3. ASSUME NEW p \in Process,
             UNCHANGED <<archive, manifest>>,
             NEW s \in Task, task' = [task EXCEPT ![p] = s],
             s.doomed \subseteq task[p].doomed,
             \/ s.run = {}
             \/ s.run = task[p].run /\ s.since = task[p].since
             \/ s.since = clock
      PROVE  Facts
  <2>1. task'[p] = s /\ \A q \in Process \ {p} : task'[q] = task[q]
    BY <1>task, <1>3
  <2>2. /\ task'[p].doomed \subseteq task[p].doomed
        /\ \/ task'[p].run = {}
           \/ task'[p].run = task[p].run /\ task'[p].since = task[p].since
           \/ task'[p].since = clock
    BY <1>3, <2>1
  <2> HIDE DEF Facts
  <2>3. Facts
    BY <1>3, <1>same, <2>1, <2>2, QuietFacts DEF Facts
  <2> QED BY <2>3
<1>4. ASSUME NEW p \in Process, UNCHANGED <<archive, manifest>>, Rest(p) PROVE Facts
  <2>1. Idle.run = {} /\ Idle.doomed = {} /\ Idle \in Task
    BY IdleType DEF Idle
  <2> QED BY <1>3, <1>4, <2>1
<1>pcs. {"upload", "replace", "publish", "compare", "merge", "select", "cleanup", "know",
         "list", "sweep", "delete"} \subseteq PCs
  BY DEF PCs
<1>5. ASSUME NEW p \in Process, ReadManifest(p) PROVE Facts
  <2> DEFINE s == [task[p] EXCEPT !.pc = "replace", !.base = manifest]
  <2>1. s \in Task /\ s.doomed = task[p].doomed /\ s.run = task[p].run
        /\ s.since = task[p].since
    BY <1>task, <1>clock, <1>pcs DEF Task
  <2>2. task' = [task EXCEPT ![p] = s] /\ UNCHANGED <<archive, manifest>>
    BY <1>5 DEF ReadManifest
  <2> HIDE DEF s
  <2> QED BY <1>3, <2>1, <2>2
<1>6. ASSUME NEW p \in Process, Conflict(p) PROVE Facts
  <2> DEFINE s == [task[p] EXCEPT !.pc = "publish", !.base = EmptyManifest]
  <2>1. s \in Task /\ s.doomed = task[p].doomed /\ s.run = task[p].run
        /\ s.since = task[p].since
    BY <1>task, <1>clock, <1>pcs, EmptyManifestType DEF Task
  <2>2. task' = [task EXCEPT ![p] = s] /\ UNCHANGED <<archive, manifest>>
    BY <1>6 DEF Conflict
  <2> HIDE DEF s
  <2> QED BY <1>3, <2>1, <2>2
<1>7. ASSUME NEW p \in Writer, Freeze(p) PROVE Facts
  <2> DEFINE s == [task[p] EXCEPT !.pc = "compare", !.since = clock]
  <2>1. s \in Task /\ s.doomed = task[p].doomed /\ s.since = clock
    BY <1>task, <1>clock, <1>pcs DEF Task
  <2>2. task' = [task EXCEPT ![p] = s] /\ UNCHANGED <<archive, manifest>>
    BY <1>7 DEF Freeze
  <2> HIDE DEF s
  <2> QED BY <1>3, <2>1, <2>2
<1>8. ASSUME NEW p \in Process, NEW pc \in PCs, UNCHANGED <<archive, manifest>>,
             task' = [task EXCEPT ![p].pc = pc]
      PROVE  Facts
  <2> DEFINE s == [task[p] EXCEPT !.pc = pc]
  <2>1. s \in Task /\ s.doomed = task[p].doomed /\ s.run = task[p].run
        /\ s.since = task[p].since
    BY <1>task, <1>clock DEF Task
  <2>2. task' = [task EXCEPT ![p] = s]
    BY <1>8
  <2> HIDE DEF s
  <2> QED BY <1>3, <1>8, <2>1, <2>2
<1>9. ASSUME NEW p \in Writer, NEW unread, Compare(p, unread) PROVE Facts
  <2>1. UNCHANGED <<archive, manifest>> /\ (Rest(p) \/ task' = [task EXCEPT ![p].pc = "upload"])
    BY <1>9 DEF Compare
  <2> QED BY <1>4, <1>8, <1>pcs, <2>1
<1>10. ASSUME NEW p \in Writer, EndFlush(p) \/ PutBack(p) \/ Crash(p) PROVE Facts
  BY <1>4, <1>10 DEF EndFlush, PutBack, Crash
<1>11. ASSUME NEW p \in Maintainer, Abort(p) PROVE Facts
  BY <1>4, <1>11 DEF Abort
<1>12. ASSUME NEW p \in Process, NEW tiles \in Contents, NEW epoch \in Nat, NEW oldest \in Nat,
              Store(p, tiles, epoch, oldest), manifest' = manifest
       PROVE  Facts
  <2>1. /\ \A q \in Process \ {p} : task'[q] = task[q]
        /\ task'[p].run = task[p].run /\ task'[p].doomed = task[p].doomed
        /\ task'[p].since = task[p].since
    BY <1>12, StoreType
  <2>2. /\ DOMAIN archive \subseteq DOMAIN archive'
        /\ \A j \in DOMAIN archive : archive'[j] = archive[j]
    BY <1>12, StoreType
  <2>3. ArchivesStay
    BY <2>2 DEF ArchivesStay
  <2> HIDE DEF Facts
  <2>4. Facts
    BY <1>12, <2>1, <2>3, QuietFacts DEF Facts
  <2> QED BY <2>4
<1>13. ASSUME NEW p \in Writer, Upload(p) PROVE Facts
  <2>1. TilesOf(kept[p]) # {} /\ kept[p] \in Contents /\ task[p].since \in Nat
    BY <1>ok, <1>13 DEF Upload, Used, Uses, TypeOK, Task
  <2>2. Oldest(kept[p]) \in Nat /\ Epoch(task[p].since) \in Nat
    BY <2>1, OldestIsLeast, EpochType
  <2> QED BY <1>12, <1>13, <2>1, <2>2 DEF Upload
<1>14. ASSUME NEW p \in Maintainer, Merge(p) PROVE Facts
  <2> DEFINE K == task[p].run
             b == task[p].base
             e == archive[CHOOSE i \in K : TRUE].epoch
  <2>1. K # {} /\ K \subseteq DOMAIN archive /\ K \in SUBSET Key /\ b \in Manifest
    BY <1>ok, <1>14 DEF Merge, TypeOK, Task, Used, Uses
  <2>2. Merged(b, K) \in Contents /\ OldestOf(K) \in Nat
    BY <1>clock, <2>1, MergedType, OldestOfIsLeast
  <2>3. e \in Nat
    BY <1>clock, <2>1, ArchiveElement DEF Archive
  <2>4. Store(p, Merged(b, K), e, OldestOf(K)) /\ manifest' = manifest
    BY <1>14 DEF Merge
  <2> HIDE DEF K, b, e
  <2> QED BY <1>12, <2>2, <2>3, <2>4
<1>15. ASSUME NEW p \in Writer, PublishDelta(p) PROVE Facts
  <2> DEFINE k == task[p].key
  <2>1. /\ manifest' = WithDelta(manifest, k) /\ archive' = archive
        /\ \A q \in Process \ {p} : task'[q] = task[q]
        /\ task'[p].doomed = {} /\ task'[p].run = {}
    BY <1>task, <1>15 DEF PublishDelta, Replace, Unchanged, Idle
  <2>2. k \in Key
    BY <1>ok, <1>task, <1>15 DEF PublishDelta, Used, Uses, Task
  <2> HIDE DEF k
  <2>3. manifest'.retired = manifest.retired /\ Archives(manifest) \subseteq Archives(manifest')
    BY <1>clock, <2>1, <2>2, DeltaManifest
  <2>4. RetiresInTime /\ Named(manifest) \subseteq Named(manifest')
    BY <2>3 DEF RetiresInTime, Named, Retired
  <2> HIDE DEF Facts
  <2>5. Facts
    BY <2>1, <2>4, PublicationFacts DEF Facts
  <2> QED BY <2>5
<1>16. ASSUME NEW p \in Maintainer, PublishPruned(p) PROVE Facts
  <2> DEFINE now == task[p].since
             K == Archives(manifest) \ Live(manifest, now)
  <2>1. /\ manifest' = WithoutExpired(manifest, now) /\ archive' = archive
        /\ \A q \in Process \ {p} : task'[q] = task[q]
        /\ task'[p].doomed = {} /\ task'[p].run = {} /\ now \in Nat
    BY <1>task, <1>16 DEF PublishPruned, Replace, Unchanged, Idle, Task
  <2>2. /\ Archives(manifest') = Live(manifest, now)
        /\ manifest'.retired = manifest.retired \cup Retire(K, now)
    BY <1>clock, <2>1, PrunedManifest
  <2>3. \A k \in K : k \in DOMAIN archive /\ IsExpired(archive[k].epoch, now)
    BY <1>ok DEF Live, Used, Named
  <2>4. Live(manifest, now) \cup K = Archives(manifest)
    BY DEF Live
  <2> HIDE DEF K, now
  <2>5. Retired(manifest') = Retired(manifest) \cup K
    BY <2>2, RetiredGrows
  <2>6. Named(manifest) \subseteq Named(manifest')
    BY <2>2, <2>4, <2>5 DEF Named
  <2>7. RetiresInTime
    BY <2>2, <2>3 DEF RetiresInTime, Retire
  <2> HIDE DEF Facts
  <2>8. Facts
    BY <2>1, <2>6, <2>7, PublicationFacts DEF Facts
  <2> QED BY <2>8
<1>17. ASSUME NEW p \in Maintainer, PublishMerged(p) PROVE Facts
  <2> DEFINE k == task[p].key
             K == task[p].run
             now == task[p].since
  <2>1. /\ manifest' = WithMerged(manifest, K, k, now) /\ archive' = archive
        /\ \A q \in Process \ {p} : task'[q] = task[q]
        /\ task'[p].doomed = {} /\ task'[p].run = {} /\ now \in Nat /\ K # {}
    BY <1>task, <1>17 DEF PublishMerged, Replace, Unchanged, Idle, Task
  <2>2. k \in Key /\ K \in SUBSET Archives(manifest) /\ clock <= now + MergeTime
    BY <1>ok, <1>task, <1>17
    DEF PublishMerged, Replace, Unchanged, Used, Uses, Task, MergesInTime
  <2> HIDE DEF k, K, now
  <2>3. /\ Archives(manifest') = (Archives(manifest) \ K) \cup {k}
        /\ manifest'.retired = manifest.retired \cup Retire(K, now)
    <3>1. K \subseteq Key /\ RunPlace(manifest, K) # 0
      BY <2>1, <2>2 DEF RunPlace, Archives
    <3>2. Archives(WithMerged(manifest, K, k, now)) = (Archives(manifest) \ K) \cup {k}
      BY <2>2, <3>1 DEF Archives, WithMerged, Successor
    <3>3. WithMerged(manifest, K, k, now).retired = manifest.retired \cup Retire(K, now)
      BY DEF WithMerged, Successor
    <3> QED BY <2>1, <3>2, <3>3
  <2>4. Retired(manifest') = Retired(manifest) \cup K
    BY <2>3, RetiredGrows
  <2>5. Named(manifest) \subseteq Named(manifest')
    BY <2>3, <2>4 DEF Named
  <2>6. now >= clock - MergeTime
    BY <1>clock, <2>1, <2>2, TimesAssumption
  <2>7. RetiresInTime
    BY <2>3, <2>6 DEF RetiresInTime, Retire
  <2> HIDE DEF Facts
  <2>8. Facts
    BY <2>1, <2>5, <2>7, PublicationFacts DEF Facts
  <2> QED BY <2>8
<1>18. ASSUME NEW p \in Maintainer, PublishForgotten(p) PROVE Facts
  <2> DEFINE D == task[p].doomed
  <2>1. /\ manifest' = WithoutRetired(manifest, D) /\ archive' = archive
        /\ \A q \in Process \ {p} : task'[q] = task[q]
        /\ task'[p].doomed = D /\ task'[p].run = {}
    BY <1>task, <1>18 DEF PublishForgotten, Replace, Unchanged, Task
  <2>2. /\ Archives(manifest') = Archives(manifest)
        /\ manifest'.retired = {r \in manifest.retired : r.key \notin D}
    BY <1>clock, <2>1, ForgottenManifest
  <2> HIDE DEF D
  <2>3. Named(manifest) \subseteq Named(manifest') \cup D
    BY <2>2 DEF Named, Retired
  <2>4. RetiresInTime
    BY <2>2 DEF RetiresInTime
  <2> HIDE DEF Facts
  <2>5. Facts
    BY <2>1, <2>3, <2>4, PublicationFacts DEF Facts, D
  <2> QED BY <2>5
<1>19. ASSUME NEW p \in Maintainer, Prune(p) PROVE Facts
  <2> DEFINE pc == IF Live(manifest, clock) = Archives(manifest) THEN "select" ELSE "publish"
             s == [task[p] EXCEPT !.since = clock, !.pc = pc]
  <2>1. s \in Task /\ s.doomed = task[p].doomed /\ s.since = clock
    BY <1>task, <1>clock, <1>pcs DEF Task
  <2>2. task' = [task EXCEPT ![p] = s] /\ UNCHANGED <<archive, manifest>>
    BY <1>19 DEF Prune
  <2> HIDE DEF s
  <2> QED BY <1>3, <2>1, <2>2
<1>20. ASSUME NEW p \in Maintainer, Select(p) PROVE Facts
  <2>1. PICK K \in Runs(manifest, clock) :
          task' = [task EXCEPT ![p] = [Idle EXCEPT !.pc = "merge", !.run = K,
                                                   !.since = clock, !.base = manifest]]
    BY <1>20 DEF Select
  <2> DEFINE s == [Idle EXCEPT !.pc = "merge", !.run = K, !.since = clock, !.base = manifest]
  <2>2. K \subseteq Key
    BY DEF Runs, Live, Archives
  <2>3. s \in Task /\ s.doomed = {} /\ s.since = clock
    BY <1>clock, <1>pcs, <2>2 DEF Idle, Task
  <2>4. UNCHANGED <<archive, manifest>>
    BY <1>20 DEF Select
  <2> HIDE DEF s
  <2> QED BY <1>3, <2>1, <2>3, <2>4 DEF s
<1>21. ASSUME NEW p \in Maintainer, Nothing(p) PROVE Facts
  BY <1>8, <1>21, <1>pcs DEF Nothing
<1>24. ASSUME NEW p \in Maintainer, Refused(p) PROVE Facts
  <2> DEFINE s == [Idle EXCEPT !.pc = "know", !.since = clock]
  <2>1. s \in Task
    BY <1>clock, <1>pcs, IdleType DEF Task
  <2>2. s.doomed = {} /\ s.run = {}
    BY DEF Idle
  <2>3. task' = [task EXCEPT ![p] = s] /\ UNCHANGED <<archive, manifest>>
    BY <1>24 DEF Refused
  <2> HIDE DEF s
  <2> QED BY <1>3, <2>1, <2>2, <2>3
<1>23. ASSUME NEW p \in Maintainer, Superseded(p) PROVE Facts
  <2> DEFINE s == [Idle EXCEPT !.pc = "cleanup"]
  <2>1. s \in Task
    BY <1>pcs, IdleType DEF Task
  <2>2. s.doomed = {} /\ s.run = {}
    BY DEF Idle
  <2>3. task' = [task EXCEPT ![p] = s] /\ UNCHANGED <<archive, manifest>>
    BY <1>23 DEF Superseded
  <2> HIDE DEF s
  <2> QED BY <1>3, <2>1, <2>2, <2>3
<1>25. ASSUME NEW p \in Maintainer, EndCleanup(p) PROVE Facts
  <2> DEFINE s == [Idle EXCEPT !.pc = "select"]
  <2>1. s \in Task
    BY <1>pcs, IdleType DEF Task
  <2>2. s.doomed = {} /\ s.run = {}
    BY DEF Idle
  <2>3. /\ Rest(p) \/ task' = [task EXCEPT ![p] = s]
        /\ UNCHANGED <<archive, manifest>>
    BY <1>25 DEF EndCleanup
  <2> HIDE DEF s
  <2> QED BY <1>3, <1>4, <2>1, <2>2, <2>3
<1>26. ASSUME NEW p \in Maintainer, Cleanup(p) PROVE Facts
  <2> DEFINE past == {r.key : r \in {q \in manifest.retired : PastGrace(q)}}
  <2>1. /\ UNCHANGED <<archive, manifest>>
        /\ \A q \in Process \ {p} : task'[q] = task[q]
        /\ task'[p].doomed = past /\ task'[p].run = {}
    BY <1>task, <1>26 DEF Cleanup, Idle
  <2>2. \A k \in past : \E e \in manifest.retired : e.key = k /\ PastGrace(e)
    OBVIOUS
  <2> HIDE DEF past
  <2>3. DoomsThePast
    <3> SUFFICES ASSUME NEW q \in Process, NEW k \in task'[q].doomed \ task[q].doomed
                 PROVE  \E e \in manifest.retired : e.key = k /\ PastGrace(e)
      BY DEF DoomsThePast
    <3>1. q = p
      BY <2>1
    <3> QED BY <2>1, <2>2, <3>1
  <2>4. RunsInTime
    <3> SUFFICES ASSUME NEW q \in Process, task'[q].run # {}
                 PROVE  task[q].run # {} /\ task'[q].since = task[q].since
      BY DEF RunsInTime
    <3>1. q # p
      BY <2>1
    <3> QED BY <2>1, <3>1
  <2> QED BY <1>same, <2>1, <2>3, <2>4 DEF ForgetsTheDoomed, RetiresInTime
<1>27. ASSUME NEW p \in Maintainer, Delete(p) PROVE Facts
  <2>1. PICK k \in task[p].doomed : task' = [task EXCEPT ![p].doomed = @ \ {k}]
    BY <1>27 DEF Delete
  <2> DEFINE s == [task[p] EXCEPT !.doomed = @ \ {k}]
  <2>2. s \in Task /\ s.doomed \subseteq task[p].doomed /\ s.run = task[p].run
        /\ s.since = task[p].since
    BY <1>task DEF Task
  <2>3. task' = [task EXCEPT ![p] = s] /\ UNCHANGED <<archive, manifest>>
    BY <1>27, <2>1 DEF Delete
  <2> HIDE DEF s
  <2> QED BY <1>3, <2>2, <2>3
<1>28. ASSUME NEW p \in Maintainer, KeepOrphan(p) PROVE Facts
  <2>1. PICK k \in task[p].doomed : task' = [task EXCEPT ![p].doomed = @ \ {k}]
    BY <1>28 DEF KeepOrphan
  <2> DEFINE s == [task[p] EXCEPT !.doomed = @ \ {k}]
  <2>2. s \in Task /\ s.doomed \subseteq task[p].doomed /\ s.run = task[p].run
        /\ s.since = task[p].since
    BY <1>task DEF Task
  <2>3. task' = [task EXCEPT ![p] = s] /\ UNCHANGED <<archive, manifest>>
    BY <1>28, <2>1 DEF KeepOrphan
  <2> HIDE DEF s
  <2> QED BY <1>3, <2>2, <2>3
<1>29. ASSUME NEW p \in Maintainer, Know(p) PROVE Facts
  <2> DEFINE s == [task[p] EXCEPT !.pc = "list", !.base = manifest]
  <2>1. s \in Task /\ s.doomed = task[p].doomed /\ s.run = task[p].run
        /\ s.since = task[p].since
    BY <1>task, <1>clock, <1>pcs DEF Task
  <2>2. task' = [task EXCEPT ![p] = s] /\ UNCHANGED <<archive, manifest>>
    BY <1>29 DEF Know
  <2> HIDE DEF s
  <2> QED BY <1>3, <2>1, <2>2
<1>30. ASSUME NEW p \in Maintainer, List(p) PROVE Facts
  <2> DEFINE old == {k \in stored : IsOrphan(p, k)}
  <2>1. /\ UNCHANGED <<archive, manifest>>
        /\ \A q \in Process \ {p} : task'[q] = task[q]
        /\ task'[p].doomed = old /\ task'[p].run = task[p].run
        /\ task'[p].since = task[p].since /\ task[p].pc = "list"
    BY <1>task, <1>30 DEF List, Task
  <2>2. \A k \in old : k \notin Named(manifest)
    <3> TAKE k \in old
    <3>1. k \in DOMAIN archive \ Named(task[p].base)
          /\ task[p].since - archive[k].modified >= OrphanGrace
      BY <1>ok DEF IsOrphan, TypeOK
    <3>2. KnownIsKnown(p)
      BY DEF StoreInv
    <3> QED BY <2>1, <3>1, <3>2 DEF KnownIsKnown
  <2> HIDE DEF old
  <2>3. DoomsThePast
    <3> SUFFICES ASSUME NEW q \in Process, NEW k \in task'[q].doomed \ task[q].doomed
                 PROVE  k \notin Named(manifest)
      BY DEF DoomsThePast
    <3>1. q = p
      BY <2>1
    <3> QED BY <2>1, <2>2, <3>1
  <2>4. RunsInTime
    <3> SUFFICES ASSUME NEW q \in Process, task'[q].run # {}
                 PROVE  task[q].run # {} /\ task'[q].since = task[q].since
      BY DEF RunsInTime
    <3> QED BY <2>1
  <2> QED BY <1>same, <2>1, <2>3, <2>4 DEF ForgetsTheDoomed, RetiresInTime
<1>31. ASSUME UNCHANGED vars PROVE Facts
  BY <1>0, <1>31 DEF vars
<1>32. Facts
  <2> HIDE DEF Facts
  <2>1. ASSUME NEW w \in Writer, WriterStep(w) \/ PutBack(w) \/ Crash(w) PROVE Facts
    BY <1>5, <1>6, <1>7, <1>9, <1>10, <1>13, <1>15, <2>1 DEF WriterStep, Publishing
  <2>2. ASSUME NEW m \in Maintainer, MaintainerStep(m) PROVE Facts
    BY <1>5, <1>6, <1>14, <1>16, <1>17, <1>18, <1>19, <1>20, <1>21, <1>23, <1>25,
       <1>26, <1>27, <1>29, <1>30, <2>2
    DEF MaintainerStep, Publishing
  <2>3. ASSUME NEW m \in Maintainer, Refused(m) \/ KeepOrphan(m) \/ Abort(m) PROVE Facts
    BY <1>11, <1>24, <1>28, <2>3
  <2> QED BY <1>1, <1>2, <1>31, <2>1, <2>2, <2>3 DEF Next
<1>33. clock' = clock \/ (clock' = clock + 1 /\ UNCHANGED task
                           /\ \A p \in Process : Timely(p))
  BY DEF Next, WriterStep, MaintainerStep, Publishing, vars, Tick, Put, Freeze, Compare,
         Upload, ReadManifest, Conflict, PublishDelta, Replace, EndFlush, PutBack, Crash,
         Prune, PublishPruned, Select, Nothing, Merge, PublishMerged, Superseded, Cleanup,
         Refused, PublishForgotten, Delete, Know, List, KeepOrphan, EndCleanup, Abort
<1> QED BY <1>32, <1>33

LEMMA MergesInTimeStep ==
  ASSUME PublishTime < OrphanGrace, TypeInv, StoreInv, MergesInTime, [Next]_vars
  PROVE  MergesInTime'
<1>1. RunsInTime
  BY StepFacts
<1>2. clock' = clock \/ (clock' = clock + 1 /\ UNCHANGED task
                          /\ \A p \in Process : Timely(p))
  BY StepFacts
<1>3. /\ clock \in Nat /\ clock' \in Nat /\ MergeTime \in Nat
      /\ \A p \in Process : task[p].since \in Nat /\ task'[p].since \in Nat
  BY TypeInvStep, TimesAssumption DEF TypeInv, TypeOK, Task
<1> SUFFICES ASSUME NEW p \in Process, task'[p].run # {}
             PROVE  clock' <= task'[p].since + MergeTime
  BY DEF MergesInTime
<1>4. CASE clock' = clock
  BY <1>1, <1>3, <1>4 DEF RunsInTime, MergesInTime
<1>5. CASE clock' = clock + 1 /\ UNCHANGED task /\ Timely(p)
  BY <1>3, <1>5 DEF Timely
<1> QED BY <1>2, <1>4, <1>5

-----------------------------------------------------------------------------
(* What a manifest listed stays.                                            *)

\* Archive k, listed at a: it is named, no one means to delete it, and if it
\* was retired since, then by a merge that began at most MergeTime before a,
\* or because it has expired.
Keeps(k, a) ==
  /\ k \in Named(manifest)
  /\ \A p \in Process : k \notin task[p].doomed
  /\ \A e \in manifest.retired : e.key = k =>
       e.at >= a - MergeTime \/ IsExpired(archive[k].epoch, e.at)

\* The times add up: what was listed outlives the readers that know of it.
GraceSuffices == MergeTime + MaxAge + ReaderTime < RetireGrace

LEMMA KeepsEarlier ==
  ASSUME NEW k, NEW a \in Int, NEW b \in Int, b <= a, Keeps(k, a), manifest \in Manifest
  PROVE  Keeps(k, b)
<1>1. \A e \in manifest.retired : e.at \in Nat
  BY DEF Manifest
<1> QED BY <1>1, TimesAssumption DEF Keeps

(* One step keeps what was listed at a, as long as a reader that knows of    *)
(* that list may still be reading.                                          *)
LEMMA KeepsStep ==
  ASSUME PublishTime < OrphanGrace, GraceSuffices,
         TypeInv, StoreInv, MergesInTime, [Next]_vars,
         NEW k, NEW a \in Int, a <= clock, clock <= a + MaxAge + ReaderTime,
         Keeps(k, a), ~IsExpired(archive[k].epoch, clock - ReaderTime)
  PROVE  Keeps(k, a)'
<1>1. ForgetsTheDoomed /\ RetiresInTime /\ DoomsThePast /\ ArchivesStay
  BY StepFacts
<1>2. /\ clock \in Nat /\ manifest \in Manifest /\ manifest' \in Manifest
      /\ k \in DOMAIN archive /\ archive[k].epoch \in Nat
      /\ \A e \in manifest.retired : e.at \in Nat
      /\ \A e \in manifest'.retired : e.at \in Nat
  <2>1. TypeOK /\ Used /\ TypeOK'
    BY TypeInvStep DEF TypeInv
  <2>2. k \in DOMAIN archive
    BY <2>1 DEF Used, Keeps
  <2>3. archive[k].epoch \in Nat
    BY <2>1, <2>2, ArchiveElement DEF TypeOK, Archive
  <2> QED BY <2>1, <2>2, <2>3 DEF TypeOK, Manifest
<1>3. archive'[k] = archive[k]
  BY <1>1, <1>2 DEF ArchivesStay
<1>4. k \in Named(manifest')
  BY <1>1 DEF Keeps, ForgetsTheDoomed
<1>5. ASSUME NEW p \in Process, k \in task'[p].doomed PROVE FALSE
  <2>1. PICK e \in manifest.retired : e.key = k /\ PastGrace(e)
    BY <1>1, <1>5 DEF Keeps, DoomsThePast
  <2>2. clock - e.at >= RetireGrace /\ e.at \in Nat
    BY <1>2, <2>1 DEF PastGrace
  <2>3. CASE e.at >= a - MergeTime
    BY <1>2, <2>2, <2>3, TimesAssumption, ReadersAssumption DEF GraceSuffices
  <2>4. CASE IsExpired(archive[k].epoch, e.at)
    <3>1. e.at <= clock - ReaderTime
      BY <1>2, <2>2, TimesAssumption, ReadersAssumption DEF GraceSuffices
    <3>2. e.at \in Int /\ clock - ReaderTime \in Int
      BY <1>2, <2>2, ReadersAssumption
    <3> QED BY <1>2, <2>4, <3>1, <3>2, ExpiryGrows
  <2> QED BY <2>1, <2>3, <2>4 DEF Keeps
<1>6. ASSUME NEW e \in manifest'.retired, e.key = k
      PROVE  e.at >= a - MergeTime \/ IsExpired(archive[k].epoch, e.at)
  <2>1. CASE e \in manifest.retired
    BY <1>6, <2>1 DEF Keeps
  <2>2. CASE e \notin manifest.retired
    <3>1. e.at >= clock - MergeTime \/ IsExpired(archive[k].epoch, e.at)
      BY <1>1, <1>6, <2>2 DEF RetiresInTime
    <3> QED BY <1>2, <3>1, TimesAssumption
  <2> QED BY <2>1, <2>2
<1> QED BY <1>3, <1>4, <1>5, <1>6 DEF Keeps

-----------------------------------------------------------------------------
(* Type correctness.                                                        *)

\* Of some archives of a manifest, one is the last.
LEMMA LastIsLast ==
  ASSUME NEW m \in Manifest, NEW K \in SUBSET Key, K # {}
  PROVE  Last(m, K) \in K /\ \A j \in K : m.archives[j] <= m.archives[Last(m, K)]
<1> DEFINE S == {m.generation - m.archives[k] : k \in K}
<1>1. /\ m.generation \in Nat
      /\ \A k \in K : m.archives[k] \in Nat /\ m.archives[k] <= m.generation
  BY DEF Manifest
<1>2. S \in SUBSET Nat /\ S # {}
  BY <1>1
<1>3. PICK x \in S : \A y \in S : x <= y
  BY <1>2, LeastElement
<1>4. PICK k \in K : x = m.generation - m.archives[k]
  BY <1>3
<1>5. \A j \in K : m.archives[j] <= m.archives[k]
  <2> TAKE j \in K
  <2>1. m.generation - m.archives[k] <= m.generation - m.archives[j]
    BY <1>3, <1>4
  <2> QED BY <2>1, <1>1
<1> QED BY <1>5 DEF Last

ReaderState ==
  [pc : {"idle", "newest", "older", "found", "answered"}, tile : Tile \cup {NoCopy},
   base : Manifest, now : Nat, unread : SUBSET Key, found : SUBSET Key,
   gone : SUBSET Key, got : Copy \cup {NoCopy}]

\* A reader knows of archives that were uploaded only, and reads a tile.
Fits(s) ==
  /\ s.now <= clock
  /\ s.unread \cup s.found \cup s.gone \subseteq Archives(s.base)
  /\ Archives(s.base) \subseteq DOMAIN archive
  /\ s.pc \in {"newest", "older", "found"} => s.tile \in Tile

ReadersInv ==
  /\ known \in [manifest : Manifest, at : Int] /\ known.at <= clock
  /\ Archives(known.manifest) \subseteq DOMAIN archive
  /\ reader \in [Reader -> ReaderState]
  /\ \A r \in Reader : Fits(reader[r])

LEMMA NotReadingType ==
  /\ NotReading \in ReaderState
  /\ clock \in Nat => Fits(NotReading)
BY EmptyManifestType DEF NotReading, ReaderState, Fits, Named

LEMMA UnknownType ==
  /\ Unknown \in [manifest : Manifest, at : Int] /\ Archives(Unknown.manifest) = {}
  /\ clock \in Nat => Unknown.at <= clock
BY EmptyManifestType, ReadersAssumption DEF Unknown, Named

LEMMA ReadersInvInit == ReadersInit => ReadersInv
BY NotReadingType, UnknownType DEF ReadersInit, ReadersInv, Init

(* A step of one reader, to the state s.                                    *)
LEMMA ReaderStep ==
  ASSUME ReadersInv, UNCHANGED <<clock, archive, known>>, NEW r \in Reader, NEW s \in ReaderState,
         Fits(s), reader' = [reader EXCEPT ![r] = s]
  PROVE  ReadersInv'
<1>1. reader' \in [Reader -> ReaderState]
  BY DEF ReadersInv
<1>2. ASSUME NEW q \in Reader PROVE Fits(reader[q])'
  <2>1. CASE q = r
    BY <2>1 DEF ReadersInv, Fits
  <2>2. CASE q # r
    BY <2>2 DEF ReadersInv, Fits
  <2> QED BY <2>1, <2>2
<1> QED BY <1>1, <1>2 DEF ReadersInv, Fits

LEMMA ReadersInvStep ==
  ASSUME TypeInv, ReadersInv, [ReadersNext]_readersVars
  PROVE  ReadersInv'
<1>ok. TypeOK /\ Used /\ clock \in Nat /\ archive \in Seq(Archive) /\ manifest \in Manifest
  BY DEF TypeInv, TypeOK
<1>0. ASSUME NEW r \in Reader
      PROVE  reader[r] \in ReaderState /\ Fits(reader[r])
  BY DEF ReadersInv
<1>1. ASSUME [Next]_vars, UNCHANGED <<known, reader>> PROVE ReadersInv'
  <2>1. ArchivesStay /\ clock <= clock' /\ clock' \in Nat
    BY <1>1, ArchivesStep, TypeInvStep DEF TypeInv, TypeOK
  <2>2. ASSUME NEW r \in Reader PROVE Fits(reader[r])'
    <3>1. reader[r].now \in Nat
      BY <1>0 DEF ReaderState
    <3> QED BY <1>ok, <1>0, <1>1, <2>1, <3>1 DEF Fits, ArchivesStay
  <2>3. known.at \in Int
    BY DEF ReadersInv
  <2> QED BY <1>ok, <1>1, <2>1, <2>2, <2>3 DEF ReadersInv, ArchivesStay
<1>2. ASSUME Refresh PROVE ReadersInv'
  <2>1. /\ known'.manifest = manifest /\ known'.at = clock
        /\ known' \in [manifest : Manifest, at : Int]
        /\ UNCHANGED <<clock, archive, reader>>
    BY <1>ok, <1>2 DEF Refresh, vars
  <2> QED BY <1>ok, <2>1 DEF ReadersInv, Fits, Used, Named
<1>3. ASSUME NEW r \in Reader, NEW t \in Tile, NEW now \in 0..clock, Get(r, t, now)
      PROVE  ReadersInv'
  <2> DEFINE s == [NotReading EXCEPT !.pc = "newest", !.tile = t, !.base = known.manifest,
                                     !.now = now, !.unread = Live(known.manifest, now)]
  <2>1. known.manifest \in Manifest /\ Live(known.manifest, now) \subseteq Archives(known.manifest)
    BY DEF ReadersInv, Live
  <2>2. Archives(known.manifest) \subseteq Key /\ now \in Nat /\ now <= clock
    BY <1>ok DEF Archives
  <2>3. s \in ReaderState
    BY <2>1, <2>2, NotReadingType DEF ReaderState
  <2>4. /\ s.now = now /\ s.base = known.manifest /\ s.tile = t
        /\ s.unread \cup s.found \cup s.gone = Live(known.manifest, now)
    BY DEF NotReading
  <2>5. reader' = [reader EXCEPT ![r] = s] /\ UNCHANGED <<clock, archive, known>>
    BY <1>3 DEF Get, vars
  <2> HIDE DEF s
  <2>6. Fits(s)
    BY <2>1, <2>2, <2>4 DEF Fits, ReadersInv
  <2> QED BY <2>3, <2>5, <2>6, ReaderStep
<1>4. ASSUME NEW r \in Reader, NEW k \in reader[r].unread, NEW pc \in {"found", "older"},
             Reading(r), ReadArchive(r, k, pc)
      PROVE  ReadersInv'
  <2> DEFINE F == IF Hit(r, k) THEN reader[r].found \cup {k} ELSE reader[r].found
             G == IF k \in stored THEN reader[r].gone ELSE reader[r].gone \cup {k}
             s == [reader[r] EXCEPT !.pc = pc, !.unread = @ \ {k}, !.found = F, !.gone = G]
  <2>0. /\ F \in SUBSET Key /\ F \subseteq reader[r].found \cup {k}
        /\ G \in SUBSET Key /\ G \subseteq reader[r].gone \cup {k}
        /\ reader' = [reader EXCEPT ![r] = s]
        /\ UNCHANGED <<clock, archive, known>>
    BY <1>0, <1>4 DEF ReadArchive, vars, ReaderState
  <2> HIDE DEF F, G
  <2>1. s \in ReaderState
    BY <1>0, <2>0 DEF ReaderState
  <2>2. /\ s.now = reader[r].now /\ s.base = reader[r].base /\ s.tile = reader[r].tile
        /\ s.unread \cup s.found \cup s.gone \subseteq
             reader[r].unread \cup reader[r].found \cup reader[r].gone
    BY <1>0, <2>0 DEF ReaderState
  <2>3. reader' = [reader EXCEPT ![r] = s] /\ UNCHANGED <<clock, archive, known>>
    BY <2>0
  <2> HIDE DEF s
  <2>4. Fits(s)
    BY <1>0, <1>4, <2>2 DEF Fits, Reading
  <2> QED BY <2>1, <2>3, <2>4, ReaderStep
<1>5. ASSUME NEW r \in Reader, ReadNewest(r) PROVE ReadersInv'
  <2> DEFINE k == Last(reader[r].base, reader[r].unread)
  <2>1. k \in reader[r].unread
    <3>1. /\ reader[r].base \in Manifest /\ reader[r].unread \in SUBSET Key
          /\ reader[r].unread # {}
      BY <1>0, <1>5 DEF ReaderState, ReadNewest
    <3> QED BY <3>1, LastIsLast
  <2>2. Reading(r) /\ ReadArchive(r, k, IF Hit(r, k) THEN "found" ELSE "older")
    BY <1>5 DEF ReadNewest, Reading
  <2> HIDE DEF k
  <2> QED BY <1>4, <2>1, <2>2
<1>6. ASSUME NEW r \in Reader, ReadOlder(r) PROVE ReadersInv'
  BY <1>4, <1>6 DEF ReadOlder, Reading
<1>7. ASSUME NEW r \in Reader, Answer(r) PROVE ReadersInv'
  <2> DEFINE K == reader[r].found
             l == Last(reader[r].base, K)
             got == IF K = {} THEN NoCopy ELSE archive[l].tiles[reader[r].tile]
             s == [NotReading EXCEPT !.pc = "answered", !.got = got]
  <2>1. got \in Copy \cup {NoCopy}
    <3>1. /\ reader[r].base \in Manifest /\ K \in SUBSET Key /\ K \subseteq DOMAIN archive
          /\ reader[r].tile \in Tile
      BY <1>0, <1>7 DEF Answer, Reading, Fits, ReaderState
    <3>2. K # {} => archive[l].tiles \in Contents
      BY <1>ok, <3>1, LastIsLast, ArchiveElement DEF Archive
    <3> HIDE DEF K, l
    <3> QED BY <3>1, <3>2 DEF Contents
  <2>2. reader' = [reader EXCEPT ![r] = s] /\ known' \in {known, Unknown}
        /\ UNCHANGED <<clock, archive>>
    BY <1>7 DEF Answer, vars
  <2> HIDE DEF got, K
  <2>3. s \in ReaderState /\ Fits(s)
    BY <1>ok, <2>1, NotReadingType, EmptyManifestType DEF ReaderState, Fits, NotReading, Named
  <2> HIDE DEF s
  <2>4. CASE known' = known
    BY <2>2, <2>3, <2>4, ReaderStep
  <2>5. CASE known' = Unknown
    <3>1. reader' \in [Reader -> ReaderState]
      BY <2>2, <2>3 DEF ReadersInv
    <3>2. ASSUME NEW q \in Reader PROVE Fits(reader[q])'
      <4>1. CASE q = r
        BY <2>2, <2>3, <4>1 DEF ReadersInv, Fits
      <4>2. CASE q # r
        BY <2>2, <4>2 DEF ReadersInv, Fits
      <4> QED BY <4>1, <4>2
    <3> QED BY <1>ok, <2>2, <2>5, <3>1, <3>2, UnknownType DEF ReadersInv, Fits
  <2> QED BY <2>2, <2>4, <2>5
<1>8. ASSUME NEW r \in Reader, GiveUp(r) PROVE ReadersInv'
  BY <1>ok, <1>8, NotReadingType, ReaderStep DEF GiveUp, vars
<1>9. CASE UNCHANGED readersVars
  BY <1>1, <1>9 DEF readersVars
<1> QED BY <1>1, <1>2, <1>3, <1>5, <1>6, <1>7, <1>8, <1>9 DEF ReadersNext

LEMMA ZoneSteps == [ReadersNext]_readersVars => [Next]_vars
BY DEF ReadersNext, readersVars, Refresh, Get, ReadNewest, ReadOlder, ReadArchive, Answer, GiveUp

(* Type correctness, whatever the times and the graces are.                 *)
THEOREM ReadersTypeCorrect == ReadersSpec => []ReadersTypeOK
<1>1. ReadersInit => TypeInv /\ ReadersInv
  BY TypeInvInit, ReadersInvInit DEF ReadersInit
<1>2. TypeInv /\ ReadersInv /\ [ReadersNext]_readersVars => (TypeInv /\ ReadersInv)'
  BY TypeInvStep, ReadersInvStep, ZoneSteps
<1>3. ReadersInv => ReadersTypeOK
  BY DEF ReadersInv, ReadersTypeOK, ReaderState, Fits
<1> QED BY <1>1, <1>2, <1>3, PTL DEF ReadersSpec

-----------------------------------------------------------------------------
(* Archives outlive the readers that know of them.                          *)

\* As long as readers may get the manifest that is remembered, what it lists
\* for a read that began at most ReaderTime ago stays.
KnownKept ==
  clock - known.at <= MaxAge =>
    \A k \in Live(known.manifest, clock - ReaderTime) : Keeps(k, known.at)

\* What a reader has listed stays while it reads.
ReaderKept(r) ==
  Reading(r) =>
    /\ clock <= reader[r].now + ReaderTime
    /\ \A k \in Listed(r) : Keeps(k, reader[r].now - MaxAge)

KeptInv ==
  /\ MergesInTime
  /\ KnownKept
  /\ \A r \in Reader : ReaderKept(r)

LEMMA KeptInit == ReadersInit => KeptInv
<1> SUFFICES ASSUME ReadersInit PROVE KeptInv
  OBVIOUS
<1>1. MergesInTime
  BY DEF ReadersInit, Init, MergesInTime, Idle
<1>2. KnownKept
  BY UnknownType DEF ReadersInit, KnownKept, Live
<1>3. ASSUME NEW r \in Reader PROVE ReaderKept(r)
  BY DEF ReadersInit, ReaderKept, Reading, NotReading
<1> QED BY <1>1, <1>2, <1>3 DEF KeptInv

LEMMA KeptStep ==
  ASSUME PublishTime < OrphanGrace, GraceSuffices,
         TypeInv, StoreInv, ReadersInv, KeptInv, [ReadersNext]_readersVars
  PROVE  KeptInv'
<1>next. [Next]_vars
  BY ZoneSteps
<1>ok. /\ clock \in Nat /\ manifest \in Manifest /\ known.at \in Int /\ known.at <= clock
       /\ MaxAge \in Nat /\ ReaderTime \in Nat /\ MergeTime \in Nat
       /\ \A r \in Reader : reader[r] \in ReaderState /\ Fits(reader[r])
  BY TimesAssumption, ReadersAssumption DEF TypeInv, TypeOK, ReadersInv
<1>epoch. \A k \in DOMAIN archive : archive[k].epoch \in Nat
  BY ArchiveElement DEF TypeInv, TypeOK, Archive
<1>1. MergesInTime'
  BY <1>next, MergesInTimeStep DEF KeptInv
<1>2. ArchivesStay /\ clock <= clock' /\ clock' \in Nat
  BY <1>next, ArchivesStep, TypeInvStep DEF TypeInv, TypeOK
(* What is live later is live earlier.                                      *)
<1>3. ASSUME NEW m, Archives(m) \subseteq DOMAIN archive, NEW n \in Int, NEW l \in Int, l <= n,
             NEW k \in Live(m, n)
      PROVE  k \in Live(m, l) /\ k \in DOMAIN archive
  BY <1>epoch, <1>3, ExpiryGrows DEF Live
<1>5. ASSUME UNCHANGED <<vars, known>> PROVE KnownKept'
  BY <1>5 DEF KeptInv, KnownKept, vars, Live, Keeps
(* A reader whose state does not change, in a step that leaves the zone.    *)
<1>6. ASSUME UNCHANGED vars, NEW r \in Reader, reader'[r] = reader[r] PROVE ReaderKept(r)'
  BY <1>6 DEF KeptInv, ReaderKept, Reading, Listed, vars, Live, Keeps
<1>7. ASSUME UNCHANGED vars, NEW r \in Reader, reader' = [reader EXCEPT ![r] = reader'[r]],
             ReaderKept(r)'
      PROVE  \A q \in Reader : ReaderKept(q)'
  <2> SUFFICES ASSUME NEW q \in Reader, q # r PROVE ReaderKept(q)'
    BY <1>7
  <2>1. reader'[q] = reader[q]
    BY <1>7 DEF ReadersInv
  <2> QED BY <1>6, <1>7, <2>1
<1>8. ASSUME [Next]_vars, clock' # clock => \A r \in Reader : InTime(r),
             UNCHANGED <<known, reader>>
      PROVE  KeptInv'
  <2>1. KnownKept'
    <3> SUFFICES ASSUME clock' - known.at <= MaxAge,
                        NEW k \in Live(known.manifest, clock - ReaderTime)'
                 PROVE  Keeps(k, known.at)'
      BY <1>8 DEF KnownKept
    <3>1. Archives(known.manifest) \subseteq DOMAIN archive
      BY DEF ReadersInv
    <3>2. k \in Live(known.manifest, clock' - ReaderTime)
      BY <1>2, <1>8, <3>1 DEF Live, ArchivesStay, Archives
    <3>3. clock' - ReaderTime \in Int /\ clock - ReaderTime \in Int
          /\ clock - ReaderTime <= clock' - ReaderTime
          /\ clock - known.at <= MaxAge /\ clock <= known.at + MaxAge + ReaderTime
      <4>1. \A m, n \in Nat, l \in Int :
               m <= n /\ n - l <= MaxAge =>
                 /\ n - ReaderTime \in Int /\ m - ReaderTime \in Int
                 /\ m - ReaderTime <= n - ReaderTime
                 /\ m - l <= MaxAge /\ m <= l + MaxAge + ReaderTime
        BY <1>ok
      <4>2. known.at \in Int /\ clock' - known.at <= MaxAge
        BY <1>8, <1>ok
      <4> QED BY <1>ok, <1>2, <4>1, <4>2, Zenon
    <3>4. k \in Live(known.manifest, clock - ReaderTime)
      BY <1>3, <3>1, <3>2, <3>3
    <3>5. Keeps(k, known.at) /\ ~IsExpired(archive[k].epoch, clock - ReaderTime)
      BY <3>3, <3>4 DEF KeptInv, KnownKept, Live
    <3>6. Keeps(k, known.at)'
      <4>1. ASSUME NEW a \in Int, a = known.at PROVE Keeps(k, a)'
        BY <1>ok, <1>next, <3>3, <3>5, <4>1, KeepsStep DEF KeptInv
      <4> QED BY <1>8, <1>ok, <4>1 DEF Keeps
    <3> QED BY <3>6
  <2>2. ASSUME NEW r \in Reader PROVE ReaderKept(r)'
    <3> SUFFICES ASSUME Reading(r)
                 PROVE  /\ clock' <= reader[r].now + ReaderTime
                        /\ \A k \in Listed(r)' : Keeps(k, reader[r].now - MaxAge)'
      BY <1>8 DEF ReaderKept, Reading
    <3>1. /\ reader[r].now \in Nat /\ reader[r].now <= clock
          /\ Archives(reader[r].base) \subseteq DOMAIN archive
          /\ clock <= reader[r].now + ReaderTime
      BY <1>ok DEF ReaderState, Fits, KeptInv, ReaderKept
    <3>2. clock' = clock \/ clock' = clock + 1
      BY <1>next, StepFacts DEF KeptInv
    <3>3. clock' <= reader[r].now + ReaderTime
      BY <1>ok, <1>8, <3>1, <3>2 DEF InTime
    <3>4. ASSUME NEW k \in Listed(r)' PROVE Keeps(k, reader[r].now - MaxAge)'
      <4>1. k \in Live(reader[r].base, reader[r].now)
        BY <1>2, <1>8, <3>1 DEF Listed, Live, ArchivesStay, Archives
      <4>2. Keeps(k, reader[r].now - MaxAge)
        BY <4>1 DEF KeptInv, ReaderKept, Listed
      <4>3. /\ clock - ReaderTime \in Int /\ reader[r].now \in Int
            /\ clock - ReaderTime <= reader[r].now
        BY <1>ok, <3>1
      <4>4. ~IsExpired(archive[k].epoch, clock - ReaderTime)
        BY <1>3, <3>1, <4>1, <4>3 DEF Live
      <4>5. ASSUME NEW a \in Int, a = reader[r].now - MaxAge PROVE Keeps(k, a)'
        <5>1. a <= clock /\ clock <= a + MaxAge + ReaderTime
          BY <1>ok, <3>1, <4>5
        <5> QED BY <1>next, <4>2, <4>4, <4>5, <5>1, KeepsStep DEF KeptInv
      <4>6. reader[r].now - MaxAge \in Int
        BY <1>ok, <3>1
      <4> QED BY <1>8, <4>5, <4>6 DEF Keeps
    <3> QED BY <3>3, <3>4
  <2> QED BY <1>1, <2>1, <2>2 DEF KeptInv
<1>9. ASSUME Refresh PROVE KeptInv'
  <2>1. /\ known'.manifest = manifest /\ known'.at = clock
        /\ UNCHANGED vars /\ UNCHANGED reader
    BY <1>9 DEF Refresh
  <2>2. ASSUME NEW k \in Archives(manifest) PROVE Keeps(k, clock)
    <3>1. ASSUME NEW e \in manifest.retired, e.key = k PROVE FALSE
      BY <2>2, <3>1 DEF StoreInv, Retired
    <3>2. ASSUME NEW q \in Process, k \in task[q].doomed PROVE FALSE
      BY <2>2, <3>2 DEF StoreInv, DoomedIsGone
    <3> QED BY <2>2, <3>1, <3>2 DEF Keeps, Named
  <2>3. KnownKept'
    <3> SUFFICES ASSUME NEW k \in Live(known.manifest, clock - ReaderTime)'
                 PROVE  Keeps(k, known.at)'
      BY DEF KnownKept
    <3>1. k \in Archives(manifest)
      BY <2>1 DEF Live, Archives, vars
    <3> QED BY <2>1, <2>2, <3>1 DEF Keeps, vars
  <2> QED BY <1>1, <1>6, <2>1, <2>3 DEF KeptInv
<1>10. ASSUME NEW r \in Reader, NEW t \in Tile, NEW now \in 0..clock,
              clock <= now + ReaderTime, Get(r, t, now)
       PROVE  KeptInv'
  <2>1. /\ reader' = [reader EXCEPT ![r] = reader'[r]]
        /\ reader'[r].base = known.manifest /\ reader'[r].now = now
        /\ UNCHANGED <<vars, known>> /\ clock - known.at <= MaxAge
    BY <1>10 DEF Get, NotReading, ReadersInv
  <2>2. ReaderKept(r)'
    <3> SUFFICES ASSUME NEW k \in Listed(r)' PROVE Keeps(k, now - MaxAge)'
      BY <1>10, <2>1 DEF ReaderKept, vars
    <3>1. k \in Live(known.manifest, now)
      BY <2>1 DEF Listed, Live, Archives, vars
    <3>2. /\ now \in Int /\ clock - ReaderTime \in Int /\ clock - ReaderTime <= now
          /\ now - MaxAge \in Int /\ now - MaxAge <= known.at
      BY <1>ok, <1>10, <2>1
    <3>3. Archives(known.manifest) \subseteq DOMAIN archive
      BY DEF ReadersInv
    <3>4. k \in Live(known.manifest, clock - ReaderTime)
      BY <1>3, <3>1, <3>2, <3>3
    <3>5. Keeps(k, known.at)
      BY <2>1, <3>4 DEF KeptInv, KnownKept
    <3>6. Keeps(k, now - MaxAge)
      BY <1>ok, <3>2, <3>5, KeepsEarlier
    <3> QED BY <2>1, <3>6 DEF Keeps, vars
  <2> QED BY <1>1, <1>5, <1>7, <2>1, <2>2 DEF KeptInv
<1>11. ASSUME NEW r \in Reader, NEW k, NEW pc, ReadArchive(r, k, pc), Reading(r)
       PROVE  KeptInv'
  <2>1. /\ reader' = [reader EXCEPT ![r] = reader'[r]]
        /\ reader'[r].base = reader[r].base /\ reader'[r].now = reader[r].now
        /\ UNCHANGED <<vars, known>>
    BY <1>ok, <1>11 DEF ReadArchive, ReadersInv, ReaderState
  <2>2. ReaderKept(r)'
    BY <1>11, <2>1 DEF KeptInv, ReaderKept, Listed, vars, Live, Keeps
  <2> QED BY <1>1, <1>5, <1>7, <2>1, <2>2 DEF KeptInv
<1>12. ASSUME NEW r \in Reader, Answer(r) \/ GiveUp(r) PROVE KeptInv'
  <2>1. /\ reader' = [reader EXCEPT ![r] = reader'[r]]
        /\ reader'[r].pc \in {"answered", "idle"}
        /\ UNCHANGED vars /\ known' \in {known, Unknown}
    <3> DEFINE got == IF reader[r].found = {} THEN NoCopy
                      ELSE archive[Last(reader[r].base, reader[r].found)].tiles[reader[r].tile]
               s == [NotReading EXCEPT !.pc = "answered", !.got = got]
    <3>1. s.pc = "answered" /\ NotReading.pc = "idle"
      BY DEF NotReading
    <3>2. /\ reader' = [reader EXCEPT ![r] = s] \/ reader' = [reader EXCEPT ![r] = NotReading]
          /\ UNCHANGED vars /\ known' \in {known, Unknown}
      BY <1>12 DEF Answer, GiveUp
    <3> HIDE DEF s
    <3> QED BY <3>1, <3>2 DEF ReadersInv
  <2>2. ReaderKept(r)'
    BY <2>1 DEF ReaderKept, Reading
  <2>3. KnownKept'
    <3>1. CASE known' = Unknown
      BY <2>1, <3>1, UnknownType DEF KnownKept, Live, Archives
    <3> QED BY <1>5, <2>1, <3>1
  <2> QED BY <1>1, <1>7, <2>1, <2>2, <2>3 DEF KeptInv
<1>13. ASSUME UNCHANGED readersVars PROVE KeptInv'
  BY <1>1, <1>5, <1>6, <1>13 DEF readersVars, KeptInv
<1> QED
  BY <1>8, <1>9, <1>10, <1>11, <1>12, <1>13
  DEF ReadersNext, ReadNewest, ReadOlder, Reading

\* All that is shown of the zone and its readers.
Whatever == TypeInv /\ StoreInv /\ ReadersInv /\ KeptInv

LEMMA WhateverHolds ==
  ASSUME PublishTime < OrphanGrace, GraceSuffices
  PROVE  /\ ReadersInit => Whatever
         /\ Whatever /\ [ReadersNext]_readersVars => Whatever'
<1>1. ReadersInit => Whatever
  BY TypeInvInit, StoreInvInit, ReadersInvInit, KeptInit DEF ReadersInit, Whatever
<1>2. Whatever /\ [ReadersNext]_readersVars => Whatever'
  BY TypeInvStep, StoreInvStep, ReadersInvStep, KeptStep, ZoneSteps DEF Whatever
<1> QED BY <1>1, <1>2

LEMMA ListedIsStored ==
  ASSUME Whatever, NEW r \in Reader, Reading(r)
  PROVE  Listed(r) \subseteq stored
BY DEF Whatever, KeptInv, ReaderKept, Keeps, StoreInv

(* A retired archive outlives any reader still holding an older manifest, in *)
(* every run in which a merge, the age of a remembered manifest and a read   *)
(* together take less than the retire grace.                                 *)
THEOREM OutlivesReadersCorrect ==
  ASSUME PublishTime < OrphanGrace, GraceSuffices
  PROVE  ReadersSpec => []OutlivesReaders
<1>1. Whatever => OutlivesReaders
  BY ListedIsStored DEF OutlivesReaders
<1> QED BY <1>1, WhateverHolds, PTL DEF ReadersSpec

-----------------------------------------------------------------------------
(* A read returns what its manifest lists.                                  *)

\* What r has found so far is what the archives it has read hold; if the newest
\* holds the tile, it reads no further.
FindsAsListed(r) ==
  LET s == reader[r] IN
  /\ PlacesDiffer(s.base)
  /\ Reading(r) => s.unread \subseteq Listed(r)
  /\ s.pc = "newest" => s.unread = Listed(r) /\ s.found = {}
  /\ s.pc = "older" => s.found = Holders(Listed(r) \ s.unread, s.tile)
  /\ s.pc = "found" =>
       \E k \in Holders(Listed(r), s.tile) :
         s.found = {k} /\ \A j \in Listed(r) : s.base.archives[j] <= s.base.archives[k]

FindsInv ==
  /\ PlacesDiffer(manifest) /\ PlacesDiffer(known.manifest)
  /\ \A r \in Reader : FindsAsListed(r)

LEMMA FindsInit == ReadersInit => FindsInv
BY NoPlaces DEF ReadersInit, Init, FindsInv, FindsAsListed, Reading, NotReading, Unknown

LEMMA FindsStep ==
  ASSUME Whatever, FindsInv, [ReadersNext]_readersVars
  PROVE  FindsInv'
<1>next. [Next]_vars
  BY ZoneSteps
<1>ok. /\ TypeInv /\ manifest \in Manifest /\ archive \in Seq(Archive)
       /\ reader \in [Reader -> ReaderState]
       /\ \A r \in Reader : reader[r] \in ReaderState /\ Fits(reader[r])
       /\ \A r \in Reader : FindsAsListed(r)
  BY DEF Whatever, TypeInv, TypeOK, ReadersInv, FindsInv
<1>1. PlacesDiffer(manifest)'
  BY <1>next, <1>ok, PlacesStep DEF FindsInv
<1>2. ArchivesStay
  BY <1>next, <1>ok, ArchivesStep
(* A reader whose state does not change.                                    *)
<1>3. ASSUME NEW r \in Reader, reader'[r] = reader[r] PROVE FindsAsListed(r)'
  <2>1. Listed(r)' = Listed(r) /\ Listed(r) \subseteq DOMAIN archive
    BY <1>ok, <1>2, <1>3 DEF Listed, Live, Fits, ArchivesStay, Archives
  <2>2. ASSUME NEW K, K \subseteq Listed(r)
        PROVE  Holders(K, reader[r].tile)' = Holders(K, reader[r].tile)
    BY <1>2, <1>3, <2>1, <2>2 DEF Holders, ArchivesStay
  <2>3. FindsAsListed(r)
    BY <1>ok
  <2>4. Holders(Listed(r) \ reader[r].unread, reader[r].tile)'
          = Holders(Listed(r) \ reader[r].unread, reader[r].tile)
    <3> DEFINE K == Listed(r) \ reader[r].unread
    <3>1. K' = K /\ K \subseteq DOMAIN archive
      BY <1>3, <2>1
    <3> QED BY <1>2, <1>3, <3>1 DEF Holders, ArchivesStay
  <2>5. Holders(Listed(r), reader[r].tile)' = Holders(Listed(r), reader[r].tile)
    BY <1>3, <2>1, <2>2
  <2> QED BY <1>3, <2>1, <2>3, <2>4, <2>5 DEF FindsAsListed, Reading, PlacesDiffer, Archives
<1>4. ASSUME known' = known \/ known' = Unknown PROVE PlacesDiffer(known.manifest)'
  BY <1>4, NoPlaces DEF FindsInv, PlacesDiffer, Archives, Unknown
<1>5. ASSUME NEW r \in Reader, \A q \in Reader \ {r} : reader'[q] = reader[q],
             PlacesDiffer(known.manifest)', FindsAsListed(r)'
      PROVE  FindsInv'
  BY <1>1, <1>3, <1>5 DEF FindsInv
<1>6. ASSUME UNCHANGED reader, PlacesDiffer(known.manifest)' PROVE FindsInv'
  BY <1>1, <1>3, <1>6 DEF FindsInv
<1>7. ASSUME Refresh PROVE FindsInv'
  BY <1>6, <1>7 DEF Refresh, FindsInv, PlacesDiffer, Archives
<1>8. ASSUME NEW r \in Reader, NEW t \in Tile, NEW now \in 0..clock, Get(r, t, now)
      PROVE  FindsInv'
  <2>1. /\ \A q \in Reader \ {r} : reader'[q] = reader[q]
        /\ reader'[r].pc = "newest" /\ reader'[r].base = known.manifest
        /\ reader'[r].unread = Live(known.manifest, now) /\ reader'[r].found = {}
        /\ reader'[r].now = now /\ UNCHANGED <<known, archive>>
    BY <1>ok, <1>8 DEF Get, NotReading, vars
  <2>2. Listed(r)' = Live(known.manifest, now)
    BY <2>1 DEF Listed, Live, Archives
  <2>3. FindsAsListed(r)'
    BY <2>1, <2>2 DEF FindsAsListed, FindsInv, PlacesDiffer, Archives
  <2> QED BY <1>4, <1>5, <2>1, <2>3
<1>9. ASSUME NEW r \in Reader, NEW k \in reader[r].unread, NEW pc, ReadArchive(r, k, pc),
             Reading(r)
      PROVE  /\ \A q \in Reader \ {r} : reader'[q] = reader[q]
             /\ reader'[r].pc = pc /\ reader'[r].base = reader[r].base
             /\ reader'[r].now = reader[r].now /\ reader'[r].tile = reader[r].tile
             /\ reader'[r].unread = reader[r].unread \ {k}
             /\ k \in Holders({k}, reader[r].tile) =>
                  Hit(r, k) /\ reader'[r].found = reader[r].found \cup {k}
             /\ k \notin Holders({k}, reader[r].tile) =>
                  ~Hit(r, k) /\ reader'[r].found = reader[r].found
             /\ Listed(r)' = Listed(r) /\ k \in Listed(r)
             /\ PlacesDiffer(reader[r].base) /\ PlacesDiffer(known.manifest)'
             /\ archive' = archive
  <2>1. k \in Listed(r) /\ k \in stored /\ PlacesDiffer(reader[r].base)
    BY <1>ok, <1>9, ListedIsStored DEF FindsAsListed
  <2>2. Hit(r, k) <=> k \in Holders({k}, reader[r].tile)
    BY <2>1 DEF Hit, Holders
  <2> DEFINE F == IF Hit(r, k) THEN reader[r].found \cup {k} ELSE reader[r].found
             G == IF k \in stored THEN reader[r].gone ELSE reader[r].gone \cup {k}
             s == [reader[r] EXCEPT !.pc = pc, !.unread = @ \ {k}, !.found = F, !.gone = G]
  <2>3. reader' = [reader EXCEPT ![r] = s] /\ UNCHANGED <<archive, known>>
    BY <1>9 DEF ReadArchive, vars
  <2>4. /\ s.pc = pc /\ s.base = reader[r].base /\ s.now = reader[r].now
        /\ s.tile = reader[r].tile /\ s.unread = reader[r].unread \ {k} /\ s.found = F
    BY <1>ok DEF ReaderState
  <2> HIDE DEF s
  <2>5. reader'[r] = s /\ \A q \in Reader \ {r} : reader'[q] = reader[q]
    BY <1>ok, <2>3
  <2>6. Listed(r)' = Listed(r)
    BY <2>3, <2>4, <2>5 DEF Listed, Live, Archives
  <2> QED BY <1>4, <2>1, <2>2, <2>3, <2>4, <2>5, <2>6
<1>10. ASSUME NEW r \in Reader, ReadNewest(r) PROVE FindsInv'
  <2> DEFINE k == Last(reader[r].base, reader[r].unread)
  <2>1. /\ k \in reader[r].unread
        /\ \A j \in reader[r].unread : reader[r].base.archives[j] <= reader[r].base.archives[k]
    <3>1. /\ reader[r].base \in Manifest /\ reader[r].unread \in SUBSET Key
          /\ reader[r].unread # {}
      BY <1>ok, <1>10 DEF ReaderState, ReadNewest
    <3> QED BY <3>1, LastIsLast
  <2>2. /\ Reading(r) /\ ReadArchive(r, k, IF Hit(r, k) THEN "found" ELSE "older")
        /\ reader[r].pc = "newest" /\ reader[r].unread = Listed(r) /\ reader[r].found = {}
    BY <1>ok, <1>10 DEF ReadNewest, Reading, FindsAsListed
  <2> HIDE DEF k
  <2>3. CASE k \in Holders({k}, reader[r].tile)
    <3>1. /\ reader'[r].pc = "found" /\ reader'[r].found = {k}
          /\ k \in Holders(Listed(r), reader[r].tile)
      BY <1>9, <2>1, <2>2, <2>3 DEF Holders
    <3>2. FindsAsListed(r)'
      BY <1>9, <2>1, <2>2, <3>1 DEF FindsAsListed, Holders, PlacesDiffer, Archives
    <3> QED BY <1>5, <1>9, <2>1, <2>2, <3>2
  <2>4. CASE k \notin Holders({k}, reader[r].tile)
    <3>1. /\ reader'[r].pc = "older" /\ reader'[r].found = {}
          /\ Holders(Listed(r) \ (reader[r].unread \ {k}), reader[r].tile) = {}
      BY <1>9, <2>1, <2>2, <2>4 DEF Holders
    <3>2. FindsAsListed(r)'
      BY <1>9, <2>1, <2>2, <3>1 DEF FindsAsListed, Holders, PlacesDiffer, Archives
    <3> QED BY <1>5, <1>9, <2>1, <2>2, <3>2
  <2> QED BY <2>3, <2>4
<1>11. ASSUME NEW r \in Reader, ReadOlder(r) PROVE FindsInv'
  <2>1. PICK k \in reader[r].unread : ReadArchive(r, k, "older")
    BY <1>11 DEF ReadOlder
  <2>2. /\ Reading(r) /\ reader[r].unread \subseteq Listed(r)
        /\ reader[r].found = Holders(Listed(r) \ reader[r].unread, reader[r].tile)
    BY <1>ok, <1>11 DEF ReadOlder, Reading, FindsAsListed
  <2>3. reader'[r].found = Holders(Listed(r) \ (reader[r].unread \ {k}), reader[r].tile)
    BY <1>9, <2>1, <2>2 DEF Holders
  <2>4. FindsAsListed(r)'
    BY <1>9, <2>1, <2>2, <2>3 DEF FindsAsListed, Holders, PlacesDiffer, Archives
  <2> QED BY <1>5, <1>9, <2>1, <2>2, <2>4
<1>12. ASSUME NEW r \in Reader, Answer(r) \/ GiveUp(r) PROVE FindsInv'
  <2> DEFINE got == IF reader[r].found = {} THEN NoCopy
                    ELSE archive[Last(reader[r].base, reader[r].found)].tiles[reader[r].tile]
             s == [NotReading EXCEPT !.pc = "answered", !.got = got]
  <2>1. /\ s.pc = "answered" /\ s.base = EmptyManifest
        /\ NotReading.pc = "idle" /\ NotReading.base = EmptyManifest
    BY DEF NotReading
  <2>2. /\ reader' = [reader EXCEPT ![r] = s] \/ reader' = [reader EXCEPT ![r] = NotReading]
        /\ UNCHANGED vars
        /\ known' = known \/ known' = Unknown
    BY <1>12 DEF Answer, GiveUp
  <2> HIDE DEF s
  <2>3. /\ reader'[r].pc \in {"answered", "idle"} /\ reader'[r].base = EmptyManifest
        /\ \A q \in Reader \ {r} : reader'[q] = reader[q]
    BY <1>ok, <2>1, <2>2
  <2>4. FindsAsListed(r)'
    BY <2>3, NoPlaces DEF FindsAsListed, Reading, PlacesDiffer, Archives
  <2> QED BY <1>4, <1>5, <2>2, <2>3, <2>4
<1>13. ASSUME UNCHANGED <<known, reader>> PROVE FindsInv'
  BY <1>4, <1>6, <1>13
<1> QED
  BY <1>7, <1>8, <1>10, <1>11, <1>12, <1>13 DEF ReadersNext, readersVars

(* A read, however its archives answer and whatever happens to the zone      *)
(* meanwhile, returns the copy of the newest archive listed that holds the   *)
(* tile, and a miss only if none does: in every run in which a merge, the    *)
(* age of a remembered manifest and a read together take less than the       *)
(* retire grace.                                                             *)
THEOREM AnswersAsListedCorrect ==
  ASSUME PublishTime < OrphanGrace, GraceSuffices
  PROVE  ReadersSpec => AnswersAsListed
<1> DEFINE Right == \A r \in Reader :
             Reading(r) /\ reader'[r].pc = "answered" =>
               reader'[r].got = Merged(reader[r].base, Listed(r))[reader[r].tile]
<1>1. ReadersInit => Whatever /\ FindsInv
  BY WhateverHolds, FindsInit
<1>2. Whatever /\ FindsInv /\ [ReadersNext]_readersVars => (Whatever /\ FindsInv)'
  BY WhateverHolds, FindsStep
<1>3. Whatever /\ FindsInv /\ [ReadersNext]_readersVars => [Right]_readersVars
  <2> SUFFICES ASSUME Whatever, FindsInv, ReadersNext,
                      NEW r \in Reader, Reading(r), reader'[r].pc = "answered"
               PROVE  reader'[r].got = Merged(reader[r].base, Listed(r))[reader[r].tile]
    OBVIOUS
  <2> DEFINE K == reader[r].found
             m == reader[r].base
             t == reader[r].tile
             got == IF K = {} THEN NoCopy ELSE archive[Last(m, K)].tiles[t]
             s == [NotReading EXCEPT !.pc = "answered", !.got = got]
  <2>1. /\ reader \in [Reader -> ReaderState] /\ reader[r] \in ReaderState
        /\ Fits(reader[r]) /\ FindsAsListed(r)
    BY DEF Whatever, ReadersInv, FindsInv
  <2>2. Answer(r)
    <3>1. reader[r].pc # "answered"
      BY DEF Reading
    <3>2. ASSUME NEW q \in Reader, q # r, NEW x, reader' = [reader EXCEPT ![q] = x] PROVE FALSE
      BY <2>1, <3>1, <3>2
    <3>3. ASSUME UNCHANGED reader PROVE FALSE
      BY <3>1, <3>3
    <3>4. ASSUME NEW q \in Reader, NEW u \in Tile, NEW now, Get(q, u, now) PROVE FALSE
      BY <2>1, <3>2, <3>4 DEF Get
    <3>5. ASSUME NEW q \in Reader, NEW k, NEW pc \in {"found", "older"}, ReadArchive(q, k, pc)
          PROVE  FALSE
      <4>1. q = r => reader'[r].pc = pc
        BY <2>1, <3>5 DEF ReadArchive, ReaderState
      <4>2. reader' = [reader EXCEPT ![q] = reader'[q]]
        BY <2>1, <3>5 DEF ReadArchive
      <4> QED BY <3>2, <4>1, <4>2
    <3>6. ASSUME NEW q \in Reader, ReadNewest(q) \/ ReadOlder(q) PROVE FALSE
      BY <3>5, <3>6 DEF ReadNewest, ReadOlder
    <3>7. ASSUME NEW q \in Reader, GiveUp(q) PROVE FALSE
      BY <2>1, <3>2, <3>7 DEF GiveUp, NotReading
    <3>8. ASSUME NEW q \in Reader, q # r, Answer(q) PROVE FALSE
      BY <3>2, <3>8 DEF Answer
    <3> QED BY <3>3, <3>4, <3>6, <3>7, <3>8 DEF ReadersNext, Refresh
  <2>3. reader'[r].got = got
    <3>1. s.got = got
      BY DEF NotReading
    <3>2. reader' = [reader EXCEPT ![r] = s]
      BY <2>2 DEF Answer
    <3> HIDE DEF s
    <3> QED BY <2>1, <3>1, <3>2
  <2>4. t \in Tile
    BY <2>1 DEF Fits, Reading
  <2>5. Merged(m, Listed(r))[t] =
          IF Holders(Listed(r), t) = {} THEN NoCopy ELSE archive[Holder(m, Listed(r), t)].tiles[t]
    BY <2>4 DEF Merged
  <2>6. CASE reader[r].pc \in {"newest", "older"}
    <3>1. K = Holders(Listed(r), t)
      BY <2>1, <2>2, <2>6 DEF Answer, FindsAsListed, Holders
    <3>2. Last(m, K) = Holder(m, Listed(r), t)
      BY <3>1 DEF Last, Holder
    <3> QED BY <2>3, <2>5, <3>1, <3>2
  <2>7. CASE reader[r].pc = "found"
    <3>1. PICK k \in Holders(Listed(r), t) :
            K = {k} /\ \A j \in Listed(r) : m.archives[j] <= m.archives[k]
      BY <2>1, <2>7 DEF FindsAsListed
    <3>2. m \in Manifest /\ Listed(r) \in SUBSET Key /\ Listed(r) \subseteq Archives(m)
          /\ PlacesDiffer(m)
      BY <2>1 DEF ReaderState, Listed, Live, Archives, FindsAsListed
    <3> DEFINE h == Holder(m, Listed(r), t)
    <3>3. /\ h \in Holders(Listed(r), t)
          /\ \A j \in Holders(Listed(r), t) : m.archives[j] <= m.archives[h]
      BY <2>4, <3>1, <3>2, HolderExists
    <3>4. Last(m, K) = k
      <4>1. K # {} /\ K \in SUBSET Key
        BY <3>1, <3>2 DEF Holders
      <4>2. Last(m, K) \in K
        BY <3>2, <4>1, LastIsLast
      <4> QED BY <3>1, <4>2
    <3> HIDE DEF h
    <3>5. h = k
      <4>1. h \in Listed(r) /\ k \in Listed(r)
        BY <3>1, <3>3 DEF Holders
      <4>2. m.archives[h] <= m.archives[k] /\ m.archives[k] <= m.archives[h]
        BY <3>1, <3>3, <4>1
      <4>3. m.archives[h] \in Nat /\ m.archives[k] \in Nat
        BY <3>2, <4>1 DEF Manifest
      <4>4. m.archives[h] = m.archives[k]
        BY <4>2, <4>3
      <4> QED BY <3>2, <4>1, <4>4 DEF PlacesDiffer
    <3> QED BY <2>3, <2>5, <3>1, <3>4, <3>5 DEF h
  <2> QED BY <2>6, <2>7 DEF Reading
<1> QED BY <1>1, <1>2, <1>3, PTL DEF ReadersSpec, AnswersAsListed

=============================================================================
