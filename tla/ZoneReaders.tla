---------------------------- MODULE ZoneReaders ----------------------------
(***************************************************************************)
(* Readers of a zone while it is written and kept up                       *)
(* (crates/tuile-tile-server/src/store.rs: archived_in, vanished): they    *)
(* work with a manifest that may be out of date, on archives that others   *)
(* merge, retire and delete meanwhile.                                     *)
(*                                                                         *)
(* A definition whose name ends in _ and a word is the definition before   *)
(* the underscore with a bug; nothing here uses it.                        *)
(*                                                                         *)
(* The instance they belong to buffers nothing itself, so its buffer and   *)
(* projections (held_at) are left out, and so are local copies of          *)
(* archives.  What ManifestCache shows of the manifests readers get is      *)
(* assumed here: they were current not longer than MaxAge ago.             *)
(***************************************************************************)
EXTENDS ZoneStore

CONSTANTS
  Reader,     \* concurrent reads of the zone
  MaxAge,     \* how long ago a manifest that readers get may have been replaced
  ReaderTime  \* the longest time a read takes

ASSUME ReadersAssumption == MaxAge \in Nat /\ ReaderTime \in Nat

VARIABLES
  known,   \* the manifest the instance remembers, and when it was current
  reader   \* what each reader is doing

readersVars == <<vars, known, reader>>

\* A read of a tile: the manifest it works with, its "now", the archives it has
\* still to read, those that hold the tile, those that are gone, its answer.
NotReading == [pc |-> "idle", tile |-> NoCopy,
               base |-> EmptyManifest, now |-> 0,
               unread |-> {}, found |-> {}, gone |-> {}, got |-> NoCopy]

\* The next read must not trust what is remembered.
Unknown == [manifest |-> EmptyManifest, at |-> -(MaxAge + 1)]

ReadersInit ==
  /\ Init
  /\ known = Unknown
  /\ reader = [r \in Reader |-> NotReading]

Reading(r) == reader[r].pc \in {"newest", "older", "found"}

Refresh_Ahead ==
  /\ known' = [manifest |-> manifest, at |-> clock + MaxAge]
  /\ UNCHANGED <<vars, reader>>

\* The instance reads the manifest again.
Refresh ==
  /\ known' = [manifest |-> manifest, at |-> clock]
  /\ UNCHANGED <<vars, reader>>

\* A read that began at now has its manifest: of the archives listed, those of
\* epochs expired by then are skipped.
Get(r, t, now) ==
  /\ ~Reading(r)
  /\ clock - known.at <= MaxAge
  /\ reader' = [reader EXCEPT ![r] =
       [NotReading EXCEPT !.pc = "newest", !.tile = t, !.base = known.manifest,
                          !.now = now, !.unread = Live(known.manifest, now)]]
  /\ UNCHANGED <<vars, known>>

Last_First(m, K) == CHOOSE k \in K : \A j \in K : m.archives[k] <= m.archives[j]

\* Of some archives, the one that wins.
Last(m, K) == CHOOSE k \in K : \A j \in K : m.archives[j] <= m.archives[k]

\* Does archive k, still there, hold the tile that r reads?
Hit(r, k) == k \in stored /\ archive[k].tiles[reader[r].tile] # NoCopy

ReadArchive(r, k, next) ==
  /\ reader' = [reader EXCEPT
       ![r].pc = next,
       ![r].unread = @ \ {k},
       ![r].found = IF Hit(r, k) THEN @ \cup {k} ELSE @,
       ![r].gone = IF k \in stored THEN @ ELSE @ \cup {k}]
  /\ UNCHANGED <<vars, known>>

\* The newest archive first, as it usually holds the tile ...
ReadNewest(r) ==
  LET newest == Last(reader[r].base, reader[r].unread) IN
  /\ reader[r].pc = "newest" /\ reader[r].unread # {}
  /\ ReadArchive(r, newest, IF Hit(r, newest) THEN "found" ELSE "older")

\* ... and the older ones at once, each answering when it does.
ReadOlder(r) ==
  /\ reader[r].pc = "older"
  /\ \E k \in reader[r].unread : ReadArchive(r, k, "older")

\* The newest of those that hold the tile; past an archive that is gone, the
\* manifest is forgotten.
Answer(r) ==
  LET K == reader[r].found
      m == reader[r].base
      passed == {k \in reader[r].gone : K = {} \/ m.archives[k] > m.archives[Last(m, K)]}
  IN
  /\ Reading(r)
  /\ reader[r].pc = "found" \/ reader[r].unread = {}
  /\ reader' = [reader EXCEPT ![r] =
       [NotReading EXCEPT
          !.pc = "answered",
          !.got = IF K = {} THEN NoCopy ELSE archive[Last(m, K)].tiles[reader[r].tile]]]
  /\ known' = IF passed = {} THEN known ELSE Unknown
  /\ UNCHANGED vars

\* A request is cancelled, or an archive cannot be read.
GiveUp(r) ==
  /\ Reading(r)
  /\ reader' = [reader EXCEPT ![r] = NotReading]
  /\ UNCHANGED <<vars, known>>

\* No read lasts longer than ReaderTime.
InTime(r) == Reading(r) => clock < reader[r].now + ReaderTime

ReadersNext ==
  \/ /\ Next
     /\ clock' # clock => \A r \in Reader : InTime(r)
     /\ UNCHANGED <<known, reader>>
  \/ Refresh
  \/ \E r \in Reader :
       \/ \E t \in Tile, now \in 0..clock : clock <= now + ReaderTime /\ Get(r, t, now)
       \/ ReadNewest(r) \/ ReadOlder(r) \/ Answer(r) \/ GiveUp(r)

ReadersSpec == ReadersInit /\ [][ReadersNext]_readersVars

-----------------------------------------------------------------------------
(* Properties.                                                              *)

\* What the manifest r works with lists, as of the time r began.
Listed(r) == Live(reader[r].base, reader[r].now)

\* Both variables hold what their declarations say, no time is ahead of the
\* clock, and a reader keeps to the archives its manifest lists.
ReadersTypeOK ==
  /\ known \in [manifest : Manifest, at : Int] /\ known.at <= clock
  /\ reader \in [Reader ->
       [pc : {"idle", "newest", "older", "found", "answered"}, tile : Tile \cup {NoCopy},
        base : Manifest, now : Nat, unread : SUBSET Key, found : SUBSET Key,
        gone : SUBSET Key, got : Copy \cup {NoCopy}]]
  /\ \A r \in Reader :
       /\ reader[r].now <= clock
       /\ reader[r].unread \cup reader[r].found \cup reader[r].gone
            \subseteq Archives(reader[r].base)

\* A retired archive outlives any reader still holding an older manifest
\* (store.rs, DEFAULT_RETIRE_GRACE).
OutlivesReaders ==
  \A r \in Reader : Reading(r) => Listed(r) \subseteq stored

\* A read, however its archives answer, returns what its manifest lists: the
\* copy of the newest archive that holds the tile, and a miss only if none does.
AnswersAsListed ==
  [][\A r \in Reader :
       Reading(r) /\ reader'[r].pc = "answered" =>
         reader'[r].got = Merged(reader[r].base, Listed(r))[reader[r].tile]]_readersVars
=============================================================================
