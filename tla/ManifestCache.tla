--------------------------- MODULE ManifestCache ---------------------------
(***************************************************************************)
(* How one instance knows a zone's manifest                                *)
(* (crates/tuile-tile-server/src/store.rs: struct Manifests, manifest,     *)
(* manifest_flight, forget_zone): the manifest it remembers, the one read   *)
(* in flight its readers share, its own flushes that read and publish      *)
(* manifests, the publications of others and what is announced of them.    *)
(*                                                                         *)
(* The conditional write makes a zone's manifests a sequence (ZoneStore),  *)
(* so a manifest is its generation.  A reader may be dropped at any await;  *)
(* a read that no one waits for any more stays where it is until someone   *)
(* does.                                                                   *)
(*                                                                         *)
(* A definition whose name ends in _ and a word is the definition before   *)
(* the underscore with a bug; nothing here uses it.                        *)
(***************************************************************************)
EXTENDS Integers, Sequences

CONSTANTS
  Reader,         \* concurrent reads of the zone's tiles
  None,           \* stands for the manifest remembered when there is none
  Ttl,            \* StoreConfig::manifest_ttl
  MaxStale,       \* StoreConfig::manifest_max_stale
  ReadTime,       \* the longest time from the bucket's answer, to a read or to a
                  \* publication, until the instance remembers it
  MaxClock,       \* bound on the clock
  MaxGeneration   \* bound on publications

ASSUME ConstantsAssumption ==
  /\ Ttl \in Nat /\ MaxStale \in Nat /\ ReadTime \in Nat
  /\ MaxClock \in Nat /\ MaxGeneration \in Nat
  /\ None \notin [generation : Nat, at : Nat]

VARIABLES
  clock,
  published,   \* when each generation was published; the last is current
  kept,        \* Manifests::cache: the manifest remembered, and since when
  flight,      \* Manifests::flights: the read of the manifest in flight
  flusher,     \* what the holder of the zone's lock is doing
  reader,      \* what each reader is doing
  news,        \* announcements on their way
  floor        \* the newest generation learned since it last forgot

vars == <<clock, published, kept, flight, flusher, reader, news, floor>>

Current == Len(published)

Later(m, n) == IF m > n THEN m ELSE n

NoFlight == [pc |-> "none", seen |-> 0, at |-> 0, background |-> FALSE]

Resting == [pc |-> "idle", seen |-> 0, at |-> 0]

NotReading == [pc |-> "idle", got |-> 0, floor |-> 0]

Init ==
  /\ clock = 0
  /\ published = << >>
  /\ kept = None
  /\ flight = NoFlight
  /\ flusher = Resting
  /\ reader = [r \in Reader |-> NotReading]
  /\ news = {}
  /\ floor = 0

-----------------------------------------------------------------------------
(* The manifest remembered.                                                *)

Remembered_Always(g) == [generation |-> g, at |-> clock]

\* Manifests::remember: unless a newer one is kept.
Remembered(g) ==
  IF kept # None /\ kept.generation > g THEN kept
  ELSE [generation |-> g, at |-> clock]

Remember(g) == kept' = Remembered(g) /\ floor' = Later(floor, g)

\* The manifest is removed, and with it what it showed.
Forget == kept' = None /\ floor' = 0

Fresh == kept # None /\ clock - kept.at < Ttl

Tolerable_Forever == kept # None

\* Past its time, but still answered with while it is read again.
Tolerable == kept # None /\ clock - kept.at < Ttl + MaxStale

-----------------------------------------------------------------------------
(* Readers: TileStore::manifest.                                           *)

At(r, step) == reader[r].pc = step

\* r has its manifest: the read of its archives may begin.
Answer(r, g) ==
  reader' = [reader EXCEPT ![r].pc = "answered", ![r].got = g]

\* A look at what is remembered; what follows does not wait for anything.
Look(r) ==
  /\ At(r, "idle") \/ At(r, "answered")
  /\ LET started == [NotReading EXCEPT !.floor = floor] IN
       reader' = [reader EXCEPT ![r] =
         IF Tolerable
           THEN [started EXCEPT !.pc = IF Fresh THEN "answered" ELSE "stale",
                                !.got = kept.generation]
           ELSE [started EXCEPT !.pc = "expired"]]
  /\ UNCHANGED <<clock, published, kept, flight, flusher, news, floor>>

NeedsFlight(r) == At(r, "stale") \/ At(r, "expired")

\* A stale manifest is an answer, and the read goes on in the background;
\* without one the reader waits for the read.
WaitOn(r) ==
  IF At(r, "stale") THEN Answer(r, reader[r].got)
  ELSE reader' = [reader EXCEPT ![r].pc = "waiting"]

\* manifest_flight: the read in flight, if there is one.
Join(r) ==
  /\ NeedsFlight(r)
  /\ flight.pc # "none"
  /\ flight' = [flight EXCEPT !.background = @ \/ At(r, "stale")]
  /\ WaitOn(r)
  /\ UNCHANGED <<clock, published, kept, flusher, news, floor>>

\* A read ended since the reader looked.
EndedMeanwhile == Fresh

Reuse(r) ==
  /\ NeedsFlight(r)
  /\ flight.pc = "none" /\ EndedMeanwhile
  /\ Answer(r, IF At(r, "stale") THEN reader[r].got ELSE kept.generation)
  /\ UNCHANGED <<clock, published, kept, flight, flusher, news, floor>>

Start(r) ==
  /\ NeedsFlight(r)
  /\ flight.pc = "none" /\ ~EndedMeanwhile
  /\ flight' = [NoFlight EXCEPT !.pc = "asked", !.background = At(r, "stale")]
  /\ WaitOn(r)
  /\ UNCHANGED <<clock, published, kept, flusher, news, floor>>

\* A request is cancelled: its future is dropped where it waits.
Drop(r) ==
  /\ At(r, "waiting")
  /\ reader' = [reader EXCEPT ![r] = NotReading]
  /\ UNCHANGED <<clock, published, kept, flight, flusher, news, floor>>

\* archived_in found an archive gone: the manifest it had is forgotten.
Vanished(r) ==
  /\ At(r, "answered") /\ reader[r].got < Current
  /\ Forget
  /\ reader' = [reader EXCEPT ![r] = NotReading]
  /\ UNCHANGED <<clock, published, flight, flusher, news>>

-----------------------------------------------------------------------------
(* The read in flight.                                                     *)

\* The bucket answers what it holds.
Serve ==
  /\ flight.pc = "asked"
  /\ flight' = [flight EXCEPT !.pc = "served", !.seen = Current, !.at = clock]
  /\ UNCHANGED <<clock, published, kept, flusher, reader, news, floor>>

Polled_InBackground == flight.background

\* The read goes on only while someone waits for it.
Polled == flight.background \/ \E r \in Reader : At(r, "waiting")

InTime == clock - flight.at <= ReadTime

\* The answer is remembered ...
Land ==
  /\ flight.pc = "served" /\ Polled /\ InTime
  /\ Remember(flight.seen)
  /\ flight' = [flight EXCEPT !.pc = "landed"]
  /\ UNCHANGED <<clock, published, flusher, reader, news>>

\* ... then the flight is taken out and given to all who wait for it.
Finish ==
  /\ flight.pc = "landed"
  /\ flight' = NoFlight
  /\ reader' = [r \in Reader |->
       IF At(r, "waiting") THEN [reader[r] EXCEPT !.pc = "answered", !.got = flight.seen]
       ELSE reader[r]]
  /\ UNCHANGED <<clock, published, kept, flusher, news, floor>>

\* An answer that no one took in time is asked for again by the client.
AskAgain ==
  /\ flight.pc = "served" /\ Polled /\ ~InTime
  /\ flight' = [flight EXCEPT !.pc = "asked"]
  /\ UNCHANGED <<clock, published, kept, flusher, reader, news, floor>>

\* The read fails for all who wait; what is remembered stays.
Fail ==
  /\ flight.pc \in {"asked", "served"} /\ Polled
  /\ flight' = NoFlight
  /\ reader' = [r \in Reader |-> IF At(r, "waiting") THEN NotReading ELSE reader[r]]
  /\ UNCHANGED <<clock, published, kept, flusher, news, floor>>

-----------------------------------------------------------------------------
(* Publications.                                                           *)

\* Another instance publishes, or a cleanup or pruning of this one, and its
\* announcement may or may not arrive.
PublishedElsewhere ==
  /\ Current < MaxGeneration
  /\ published' = Append(published, clock)
  /\ news' = news \cup {Current + 1}
  /\ UNCHANGED <<clock, kept, flight, flusher, reader, floor>>

\* forget_zone: an older manifest is not to be trusted.
Hear(g) ==
  /\ news' = news \ {g}
  /\ IF kept # None /\ kept.generation < g THEN Forget ELSE UNCHANGED <<kept, floor>>
  /\ UNCHANGED <<clock, published, flight, flusher, reader>>

\* prune_expired forgets the manifest at some time after its publication, which
\* it makes without the zone's lock, like another instance.
Pruned ==
  /\ Current > 0
  /\ Forget
  /\ UNCHANGED <<clock, published, flight, flusher, reader, news>>

\* drop_duplicates reads the manifest for itself ...
FlushReads ==
  /\ flusher.pc = "idle"
  /\ flusher' = [pc |-> "read", seen |-> Current, at |-> clock]
  /\ UNCHANGED <<clock, published, kept, flight, reader, news, floor>>

\* ... and remembers it.
FlushRemembersRead ==
  /\ flusher.pc = "read"
  /\ Remember(flusher.seen)
  /\ flusher' = Resting
  /\ UNCHANGED <<clock, published, flight, reader, news>>

\* A flush or a merge of this instance publishes, announces ...
Publish ==
  /\ flusher.pc = "idle"
  /\ Current < MaxGeneration
  /\ published' = Append(published, clock)
  /\ flusher' = [pc |-> "published", seen |-> Current + 1, at |-> clock]
  /\ news' = news \cup {Current + 1}
  /\ UNCHANGED <<clock, kept, flight, reader, floor>>

\* ... and remembers what it published.  From here on its tiles are no longer
\* in the buffer, and readers find them through the manifest.
PublisherRemembers ==
  /\ flusher.pc = "published"
  /\ Remember(flusher.seen)
  /\ flusher' = Resting
  /\ UNCHANGED <<clock, published, flight, reader, news>>

\* The publication is reported as failed to its caller after it took place:
\* a future dropped, the ledger waited for too long.
PublisherForgets ==
  /\ flusher.pc # "idle"
  /\ flusher' = Resting
  /\ UNCHANGED <<clock, published, kept, flight, reader, news, floor>>

\* Readers do not wait between their look and the flight; the client's time-out
\* bounds how long an answer someone waits for is on its way.
Timely ==
  /\ \A r \in Reader : ~NeedsFlight(r)
  /\ flight.pc # "landed"
  /\ flight.pc = "served" /\ Polled => clock < flight.at + ReadTime \/ ~InTime
  /\ flusher.pc # "idle" => clock < flusher.at + ReadTime

Tick ==
  /\ clock < MaxClock
  /\ Timely
  /\ clock' = clock + 1
  /\ UNCHANGED <<published, kept, flight, flusher, reader, news, floor>>

Flight == Serve \/ Land \/ Finish \/ AskAgain

Flush == FlushReads \/ FlushRemembersRead \/ Publish \/ PublisherRemembers \/ PublisherForgets

Read(r) == Look(r) \/ Join(r) \/ Reuse(r) \/ Start(r)

Next ==
  \/ Tick
  \/ \E r \in Reader : Read(r) \/ Drop(r) \/ Vanished(r)
  \/ Flight \/ Fail
  \/ Flush \/ PublishedElsewhere \/ Pruned
  \/ \E g \in news : Hear(g)

Spec == Init /\ [][Next]_vars

\* Tasks that are awake are run: the runtime polls a read that is waited for,
\* and the bucket answers.
FairSpec ==
  /\ Spec
  /\ WF_vars(Flight)
  /\ \A r \in Reader : WF_vars(NeedsFlight(r) /\ Read(r))

-----------------------------------------------------------------------------
(* Properties.                                                              *)

Generation == 0..Current

FlightState ==
  [pc : {"none", "asked", "served", "landed"}, seen : Generation, at : Nat,
   background : BOOLEAN]

ReaderState ==
  [pc : {"idle", "stale", "expired", "waiting", "answered"},
   got : Generation, floor : Generation]

\* Every variable holds what its declaration says, and no one knows a generation
\* that was not published.
TypeOK ==
  /\ clock \in Nat
  /\ published \in Seq(Nat) /\ Current <= MaxGeneration
  /\ kept = None \/ kept \in [generation : Generation, at : Nat]
  /\ flight \in FlightState
  /\ flusher \in [pc : {"idle", "read", "published"}, seen : Generation, at : Nat]
  /\ reader \in [Reader -> ReaderState]
  /\ news \subseteq 1..Current
  /\ floor \in Generation

\* r gets its manifest in this step.
Answered(r) == reader[r] # reader'[r] /\ reader'[r].pc = "answered"

\* A reader never works with a manifest that was replaced longer ago than an
\* answer may be trusted, tolerated and on its way (StoreConfig::manifest_ttl,
\* manifest_max_stale): the bound on how late it sees others' publications.
BoundedStaleness ==
  [][\A r \in Reader : Answered(r) =>
       LET next == reader'[r].got + 1 IN
       next \in DOMAIN published =>
         clock <= published[next] + Ttl + MaxStale + ReadTime]_vars

\* A read never gets an older manifest than the instance had learned of when
\* the read began, from an earlier read or from a flush of its own, and not
\* forgotten since (Manifests::remember): a tile this instance stored is not lost
\* from sight once it left the buffer.
NoReadGoesBack ==
  \A r \in Reader : At(r, "answered") => reader[r].got >= reader[r].floor

\* Whoever waits for a manifest is answered, also when the reader whose read it
\* joined is dropped.
ReadersAreAnswered ==
  \A r \in Reader : At(r, "waiting") ~> ~At(r, "waiting")
=============================================================================
