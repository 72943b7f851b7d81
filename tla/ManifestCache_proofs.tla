------------------------ MODULE ManifestCache_proofs ------------------------
(***************************************************************************)
(* Theorems about ManifestCache, for every value of its constants.         *)
(*                                                                         *)
(* TypeOK is inductive by itself.  TimesInv adds what the clock says of     *)
(* every answer on its way and bounds how stale a read can be.  OrderInv    *)
(* adds what a reader that waits may still be answered with and shows that  *)
(* no read goes back.                                                       *)
(***************************************************************************)
EXTENDS ManifestCache, TLAPS, SequenceTheorems

(* Nothing a reader, a read or a flush holds is more than was published.     *)
LEMMA RememberedType ==
  ASSUME TypeOK, NEW g \in Generation
  PROVE  /\ Remembered(g) \in [generation : Generation, at : Nat]
         /\ Remembered(g).generation >= g
         /\ kept # None => Remembered(g).generation >= kept.generation
         /\ Remembered(g) = kept \/ Remembered(g) = [generation |-> g, at |-> clock]
<1>1. CASE kept # None /\ kept.generation > g
  BY <1>1 DEF TypeOK, Remembered, Generation, Current
<1>2. CASE ~ (kept # None /\ kept.generation > g)
  <2>1. Remembered(g) = [generation |-> g, at |-> clock]
    BY <1>2 DEF Remembered
  <2> QED BY <1>2, <2>1 DEF TypeOK, Generation, Current
<1> QED BY <1>1, <1>2

LEMMA PublishedGrows ==
  ASSUME TypeOK, published' = Append(published, clock), Current < MaxGeneration
  PROVE  /\ published' \in Seq(Nat) /\ Current' = Current + 1
         /\ Current' <= MaxGeneration
         /\ Current \in Nat /\ Generation \subseteq Generation'
         /\ published'[Current'] = clock
         /\ \A g \in DOMAIN published : published'[g] = published[g]
         /\ DOMAIN published = 1..Current /\ DOMAIN published' = 1..Current'
<1>1. published \in Seq(Nat) /\ clock \in Nat /\ MaxGeneration \in Nat
  BY ConstantsAssumption DEF TypeOK
<1>2. /\ published' \in Seq(Nat) /\ Len(published') = Len(published) + 1
      /\ Len(published) \in Nat
      /\ published'[Len(published) + 1] = clock
      /\ \A g \in 1..Len(published) : published'[g] = published[g]
      /\ DOMAIN published = 1..Len(published)
      /\ DOMAIN published' = 1..Len(published')
  BY <1>1
<1> QED BY <1>1, <1>2 DEF Current, Generation

LEMMA TypeInit == Init => TypeOK
BY ConstantsAssumption
DEF Init, TypeOK, NoFlight, Resting, NotReading, Generation, Current,
    FlightState, ReaderState

(* What a step makes of a reader, of several or of the flight is of the right  *)
(* type.                                                                     *)
LEMMA ReaderUpdate ==
  ASSUME NEW g \in Generation, NEW s \in ReaderState,
         NEW pc \in {"idle", "stale", "expired", "waiting", "answered"}
  PROVE  /\ [s EXCEPT !.pc = pc] \in ReaderState
         /\ [s EXCEPT !.pc = pc, !.got = g] \in ReaderState
BY DEF ReaderState

LEMMA NotReadingType ==
  ASSUME TypeOK
  PROVE  /\ NotReading \in ReaderState
         /\ [NotReading EXCEPT !.floor = floor] \in ReaderState
<1>1. 0 \in Generation /\ floor \in Generation
  BY DEF TypeOK, Generation, Current
<1> QED BY <1>1 DEF NotReading, ReaderState

LEMMA LaterType ==
  ASSUME NEW m \in Generation, NEW n \in Generation
  PROVE  /\ Later(m, n) \in Generation
         /\ Later(m, n) >= m /\ Later(m, n) >= n
         /\ Later(m, n) = m \/ Later(m, n) = n
BY DEF Later, Generation, Current

\* Nothing that happened is forgotten, so what was of the right type still is.
LEMMA TypeFrame ==
  ASSUME published' = published
  PROVE  /\ Generation' = Generation /\ Current' = Current
         /\ ReaderState' = ReaderState /\ FlightState' = FlightState
BY DEF Generation, Current, ReaderState, FlightState

LEMMA AnswerType ==
  ASSUME TypeOK, NEW r \in Reader, NEW g \in Generation, Answer(r, g)
  PROVE  reader' \in [Reader -> ReaderState]
<1>1. reader[r] \in ReaderState
  BY DEF TypeOK
<1>2. reader' = [reader EXCEPT ![r] = [reader[r] EXCEPT !.pc = "answered", !.got = g]]
  BY DEF Answer, TypeOK
<1>3. [reader[r] EXCEPT !.pc = "answered", !.got = g] \in ReaderState
  BY <1>1, ReaderUpdate
<1> QED BY <1>2, <1>3 DEF TypeOK

LEMMA WaitOnType ==
  ASSUME TypeOK, NEW r \in Reader, WaitOn(r)
  PROVE  reader' \in [Reader -> ReaderState]
<1>1. reader[r] \in ReaderState /\ reader[r].got \in Generation
  BY DEF TypeOK, ReaderState
<1>2. CASE At(r, "stale")
  BY <1>1, <1>2, AnswerType DEF WaitOn
<1>3. CASE ~ At(r, "stale")
  <2>1. reader' = [reader EXCEPT ![r] = [reader[r] EXCEPT !.pc = "waiting"]]
    BY <1>3 DEF WaitOn, TypeOK
  <2>2. [reader[r] EXCEPT !.pc = "waiting"] \in ReaderState
    BY <1>1, ReaderUpdate
  <2> QED BY <2>1, <2>2 DEF TypeOK
<1> QED BY <1>2, <1>3

LEMMA LookType ==
  ASSUME TypeOK, NEW r \in Reader, Look(r)
  PROVE  reader' \in [Reader -> ReaderState]
<1> DEFINE started == [NotReading EXCEPT !.floor = floor]
<1>0. kept # None => kept.generation \in Generation
  BY DEF TypeOK
<1>1. started \in ReaderState
  BY NotReadingType
<1>2. \A g \in Generation, pc \in {"stale", "expired", "answered"} :
        /\ [started EXCEPT !.pc = pc] \in ReaderState
        /\ [started EXCEPT !.pc = pc, !.got = g] \in ReaderState
  BY <1>1, ReaderUpdate
<1> HIDE DEF started
<1>3. reader' = [reader EXCEPT ![r] =
        IF Tolerable
          THEN [started EXCEPT !.pc = IF Fresh THEN "answered" ELSE "stale",
                               !.got = kept.generation]
          ELSE [started EXCEPT !.pc = "expired"]]
  BY DEF Look, started
<1>4. Tolerable => kept.generation \in Generation
  BY <1>0 DEF Tolerable
<1>5. (IF Fresh THEN "answered" ELSE "stale") \in {"stale", "expired", "answered"}
  OBVIOUS
<1> QED BY <1>2, <1>3, <1>4, <1>5 DEF TypeOK

(* What a reader knows after its step, and that it is the only one to move.   *)
OnlyMoves(r) == \A q \in Reader : q # r => reader'[q] = reader[q]

LEMMA AnswerReaders ==
  ASSUME TypeOK, NEW r \in Reader, NEW g, Answer(r, g)
  PROVE  /\ OnlyMoves(r)
         /\ reader'[r].pc = "answered" /\ reader'[r].got = g
         /\ reader'[r].floor = reader[r].floor
<1>1. reader[r] \in ReaderState /\ reader \in [Reader -> ReaderState]
  BY DEF TypeOK
<1>2. reader' = [reader EXCEPT ![r] = [reader[r] EXCEPT !.pc = "answered", !.got = g]]
  BY DEF Answer, TypeOK
<1>3. /\ reader'[r] = [reader[r] EXCEPT !.pc = "answered", !.got = g]
      /\ \A q \in Reader : q # r => reader'[q] = reader[q]
  BY <1>1, <1>2
<1> QED BY <1>1, <1>3 DEF OnlyMoves, ReaderState

LEMMA WaitOnReaders ==
  ASSUME TypeOK, NEW r \in Reader, WaitOn(r)
  PROVE  /\ OnlyMoves(r)
         /\ reader'[r].floor = reader[r].floor
         /\ reader'[r].got = reader[r].got
         /\ \/ At(r, "stale") /\ reader'[r].pc = "answered"
            \/ ~ At(r, "stale") /\ reader'[r].pc = "waiting"
<1>1. CASE At(r, "stale")
  BY <1>1, AnswerReaders DEF WaitOn
<1>2. CASE ~ At(r, "stale")
  <2>1. reader' = [reader EXCEPT ![r] = [reader[r] EXCEPT !.pc = "waiting"]]
    BY <1>2 DEF WaitOn, TypeOK
  <2> QED BY <1>2, <2>1 DEF WaitOn, OnlyMoves, TypeOK, ReaderState
<1> QED BY <1>1, <1>2

LEMMA LookReaders ==
  ASSUME TypeOK, NEW r \in Reader, Look(r)
  PROVE  /\ OnlyMoves(r)
         /\ reader'[r].floor = floor
         /\ \/ /\ Tolerable
               /\ reader'[r].pc = IF Fresh THEN "answered" ELSE "stale"
               /\ reader'[r].got = kept.generation
            \/ ~ Tolerable /\ reader'[r].pc = "expired"
<1> DEFINE started == [NotReading EXCEPT !.floor = floor]
<1>1. started \in ReaderState /\ started.floor = floor
  BY NotReadingType DEF NotReading
<1>2. reader' = [reader EXCEPT ![r] =
        IF Tolerable
          THEN [started EXCEPT !.pc = IF Fresh THEN "answered" ELSE "stale",
                               !.got = kept.generation]
          ELSE [started EXCEPT !.pc = "expired"]]
  BY DEF Look, started
<1> HIDE DEF started
<1>3. reader \in [Reader -> ReaderState]
  BY DEF TypeOK
<1> QED BY <1>1, <1>2, <1>3 DEF OnlyMoves, ReaderState

LEMMA FinishReaders ==
  ASSUME TypeOK, NEW q \in Reader, Finish \/ Fail
  PROVE  \/ ~ At(q, "waiting") /\ reader'[q] = reader[q]
         \/ /\ At(q, "waiting") /\ Finish
            /\ reader'[q].pc = "answered" /\ reader'[q].got = flight.seen
            /\ reader'[q].floor = reader[q].floor
         \/ At(q, "waiting") /\ Fail /\ reader'[q] = NotReading
<1>1. reader[q] \in ReaderState
  BY DEF TypeOK
<1>2. CASE Finish
  <2>1. reader'[q] = IF At(q, "waiting")
                       THEN [reader[q] EXCEPT !.pc = "answered", !.got = flight.seen]
                       ELSE reader[q]
    BY <1>2 DEF Finish
  <2> QED BY <1>1, <1>2, <2>1 DEF ReaderState
<1>3. CASE Fail
  BY <1>3 DEF Fail
<1> QED BY <1>2, <1>3

LEMMA TypeStep == TypeOK /\ [Next]_vars => TypeOK'
<1> SUFFICES ASSUME TypeOK, [Next]_vars
             PROVE  TypeOK'
  OBVIOUS
<1>0. /\ Current \in Nat /\ 0 \in Generation /\ Current \in Generation
      /\ kept # None => kept \in [generation : Generation, at : Nat]
      /\ flight.seen \in Generation /\ flusher.seen \in Generation
  BY DEF TypeOK, Current, Generation, FlightState
<1>01. NoFlight \in FlightState /\ NotReading \in ReaderState
       /\ Resting \in [pc : {"idle", "read", "published"}, seen : Generation, at : Nat]
  BY <1>0 DEF NoFlight, NotReading, Resting, FlightState, ReaderState
<1>02. \A pc \in {"asked", "served", "landed"}, b \in BOOLEAN :
         /\ [NoFlight EXCEPT !.pc = pc, !.background = b] \in FlightState
         /\ [flight EXCEPT !.pc = pc] \in FlightState
         /\ [flight EXCEPT !.background = b] \in FlightState
  BY <1>0 DEF TypeOK, NoFlight, FlightState
<1>1. CASE Tick
  BY <1>1, TypeFrame DEF TypeOK, Tick
<1>2. ASSUME NEW r \in Reader, Look(r)
      PROVE  TypeOK'
  BY <1>2, LookType, TypeFrame DEF Look, TypeOK
<1>3. ASSUME NEW r \in Reader, Join(r)
      PROVE  TypeOK'
  <2>1. reader' \in [Reader -> ReaderState]
    BY <1>3, WaitOnType DEF Join
  <2>2. (flight.background \/ At(r, "stale")) \in BOOLEAN
    OBVIOUS
  <2>3. flight' \in FlightState
    BY <1>02, <1>3, <2>2, Zenon DEF Join
  <2> QED BY <1>3, <2>1, <2>3, TypeFrame DEF Join, TypeOK
<1>4. ASSUME NEW r \in Reader, Reuse(r)
      PROVE  TypeOK'
  <2>1. (IF At(r, "stale") THEN reader[r].got ELSE kept.generation) \in Generation
    BY <1>0, <1>4 DEF Reuse, EndedMeanwhile, Fresh, TypeOK, ReaderState
  <2> QED BY <1>4, AnswerType, <2>1, TypeFrame DEF Reuse, TypeOK
<1>5. ASSUME NEW r \in Reader, Start(r)
      PROVE  TypeOK'
  <2>1. reader' \in [Reader -> ReaderState]
    BY <1>5, WaitOnType DEF Start
  <2>2. At(r, "stale") \in BOOLEAN
    BY DEF At
  <2>3. flight' \in FlightState
    BY <1>02, <1>5, <2>2, Zenon DEF Start
  <2> QED BY <1>5, <2>1, <2>3, TypeFrame DEF Start, TypeOK
<1>6. ASSUME NEW r \in Reader, Drop(r) \/ Vanished(r)
      PROVE  TypeOK'
  BY <1>0, <1>01, <1>6, TypeFrame DEF Drop, Vanished, Forget, TypeOK
<1>7. CASE Serve
  <2>1. flight' \in FlightState
    BY <1>0, <1>7 DEF Serve, TypeOK, FlightState
  <2> QED BY <1>7, <2>1, TypeFrame DEF Serve, TypeOK
<1>8. CASE Land
  BY <1>0, <1>02, <1>8, RememberedType, LaterType, TypeFrame DEF Land, Remember, TypeOK
<1>9. CASE Finish
  <2>1. \A r \in Reader : [reader[r] EXCEPT !.pc = "answered", !.got = flight.seen]
                            \in ReaderState
    BY <1>0, ReaderUpdate DEF TypeOK
  <2>2. reader' \in [Reader -> ReaderState]
    BY <1>9, <2>1 DEF Finish, TypeOK
  <2> QED BY <1>01, <1>9, <2>2, TypeFrame DEF Finish, TypeOK
<1>10. CASE AskAgain
  BY <1>02, <1>10, TypeFrame DEF AskAgain, TypeOK
<1>11. CASE Fail
  <2>1. reader' \in [Reader -> ReaderState]
    BY <1>01, <1>11 DEF Fail, TypeOK
  <2> QED BY <1>01, <1>11, <2>1, TypeFrame DEF Fail, TypeOK
<1>12. CASE FlushReads
  BY <1>0, <1>12, TypeFrame DEF FlushReads, TypeOK
<1>13. CASE FlushRemembersRead
  BY <1>0, <1>01, <1>13, RememberedType, LaterType, TypeFrame
  DEF FlushRemembersRead, Remember, TypeOK
<1>14. CASE Publish \/ PublishedElsewhere
  <2>1. published' = Append(published, clock) /\ Current < MaxGeneration
    BY <1>14 DEF Publish, PublishedElsewhere
  <2>2. /\ published' \in Seq(Nat) /\ Current' = Current + 1
        /\ Current' <= MaxGeneration
        /\ Generation \subseteq Generation'
    BY <2>1, PublishedGrows
  <2>3. Current + 1 \in Generation' /\ Current + 1 \in 1..Current'
    BY <1>0, <2>2 DEF Generation
  <2>4. news' \subseteq 1..Current'
    <3>1. news \subseteq 1..Current'
      BY <1>0, <2>2 DEF TypeOK
    <3>2. news' = news \cup {Current + 1}
      BY <1>14 DEF Publish, PublishedElsewhere
    <3> QED BY <2>3, <3>1, <3>2
  <2>5. flusher' \in [pc : {"idle", "read", "published"}, seen : Generation', at : Nat]
    BY <1>14, <2>2, <2>3 DEF Publish, PublishedElsewhere, TypeOK
  <2>6. ReaderState \subseteq ReaderState' /\ FlightState \subseteq FlightState'
    BY <2>2 DEF ReaderState, FlightState
  <2>7. UNCHANGED <<clock, kept, flight, reader, floor>>
    BY <1>14 DEF Publish, PublishedElsewhere
  <2>8. reader' \in [Reader -> ReaderState'] /\ flight' \in FlightState'
    BY <2>6, <2>7 DEF TypeOK
  <2> QED BY <2>2, <2>4, <2>5, <2>7, <2>8 DEF TypeOK
<1>15. CASE PublisherRemembers
  BY <1>0, <1>01, <1>15, RememberedType, LaterType, TypeFrame
  DEF PublisherRemembers, Remember, TypeOK
<1>16. CASE PublisherForgets
  BY <1>01, <1>16, TypeFrame DEF PublisherForgets, TypeOK
<1>17. CASE Pruned
  BY <1>0, <1>17, TypeFrame DEF Pruned, Forget, TypeOK
<1>18. ASSUME NEW g \in news, Hear(g)
       PROVE  TypeOK'
  BY <1>0, <1>18, TypeFrame DEF Hear, Forget, TypeOK
<1>19. CASE UNCHANGED vars
  BY <1>19, TypeFrame DEF vars, TypeOK
<1> QED
  BY <1>1, <1>2, <1>3, <1>4, <1>5, <1>6, <1>7, <1>8, <1>9, <1>10, <1>11, <1>12,
     <1>13, <1>14, <1>15, <1>16, <1>17, <1>18, <1>19
  DEF Next, Read, Flight, Flush

(* Every variable of ManifestCache keeps its type, and no one knows a         *)
(* generation that was not published.                                        *)
THEOREM TypeCorrect == Spec => []TypeOK
<1>1. Init => TypeOK
  BY TypeInit
<1>2. TypeOK /\ [Next]_vars => TypeOK'
  BY TypeStep
<1> QED BY <1>1, <1>2, PTL DEF Spec

-----------------------------------------------------------------------------
(* Times.  What is known of a manifest is at most as old as its replacement,  *)
(* but for the time an answer is on its way.                                 *)

\* What was learned at time a of the zone's manifests: generation g is current.
LearnedBy(g, a) ==
  a <= clock /\ \A h \in DOMAIN published : h > g => a <= published[h]

InFlight == flight.pc \in {"served", "landed"}

KeptTimes ==
  kept # None =>
    /\ kept.at <= clock
    /\ kept.generation \in DOMAIN published => published[kept.generation] <= kept.at
    /\ \A h \in DOMAIN published :
         h > kept.generation => kept.at <= published[h] + ReadTime

FlightTimes ==
  /\ InFlight => LearnedBy(flight.seen, flight.at)
  /\ flight.pc = "landed" => clock <= flight.at + ReadTime

FlusherTimes ==
  flusher.pc # "idle" =>
    /\ LearnedBy(flusher.seen, flusher.at)
    /\ clock <= flusher.at + ReadTime

StaleTimes ==
  \A r \in Reader : At(r, "stale") =>
    \A h \in DOMAIN published :
      h > reader[r].got => clock <= published[h] + Ttl + MaxStale + ReadTime

TimesInv ==
  /\ \A h \in DOMAIN published : published[h] <= clock
  /\ KeptTimes
  /\ FlightTimes
  /\ FlusherTimes
  /\ StaleTimes

LEMMA Numbers ==
  ASSUME TypeOK
  PROVE  /\ clock \in Nat /\ Ttl \in Nat /\ MaxStale \in Nat /\ ReadTime \in Nat
         /\ Current \in Nat /\ DOMAIN published = 1..Current
         /\ \A h \in DOMAIN published : h \in Nat /\ published[h] \in Nat
         /\ kept # None => kept.at \in Nat /\ kept.generation \in 0..Current
         /\ flight.at \in Nat /\ flight.seen \in 0..Current
         /\ flusher.at \in Nat /\ flusher.seen \in 0..Current
         /\ \A r \in Reader : reader[r].got \in 0..Current /\ reader[r].floor \in 0..Current
         /\ floor \in 0..Current
BY ConstantsAssumption DEF TypeOK, Generation, Current, FlightState, ReaderState

LEMMA FreshTolerable == TypeOK /\ Fresh => Tolerable
BY Numbers DEF Fresh, Tolerable

LEMMA TimesInit == Init => TimesInv
BY DEF Init, TimesInv, KeptTimes, FlightTimes, FlusherTimes, StaleTimes, InFlight,
       NoFlight, Resting, NotReading, At

(* Remembering an answer that was not too long on its way.                   *)
LEMMA RememberedTimes ==
  ASSUME TypeOK, TimesInv, NEW g \in 0..Current, NEW a \in Nat,
         LearnedBy(g, a), clock <= a + ReadTime,
         kept' = Remembered(g), UNCHANGED <<clock, published>>
  PROVE  KeptTimes'
<1>1. CASE kept' = kept
  BY <1>1 DEF TimesInv, KeptTimes
<1>2. CASE kept' = [generation |-> g, at |-> clock]
  <2>1. kept'.at = clock /\ kept'.generation = g
    BY <1>2
  <2>2. \A h \in DOMAIN published : h > g => clock <= published[h] + ReadTime
    BY Numbers DEF LearnedBy
  <2>3. g \in DOMAIN published => published[g] <= clock
    BY DEF TimesInv
  <2> QED BY <2>1, <2>2, <2>3, Numbers DEF KeptTimes
<1> QED BY <1>1, <1>2 DEF Remembered

LEMMA InTimeSum ==
  ASSUME NEW now \in Nat, NEW at \in Nat, NEW replaced \in Nat, NEW delay \in Nat,
         NEW trusted \in Nat, NEW tolerated \in Nat,
         now - at < trusted + tolerated, at <= replaced + delay
  PROVE  now <= replaced + trusted + tolerated + delay
OBVIOUS

(* A step that hands no reader a stale manifest.                             *)
LEMMA StaleFrame ==
  ASSUME TimesInv, UNCHANGED <<clock, published>>,
         \A r \in Reader : At(r, "stale")' => At(r, "stale") /\ reader'[r] = reader[r]
  PROVE  StaleTimes'
BY DEF TimesInv, StaleTimes

LEMMA WaitOnFrame ==
  ASSUME TypeOK, NEW r \in Reader, WaitOn(r)
  PROVE  \A q \in Reader : At(q, "stale")' => At(q, "stale") /\ reader'[q] = reader[q]
BY WaitOnReaders DEF OnlyMoves, At

LEMMA FramesTimes ==
  ASSUME TimesInv, UNCHANGED <<clock, published>>
  PROVE  /\ \A h \in DOMAIN published' : published'[h] <= clock'
         /\ kept' = kept \/ kept' = None => KeptTimes'
         /\ flight' = flight \/ flight'.pc \in {"none", "asked"} => FlightTimes'
         /\ flusher' = flusher \/ flusher'.pc = "idle" => FlusherTimes'
         /\ reader' = reader => StaleTimes'
BY DEF TimesInv, KeptTimes, FlightTimes, FlusherTimes, StaleTimes, InFlight, LearnedBy, At

LEMMA TimesStep == TypeOK /\ TimesInv /\ [Next]_vars => TimesInv'
<1> SUFFICES ASSUME TypeOK, TimesInv, [Next]_vars
             PROVE  TimesInv'
  OBVIOUS
<1>1. CASE Tick
  <2>1. /\ clock' = clock + 1 /\ Timely
        /\ UNCHANGED <<published, kept, flight, flusher, reader>>
    BY <1>1 DEF Tick
  <2>2. KeptTimes' /\ \A h \in DOMAIN published' : published'[h] <= clock'
    BY <2>1, Numbers DEF TimesInv, KeptTimes
  <2>3. FlightTimes' /\ FlusherTimes'
    BY <2>1, Numbers DEF Timely, TimesInv, FlightTimes, FlusherTimes, InFlight, LearnedBy
  <2>4. StaleTimes'
    BY <2>1 DEF Timely, NeedsFlight, StaleTimes, At
  <2> QED BY <2>2, <2>3, <2>4 DEF TimesInv
<1>2. ASSUME NEW r \in Reader, Look(r)
      PROVE  TimesInv'
  <2>1. UNCHANGED <<clock, published, kept, flight, flusher>>
    BY <1>2 DEF Look
  <2>2. StaleTimes'
    <3> SUFFICES ASSUME NEW q \in Reader, At(q, "stale")',
                        NEW h \in DOMAIN published, h > reader'[q].got
                 PROVE  clock <= published[h] + Ttl + MaxStale + ReadTime
      BY <2>1 DEF StaleTimes
    <3>1. CASE q # r
      <4>1. reader'[q] = reader[q]
        BY <1>2, <3>1, LookReaders DEF OnlyMoves
      <4> QED BY <4>1 DEF TimesInv, StaleTimes, At
    <3>2. CASE q = r
      <4>1. Tolerable /\ reader'[r].got = kept.generation
        BY <1>2, <3>2, LookReaders DEF At
      <4>2. kept # None /\ clock - kept.at < Ttl + MaxStale
        BY <4>1 DEF Tolerable
      <4>3. kept.at <= published[h] + ReadTime
        BY <3>2, <4>1, <4>2 DEF TimesInv, KeptTimes
      <4>4. kept.at \in Nat /\ published[h] \in Nat
        BY <4>2, Numbers
      <4>5. clock \in Nat /\ Ttl \in Nat /\ MaxStale \in Nat /\ ReadTime \in Nat
        BY Numbers
      <4> QED BY <4>2, <4>3, <4>4, <4>5, InTimeSum
    <3> QED BY <3>1, <3>2
  <2> QED BY <2>1, <2>2, FramesTimes DEF TimesInv
<1>3. ASSUME NEW r \in Reader, Join(r)
      PROVE  TimesInv'
  <2>1. FlightTimes'
    <3>1. /\ flight'.pc = flight.pc /\ flight'.seen = flight.seen /\ flight'.at = flight.at
          /\ UNCHANGED <<clock, published>>
      BY <1>3 DEF Join, TypeOK, FlightState
    <3> QED BY <3>1 DEF TimesInv, FlightTimes, InFlight, LearnedBy
  <2> QED BY <1>3, <2>1, WaitOnFrame, StaleFrame, FramesTimes DEF Join, TimesInv
<1>4. ASSUME NEW r \in Reader, Reuse(r) \/ Start(r) \/ Drop(r) \/ Vanished(r)
      PROVE  TimesInv'
  <2>1. \A q \in Reader : At(q, "stale")' => At(q, "stale") /\ reader'[q] = reader[q]
    <3>1. CASE Reuse(r)
      BY <3>1, AnswerReaders DEF Reuse, OnlyMoves, At
    <3>2. CASE Drop(r) \/ Vanished(r)
      <4>1. reader' = [reader EXCEPT ![r] = NotReading]
        BY <3>2 DEF Drop, Vanished
      <4> QED BY <4>1 DEF At, TypeOK, NotReading
    <3> QED BY <1>4, <3>1, <3>2, WaitOnFrame DEF Start
  <2>2. /\ UNCHANGED <<clock, published, flusher>>
        /\ kept' = kept \/ kept' = None
        /\ flight' = flight \/ flight'.pc = "asked"
    BY <1>4 DEF Reuse, Start, Drop, Vanished, Forget, NoFlight
  <2> QED BY <2>1, <2>2, StaleFrame, FramesTimes DEF TimesInv
<1>5. CASE Serve
  <2>1. /\ flight'.pc = "served" /\ flight'.seen = Current /\ flight'.at = clock
        /\ UNCHANGED <<clock, published, kept, flusher, reader>>
    BY <1>5 DEF Serve, TypeOK, FlightState
  <2>2. FlightTimes'
    BY <2>1, Numbers DEF FlightTimes, InFlight, LearnedBy
  <2> QED BY <2>1, <2>2, FramesTimes DEF TimesInv
<1>6. CASE Land
  <2>1. /\ flight'.pc = "landed" /\ flight'.seen = flight.seen /\ flight'.at = flight.at
        /\ flight.pc = "served" /\ clock <= flight.at + ReadTime
        /\ kept' = Remembered(flight.seen)
        /\ UNCHANGED <<clock, published, flusher, reader>>
    BY <1>6, Numbers DEF Land, Remember, InTime, TypeOK, FlightState
  <2>2. LearnedBy(flight.seen, flight.at)
    BY <2>1 DEF TimesInv, FlightTimes, InFlight
  <2>3. FlightTimes'
    BY <2>1, <2>2 DEF FlightTimes, InFlight, LearnedBy
  <2> QED BY <2>1, <2>2, <2>3, RememberedTimes, Numbers, FramesTimes DEF TimesInv
<1>7. CASE Finish \/ AskAgain \/ Fail
  <2>1. \A q \in Reader : At(q, "stale")' => At(q, "stale") /\ reader'[q] = reader[q]
    <3>1. CASE Finish \/ Fail
      BY <3>1, FinishReaders DEF At, NotReading
    <3> QED BY <1>7, <3>1 DEF AskAgain, At
  <2>2. /\ UNCHANGED <<clock, published, kept, flusher>>
        /\ flight'.pc \in {"none", "asked"}
    <3>1. flight' = NoFlight \/ flight' = [flight EXCEPT !.pc = "asked"]
      BY <1>7 DEF Finish, AskAgain, Fail
    <3>2. flight'.pc \in {"none", "asked"}
      BY <3>1 DEF NoFlight, TypeOK, FlightState
    <3> QED BY <1>7, <3>2 DEF Finish, AskAgain, Fail
  <2> QED BY <2>1, <2>2, StaleFrame, FramesTimes DEF TimesInv
<1>8. CASE FlushReads
  <2>1. /\ flusher' = [pc |-> "read", seen |-> Current, at |-> clock]
        /\ UNCHANGED <<clock, published, kept, flight, reader>>
    BY <1>8 DEF FlushReads
  <2>2. FlusherTimes'
    BY <2>1, Numbers DEF FlusherTimes, LearnedBy
  <2> QED BY <2>1, <2>2, FramesTimes DEF TimesInv
<1>9. CASE FlushRemembersRead \/ PublisherRemembers
  <2>1. /\ flusher.pc # "idle" /\ kept' = Remembered(flusher.seen)
        /\ flusher'.pc = "idle"
        /\ UNCHANGED <<clock, published, flight, reader>>
    BY <1>9 DEF FlushRemembersRead, PublisherRemembers, Remember, Resting
  <2>2. LearnedBy(flusher.seen, flusher.at) /\ clock <= flusher.at + ReadTime
    BY <2>1 DEF TimesInv, FlusherTimes
  <2> QED BY <2>1, <2>2, RememberedTimes, Numbers, FramesTimes DEF TimesInv
<1>10. CASE Publish \/ PublishedElsewhere
  <2>1. /\ published' = Append(published, clock) /\ Current < MaxGeneration
        /\ UNCHANGED <<clock, kept, flight, reader>>
        /\ \/ flusher' = flusher
           \/ flusher'.seen = Current + 1 /\ flusher'.at = clock
    BY <1>10 DEF Publish, PublishedElsewhere
  <2>2. \A h \in DOMAIN published' :
          \/ h = Current + 1 /\ published'[h] = clock
          \/ h \in DOMAIN published /\ published'[h] = published[h]
    BY <2>1, PublishedGrows
  <2>3. \A h \in DOMAIN published' : published'[h] <= clock'
    BY <2>1, <2>2, Numbers DEF TimesInv
  <2>4. KeptTimes'
    <3> SUFFICES ASSUME kept # None
                 PROVE  KeptTimes'
      BY <2>1 DEF KeptTimes
    <3>1. kept.at \in Nat /\ kept.generation \in 0..Current /\ kept.at <= clock
      BY Numbers DEF TimesInv, KeptTimes
    <3>2. kept.generation \in DOMAIN published' =>
            kept.generation \in DOMAIN published
            /\ published'[kept.generation] = published[kept.generation]
      BY <2>2, <3>1, Numbers
    <3>3. \A h \in DOMAIN published' :
            h > kept.generation => kept.at <= published'[h] + ReadTime
      BY <2>2, <3>1, Numbers DEF TimesInv, KeptTimes
    <3> QED BY <2>1, <3>1, <3>2, <3>3 DEF TimesInv, KeptTimes
  <2>5. FlightTimes'
    BY <2>1, <2>2, Numbers DEF TimesInv, FlightTimes, InFlight, LearnedBy
  <2>6. FlusherTimes'
    <3>1. \A h \in DOMAIN published' : h <= Current + 1
      BY <2>2, Numbers
    <3> QED BY <2>1, <2>2, <3>1, Numbers DEF TimesInv, FlusherTimes, LearnedBy
  <2>7. StaleTimes'
    <3> SUFFICES ASSUME NEW r \in Reader, At(r, "stale"),
                        NEW h \in DOMAIN published', h > reader[r].got
                 PROVE  clock <= published'[h] + Ttl + MaxStale + ReadTime
      BY <2>1 DEF StaleTimes, At
    <3>1. CASE h = Current + 1 /\ published'[h] = clock
      BY <3>1, Numbers
    <3>2. CASE h \in DOMAIN published /\ published'[h] = published[h]
      BY <3>2 DEF TimesInv, StaleTimes
    <3> QED BY <2>2, <3>1, <3>2
  <2> QED BY <2>3, <2>4, <2>5, <2>6, <2>7 DEF TimesInv
<1>11. CASE PublisherForgets
  BY <1>11, FramesTimes DEF PublisherForgets, Resting, TimesInv
<1>12. CASE Pruned
  BY <1>12, FramesTimes DEF Pruned, Forget, TimesInv
<1>13. ASSUME NEW g \in news, Hear(g)
       PROVE  TimesInv'
  BY <1>13, FramesTimes DEF Hear, Forget, TimesInv
<1>14. CASE UNCHANGED vars
  BY <1>14, FramesTimes DEF vars, TimesInv
<1> QED
  BY <1>1, <1>2, <1>3, <1>4, <1>5, <1>6, <1>7, <1>8, <1>9, <1>10, <1>11, <1>12,
     <1>13, <1>14
  DEF Next, Read, Flight, Flush

LEMMA InvTimes == Spec => [](TypeOK /\ TimesInv)
<1>1. Init => TypeOK /\ TimesInv
  BY TypeInit, TimesInit
<1>2. TypeOK /\ TimesInv /\ [Next]_vars => (TypeOK /\ TimesInv)'
  BY TypeStep, TimesStep
<1> QED BY <1>1, <1>2, PTL DEF Spec

(* The times of the code bound how stale the manifest a read works with may   *)
(* be, whatever is announced, forgotten or dropped.                          *)
THEOREM BoundedStalenessCorrect == Spec => BoundedStaleness
<1> DEFINE Bounded ==
      \A r \in Reader : Answered(r) =>
        LET next == reader'[r].got + 1 IN
        next \in DOMAIN published =>
          clock <= published[next] + Ttl + MaxStale + ReadTime
<1>1. TypeOK /\ TimesInv /\ [Next]_vars => [Bounded]_vars
  <2> SUFFICES ASSUME TypeOK, TimesInv, Next, NEW r \in Reader, Answered(r),
                      reader'[r].got + 1 \in DOMAIN published
               PROVE  clock <= published[reader'[r].got + 1] + Ttl + MaxStale + ReadTime
    BY DEF Bounded
  <2> DEFINE next == reader'[r].got + 1
  <2>1. published[next] \in Nat
    BY Numbers
  <2>0. clock \in Nat /\ Ttl \in Nat /\ MaxStale \in Nat /\ ReadTime \in Nat
    BY Numbers
  <2>2. reader'[r] # reader[r] /\ reader'[r].pc = "answered"
    BY DEF Answered
  <2>3. Tolerable /\ reader'[r].got = kept.generation =>
          clock <= published[next] + Ttl + MaxStale + ReadTime
    <3> SUFFICES ASSUME Tolerable, reader'[r].got = kept.generation
                 PROVE  clock <= published[next] + Ttl + MaxStale + ReadTime
      OBVIOUS
    <3>1. kept # None /\ clock - kept.at < Ttl + MaxStale /\ kept.at \in Nat
      BY Numbers DEF Tolerable
    <3>2. kept.generation \in Nat /\ next > kept.generation
      BY <3>1, Numbers
    <3>3. kept.at <= published[next] + ReadTime
      BY <3>1, <3>2 DEF TimesInv, KeptTimes
    <3> QED BY <2>0, <2>1, <3>1, <3>3, InTimeSum
  <2>4. At(r, "stale") /\ reader'[r].got = reader[r].got =>
          clock <= published[next] + Ttl + MaxStale + ReadTime
    BY Numbers DEF TimesInv, StaleTimes
  <2>5. ASSUME NEW q \in Reader, Look(q)
        PROVE  clock <= published[next] + Ttl + MaxStale + ReadTime
    BY <2>2, <2>3, <2>5, LookReaders DEF OnlyMoves
  <2>6. ASSUME NEW q \in Reader, Join(q) \/ Start(q)
        PROVE  clock <= published[next] + Ttl + MaxStale + ReadTime
    BY <2>2, <2>4, <2>6, WaitOnReaders DEF OnlyMoves, Join, Start
  <2>7. ASSUME NEW q \in Reader, Reuse(q)
        PROVE  clock <= published[next] + Ttl + MaxStale + ReadTime
    <3>1. Fresh => Tolerable
      BY FreshTolerable
    <3> QED BY <2>2, <2>3, <2>4, <2>7, <3>1, AnswerReaders DEF OnlyMoves, Reuse, EndedMeanwhile
  <2>8. CASE Finish
    <3>1. reader'[r].got = flight.seen
      BY <2>2, <2>8, FinishReaders DEF NotReading
    <3>2. /\ LearnedBy(flight.seen, flight.at) /\ clock <= flight.at + ReadTime
      BY <2>8 DEF Finish, TimesInv, FlightTimes, InFlight
    <3>3. flight.at <= published[next]
      BY <3>1, <3>2, Numbers DEF LearnedBy
    <3>4. flight.at \in Nat
      BY Numbers
    <3> HIDE DEF next
    <3>5. clock <= published[next] + Ttl + MaxStale + ReadTime
      BY <2>0, <2>1, <3>2, <3>3, <3>4
    <3> QED BY <3>5 DEF next
  <2>9. CASE Fail
    BY <2>2, <2>9, FinishReaders DEF NotReading, Finish, Fail
  <2>10. ASSUME NEW q \in Reader, Drop(q) \/ Vanished(q)
         PROVE  FALSE
    <3>1. reader' = [reader EXCEPT ![q] = NotReading]
      BY <2>10 DEF Drop, Vanished
    <3> QED BY <2>2, <3>1 DEF TypeOK, NotReading
  <2>11. CASE UNCHANGED reader
    BY <2>2, <2>11
  <2> QED
    BY <2>5, <2>6, <2>7, <2>8, <2>9, <2>10, <2>11
    DEF Next, Read, Flight, Flush, Tick, Serve, Land, AskAgain, FlushReads,
        FlushRemembersRead, Publish, PublisherRemembers, PublisherForgets,
        PublishedElsewhere, Pruned, Hear
<1>2. (TypeOK /\ TimesInv) /\ [Next]_vars => [Bounded]_vars
  BY <1>1
<1> HIDE DEF Bounded
<1>3. Spec => [][Bounded]_vars
  BY <1>2, InvTimes, PTL DEF Spec
<1> QED BY <1>3 DEF Bounded, BoundedStaleness
-----------------------------------------------------------------------------
(* Order.  What is remembered only gets newer until it is forgotten; and when a *)
(* reader finds it expired, whoever learned less did so too long ago to still   *)
(* be remembered, even when what expired is forgotten.                          *)

KnowsLess(r) == InFlight /\ flight.seen < reader[r].floor

ReaderOrder(r) ==
  /\ At(r, "stale") \/ At(r, "answered") => reader[r].got >= reader[r].floor
  /\ At(r, "expired") \/ At(r, "waiting") =>
       /\ kept # None => kept.generation >= reader[r].floor
       /\ flusher.pc # "idle" => flusher.seen >= reader[r].floor
       /\ KnowsLess(r) => clock >= flight.at + Ttl + MaxStale

KeptOrder == IF kept = None THEN floor = 0 ELSE kept.generation >= floor

OrderInv ==
  /\ KeptOrder
  /\ \A r \in Reader : ReaderOrder(r)

LEMMA OrderInit == Init => OrderInv
BY ConstantsAssumption
DEF Init, OrderInv, KeptOrder, ReaderOrder, KnowsLess, InFlight, NoFlight, NotReading, At

(* A reader that does not move is not disturbed by what others learn, if they   *)
(* learn at least what the reader's instance knew.                              *)
LEMMA ReaderFrame ==
  ASSUME TypeOK, NEW r \in Reader, ReaderOrder(r), reader'[r] = reader[r],
         kept' = kept \/ kept' = None \/ kept'.generation >= reader[r].floor,
         flusher' = flusher \/ flusher'.pc = "idle" \/ flusher'.seen \in {Current, Current + 1},
         clock' = clock \/ clock' = clock + 1,
         InFlight' => \/ flight'.seen = Current
                      \/ InFlight /\ flight'.seen = flight.seen /\ flight'.at = flight.at
  PROVE  ReaderOrder(r)'
<1>1. /\ reader[r].floor \in Nat /\ reader[r].floor <= Current /\ Current \in Nat
      /\ clock \in Nat /\ flight.at \in Nat
      /\ Ttl \in Nat /\ MaxStale \in Nat
  BY Numbers
<1>2. At(r, "stale")' \/ At(r, "answered")' => reader'[r].got >= reader'[r].floor
  BY DEF ReaderOrder, At
<1> SUFFICES ASSUME At(r, "expired")' \/ At(r, "waiting")'
             PROVE  /\ kept' # None => kept'.generation >= reader'[r].floor
                    /\ flusher'.pc # "idle" => flusher'.seen >= reader'[r].floor
                    /\ KnowsLess(r)' => clock' >= flight'.at + Ttl + MaxStale
  BY <1>2 DEF ReaderOrder
<1>3. /\ kept # None => kept.generation >= reader[r].floor
      /\ flusher.pc # "idle" => flusher.seen >= reader[r].floor
      /\ KnowsLess(r) => clock >= flight.at + Ttl + MaxStale
  BY DEF ReaderOrder, At
<1>4. kept' # None => kept'.generation >= reader'[r].floor
  BY <1>3
<1>5. flusher'.pc # "idle" => flusher'.seen >= reader'[r].floor
  <2>1. CASE flusher' = flusher \/ flusher'.pc = "idle"
    BY <1>3, <2>1
  <2>2. CASE flusher'.seen \in {Current, Current + 1}
    BY <1>1, <2>2
  <2> QED BY <2>1, <2>2
<1>6. KnowsLess(r)' => clock' >= flight'.at + Ttl + MaxStale
  <2> SUFFICES ASSUME KnowsLess(r)'
               PROVE  clock' >= flight'.at + Ttl + MaxStale
    OBVIOUS
  <2>1. InFlight' /\ flight'.seen < reader[r].floor
    BY DEF KnowsLess
  <2>2. flight'.seen # Current
    BY <1>1, <2>1
  <2>3. KnowsLess(r) /\ flight'.at = flight.at
    BY <2>1, <2>2 DEF KnowsLess
  <2> QED BY <1>1, <1>3, <2>3
<1> QED BY <1>4, <1>5, <1>6

(* What expired was remembered before whoever knows less was answered: that     *)
(* answer is at least as old.                                                   *)
LEMMA ExpiredAnswer ==
  ASSUME TypeOK, TimesInv, OrderInv, ~ Tolerable,
         NEW g \in Nat, NEW a \in Nat, LearnedBy(g, a), g < floor
  PROVE  clock >= a + Ttl + MaxStale
<1>1. kept # None /\ g < kept.generation /\ kept.generation \in 1..Current
  BY Numbers DEF OrderInv, KeptOrder
<1>2. a <= published[kept.generation]
  BY <1>1, Numbers DEF LearnedBy
<1>3. published[kept.generation] <= kept.at /\ published[kept.generation] \in Nat
  BY <1>1, Numbers DEF TimesInv, KeptTimes
<1>4. clock - kept.at >= Ttl + MaxStale
  BY <1>1, Numbers DEF Tolerable
<1>5. kept.at \in Nat /\ clock \in Nat /\ Ttl \in Nat /\ MaxStale \in Nat
  BY <1>1, Numbers
<1> QED BY <1>2, <1>3, <1>4, <1>5

LEMMA LookOrder ==
  ASSUME ReadTime < Ttl + MaxStale, TypeOK, TimesInv, OrderInv,
         NEW r \in Reader, Look(r)
  PROVE  OrderInv'
<1>1. /\ OnlyMoves(r) /\ reader'[r].floor = floor
      /\ UNCHANGED <<clock, published, kept, flight, flusher, floor>>
  BY LookReaders DEF Look
<1>2. \A q \in Reader : q # r => ReaderOrder(q)'
  BY <1>1, ReaderFrame DEF OnlyMoves, OrderInv, InFlight
<1>3. CASE /\ Tolerable
           /\ reader'[r].pc = IF Fresh THEN "answered" ELSE "stale"
           /\ reader'[r].got = kept.generation
  <2>1. kept # None /\ kept.generation >= floor
    BY <1>3 DEF Tolerable, OrderInv, KeptOrder
  <2>2. ReaderOrder(r)'
    BY <1>1, <1>3, <2>1 DEF ReaderOrder, At
  <2> QED BY <1>1, <1>2, <2>2 DEF OrderInv, KeptOrder
<1>4. CASE ~ Tolerable /\ reader'[r].pc = "expired"
  <2>1. kept # None => kept.generation >= floor
    BY DEF OrderInv, KeptOrder
  <2>2. flusher.pc # "idle" => flusher.seen >= floor
    <3> SUFFICES ASSUME flusher.pc # "idle", flusher.seen < floor
                 PROVE  FALSE
      BY Numbers
    <3>1. LearnedBy(flusher.seen, flusher.at) /\ clock <= flusher.at + ReadTime
      BY DEF TimesInv, FlusherTimes
    <3>2. clock >= flusher.at + Ttl + MaxStale
      BY <1>4, <3>1, ExpiredAnswer, Numbers
    <3> QED BY <3>1, <3>2, Numbers
  <2>3. KnowsLess(r)' => clock >= flight.at + Ttl + MaxStale
    <3> SUFFICES ASSUME InFlight, flight.seen < floor
                 PROVE  clock >= flight.at + Ttl + MaxStale
      BY <1>1 DEF KnowsLess, InFlight
    <3> QED BY <1>4, ExpiredAnswer, Numbers DEF TimesInv, FlightTimes
  <2>4. ReaderOrder(r)'
    BY <1>1, <1>4, <2>1, <2>2, <2>3 DEF ReaderOrder, At
  <2> QED BY <1>1, <1>2, <2>4 DEF OrderInv, KeptOrder
<1> QED BY <1>3, <1>4, LookReaders

\* Steps of a reader that has looked.
LEMMA TurnOrder ==
  ASSUME TypeOK, OrderInv, NEW r \in Reader, Join(r) \/ Start(r) \/ Reuse(r)
  PROVE  OrderInv'
<1>1. UNCHANGED <<clock, published, kept, flusher, floor>> /\ NeedsFlight(r)
  BY DEF Join, Start, Reuse
<1>2. InFlight' => InFlight /\ flight'.seen = flight.seen /\ flight'.at = flight.at
  <2>1. CASE flight' = [flight EXCEPT !.background = @ \/ At(r, "stale")]
    <3>1. flight'.pc = flight.pc /\ flight'.seen = flight.seen /\ flight'.at = flight.at
      BY <2>1 DEF TypeOK, FlightState
    <3> QED BY <3>1 DEF InFlight
  <2>2. CASE flight' = [NoFlight EXCEPT !.pc = "asked", !.background = At(r, "stale")]
    BY <2>2 DEF InFlight, NoFlight
  <2>3. CASE flight' = flight
    BY <2>3 DEF InFlight
  <2> QED BY <2>1, <2>2, <2>3 DEF Join, Start, Reuse
<1>3. ReaderOrder(r)
  BY DEF OrderInv
<1>4. /\ OnlyMoves(r) /\ reader'[r].floor = reader[r].floor
      /\ \/ reader'[r].pc = "answered" /\ reader'[r].got >= reader[r].floor
         \/ At(r, "expired") /\ reader'[r].pc = "waiting"
  <2>1. CASE Join(r) \/ Start(r)
    BY <1>1, <1>3, <2>1, WaitOnReaders DEF Join, Start, NeedsFlight, ReaderOrder
  <2>2. CASE Reuse(r)
    <3> DEFINE g == IF At(r, "stale") THEN reader[r].got ELSE kept.generation
    <3>1. Answer(r, g) /\ Fresh
      BY <2>2 DEF Reuse, EndedMeanwhile
    <3>2. g >= reader[r].floor
      BY <1>1, <1>3, <3>1 DEF ReaderOrder, NeedsFlight, Fresh
    <3> HIDE DEF g
    <3> QED BY <3>1, <3>2, AnswerReaders
  <2> QED BY <2>1, <2>2
<1>5. \A q \in Reader : q # r => ReaderOrder(q)'
  BY <1>1, <1>2, <1>4, ReaderFrame DEF OnlyMoves, OrderInv
<1>6. KnowsLess(r)' => KnowsLess(r) /\ flight'.at = flight.at
  BY <1>2, <1>4 DEF KnowsLess
<1>7. ReaderOrder(r)'
  BY <1>1, <1>3, <1>4, <1>6 DEF ReaderOrder, At
<1> QED BY <1>1, <1>5, <1>7 DEF OrderInv, KeptOrder

\* What is remembered is what was learned, or newer.
LEMMA RememberOrder ==
  ASSUME TypeOK, OrderInv, NEW g \in 0..Current, Remember(g)
  PROVE  /\ KeptOrder' /\ kept' # None
         /\ kept'.generation >= g /\ kept'.generation \in Nat
         /\ kept # None => kept'.generation >= kept.generation
<1>1. g \in Generation /\ g \in Nat /\ floor \in Nat
  BY Numbers DEF Generation
<1>2. kept' = Remembered(g) /\ floor' = Later(floor, g)
  BY DEF Remember
<1>3. /\ kept' \in [generation : Generation, at : Nat]
      /\ kept'.generation >= g
      /\ kept # None => kept'.generation >= kept.generation
  BY <1>1, <1>2, RememberedType
<1>4. kept'.generation \in Nat /\ kept' # None
  BY <1>3, Numbers, ConstantsAssumption DEF Generation
<1>5. kept # None => kept.generation \in Nat /\ kept.generation >= floor
  BY Numbers DEF OrderInv, KeptOrder
<1>6. kept = None => floor = 0
  BY DEF OrderInv, KeptOrder
<1>7. kept'.generation >= Later(floor, g)
  BY <1>1, <1>3, <1>4, <1>5, <1>6 DEF Later
<1> QED BY <1>2, <1>3, <1>4, <1>7 DEF KeptOrder

(* Remembering an answer that no waiting reader's instance was ahead of.        *)
LEMMA RememberFrame ==
  ASSUME TypeOK, OrderInv, NEW g \in 0..Current, Remember(g),
         UNCHANGED <<clock, published, reader>>,
         flusher' = flusher \/ flusher'.pc = "idle",
         InFlight' => InFlight /\ flight'.seen = flight.seen /\ flight'.at = flight.at,
         \A r \in Reader : At(r, "expired") \/ At(r, "waiting") => g >= reader[r].floor
  PROVE  OrderInv'
<1>1. ASSUME NEW r \in Reader
      PROVE  ReaderOrder(r)'
  <2>1. CASE At(r, "expired") \/ At(r, "waiting")
    <3>1. g >= reader[r].floor /\ g \in Nat /\ reader[r].floor \in Nat
      BY <2>1, Numbers
    <3>2. kept'.generation >= reader[r].floor
      BY <3>1, RememberOrder
    <3> QED BY <3>2, ReaderFrame DEF OrderInv
  <2>2. CASE ~ (At(r, "expired") \/ At(r, "waiting"))
    BY <2>2 DEF OrderInv, ReaderOrder, At
  <2> QED BY <2>1, <2>2
<1> QED BY <1>1, RememberOrder DEF OrderInv

LEMMA LandOrder ==
  ASSUME ReadTime < Ttl + MaxStale, TypeOK, OrderInv, Land
  PROVE  OrderInv'
<1>1. /\ Remember(flight.seen) /\ InFlight /\ clock <= flight.at + ReadTime
      /\ flight'.seen = flight.seen /\ flight'.at = flight.at
      /\ UNCHANGED <<clock, published, flusher, reader>>
  BY Numbers DEF Land, InFlight, InTime, TypeOK, FlightState
<1>2. ASSUME NEW r \in Reader, At(r, "expired") \/ At(r, "waiting")
      PROVE  flight.seen >= reader[r].floor
  <2>1. ~ (clock >= flight.at + Ttl + MaxStale)
    BY <1>1, Numbers
  <2>2. ~ KnowsLess(r)
    BY <1>2, <2>1 DEF OrderInv, ReaderOrder
  <2> QED BY <1>1, <2>2, Numbers DEF KnowsLess
<1> QED BY <1>1, <1>2, RememberFrame, Numbers

LEMMA FlushOrder ==
  ASSUME TypeOK, OrderInv, FlushRemembersRead \/ PublisherRemembers
  PROVE  OrderInv'
<1>1. /\ Remember(flusher.seen) /\ flusher.pc # "idle" /\ flusher'.pc = "idle"
      /\ UNCHANGED <<clock, published, flight, reader>>
  BY DEF FlushRemembersRead, PublisherRemembers, Resting
<1>2. \A r \in Reader : At(r, "expired") \/ At(r, "waiting") => flusher.seen >= reader[r].floor
  BY <1>1 DEF OrderInv, ReaderOrder
<1>3. InFlight' => InFlight /\ flight'.seen = flight.seen /\ flight'.at = flight.at
  BY <1>1 DEF InFlight
<1> QED BY <1>1, <1>2, <1>3, RememberFrame, Numbers

\* Steps after which all readers that wait are answered, or none.
LEMMA FinishOrder ==
  ASSUME ReadTime < Ttl + MaxStale, TypeOK, TimesInv, OrderInv, Finish \/ Fail
  PROVE  OrderInv'
<1>1. ~ InFlight' /\ UNCHANGED <<clock, published, kept, flusher, floor>>
  <2>1. flight' = NoFlight /\ UNCHANGED <<clock, published, kept, flusher, floor>>
    BY DEF Finish, Fail
  <2> QED BY <2>1 DEF InFlight, NoFlight
<1>2. ASSUME NEW r \in Reader
      PROVE  ReaderOrder(r)'
  <2>1. CASE ~ At(r, "waiting") /\ reader'[r] = reader[r]
    BY <1>1, <2>1, ReaderFrame DEF OrderInv
  <2>2. CASE /\ At(r, "waiting") /\ Finish
             /\ reader'[r].pc = "answered" /\ reader'[r].got = flight.seen
             /\ reader'[r].floor = reader[r].floor
    <3>1. clock <= flight.at + ReadTime /\ InFlight
      BY <2>2 DEF Finish, TimesInv, FlightTimes, InFlight
    <3>2. ~ (clock >= flight.at + Ttl + MaxStale)
      BY <3>1, Numbers
    <3>3. ~ KnowsLess(r)
      BY <2>2, <3>2 DEF OrderInv, ReaderOrder
    <3>4. flight.seen >= reader[r].floor
      BY <3>1, <3>3, Numbers DEF KnowsLess
    <3> QED BY <2>2, <3>4 DEF ReaderOrder, At
  <2>3. CASE reader'[r] = NotReading
    BY <2>3 DEF ReaderOrder, NotReading, At
  <2> QED BY <2>1, <2>2, <2>3, FinishReaders
<1> QED BY <1>1, <1>2 DEF OrderInv, KeptOrder

\* Steps that move no reader and teach the instance nothing.
LEMMA QuietOrder ==
  ASSUME TypeOK, OrderInv, reader' = reader,
         UNCHANGED <<kept, floor>> \/ Forget,
         flusher' = flusher \/ flusher'.pc = "idle" \/ flusher'.seen \in {Current, Current + 1},
         clock' = clock \/ clock' = clock + 1,
         InFlight' => \/ flight'.seen = Current
                      \/ InFlight /\ flight'.seen = flight.seen /\ flight'.at = flight.at
  PROVE  OrderInv'
<1>1. \A r \in Reader : ReaderOrder(r)'
  BY ReaderFrame DEF OrderInv, Forget
<1>2. KeptOrder'
  BY DEF OrderInv, KeptOrder, Forget
<1> QED BY <1>1, <1>2 DEF OrderInv

LEMMA OrderStep ==
  ASSUME ReadTime < Ttl + MaxStale, TypeOK, TimesInv, OrderInv, [Next]_vars
  PROVE  OrderInv'
<1>1. ASSUME NEW r \in Reader, Drop(r) \/ Vanished(r)
      PROVE  OrderInv'
  <2>1. /\ OnlyMoves(r) /\ reader'[r] = NotReading
        /\ UNCHANGED <<clock, published, flight, flusher>>
        /\ UNCHANGED <<kept, floor>> \/ Forget
    BY <1>1 DEF Drop, Vanished, OnlyMoves, TypeOK
  <2>2. ReaderOrder(r)'
    BY <2>1 DEF ReaderOrder, NotReading, At
  <2>3. \A q \in Reader : q # r => ReaderOrder(q)'
    BY <2>1, ReaderFrame DEF OnlyMoves, OrderInv, Forget, InFlight
  <2>4. KeptOrder'
    BY <2>1 DEF OrderInv, KeptOrder, Forget
  <2> QED BY <2>2, <2>3, <2>4 DEF OrderInv
<1>2. CASE Serve
  <2>1. flight'.seen = Current /\ UNCHANGED <<clock, kept, flusher, reader, floor>>
    BY <1>2 DEF Serve, TypeOK, FlightState
  <2> QED BY <2>1, QuietOrder
<1>3. CASE AskAgain
  <2>1. flight'.pc = "asked" /\ UNCHANGED <<clock, kept, flusher, reader, floor>>
    BY <1>3 DEF AskAgain, TypeOK, FlightState
  <2> QED BY <2>1, QuietOrder DEF InFlight
<1>4. CASE FlushReads \/ Publish \/ PublisherForgets
  <2>1. /\ flusher'.pc = "idle" \/ flusher'.seen \in {Current, Current + 1}
        /\ UNCHANGED <<clock, kept, flight, reader, floor>>
    BY <1>4 DEF FlushReads, Publish, PublisherForgets, Resting
  <2> QED BY <2>1, QuietOrder DEF InFlight
<1>5. CASE Tick \/ PublishedElsewhere \/ UNCHANGED vars
  <2>1. /\ clock' = clock \/ clock' = clock + 1
        /\ UNCHANGED <<kept, flight, flusher, reader, floor>>
    BY <1>5 DEF Tick, PublishedElsewhere, vars
  <2> QED BY <2>1, QuietOrder DEF InFlight
<1>6. ASSUME Pruned \/ \E g \in news : Hear(g)
      PROVE  OrderInv'
  <2>1. UNCHANGED <<clock, flight, flusher, reader>> /\ (UNCHANGED <<kept, floor>> \/ Forget)
    BY <1>6 DEF Pruned, Hear
  <2> QED BY <2>1, QuietOrder DEF InFlight
<1> QED
  BY <1>1, <1>2, <1>3, <1>4, <1>5, <1>6, LookOrder, TurnOrder, LandOrder, FlushOrder,
     FinishOrder
  DEF Next, Read, Flight, Flush

(* Whatever is announced, forgotten or dropped, no read is answered with an     *)
(* older manifest than its instance had learned of when it began, if an answer  *)
(* lands before what it may replace has expired.                               *)
THEOREM NoReadGoesBackCorrect ==
  ASSUME ReadTime < Ttl + MaxStale
  PROVE  Spec => []NoReadGoesBack
<1>1. Init => OrderInv
  BY OrderInit
<1>2. (TypeOK /\ TimesInv) /\ OrderInv /\ [Next]_vars => OrderInv'
  BY OrderStep
<1>3. OrderInv => NoReadGoesBack
  BY DEF OrderInv, ReaderOrder, NoReadGoesBack
<1> QED BY <1>1, <1>2, <1>3, InvTimes, PTL DEF Spec
=============================================================================
