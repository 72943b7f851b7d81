----------------------------- MODULE FlushRaces -----------------------------
(***************************************************************************)
(* What a flush cannot know when it publishes (store.rs: drop_duplicates,  *)
(* publish_delta).  Nothing holds the zone between its comparison and its  *)
(* publication, so the copies of another process may come in between; and  *)
(* a stored copy that cannot be read is not compared with.  A history says *)
(* of which tiles that is so: of all others the newest fetch wins.         *)
(***************************************************************************)
EXTENDS ZoneStore

VARIABLE
  overtaken  \* the tiles each flush publishes without knowing their newest copy

racesVars == <<vars, overtaken>>

RacesInit == Init /\ overtaken = [w \in Writer |-> {}]

Compared(w) == task[w].pc \in {"upload", "publish", "replace"}

\* A publisher that compared before an epoch ended may come after one of the next
\* epoch; what expires is then not what is first in the list.
EpochsInOrder ==
  \A j, k \in Archives(manifest) :
    manifest.archives[j] < manifest.archives[k] => archive[j].epoch <= archive[k].epoch

\* What w kept without comparing it.
Unread(w) ==
  {t \in TilesOf(kept'[w]) : Duplicate(manifest, task[w].since, t, kept'[w][t])}

\* What others publish in this step.
Rivals(w) == UNION {TilesOf(kept[v]) : v \in {v \in Writer \ {w} : PublishDelta(v)}}

Overtakes ==
  overtaken' = [w \in Writer |->
    IF ~Compared(w)' THEN {}
    ELSE IF ~EpochsInOrder' THEN Tile
    ELSE IF Compared(w) THEN overtaken[w] \cup Rivals(w)
    ELSE Unread(w)]

RacesNext == Next /\ Overtakes

RacesSpec == RacesInit /\ [][RacesNext]_racesVars

-----------------------------------------------------------------------------
(* Properties.                                                              *)

\* The newest fetch wins (put_fetched), however many processes write: a flush puts
\* a copy over one from an archive whose tiles were all fetched after it only if
\* another flush published that tile since it compared, if it could not read what
\* it was to compare with, or if archives were published out of the order of their
\* epochs.
NewestFetchWins ==
  [][\A w \in Writer : PublishDelta(w) =>
       \A t \in TilesOf(View) \cap (TilesOf(kept[w]) \ overtaken[w]) :
         archive[Holder(manifest, Live(manifest, clock), t)].oldest
           <= kept[w][t].fetched]_racesVars
=============================================================================
