---------------------------- MODULE SharedTiles ----------------------------
(***************************************************************************)
(* What the tile store promises its users about a zone whose tiles do not  *)
(* expire: a map from tiles to copies that every process reads (view), and *)
(* the copies each process has accepted and not yet let go of (held).  The *)
(* archives, manifests, merges and cleanups of ZoneStore are hidden in it. *)
(***************************************************************************)
EXTENDS Naturals

CONSTANTS Tile, Writer, Copy, NoCopy

VARIABLES
  view,   \* the copy of each tile that every process may read
  held,   \* the copies of each tile a process holds itself
  deaths  \* how many processes have died

Init ==
  /\ view = [t \in Tile |-> NoCopy]
  /\ held = [w \in Writer |-> [t \in Tile |-> {}]]
  /\ deaths = 0

Others(w) == \A v \in Writer \ {w} : held'[v] = held[v]

\* A process accepts a copy of a tile, for which it may forget others.
Accept(w) ==
  /\ UNCHANGED <<view, deaths>>
  /\ Others(w)
  /\ \E t \in Tile :
       /\ \E c \in held'[w][t] : c \in Copy /\ held'[w][t] \ {c} \subseteq held[w][t]
       /\ \A u \in Tile \ {t} : held'[w][u] = held[w][u]

\* A process shares some of the copies it holds, all at once; they replace
\* what was shared of their tiles and nothing else.
Share(w) ==
  /\ UNCHANGED <<held, deaths>>
  /\ \A t \in Tile : view'[t] # view[t] => view'[t] \in held[w][t]

\* A process lets go of copies, but never of its last copy of a tile that is
\* not shared.
Release(w) ==
  /\ UNCHANGED <<view, deaths>>
  /\ Others(w)
  /\ \A t \in Tile :
       /\ held'[w][t] \subseteq held[w][t]
       /\ held'[w][t] = {} /\ held[w][t] # {} => view[t] # NoCopy

\* A process dies, and what it had not shared with it.
Lose(w) ==
  /\ deaths' = deaths + 1
  /\ UNCHANGED view
  /\ Others(w)
  /\ held'[w] = [t \in Tile |-> {}]

Next == \E w \in Writer : Accept(w) \/ Share(w) \/ Release(w) \/ Lose(w)

Spec == Init /\ [][Next]_<<view, held, deaths>>
=============================================================================
