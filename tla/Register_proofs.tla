--------------------------- MODULE Register_proofs ---------------------------
(***************************************************************************)
(* Theorems about Register, for any zone and any number of archives,       *)
(* publications and rebuilds, told and applied in any order, again or      *)
(* never.                                                                  *)
(*                                                                         *)
(* Inv: what every variable holds, and what the archives named by the      *)
(* publications made (Listed, Gone), by those still being told (Tellable)  *)
(* and by the book (States) are to the bucket.                             *)
(*                                                                         *)
(* IndInv: the register answers as the manifest it was last told of.  This *)
(* needs every publication ever made: what one replaced never comes back   *)
(* and the rest keeps its place (Onward), so that a publication told again *)
(* and a manifest applied late change nothing; and how each takes over     *)
(* from the one before (Follows), so that the next one told moves the book *)
(* from the one to the other.  A row is either right by every publication  *)
(* since its own (Right), or a late rebuild brought it back for a tile     *)
(* that no archive of the manifest holds (Ghost).                          *)
(***************************************************************************)
EXTENDS Register, TLAPS, WellFoundedInduction, SequenceTheorems

Versions == [Tile -> Key \cup {0}]
Row == [archive : DOMAIN archive \cup {0}, generation : Nat]

\* What the manifest lists is there, nobody deletes it, and its places are
\* those of publications made.
Bucket ==
  /\ Archives(Manifest) \subseteq stored \ doomed
  /\ \A k \in Key : Manifest.archives[k] <= Newest

\* Every publication listed archives that were written, in places given by then.
Listed ==
  \A g \in 0..Newest :
    /\ Archives(At(g)) \subseteq DOMAIN archive
    /\ \A k \in Key : At(g).archives[k] <= Newest

\* What a publication still being told lists is there too.
Tellable ==
  \A g \in telling : /\ Archives(At(g)) \subseteq stored \ doomed
                     /\ At(g).added \in Archives(At(g)) \cup {0}

\* What was replaced or retired never comes back.
Gone ==
  \A g \in 0..Newest :
    At(g).replaced \cup At(g).retired \subseteq DOMAIN archive \ Archives(Manifest)

\* The register heard only of what was written, and of nothing listed that it
\* was replaced.
States ==
  \A k \in Key : /\ state[k] # Unheard => k \in DOMAIN archive
                 /\ state[k] >= Retired => k \notin Archives(Manifest)

\* What the register is told was deleted is.
Swept == step = "tell" => doomed \cap stored = {}

Inv == TypeOK /\ Bucket /\ Listed /\ Tellable /\ Gone /\ States /\ Swept

-----------------------------------------------------------------------------
(* The last of some archives of the list.                                   *)

LEMMA LeastElement ==
  ASSUME NEW S \in SUBSET Nat, S # {}
  PROVE  \E x \in S : \A y \in S : x <= y
<1> DEFINE Below == OpToRel(<, Nat)
<1>1. IsWellFoundedOn(Below, Nat)
  BY NatLessThanWellFounded
<1>2. \A x, y \in Nat : <<y, x>> \in Below <=> y < x
  BY DEF OpToRel
<1> HIDE DEF Below
<1>3. PICK x \in S : \A y \in S : ~ (<<y, x>> \in Below)
  BY <1>1, WFMin
<1>4. \A y \in S : ~ (y < x)
  BY <1>2, <1>3, Zenon
<1> QED BY <1>4

LEMMA LastExists ==
  ASSUME NEW place \in [Key -> Nat], NEW n \in Nat, \A k \in Key : place[k] <= n,
         NEW K \in SUBSET Key, K # {}
  PROVE  \E k \in K : \A j \in K : place[j] <= place[k]
<1> DEFINE S == {n - place[k] : k \in K}
<1>1. S \in SUBSET Nat /\ S # {}
  OBVIOUS
<1>2. PICK x \in S : \A y \in S : x <= y
  BY <1>1, LeastElement
<1>3. PICK k \in K : x = n - place[k]
  BY <1>2
<1>4. \A j \in K : n - place[k] <= n - place[j]
  BY <1>2, <1>3
<1> QED BY <1>3, <1>4

-----------------------------------------------------------------------------
(* The manifest.                                                            *)

LEMMA ManifestType ==
  ASSUME TypeOK
  PROVE  /\ Manifest \in Publication /\ Newest \in Nat
         /\ Archives(Manifest) \subseteq Key
         /\ \A g \in DOMAIN publication : publication[g] \in Publication
<1>1. publication \in Seq(Publication) /\ Newest \in Nat
  BY DEF TypeOK, Newest
<1>2. NoPublication \in Publication
  BY DEF NoPublication, Publication
<1>3. \A g \in DOMAIN publication : publication[g] \in Publication
  BY <1>1
<1>4. Newest # 0 => Newest \in DOMAIN publication
  BY <1>1 DEF Newest
<1> QED BY <1>1, <1>2, <1>3, <1>4 DEF Manifest, At, Archives

LEMMA AtType ==
  ASSUME TypeOK
  PROVE  /\ Newest \in Nat /\ Manifest = At(Newest)
         /\ \A g \in 0..Newest :
              /\ At(g) \in Publication /\ Archives(At(g)) \subseteq Key
              /\ At(g).archives \in [Key -> Nat]
         /\ DOMAIN publication = 1..Newest
         /\ \A g \in 1..Newest : At(g) = publication[g]
<1>1. publication \in Seq(Publication) /\ Newest \in Nat /\ DOMAIN publication = 1..Newest
  BY DEF TypeOK, Newest
<1>2. NoPublication \in Publication
  BY DEF NoPublication, Publication
<1>3. \A g \in 1..Newest : At(g) = publication[g]
  BY <1>1 DEF At
<1>4. At(0) = NoPublication
  BY DEF At
<1>5. \A g \in 0..Newest : At(g) \in Publication
  BY <1>1, <1>2, <1>3, <1>4
<1> QED BY <1>1, <1>3, <1>5 DEF Manifest, Archives, Publication

(* A publication made is the newest, and the others are what they were.     *)
LEMMA Published ==
  ASSUME TypeOK, NEW p \in Publication, Publish(p)
  PROVE  /\ publication' \in Seq(Publication)
         /\ Newest' = Newest + 1 /\ Manifest' = p
         /\ DOMAIN publication' = DOMAIN publication \cup {Newest + 1}
         /\ Newest + 1 \notin DOMAIN publication
         /\ publication'[Newest + 1] = p
         /\ \A g \in DOMAIN publication : publication'[g] = publication[g]
         /\ telling' = telling \cup {Newest + 1} /\ telling' \subseteq DOMAIN publication'
<1>1. publication \in Seq(Publication) /\ publication' = Append(publication, p)
  BY DEF TypeOK, Publish
<1>2. /\ publication' \in Seq(Publication) /\ Newest \in Nat
      /\ Len(publication') = Newest + 1
      /\ publication'[Newest + 1] = p
      /\ \A g \in 1..Newest : publication'[g] = publication[g]
      /\ DOMAIN publication = 1..Newest
      /\ DOMAIN publication' = 1..(Newest + 1)
  BY <1>1 DEF Newest
<1>3. Newest' = Newest + 1 /\ Newest' # 0
  BY <1>2 DEF Newest
<1>4. Manifest' = p
  BY <1>2, <1>3 DEF Manifest, At
<1>5. telling' = telling \cup {Newest + 1}
  BY DEF Publish
<1>6. 1..(Newest + 1) = 1..Newest \cup {Newest + 1} /\ Newest + 1 \notin 1..Newest
  BY <1>2
<1>7. telling \subseteq DOMAIN publication
  BY DEF TypeOK
<1> QED BY <1>2, <1>3, <1>4, <1>5, <1>6, <1>7

LEMMA AtStays ==
  ASSUME TypeOK, NEW p \in Publication, Publish(p), NEW n, n = Newest + 1
  PROVE  /\ Newest' = n /\ At(n)' = p /\ Newest \in Nat
         /\ \A g \in 0..Newest : At(g)' = At(g)
<1>1. /\ publication' \in Seq(Publication)
      /\ Newest' = n
      /\ publication'[n] = p
      /\ \A g \in DOMAIN publication : publication'[g] = publication[g]
  BY Published
<1>2. Newest \in Nat /\ DOMAIN publication = 1..Newest
  BY AtType
<1>3. At(n)' = p
  BY <1>1, <1>2 DEF At
<1>4. \A g \in 0..Newest : At(g)' = At(g)
  BY <1>1, <1>2 DEF At
<1> QED BY <1>1, <1>2, <1>3, <1>4

(* What a publication may name, for the store to stay as Inv says.  New are *)
(* the archives just written.                                               *)
Sound(p, new) ==
  /\ p \in Publication
  /\ new \cap DOMAIN archive = {}
  /\ Archives(p) \subseteq Archives(Manifest) \cup new
  /\ p.added \in Archives(p) \cup {0}
  /\ p.replaced \cup p.retired \subseteq DOMAIN archive \ Archives(p)
  /\ \A k \in Key : p.archives[k] <= Newest + 1

LEMMA PublishKeeps ==
  ASSUME Inv, NEW new \in SUBSET Key, NEW p, Sound(p, new), Publish(p),
         DOMAIN archive' = DOMAIN archive \cup new, stored' = stored \cup new,
         doomed' = doomed, step' = "tell" => step = "tell",
         \A k \in Key : state'[k] = IF k \in new THEN Forward(state[k], Writing) ELSE state[k]
  PROVE  Bucket' /\ Listed' /\ Tellable' /\ Gone' /\ States' /\ Swept'
<1> PICK n : n = Newest + 1
  OBVIOUS
<1>0. /\ TypeOK /\ p \in Publication /\ DOMAIN archive \subseteq Key
      /\ stored \subseteq DOMAIN archive /\ doomed \subseteq DOMAIN archive
      /\ telling \subseteq 0..Newest
  <2>1. DOMAIN archive = 1..Len(archive) /\ Len(archive) <= MaxArchives
    BY DEF Inv, TypeOK
  <2>2. DOMAIN archive \subseteq Key
    BY <2>1, BoundsAssumption DEF Inv, TypeOK, Key
  <2>3. telling \subseteq 0..Newest
    BY AtType DEF Inv, TypeOK
  <2> QED BY <2>2, <2>3 DEF Inv, TypeOK, Sound
<1>1. /\ Manifest' = p /\ Newest' = n /\ At(n)' = p /\ Newest \in Nat
      /\ telling' = telling \cup {n}
      /\ \A g \in 0..Newest : At(g)' = At(g) /\ Archives(At(g))' = Archives(At(g))
      /\ \A g \in 0..Newest' : g = n \/ g \in 0..Newest
  <2>1. Newest' = n /\ At(n)' = p /\ Newest \in Nat /\ \A g \in 0..Newest : At(g)' = At(g)
    BY <1>0, AtStays
  <2> QED BY <1>0, <2>1, Published DEF Archives
<1>2. /\ Archives(p) \subseteq stored' \ doomed' /\ Archives(p)' = Archives(p)
      /\ Archives(At(n))' = Archives(p)
      /\ Archives(p) \cap DOMAIN archive \subseteq Archives(Manifest)
  BY <1>0, <1>1 DEF Inv, Bucket, Sound, Archives
<1>3. Bucket'
  BY <1>1, <1>2 DEF Bucket, Sound, Archives
<1>4. Tellable'
  <2> SUFFICES ASSUME NEW g \in telling'
               PROVE  /\ Archives(At(g))' \subseteq stored' \ doomed'
                      /\ At(g)'.added \in Archives(At(g))' \cup {0}
    BY DEF Tellable
  <2>1. CASE g = n
    BY <1>1, <1>2, <2>1 DEF Sound
  <2>2. CASE g \in telling
    <3>1. At(g)' = At(g) /\ Archives(At(g))' = Archives(At(g))
      BY <1>0, <1>1, <2>2
    <3> QED BY <1>0, <2>2, <3>1 DEF Inv, Tellable
  <2> QED BY <1>1, <2>1, <2>2
<1>5. Gone'
  <2> SUFFICES ASSUME NEW g \in 0..Newest'
               PROVE  At(g)'.replaced \cup At(g)'.retired \subseteq DOMAIN archive' \ Archives(p)
    BY <1>1, <1>2 DEF Gone, Archives
  <2>1. CASE g = n
    BY <1>1, <2>1 DEF Sound
  <2>2. CASE g \in 0..Newest
    <3>1. At(g).replaced \cup At(g).retired \subseteq DOMAIN archive \ Archives(Manifest)
      BY <2>2 DEF Inv, Gone
    <3> QED BY <1>1, <1>2, <2>2, <3>1
  <2> QED BY <1>1, <2>1, <2>2
<1>6. States'
  <2> SUFFICES ASSUME NEW k \in Key
               PROVE  /\ state'[k] # Unheard => k \in DOMAIN archive'
                      /\ state'[k] >= Retired => k \notin Archives(p)
    BY <1>1 DEF States, Archives
  <2>1. CASE k \in new
    <3>1. state[k] = Unheard
      BY <2>1 DEF Inv, States, Sound
    <3> QED BY <2>1, <3>1 DEF Forward, Unheard, Writing, Retired
  <2>2. CASE k \notin new
    BY <2>2 DEF Inv, States, Sound
  <2> QED BY <2>1, <2>2
<1>7. Listed'
  <2> SUFFICES ASSUME NEW g \in 0..Newest'
               PROVE  /\ Archives(At(g))' \subseteq DOMAIN archive'
                      /\ \A k \in Key : At(g)'.archives[k] <= n
    BY <1>1 DEF Listed
  <2>1. CASE g = n
    <3>1. Archives(Manifest) \subseteq DOMAIN archive
      BY <1>0 DEF Inv, Bucket
    <3> QED BY <1>1, <1>2, <2>1, <3>1 DEF Sound
  <2>2. CASE g \in 0..Newest
    <3>1. /\ At(g).archives \in [Key -> Nat] /\ Archives(At(g)) \subseteq DOMAIN archive
          /\ \A k \in Key : At(g).archives[k] <= Newest
      BY <1>0, <2>2, AtType DEF Inv, Listed
    <3> QED BY <1>1, <2>2, <3>1
  <2> QED BY <1>1, <2>1, <2>2
<1>8. Swept'
  BY <1>0 DEF Inv, Swept, Sound
<1> QED BY <1>3, <1>4, <1>5, <1>6, <1>7, <1>8

LEMMA PublishType ==
  ASSUME Inv, NEW p \in Publication, Publish(p),
         archive' \in Seq(Versions), Len(archive') <= MaxArchives,
         DOMAIN archive \subseteq DOMAIN archive',
         stored' \subseteq DOMAIN archive', state' \in [Key -> Unheard..Deleted],
         step' \in Steps, UNCHANGED <<doomed, known, row, generation, stale, pastVars>>
  PROVE  TypeOK'
<1>1. TypeOK
  BY DEF Inv
<1>2. publication' \in Seq(Publication) /\ telling' \subseteq DOMAIN publication'
      /\ DOMAIN publication \subseteq DOMAIN publication'
  BY <1>1, Published
<1>3. row' \in [Tile -> [archive : DOMAIN archive' \cup {0}, generation : Nat]]
  BY <1>1 DEF TypeOK
<1>4. /\ doomed' \subseteq DOMAIN archive' /\ known' \subseteq DOMAIN archive'
      /\ told' \subseteq DOMAIN publication'
  BY <1>1, <1>2 DEF TypeOK, pastVars
<1>5. reading' \subseteq 0..Newest' /\ late' \subseteq 0..Newest' /\ outlasted' \subseteq 0..Newest'
  <2>1. 0..Newest \subseteq 0..Newest'
    BY <1>1, Published, AtType
  <2> QED BY <1>1, <2>1 DEF TypeOK, pastVars, readVars
<1> QED BY <1>1, <1>2, <1>3, <1>4, <1>5 DEF TypeOK, Versions, pastVars, readVars

LEMMA WriteType ==
  ASSUME Inv, NEW tiles \in Versions, Write(tiles)
  PROVE  LET k == Len(archive) + 1 IN
         /\ k \in Key /\ k \notin DOMAIN archive
         /\ archive' \in Seq(Versions) /\ Len(archive') <= MaxArchives
         /\ DOMAIN archive' = DOMAIN archive \cup {k}
         /\ stored' = stored \cup {k} /\ stored' \subseteq DOMAIN archive'
         /\ state' \in [Key -> Unheard..Deleted]
         /\ \A j \in Key : state'[j] = IF j \in {k} THEN Forward(state[j], Writing)
                                                    ELSE state[j]
<1> DEFINE k == Len(archive) + 1
<1>1. /\ archive \in Seq(Versions) /\ archive' = Append(archive, tiles)
      /\ k \in Key /\ Len(archive) \in Nat /\ stored \subseteq DOMAIN archive
      /\ stored' = stored \cup {k}
  BY DEF Inv, TypeOK, Versions, Write
<1>2. k <= MaxArchives
  BY <1>1, BoundsAssumption DEF Key
<1>3. /\ archive' \in Seq(Versions) /\ Len(archive') = k
      /\ DOMAIN archive = 1..Len(archive) /\ DOMAIN archive' = 1..k
  BY <1>1
<1>4. 1..k = 1..Len(archive) \cup {k} /\ k \notin 1..Len(archive)
  BY <1>1
<1>5. state \in [Key -> Unheard..Deleted] /\ state' = [state EXCEPT ![k] = Forward(state[k], Writing)]
  BY DEF Inv, TypeOK, Write
<1>6. Forward(state[k], Writing) \in Unheard..Deleted
  BY <1>1, <1>5 DEF Forward, Writing, Unheard, Deleted
<1>7. /\ state' \in [Key -> Unheard..Deleted]
      /\ \A j \in Key : state'[j] = IF j = k THEN Forward(state[j], Writing) ELSE state[j]
  BY <1>1, <1>5, <1>6
<1> QED BY <1>1, <1>2, <1>3, <1>4, <1>7

(* The archives listed and what they are known by.                          *)
LEMMA ListedAre ==
  ASSUME Inv
  PROVE  /\ TypeOK /\ Manifest \in Publication /\ Newest \in Nat
         /\ Manifest.archives \in [Key -> Nat] /\ Manifest.retired \subseteq Key
         /\ DOMAIN archive \subseteq Key
         /\ \A k \in DOMAIN archive : archive[k] \in Versions
         /\ Archives(Manifest) \subseteq DOMAIN archive
         /\ Manifest.retired \subseteq DOMAIN archive \ Archives(Manifest)
         /\ \A k \in Key : Manifest.archives[k] <= Newest
         /\ stored \subseteq DOMAIN archive /\ doomed \subseteq DOMAIN archive
<1>1. TypeOK /\ Bucket /\ Manifest \in Publication /\ Newest \in Nat
  BY ManifestType DEF Inv
<1>2. archive \in Seq(Versions) /\ DOMAIN archive = 1..Len(archive)
      /\ Len(archive) \in Nat /\ Len(archive) <= MaxArchives
  BY <1>1 DEF TypeOK, Versions
<1>3. DOMAIN archive \subseteq Key /\ \A k \in DOMAIN archive : archive[k] \in Versions
  BY <1>2, BoundsAssumption DEF Key
<1>4. /\ stored \subseteq DOMAIN archive /\ doomed \subseteq DOMAIN archive
      /\ Archives(Manifest) \subseteq stored
  BY <1>1 DEF TypeOK, Bucket
<1>5. Manifest.retired \subseteq DOMAIN archive \ Archives(Manifest)
  <2>1. Newest \in 0..Newest
    BY <1>1
  <2> QED BY <2>1 DEF Inv, Gone, Manifest
<1> QED BY <1>1, <1>3, <1>4, <1>5 DEF Publication, Bucket

(* An archive written and published.                                        *)
LEMMA WritesAndPublishes ==
  ASSUME Inv, NEW tiles \in Versions, Write(tiles),
         NEW p, Sound(p, {Len(archive) + 1}), Publish(p),
         UNCHANGED <<cleanVars, known, row, generation, stale, pastVars>>
  PROVE  Inv'
<1> DEFINE k == Len(archive) + 1
<1>1. /\ k \in Key /\ k \notin DOMAIN archive
      /\ archive' \in Seq(Versions) /\ Len(archive') <= MaxArchives
      /\ DOMAIN archive' = DOMAIN archive \cup {k}
      /\ stored' = stored \cup {k} /\ stored' \subseteq DOMAIN archive'
      /\ state' \in [Key -> Unheard..Deleted]
      /\ \A j \in Key : state'[j] = IF j \in {k} THEN Forward(state[j], Writing)
                                                 ELSE state[j]
  BY WriteType
<1>2. p \in Publication /\ step' \in Steps /\ doomed' = doomed /\ step' = step
  BY DEF Sound, Inv, TypeOK, cleanVars
<1>3. TypeOK'
  BY <1>1, <1>2, PublishType
<1>4. Bucket' /\ Listed' /\ Tellable' /\ Gone' /\ States' /\ Swept'
  BY <1>1, <1>2, PublishKeeps
<1> QED BY <1>3, <1>4 DEF Inv

(* A publication without an archive of its own.                             *)
LEMMA OnlyPublishes ==
  ASSUME Inv, NEW p, Sound(p, {}), Publish(p), step' \in Steps,
         step' = "tell" => step = "tell",
         UNCHANGED <<archive, stored, doomed, bookVars, pastVars>>
  PROVE  Inv'
<1>1. p \in Publication
  BY DEF Sound
<1>2. archive' \in Seq(Versions) /\ Len(archive') <= MaxArchives
      /\ stored' \subseteq DOMAIN archive' /\ state' \in [Key -> Unheard..Deleted]
  BY DEF Inv, TypeOK, Versions, bookVars
<1>3. TypeOK'
  BY <1>1, <1>2, PublishType DEF bookVars
<1>4. Bucket' /\ Listed' /\ Tellable' /\ Gone' /\ States' /\ Swept'
  BY <1>1, PublishKeeps DEF bookVars
<1> QED BY <1>3, <1>4 DEF Inv

-----------------------------------------------------------------------------
(* The bucket's steps.                                                      *)

LEMMA FlushStep ==
  ASSUME Inv, NEW T \in SUBSET Tile, Flush(T)
  PROVE  Inv'
<1> DEFINE k == Len(archive) + 1
           tiles == [t \in Tile |-> IF t \in T THEN k ELSE 0]
           p == [archives |-> [Manifest.archives EXCEPT ![k] = Newest + 1],
                 retired |-> Manifest.retired, added |-> k, replaced |-> {},
                 uncovering |-> FALSE]
<1>1. Write(tiles) /\ Publish(p)
      /\ UNCHANGED <<cleanVars, known, row, generation, stale, pastVars>>
  BY DEF Flush
<1>2. k \in Key /\ tiles \in Versions
  BY <1>1 DEF Write, Versions
<1>3. k \notin DOMAIN archive
  BY <1>1, <1>2, WriteType
<1>4. p \in Publication
  BY <1>2, ListedAre DEF Publication
<1>5. \A j \in Key : p.archives[j] = IF j = k THEN Newest + 1 ELSE Manifest.archives[j]
  BY <1>2, ListedAre
<1>6. Archives(p) \subseteq Archives(Manifest) \cup {k} /\ k \in Archives(p)
  BY <1>2, <1>5, ListedAre DEF Archives
<1>7. \A j \in Key : p.archives[j] <= Newest + 1
  BY <1>5, ListedAre
<1>8. Sound(p, {k})
  BY <1>3, <1>4, <1>6, <1>7, ListedAre DEF Sound
<1> HIDE DEF tiles, p
<1> QED BY <1>1, <1>2, <1>8, WritesAndPublishes

LEMMA InsteadSound ==
  ASSUME Inv, NEW K \in SUBSET Archives(Manifest), NEW k \in Key, k \notin DOMAIN archive,
         NEW place \in Nat, place # 0, place <= Newest, NEW uncovering \in BOOLEAN
  PROVE  Sound([archives |-> Instead(K, k, place), retired |-> Manifest.retired \cup K,
                added |-> k, replaced |-> K, uncovering |-> uncovering], {k})
<1> DEFINE p == [archives |-> Instead(K, k, place), retired |-> Manifest.retired \cup K,
                 added |-> k, replaced |-> K, uncovering |-> uncovering]
<1>1. /\ Instead(K, k, place) \in [Key -> Nat]
      /\ \A j \in Key : Instead(K, k, place)[j] =
           IF j = k THEN place ELSE IF j \in K THEN 0 ELSE Manifest.archives[j]
  BY ListedAre DEF Instead
<1>2. p \in Publication
  BY <1>1, ListedAre DEF Publication
<1>3. K \subseteq DOMAIN archive /\ k \notin K
  BY ListedAre
<1>4. /\ Archives(p) \subseteq Archives(Manifest) \cup {k} /\ k \in Archives(p)
      /\ K \cap Archives(p) = {}
  BY <1>1, <1>3 DEF Archives
<1>5. \A j \in Key : p.archives[j] <= Newest + 1
  BY <1>1, ListedAre
<1>6. p.replaced \cup p.retired \subseteq DOMAIN archive \ Archives(p)
  BY <1>3, <1>4, ListedAre
<1> QED BY <1>2, <1>3, <1>4, <1>5, <1>6 DEF Sound

LEMMA MergeStep ==
  ASSUME Inv, NEW K \in Runs(Manifest), Merge(K)
  PROVE  Inv'
<1> DEFINE k == Len(archive) + 1
           Holding(t) == {j \in K : archive[j][t] # 0}
           Last(t) == CHOOSE j \in K : archive[j][t] # 0 /\
                        \A i \in K : archive[i][t] # 0 => Manifest.archives[i] <= Manifest.archives[j]
           tiles == [t \in Tile |-> IF \E j \in K : archive[j][t] # 0
                                      THEN archive[Last(t)][t] ELSE 0]
           place == Manifest.archives[CHOOSE j \in K : TRUE]
           p == [archives |-> Instead(K, k, place), retired |-> Manifest.retired \cup K,
                 added |-> k, replaced |-> K, uncovering |-> FALSE]
<1>1. Write(tiles) /\ Publish(p)
      /\ UNCHANGED <<cleanVars, known, row, generation, stale, pastVars>>
  BY DEF Merge
<1>2. K \in SUBSET Archives(Manifest) /\ K # {} /\ K \subseteq DOMAIN archive /\ K \subseteq Key
  BY ListedAre DEF Runs
<1>3. tiles \in Versions
  <2> SUFFICES ASSUME NEW t \in Tile, \E j \in K : archive[j][t] # 0
               PROVE  archive[Last(t)][t] \in Key \cup {0}
    BY DEF Versions
  <2>1. Holding(t) \in SUBSET Key /\ Holding(t) # {}
    BY <1>2
  <2>2. \E j \in Holding(t) : \A i \in Holding(t) : Manifest.archives[i] <= Manifest.archives[j]
    BY <2>1, LastExists, ListedAre
  <2>3. Last(t) \in K
    BY <2>2
  <2> QED BY <1>2, <2>3, ListedAre DEF Versions
<1>4. k \in Key /\ k \notin DOMAIN archive
  BY <1>1, <1>3, WriteType
<1>5. place \in Nat /\ place # 0 /\ place <= Newest
  <2>1. (CHOOSE j \in K : TRUE) \in K
    BY <1>2
  <2> QED BY <1>2, <2>1, ListedAre DEF Archives
<1> HIDE DEF tiles, place
<1>6. Sound(p, {k})
  BY <1>2, <1>4, <1>5, InsteadSound
<1> HIDE DEF p
<1> QED BY <1>1, <1>3, <1>6, WritesAndPublishes

LEMMA ScrubStep ==
  ASSUME Inv, NEW j \in Archives(Manifest), NEW T \in SUBSET Tile,
         NEW older \in BOOLEAN, Scrub(j, T, older)
  PROVE  Inv'
<1> DEFINE k == Len(archive) + 1
           tiles == [t \in Tile |-> IF t \in T THEN 0 ELSE archive[j][t]]
           p == [archives |-> Instead({j}, k, Manifest.archives[j]),
                 retired |-> Manifest.retired \cup {j}, added |-> k, replaced |-> {j},
                 uncovering |-> older]
<1>1. Write(tiles) /\ Publish(p)
      /\ UNCHANGED <<cleanVars, known, row, generation, stale, pastVars>>
  BY DEF Scrub
<1>2. tiles \in Versions
  BY ListedAre DEF Versions
<1>3. k \in Key /\ k \notin DOMAIN archive
  BY <1>1, <1>2, WriteType
<1>4. Manifest.archives[j] \in Nat /\ Manifest.archives[j] # 0 /\ Manifest.archives[j] <= Newest
  BY ListedAre DEF Archives
<1>5. Sound(p, {k})
  BY <1>3, <1>4, InsteadSound
<1> HIDE DEF tiles, p
<1> QED BY <1>1, <1>2, <1>5, WritesAndPublishes

LEMMA RemoveStep ==
  ASSUME Inv, NEW K \in SUBSET Archives(Manifest), NEW uncovering \in BOOLEAN,
         Publish([archives |-> [i \in Key |-> IF i \in K THEN 0 ELSE Manifest.archives[i]],
                  retired |-> Manifest.retired \cup K, added |-> 0, replaced |-> K,
                  uncovering |-> uncovering]),
         UNCHANGED <<archive, stored, cleanVars, bookVars, pastVars>>
  PROVE  Inv'
<1> DEFINE p == [archives |-> [i \in Key |-> IF i \in K THEN 0 ELSE Manifest.archives[i]],
                 retired |-> Manifest.retired \cup K, added |-> 0, replaced |-> K,
                 uncovering |-> uncovering]
<1>1. p \in Publication
  BY ListedAre DEF Publication
<1>2. \A i \in Key : p.archives[i] = IF i \in K THEN 0 ELSE Manifest.archives[i]
  OBVIOUS
<1>3. Archives(p) \subseteq Archives(Manifest) /\ K \cap Archives(p) = {}
  BY <1>2 DEF Archives
<1>4. \A i \in Key : p.archives[i] <= Newest + 1
  BY <1>2, ListedAre
<1>5. p.replaced \cup p.retired \subseteq DOMAIN archive \ Archives(p)
  BY <1>3, ListedAre
<1>6. Sound(p, {})
  BY <1>1, <1>3, <1>4, <1>5 DEF Sound
<1>7. step' \in Steps /\ doomed' = doomed /\ step' = step
  BY DEF Inv, TypeOK, cleanVars
<1> HIDE DEF p
<1> QED BY <1>6, <1>7, OnlyPublishes DEF p

LEMMA RemovingSteps ==
  ASSUME Inv, NEW j \in Archives(Manifest), NEW older \in BOOLEAN,
         ScrubWhole(j, older) \/ Prune(j)
  PROVE  Inv'
<1>1. CASE ScrubWhole(j, older)
  <2>1. [Manifest.archives EXCEPT ![j] = 0]
          = [i \in Key |-> IF i \in {j} THEN 0 ELSE Manifest.archives[i]]
    BY ListedAre
  <2> QED BY <1>1, <2>1, RemoveStep DEF ScrubWhole
<1>2. CASE Prune(j)
  <2> DEFINE K == {i \in Archives(Manifest) : i = j \/ j \in Later(Manifest, i)}
  <2>1. K \in SUBSET Archives(Manifest)
    OBVIOUS
  <2>2. Publish([archives |-> [i \in Key |-> IF i \in K THEN 0 ELSE Manifest.archives[i]],
                 retired |-> Manifest.retired \cup K, added |-> 0, replaced |-> K,
                 uncovering |-> FALSE])
    BY <1>2 DEF Prune
  <2>3. UNCHANGED <<archive, stored, cleanVars, bookVars, pastVars>>
    BY <1>2 DEF Prune
  <2> HIDE DEF K
  <2> QED BY <2>1, <2>2, <2>3, RemoveStep
<1> QED BY <1>1, <1>2

LEMMA ForgetStep ==
  ASSUME Inv, Forget
  PROVE  Inv'
<1> DEFINE p == [Manifest EXCEPT !.retired = Manifest.retired \ doomed, !.added = 0,
                                 !.replaced = {}, !.uncovering = FALSE]
<1>1. /\ p \in Publication /\ p.archives = Manifest.archives /\ p.added = 0
      /\ p.replaced = {} /\ p.retired = Manifest.retired \ doomed
  BY ListedAre DEF Publication
<1>2. Archives(p) = Archives(Manifest) /\ \A i \in Key : p.archives[i] <= Newest + 1
  BY <1>1, ListedAre DEF Archives
<1>3. Sound(p, {})
  BY <1>1, <1>2, ListedAre DEF Sound
<1>4. /\ Publish(p) /\ step' = "delete"
      /\ UNCHANGED <<archive, stored, doomed, bookVars, pastVars>>
  BY DEF Forget
<1> HIDE DEF p
<1> QED BY <1>3, <1>4, OnlyPublishes DEF Steps

\* A step that publishes nothing and tells nothing.
LEMMA Quiet ==
  ASSUME Inv, UNCHANGED <<archive, publication, state, row>>,
         stored' \subseteq stored, stored \ doomed \subseteq stored' \ doomed',
         doomed' \subseteq DOMAIN archive, telling' \subseteq telling,
         step' \in Steps, step' = "tell" => doomed' \cap stored' = {},
         ordered' \in BOOLEAN, missed' \in Nat, rebuilds' \in Nat, reading' \subseteq 0..Newest,
         UNCHANGED <<known, generation, stale, rebuilt, late, outlasted, told>>
  PROVE  Inv'
<1>1. Newest' = Newest /\ Manifest' = Manifest /\ \A g : At(g)' = At(g)
  BY DEF Newest, Manifest, At
<1>2. TypeOK'
  BY <1>1 DEF Inv, TypeOK
<1>3. Bucket' /\ Listed' /\ Tellable' /\ Gone' /\ States' /\ Swept'
  BY <1>1 DEF Inv, Bucket, Listed, Tellable, Gone, States, Swept, Archives
<1> QED BY <1>2, <1>3 DEF Inv

LEMMA LetGoStep ==
  ASSUME Inv, NEW K \in SUBSET stored, LetGo(K)
  PROVE  Inv'
<1>1. /\ K \subseteq stored \ Archives(Manifest) /\ doomed' = K
      /\ \A g \in telling : K \cap Archives(publication[g]) = {}
      /\ row' = Without(row, K)
      /\ UNCHANGED <<archive, publication, stored, telling, state, known, generation,
                     stale, pastVars>>
  BY DEF LetGo, PastGrace
<1>2. step' \in Steps /\ step' # "tell"
  BY DEF LetGo, Steps
<1>3. row' \in [Tile -> Row]
  BY <1>1 DEF Without, Inv, TypeOK, Row, NoRow
<1>4. Newest' = Newest /\ Manifest' = Manifest /\ \A g : At(g)' = At(g)
  BY <1>1 DEF Newest, Manifest, At
<1>5. TypeOK'
  BY <1>1, <1>2, <1>3, <1>4 DEF Inv, TypeOK, Row, pastVars, readVars
<1>6. \A g \in telling : At(g) = publication[g]
  BY AtType DEF Inv, TypeOK
<1>7. Bucket' /\ Listed' /\ Tellable' /\ Gone' /\ States'
  BY <1>1, <1>4, <1>6 DEF Inv, Bucket, Listed, Tellable, Gone, States, Archives
<1> QED BY <1>2, <1>5, <1>7 DEF Inv, Swept

LEMMA CleanupSteps ==
  ASSUME Inv, Delete \/ Stop
  PROVE  Inv'
<1>1. CASE Delete
  <2>1. /\ step' \in Steps /\ UNCHANGED <<state, row, known, generation, stale>>
        /\ UNCHANGED <<missed, reading, rebuilds, rebuilt, late, outlasted, told, ordered>>
    BY <1>1 DEF Delete, Steps, bookVars, pastVars, readVars
  <2>2. /\ ordered' \in BOOLEAN /\ missed' \in Nat /\ rebuilds' \in Nat
        /\ reading' \subseteq 0..Newest /\ doomed \subseteq DOMAIN archive
    BY <2>1 DEF Inv, TypeOK
  <2> QED BY <1>1, <2>1, <2>2, Quiet DEF Delete
<1>2. CASE Stop
  <2>1. /\ step' = "idle" /\ UNCHANGED <<state, row, known, generation, stale>>
        /\ UNCHANGED <<reading, rebuilds, rebuilt, late, outlasted, told, ordered>>
        /\ doomed' = {} /\ missed' = missed + 1
    BY <1>2 DEF Stop, bookVars, readVars
  <2>2. /\ ordered' \in BOOLEAN /\ missed' \in Nat /\ rebuilds' \in Nat
        /\ reading' \subseteq 0..Newest /\ step' \in Steps
    BY <2>1 DEF Inv, TypeOK, Steps
  <2> QED BY <1>2, <2>1, <2>2, Quiet DEF Stop
<1> QED BY <1>1, <1>2

LEMMA ToldDeletedStep ==
  ASSUME Inv, ToldDeleted
  PROVE  Inv'
<1>1. /\ state' = [k \in Key |-> IF k \in doomed /\ state[k] # Unheard
                                   THEN Deleted ELSE state[k]]
      /\ doomed' = {} /\ step' = "idle"
      /\ UNCHANGED <<archive, publication, stored, telling, known, row, generation,
                     stale, pastVars>>
  BY DEF ToldDeleted
<1>2. state' \in [Key -> Unheard..Deleted]
  BY <1>1 DEF Inv, TypeOK, Unheard, Deleted
<1>3. Newest' = Newest /\ Manifest' = Manifest /\ \A g : At(g)' = At(g)
  BY <1>1 DEF Newest, Manifest, At
<1>4. TypeOK'
  BY <1>1, <1>2, <1>3 DEF Inv, TypeOK, pastVars, readVars, Steps
<1>5. Bucket' /\ Listed' /\ Tellable' /\ Gone' /\ Swept'
  BY <1>1, <1>3 DEF Inv, Bucket, Listed, Tellable, Gone, Archives, Swept
<1>6. States'
  BY <1>1, <1>3 DEF Inv, Bucket, States, Archives
<1> QED BY <1>4, <1>5, <1>6 DEF Inv

-----------------------------------------------------------------------------
(* What the register is told.                                               *)

LEMMA MissStep ==
  ASSUME Inv, NEW g \in telling, Miss(g)
  PROVE  Inv'
<1>1. /\ missed' = missed + 1 /\ telling' = telling \ {g}
      /\ ordered' = (ordered /\ g <= rebuilt)
      /\ UNCHANGED <<archive, publication, stored, doomed, step, bookVars, reading, rebuilds,
                     rebuilt, late, outlasted, told>>
  BY DEF Miss, readVars, cleanVars
<1>2. /\ ordered' \in BOOLEAN /\ missed' \in Nat /\ rebuilds' \in Nat /\ step' \in Steps
      /\ doomed' \subseteq DOMAIN archive /\ reading' \subseteq 0..Newest
  BY <1>1 DEF Inv, TypeOK
<1>3. step' = "tell" => doomed' \cap stored' = {}
  BY <1>1 DEF Inv, Swept
<1> QED BY <1>1, <1>2, <1>3, Quiet DEF bookVars

LEMMA ReadStep ==
  ASSUME Inv, ReadForRebuild
  PROVE  Inv'
<1>1. /\ rebuilds' = rebuilds + 1 /\ reading' = reading \cup {Newest}
      /\ UNCHANGED <<archive, publication, stored, doomed, step, telling, bookVars, missed,
                     rebuilt, late, outlasted, told, ordered>>
  BY DEF ReadForRebuild, cleanVars
<1>2. /\ ordered' \in BOOLEAN /\ missed' \in Nat /\ rebuilds' \in Nat /\ step' \in Steps
      /\ doomed' \subseteq DOMAIN archive /\ reading' \subseteq 0..Newest
  <2>1. Newest \in 0..Newest
    BY AtType DEF Inv
  <2>2. reading \subseteq 0..Newest
    BY DEF Inv, TypeOK
  <2>3. reading' \subseteq 0..Newest
    BY <1>1, <2>1, <2>2
  <2> QED BY <1>1, <2>3 DEF Inv, TypeOK
<1>3. step' = "tell" => doomed' \cap stored' = {}
  BY <1>1 DEF Inv, Swept
<1> QED BY <1>1, <1>2, <1>3, Quiet DEF bookVars

\* Forward never goes back, and passes Live only by being past it.
LEMMA ForwardIs ==
  ASSUME NEW s \in Unheard..Deleted
  PROVE  /\ Forward(s, Live) \in Unheard..Deleted /\ Forward(s, Retired) \in Unheard..Deleted
         /\ Forward(s, Live) # Unheard
         /\ Forward(s, Live) >= Retired => s >= Retired
         /\ s = Live \/ s < Retired => Forward(s, Live) = Live
         /\ s = Unheard \/ s < Retired => Forward(s, Live) = Live
BY DEF Forward, Unheard, Writing, Live, Retired, Deleted

LEMMA TellStep ==
  ASSUME Inv, NEW g \in telling, NEW again \in BOOLEAN, Tell(g, again)
  PROVE  Inv'
<1> DEFINE p == publication[g]
           given == IF AddsTiles(p) THEN ApplyTiles(p, g, p.added) ELSE row
           heard == Heard(p)
<1>1. /\ telling' = (IF again THEN telling ELSE telling \ {g})
      /\ state' = [k \in Key |-> IF k \in p.replaced /\ heard[k] # Unheard
                                   THEN Forward(heard[k], Retired) ELSE heard[k]]
      /\ known' = (IF AddsTiles(p) THEN known \cup {p.added} ELSE known)
      /\ row' = Without(given, p.replaced)
      /\ generation' = Forward(generation, g)
      /\ stale' = (stale \/ (p.uncovering /\ \E t \in Tile : given[t].archive \in p.replaced))
      /\ told' = told \cup {g}
      /\ ordered' = (ordered /\ (g \in told \/ g > generation \/ g <= rebuilt))
      /\ UNCHANGED <<archive, publication, stored, doomed, step, missed, readVars>>
  BY DEF Tell, cleanVars
<1>2. /\ TypeOK /\ g \in DOMAIN publication /\ g \in Nat /\ p \in Publication
      /\ stored \subseteq DOMAIN archive /\ DOMAIN archive \subseteq Key
      /\ Archives(p) \subseteq stored \ doomed /\ p.added \in Archives(p) \cup {0}
      /\ p = At(g) /\ p.replaced \subseteq DOMAIN archive \ Archives(Manifest)
  <2>1. TypeOK /\ g \in DOMAIN publication /\ p \in Publication
    BY ManifestType DEF Inv, TypeOK
  <2>2. g \in Nat /\ g \in 0..Newest /\ p = At(g)
    BY <2>1, AtType
  <2> QED BY <2>1, <2>2, ListedAre DEF Inv, Tellable, Gone
<1>3. Newest' = Newest /\ Manifest' = Manifest /\ \A h : At(h)' = At(h)
  BY <1>1 DEF Newest, Manifest, At
<1>4. /\ state \in [Key -> Unheard..Deleted]
      /\ \A k \in Key : heard[k] = IF k \in Archives(p) THEN Forward(state[k], Live) ELSE state[k]
  BY <1>2 DEF TypeOK, Heard
<1>5. heard \in [Key -> Unheard..Deleted]
  BY <1>4, ForwardIs DEF Heard
<1>6. \A k \in Key : state'[k] = IF k \in p.replaced /\ heard[k] # Unheard
                                   THEN Forward(heard[k], Retired) ELSE heard[k]
  BY <1>1
<1> HIDE DEF heard
<1>7. state' \in [Key -> Unheard..Deleted]
  <2>1. \A k \in Key : Forward(heard[k], Retired) \in Unheard..Deleted
    BY <1>5, ForwardIs
  <2> QED BY <1>1, <1>5, <2>1
<1>8. \A t \in Tile :
        given[t] = row[t] \/ (AddsTiles(p) /\ given[t] = [archive |-> p.added, generation |-> g])
  BY DEF ApplyTiles
<1>9. AddsTiles(p) => p.added \in stored \ doomed /\ heard[p.added] = Live
  BY <1>2 DEF AddsTiles, heard
<1>10. \A t \in Tile : row'[t] = IF given[t].archive \in p.replaced THEN NoRow ELSE given[t]
  BY <1>1 DEF Without
<1>11. row \in [Tile -> Row]
  BY <1>2 DEF TypeOK, Row
<1> HIDE DEF given
<1>12. \A t \in Tile : given[t] \in Row
  <2> SUFFICES ASSUME NEW t \in Tile PROVE given[t] \in Row
    OBVIOUS
  <2>1. CASE given[t] = row[t]
    BY <1>11, <2>1
  <2>2. CASE AddsTiles(p) /\ given[t] = [archive |-> p.added, generation |-> g]
    BY <1>2, <1>9, <2>2 DEF Row
  <2> QED BY <1>8, <2>1, <2>2
<1>13. row' \in [Tile -> Row]
  <2>1. NoRow \in Row
    BY DEF NoRow, Row
  <2> QED BY <1>1, <1>10, <1>12, <2>1 DEF Without
<1>14. known' \subseteq DOMAIN archive /\ told' \subseteq DOMAIN publication
       /\ telling' \subseteq telling
  BY <1>1, <1>2, <1>9 DEF TypeOK
<1>15. generation' \in Nat /\ stale' \in BOOLEAN /\ ordered' \in BOOLEAN
  <2>1. generation' \in Nat
    BY <1>1, <1>2 DEF TypeOK, Forward
  <2>2. stale' \in BOOLEAN
    BY <1>1, <1>2 DEF TypeOK, Publication
  <2>3. ordered' \in BOOLEAN
    BY <1>1, <1>2 DEF TypeOK
  <2> QED BY <2>1, <2>2, <2>3
<1>16. TypeOK'
  BY <1>1, <1>2, <1>3, <1>7, <1>13, <1>14, <1>15 DEF TypeOK, Row, readVars
<1>17. Bucket' /\ Listed' /\ Tellable' /\ Gone' /\ Swept'
  BY <1>1, <1>3, <1>14 DEF Inv, Bucket, Listed, Tellable, Gone, Archives, Swept
<1>18. States'
  <2> SUFFICES ASSUME NEW k \in Key
               PROVE  /\ state'[k] # Unheard => k \in DOMAIN archive
                      /\ state'[k] >= Retired => k \notin Archives(Manifest)
    BY <1>1, <1>3 DEF States, Archives
  <2>1. /\ state[k] # Unheard => k \in DOMAIN archive
        /\ state[k] >= Retired => k \notin Archives(Manifest)
    BY DEF Inv, States
  <2>2. CASE k \in p.replaced
    BY <1>2, <2>2
  <2>3. CASE k \notin p.replaced
    <3>1. state'[k] = heard[k]
      BY <1>6, <2>3
    <3> QED BY <1>2, <1>4, <2>1, <3>1, ForwardIs
  <2> QED BY <2>2, <2>3
<1> QED BY <1>16, <1>17, <1>18 DEF Inv

-----------------------------------------------------------------------------
(* A rebuild, of whatever manifest was read.                                *)

\* What it makes of the state of archives.
LEMMA RebuildStates ==
  ASSUME Inv, NEW g \in reading, NEW again \in BOOLEAN, NEW read \in Indices(g),
         Rebuild(g, read, again), NEW m, m = At(g)
  PROVE  /\ m \in Publication /\ g \in 0..Newest /\ read \subseteq Archives(m)
         /\ Archives(m) \subseteq DOMAIN archive /\ DOMAIN archive \subseteq Key
         /\ \A k \in Key : m.archives[k] \in Nat
         /\ m.retired \subseteq DOMAIN archive \ Archives(Manifest)
         /\ \A k \in Key :
              /\ state[k] \in Unheard..Deleted /\ state'[k] \in Unheard..Deleted
              /\ state'[k] >= state[k]
              /\ k \in Archives(m) => state'[k] >= Live
              /\ k \in Archives(m) /\ state[k] < Retired => state'[k] = Live
              /\ k \notin Archives(m) /\ k \in m.retired /\ state[k] # Unheard
                   => state'[k] >= Retired
              /\ state'[k] >= Retired => state[k] >= Retired \/ k \in m.retired
              /\ state'[k] # Unheard => state[k] # Unheard \/ k \in Archives(m)
              /\ state'[k] = Live => state[k] = Live \/ (k \in Archives(m) /\ state[k] < Live)
              /\ k \notin m.retired /\ state[k] = Live => state'[k] = Live
<1>1. /\ m \in Publication /\ g \in 0..Newest /\ m.archives \in [Key -> Nat]
      /\ state \in [Key -> Unheard..Deleted] /\ DOMAIN archive \subseteq Key
  BY AtType, ListedAre DEF Inv, TypeOK
<1>2. read \subseteq Archives(m) /\ Archives(m) \subseteq DOMAIN archive
  BY <1>1 DEF Indices, Inv, Listed
<1>3. m.retired \subseteq DOMAIN archive \ Archives(Manifest)
  BY <1>1 DEF Inv, Gone
<1>4. \A k \in Key : state'[k] =
        IF k \in Archives(m) THEN Forward(state[k], Live)
        ELSE IF k \in m.retired /\ state[k] # Unheard THEN Forward(state[k], Retired)
        ELSE state[k]
  BY DEF Rebuild
<1>5. ASSUME NEW k \in Key
      PROVE  /\ state[k] \in Unheard..Deleted /\ state'[k] \in Unheard..Deleted
             /\ state'[k] >= state[k]
             /\ k \in Archives(m) => state'[k] >= Live
             /\ k \in Archives(m) /\ state[k] < Retired => state'[k] = Live
             /\ k \notin Archives(m) /\ k \in m.retired /\ state[k] # Unheard
                  => state'[k] >= Retired
             /\ state'[k] >= Retired => state[k] >= Retired \/ k \in m.retired
             /\ state'[k] # Unheard => state[k] # Unheard \/ k \in Archives(m)
             /\ state'[k] = Live => state[k] = Live \/ (k \in Archives(m) /\ state[k] < Live)
             /\ k \notin m.retired /\ state[k] = Live => state'[k] = Live
  BY <1>1, <1>4 DEF Forward, Unheard, Deleted, Live, Retired
<1> QED BY <1>1, <1>2, <1>3, <1>5

\* What it makes of a row: the last archive read that holds the tile takes it,
\* unless the row is kept; then what the manifest does not name goes.
Redone(m, g, read, t, y) ==
  \/ Holders(m, t) \cap read = {} /\ y = row[t]
  \/ \E x \in Holders(m, t) \cap read :
       /\ \A j \in Holders(m, t) \cap read : m.archives[j] <= m.archives[x]
       /\ y = IF Kept(row[t], m, g, x) THEN row[t] ELSE [archive |-> x, generation |-> g]

Unnamed(m, k) == k \in Key \ Archives(m) /\ state[k] # Unheard

LEMMA RebuildRow ==
  ASSUME Inv, NEW g \in reading, NEW again \in BOOLEAN, NEW read \in Indices(g),
         Rebuild(g, read, again), NEW m, m = At(g), NEW t \in Tile
  PROVE  \E y : /\ Redone(m, g, read, t, y)
                /\ row'[t] = IF y.generation <= g /\ Unnamed(m, y.archive) THEN NoRow ELSE y
<1> DEFINE Found == Holders(m, t) \cap read
           Last == CHOOSE k \in Found : \A j \in Found : m.archives[j] <= m.archives[k]
           y == IF Found # {} /\ ~Kept(row[t], m, g, Last)
                  THEN [archive |-> Last, generation |-> g] ELSE row[t]
<1>1. Rebuilt(m, g, read)[t] = y
  BY DEF Rebuilt
<1>2. row'[t] = IF Rebuilt(m, g, read)[t].generation <= g
                   /\ Rebuilt(m, g, read)[t].archive \in {k \in Key \ Archives(m) : state[k] # Unheard}
                  THEN NoRow ELSE Rebuilt(m, g, read)[t]
  BY DEF Rebuild
<1>3. Found # {} => Last \in Found /\ \A j \in Found : m.archives[j] <= m.archives[Last]
  <2>1. /\ m.archives \in [Key -> Nat] /\ Newest \in Nat
        /\ \A k \in Key : m.archives[k] <= Newest
    BY AtType, RebuildStates DEF Inv, Listed
  <2>2. Found \in SUBSET Key
    BY DEF Holders, Archives
  <2>3. Found # {} => \E k \in Found : \A j \in Found : m.archives[j] <= m.archives[k]
    BY <2>1, <2>2, LastExists
  <2> QED BY <2>3
<1>4. Redone(m, g, read, t, y)
  <2> HIDE DEF Last
  <2> QED BY <1>3 DEF Redone
<1> HIDE DEF y
<1>5. row'[t] = IF y.generation <= g /\ Unnamed(m, y.archive) THEN NoRow ELSE y
  BY <1>1, <1>2 DEF Unnamed
<1> QED BY <1>4, <1>5

LEMMA RebuildStep ==
  ASSUME Inv, NEW g \in reading, NEW again \in BOOLEAN, NEW read \in Indices(g),
         Rebuild(g, read, again)
  PROVE  Inv'
<1> PICK m : m = At(g)
  OBVIOUS
<1>1. /\ reading' = (IF again THEN reading ELSE reading \ {g})
      /\ rebuilds' = (IF again THEN rebuilds + 1 ELSE rebuilds)
      /\ known' = known \cup read
      /\ generation' = Forward(generation, g)
      /\ stale' = (stale /\ g < generation)
      /\ rebuilt' = (IF g < generation THEN rebuilt ELSE g)
      /\ ordered' = (IF g < generation THEN ordered ELSE (g + 1)..Newest \subseteq telling)
      /\ late' = (IF Overtaken(g) THEN late \cup {g} ELSE {})
      /\ outlasted' = (IF Outlasted(g) THEN outlasted \cup {g}
                       ELSE IF Overtaken(g) THEN outlasted ELSE {})
      /\ state' \in [Key -> {state'[k] : k \in Key}]
      /\ row' \in [Tile -> {row'[t] : t \in Tile}]
      /\ UNCHANGED <<archive, publication, stored, doomed, step, telling, missed, told>>
  BY DEF Rebuild, cleanVars
<1>2. /\ TypeOK /\ g \in Nat /\ g \in 0..Newest /\ m \in Publication
      /\ read \subseteq DOMAIN archive /\ Archives(m) \subseteq DOMAIN archive
      /\ row \in [Tile -> Row]
  <2>1. g \in 0..Newest /\ m \in Publication /\ read \subseteq Archives(m)
        /\ Archives(m) \subseteq DOMAIN archive
    BY RebuildStates
  <2> QED BY <2>1 DEF Inv, TypeOK, Row
<1>3. Newest' = Newest /\ Manifest' = Manifest /\ \A h : At(h)' = At(h)
  BY <1>1 DEF Newest, Manifest, At
<1>4. state' \in [Key -> Unheard..Deleted]
  <2>1. \A k \in Key : state'[k] \in Unheard..Deleted
    BY RebuildStates
  <2> QED BY <1>1, <2>1
<1>5. row' \in [Tile -> Row]
  <2>1. ASSUME NEW t \in Tile
        PROVE  row'[t] \in Row
    <3>1. PICK y : /\ Redone(m, g, read, t, y)
                   /\ row'[t] = IF y.generation <= g /\ Unnamed(m, y.archive) THEN NoRow ELSE y
      BY RebuildRow
    <3>2. NoRow \in Row /\ row[t] \in Row
      BY <1>2 DEF NoRow, Row
    <3>3. \A x \in read : [archive |-> x, generation |-> g] \in Row
      BY <1>2 DEF Row
    <3>4. y \in Row
      BY <3>1, <3>2, <3>3 DEF Redone
    <3> QED BY <3>1, <3>2, <3>4
  <2> QED BY <1>1, <2>1
<1>6. known' \subseteq DOMAIN archive /\ rebuilds' \in Nat /\ reading' \subseteq 0..Newest
      /\ rebuilt' \in Nat /\ generation' \in Nat
  BY <1>1, <1>2 DEF TypeOK, Forward
<1>7. late' \subseteq 0..Newest /\ outlasted' \subseteq 0..Newest
  BY <1>1, <1>2 DEF TypeOK
<1>8. stale' \in BOOLEAN /\ ordered' \in BOOLEAN
  BY <1>1, <1>2 DEF TypeOK
<1>9. TypeOK'
  BY <1>1, <1>2, <1>3, <1>4, <1>5, <1>6, <1>7, <1>8 DEF TypeOK, Row
<1>10. Bucket' /\ Listed' /\ Tellable' /\ Gone' /\ Swept'
  BY <1>1, <1>3 DEF Inv, Bucket, Listed, Tellable, Gone, Archives, Swept
<1>11. States'
  <2> SUFFICES ASSUME NEW k \in Key
               PROVE  /\ state'[k] # Unheard => k \in DOMAIN archive
                      /\ state'[k] >= Retired => k \notin Archives(Manifest)
    BY <1>1, <1>3 DEF States, Archives
  <2>1. /\ state[k] # Unheard => k \in DOMAIN archive
        /\ state[k] >= Retired => k \notin Archives(Manifest)
    BY DEF Inv, States
  <2> QED BY <1>2, <2>1, RebuildStates
<1> QED BY <1>9, <1>10, <1>11 DEF Inv

-----------------------------------------------------------------------------

LEMMA InvInit == Init => Inv
<1> SUFFICES ASSUME Init PROVE Inv
  OBVIOUS
<1>1. /\ archive = << >> /\ publication = << >> /\ stored = {} /\ doomed = {}
      /\ telling = {} /\ known = {} /\ told = {} /\ step = "idle"
      /\ state = [k \in Key |-> Unheard] /\ row = [t \in Tile |-> NoRow]
      /\ generation = 0 /\ stale = FALSE /\ missed = 0 /\ rebuilds = 0 /\ rebuilt = 0
      /\ reading = {} /\ late = {} /\ outlasted = {} /\ ordered = TRUE
  BY DEF Init
<1>2. /\ archive \in Seq(Versions) /\ publication \in Seq(Publication)
      /\ Len(archive) = 0 /\ Newest = 0
      /\ DOMAIN archive = {} /\ DOMAIN publication = {}
  BY <1>1 DEF Newest
<1>3. Len(archive) <= MaxArchives
  BY <1>2, BoundsAssumption
<1>4. row \in [Tile -> Row]
  BY <1>1 DEF NoRow, Row
<1>5. state \in [Key -> Unheard..Deleted]
  BY <1>1 DEF Unheard, Deleted
<1>6. TypeOK
  BY <1>1, <1>2, <1>3, <1>4, <1>5 DEF TypeOK, Versions, Row, Steps
<1>7. Manifest = NoPublication /\ At(0) = NoPublication /\ 0..Newest = {0}
  BY <1>2 DEF Manifest, At
<1>8. /\ Archives(NoPublication) = {} /\ \A k \in Key : NoPublication.archives[k] = 0
      /\ NoPublication.replaced = {} /\ NoPublication.retired = {}
  BY DEF Archives, NoPublication
<1>9. Bucket /\ Listed /\ Gone
  BY <1>1, <1>2, <1>7, <1>8 DEF Bucket, Listed, Gone
<1> QED
  BY <1>1, <1>6, <1>9 DEF Inv, Tellable, States, Swept, Unheard, Retired

LEMMA InvNext == Inv /\ [Next]_vars => Inv'
<1> SUFFICES ASSUME Inv, [Next]_vars PROVE Inv'
  OBVIOUS
<1>1. ASSUME NEW T \in SUBSET Tile, Flush(T) PROVE Inv'
  BY <1>1, FlushStep
<1>2. ASSUME NEW K \in Runs(Manifest), Merge(K) PROVE Inv'
  BY <1>2, MergeStep
<1>3. ASSUME NEW j \in Archives(Manifest),
             \/ Prune(j)
             \/ \E older \in OldersRead(j) :
                  \/ ScrubWhole(j, older)
                  \/ \E T \in SUBSET TilesOf(j) \ {{}} : Scrub(j, T, older)
      PROVE  Inv'
  <2>1. OldersRead(j) \subseteq BOOLEAN
    BY DEF OldersRead, Older
  <2>2. CASE Prune(j)
    BY <2>2, RemovingSteps
  <2>3. CASE \E older \in BOOLEAN : ScrubWhole(j, older)
    BY <2>3, RemovingSteps
  <2>4. CASE \E older \in BOOLEAN, T \in SUBSET Tile : Scrub(j, T, older)
    BY <2>4, ScrubStep
  <2> QED BY <1>3, <2>1, <2>2, <2>3, <2>4 DEF TilesOf
<1>4. ASSUME NEW K \in SUBSET stored, LetGo(K) PROVE Inv'
  BY <1>4, LetGoStep
<1>5. CASE Forget \/ Delete \/ ToldDeleted \/ Stop \/ ReadForRebuild
  BY <1>5, ForgetStep, CleanupSteps, ToldDeletedStep, ReadStep
<1>6. ASSUME NEW g \in telling, Miss(g) \/ \E again \in BOOLEAN : Tell(g, again) PROVE Inv'
  BY <1>6, MissStep, TellStep
<1>7. ASSUME NEW g \in reading, NEW again \in BOOLEAN, NEW read \in Indices(g),
             Rebuild(g, read, again)
      PROVE  Inv'
  BY <1>7, RebuildStep
<1>8. CASE UNCHANGED vars
  <2>1. /\ ordered' \in BOOLEAN /\ missed' \in Nat /\ rebuilds' \in Nat /\ step' \in Steps
        /\ doomed' \subseteq DOMAIN archive /\ reading' \subseteq 0..Newest
        /\ step' = "tell" => doomed' \cap stored' = {}
    BY <1>8 DEF vars, Inv, TypeOK, Swept
  <2> QED BY <1>8, <2>1, Quiet DEF vars
<1> QED BY <1>1, <1>2, <1>3, <1>4, <1>5, <1>6, <1>7, <1>8 DEF Next

\* Every variable holds what its declaration says.
THEOREM TypeCorrect == Spec => []TypeOK
<1>1. Inv => TypeOK
  BY DEF Inv
<1> QED BY <1>1, InvInit, InvNext, PTL DEF Spec
-----------------------------------------------------------------------------
(* The publications made, one after the other.                              *)

\* The archives of manifest m that p leaves in the list.
Stay(m, p) == Archives(m) \ p.replaced

\* p takes archives out of m's list and brings in one at most, which is the
\* last or takes their place.  What p covers no more is seen by nobody, unless
\* p says that it uncovers.
Follows(a, m, p) ==
  /\ p.replaced \subseteq Archives(m) /\ p.added \notin Archives(m)
  /\ Archives(p) = Stay(m, p) \cup ({p.added} \ {0})
  /\ \A j \in Stay(m, p) : p.archives[j] = m.archives[j]
  /\ p.added # 0 => \A j \in Stay(m, p) :
       /\ p.archives[p.added] # p.archives[j]
       /\ \A i \in p.replaced :
            m.archives[i] < m.archives[j] <=> p.archives[p.added] < p.archives[j]
       /\ p.replaced = {} => p.archives[j] < p.archives[p.added]
  /\ p.uncovering \/ \A t \in Tile, i \in p.replaced : a[i][t] # 0 =>
       \/ p.added # 0 /\ a[p.added][t] # 0
       \/ \A j \in Stay(m, p) : a[j][t] # 0 => m.archives[i] < m.archives[j]
  /\ p.retired \subseteq m.retired \cup p.replaced

Distinct(m) == \A j, k \in Archives(m) : m.archives[j] = m.archives[k] => j = k

\* From m, that was published at g, to n, published at h: what was replaced or
\* retired does not come back, what is gone or newly retired was replaced, and the
\* rest keeps its place.
Onward(g, m, h, n) ==
  /\ (m.replaced \cup m.retired) \cap Archives(n) = {}
  /\ \A k \in Archives(m) \ Archives(n) : \E i \in (g + 1)..h : k \in At(i).replaced
  /\ \A k \in n.retired \ m.retired : \E i \in (g + 1)..h : k \in At(i).replaced
  /\ \A k \in Archives(m) \cap Archives(n) :
       m.archives[k] = n.archives[k] /\ (Older(n, k) => Older(m, k))

History ==
  \A h \in 0..Newest :
    /\ Distinct(At(h))
    /\ h # 0 => Follows(archive, At(h - 1), At(h))
    /\ \A g \in 0..h : Onward(g, At(g), h, At(h))

\* p was just published, after the archives of new were written.
Made(p, new) ==
  /\ Sound(p, new) /\ Publish(p)
  /\ DOMAIN archive' = DOMAIN archive \cup new
  /\ \A k \in DOMAIN archive : archive'[k] = archive[k]
  /\ Follows(archive', Manifest, p)
  /\ Named(Manifest) \ doomed \subseteq Named(p)

LEMMA StayStays ==
  ASSUME NEW a, NEW m \in Publication, NEW p \in Publication, Follows(a, m, p),
         Distinct(m), NEW k \in Stay(m, p), Older(p, k)
  PROVE  Older(m, k)
<1>0. m.archives \in [Key -> Nat] /\ p.archives \in [Key -> Nat]
  BY DEF Publication
<1>1. PICK i \in Archives(p) : p.archives[k] > p.archives[i]
  BY DEF Older, Later
<1>2. k \in Archives(m) /\ p.archives[k] = m.archives[k]
  BY DEF Follows, Stay
<1>3. CASE i \in Stay(m, p)
  <2>1. i \in Archives(m) /\ m.archives[k] > m.archives[i]
    BY <1>1, <1>2, <1>3 DEF Follows, Stay
  <2> QED BY <1>2, <2>1 DEF Older, Later
<1>4. CASE i = p.added /\ p.added # 0
  <2>1. /\ p.archives[i] # p.archives[k]
        /\ \A j \in p.replaced : m.archives[j] < m.archives[k] <=> p.archives[i] < p.archives[k]
        /\ p.replaced = {} => p.archives[k] < p.archives[i]
    BY <1>4 DEF Follows
  <2>2. p.archives[i] \in Nat /\ p.archives[k] \in Nat
    BY <1>0, <1>1, <1>2 DEF Archives
  <2>3. PICK j \in p.replaced : TRUE
    BY <1>1, <2>1, <2>2
  <2>4. j \in Archives(m) /\ m.archives[j] < m.archives[k]
    BY <1>1, <2>1, <2>2, <2>3 DEF Follows
  <2>5. m.archives[j] \in Nat /\ m.archives[k] \in Nat
    BY <1>0, <1>2, <2>4 DEF Archives
  <2> QED BY <1>2, <2>4, <2>5 DEF Older, Later
<1> QED BY <1>1, <1>3, <1>4 DEF Follows

LEMMA DistinctFollows ==
  ASSUME NEW a, NEW m \in Publication, NEW p \in Publication, Follows(a, m, p), Distinct(m)
  PROVE  Distinct(p)
<1> SUFFICES ASSUME NEW j \in Archives(p), NEW k \in Archives(p),
                    p.archives[j] = p.archives[k], j # k
             PROVE  FALSE
  BY DEF Distinct
<1>1. Archives(p) = Stay(m, p) \cup ({p.added} \ {0})
  BY DEF Follows
<1>2. CASE j \in Stay(m, p) /\ k \in Stay(m, p)
  BY <1>2 DEF Follows, Distinct, Stay
<1>3. CASE j \in Stay(m, p) /\ k = p.added /\ p.added # 0
  BY <1>3 DEF Follows
<1>4. CASE k \in Stay(m, p) /\ j = p.added /\ p.added # 0
  BY <1>4 DEF Follows
<1> QED BY <1>1, <1>2, <1>3, <1>4

LEMMA HistoryGrows ==
  ASSUME Inv, History, NEW new \in SUBSET Key, NEW p, Made(p, new)
  PROVE  History'
<1> PICK n : n = Newest + 1
  OBVIOUS
<1>0. /\ TypeOK /\ p \in Publication /\ Publish(p) /\ Follows(archive', Manifest, p)
      /\ new \cap DOMAIN archive = {} /\ Archives(p) \subseteq Archives(Manifest) \cup new
  BY DEF Made, Sound, Inv
<1>a. \A h \in 0..Newest : /\ Archives(At(h)) \subseteq DOMAIN archive
                           /\ At(h).replaced \cup At(h).retired \subseteq DOMAIN archive
  BY DEF Inv, Listed, Gone
<1>1. /\ Newest' = n /\ At(n)' = p /\ Newest \in Nat
      /\ \A g \in 0..Newest : At(g)' = At(g)
  BY <1>0, AtStays
<1>2. /\ Manifest = At(Newest) /\ \A g \in 0..Newest : At(g) \in Publication
  BY <1>0, AtType
<1>3. DOMAIN archive \subseteq DOMAIN archive' /\ new \subseteq DOMAIN archive'
      /\ \A k \in DOMAIN archive : archive'[k] = archive[k]
  BY DEF Made
<1>4. ASSUME NEW h \in 0..Newest
      PROVE  /\ Distinct(At(h))
             /\ h # 0 => Follows(archive, At(h - 1), At(h))
             /\ \A g \in 0..h : Onward(g, At(g), h, At(h))
  BY DEF History
<1>5. ASSUME NEW h \in 0..Newest, h # 0
      PROVE  Follows(archive', At(h - 1), At(h))
  <2>1. h - 1 \in 0..Newest
    BY <1>1, <1>5
  <2>2. /\ Archives(At(h - 1)) \subseteq DOMAIN archive
        /\ Archives(At(h)) \subseteq DOMAIN archive /\ Follows(archive, At(h - 1), At(h))
    BY <2>1, <1>a, <1>4, <1>5
  <2> QED BY <2>2, <1>3 DEF Follows, Stay
<1>6. ASSUME NEW h \in 0..Newest, NEW g \in 0..h
      PROVE  Onward(g, At(g), h, At(h))'
  <2>1. g \in 0..Newest /\ \A i \in (g + 1)..h : i \in 0..Newest
    BY <1>1
  <2>2. At(g)' = At(g) /\ At(h)' = At(h) /\ \A i \in (g + 1)..h : At(i)' = At(i)
    BY <1>1, <2>1
  <2>3. Onward(g, At(g), h, At(h))
    BY <1>4
  <2> QED BY <2>2, <2>3 DEF Onward
<1>7. Distinct(p)
  <2>1. Newest \in 0..Newest
    BY <1>1
  <2> QED BY <1>0, <1>2, <1>4, <2>1, DistinctFollows
<1>8. ASSUME NEW g \in 0..n
      PROVE  Onward(g, At(g), n, At(n))'
  <2>1. CASE g = n
    <3>1. (p.replaced \cup p.retired) \cap Archives(p) = {}
      BY <1>0 DEF Made, Sound
    <3> QED BY <2>1, <3>1, <1>1 DEF Onward
  <2>2. CASE g \in 0..Newest
    <3> PICK m, l : m = At(g) /\ l = At(Newest)
      OBVIOUS
    <3>0. Newest \in 0..Newest
      BY <1>1
    <3>1. /\ Onward(g, m, Newest, l) /\ Distinct(l)
          /\ Archives(m) \cup m.replaced \cup m.retired \subseteq DOMAIN archive
      BY <2>2, <3>0, <1>a, <1>4
    <3>2. /\ p.replaced \subseteq Archives(l) /\ p.retired \subseteq l.retired \cup p.replaced
          /\ Archives(p) = Stay(l, p) \cup ({p.added} \ {0})
          /\ \A j \in Stay(l, p) : p.archives[j] = l.archives[j]
      BY <1>0, <1>2 DEF Follows
    <3>3. Archives(p) \cap DOMAIN archive \subseteq Stay(l, p)
      <4>1. p.added \in new \cup {0} \/ p.added \in Stay(l, p)
        BY <1>0, <1>2, <3>2 DEF Made, Sound, Follows
      <4> QED BY <1>0, <3>2, <4>1
    <3>5. (m.replaced \cup m.retired) \cap Archives(p) = {}
      BY <3>1, <3>3 DEF Onward, Stay
    <3>6. ASSUME NEW k \in Archives(m) \ Archives(p)
          PROVE  \E i \in (g + 1)..n : k \in At(i)'.replaced
      <4>1. CASE k \in Archives(l)
        <5>1. k \in p.replaced /\ n \in (g + 1)..n
          BY <2>2, <4>1, <3>2, <1>1 DEF Stay
        <5> QED BY <5>1, <1>1
      <4>2. CASE k \notin Archives(l)
        <5>1. PICK i \in (g + 1)..Newest : k \in At(i).replaced
          BY <4>2, <3>1 DEF Onward
        <5>2. i \in (g + 1)..n /\ i \in 0..Newest
          BY <2>2, <1>1, <5>1
        <5> QED BY <5>1, <5>2, <1>1
      <4> QED BY <4>1, <4>2
    <3>4. ASSUME NEW k \in p.retired \ m.retired
          PROVE  \E i \in (g + 1)..n : k \in At(i)'.replaced
      <4>1. CASE k \in p.replaced
        <5>1. n \in (g + 1)..n
          BY <2>2, <1>1
        <5> QED BY <4>1, <5>1, <1>1
      <4>2. CASE k \in l.retired
        <5>1. PICK i \in (g + 1)..Newest : k \in At(i).replaced
          BY <4>2, <3>1 DEF Onward
        <5>2. i \in (g + 1)..n /\ i \in 0..Newest
          BY <2>2, <1>1, <5>1
        <5> QED BY <5>1, <5>2, <1>1
      <4> QED BY <3>2, <4>1, <4>2
    <3>7. ASSUME NEW k \in Archives(m) \cap Archives(p)
          PROVE  m.archives[k] = p.archives[k] /\ (Older(p, k) => Older(m, k))
      <4>1. k \in Stay(l, p) /\ k \in Archives(l)
        BY <3>1, <3>3 DEF Stay
      <4>2. Older(p, k) => Older(l, k)
        BY <4>1, <1>0, <1>2, <3>0, <3>1, StayStays
      <4> QED BY <3>1, <3>2, <4>1, <4>2 DEF Onward
    <3>8. At(g)' = m
      BY <2>2, <1>1
    <3>9. Archives(m)' = Archives(m) /\ Archives(p)' = Archives(p)
      BY DEF Archives
    <3>10. Onward(g, At(g), n, At(n))' <=>
             (/\ (m.replaced \cup m.retired) \cap Archives(p) = {}
              /\ \A k \in Archives(m) \ Archives(p) : \E i \in (g + 1)..n : k \in At(i)'.replaced
              /\ \A k \in p.retired \ m.retired : \E i \in (g + 1)..n : k \in At(i)'.replaced
              /\ \A k \in Archives(m) \cap Archives(p) :
                   m.archives[k] = p.archives[k] /\ (Older(p, k) => Older(m, k)))
      BY <3>8, <3>9, <1>1 DEF Onward, Older, Later, Archives
    <3> QED BY <3>4, <3>5, <3>6, <3>7, <3>10
  <2> QED BY <2>1, <2>2, <1>1
<1>9. \A h \in 0..n : h = n \/ h \in 0..Newest
  BY <1>1
<1>10. ASSUME NEW h \in 0..n
       PROVE  (/\ Distinct(At(h))
               /\ h # 0 => Follows(archive, At(h - 1), At(h))
               /\ \A g \in 0..h : Onward(g, At(g), h, At(h)))'
  <2>1. CASE h = n
    <3>1. At(h - 1)' = Manifest
      BY <2>1, <1>1, <1>2
    <3> QED BY <2>1, <3>1, <1>0, <1>1, <1>7, <1>8 DEF Distinct, Follows, Stay, Archives
  <2>2. CASE h \in 0..Newest
    <3>1. h # 0 => h - 1 \in 0..Newest
      BY <2>2, <1>1
    <3> QED BY <2>2, <3>1, <1>1, <1>4, <1>5, <1>6 DEF Distinct, Follows, Stay, Archives
  <2> QED BY <1>9, <2>1, <2>2
<1> QED BY <1>1, <1>10 DEF History

-----------------------------------------------------------------------------
\* What a later manifest does not name no one after it does.
LEMMA NeverNamed ==
  ASSUME Inv, History, NEW h \in 0..Newest, NEW g \in h..Newest, NEW i \in g..Newest,
         NEW k \in Archives(At(h)), k \notin Named(At(g))
  PROVE  k \notin Named(At(i))
<1>1. Newest \in Nat /\ g \in 0..Newest /\ h \in 0..g /\ g \in 0..i /\ i \in 0..Newest
  BY AtType DEF Inv
<1>2. Onward(h, At(h), g, At(g)) /\ Onward(g, At(g), i, At(i))
  BY <1>1 DEF History
<1>3. k \notin Archives(At(g)) /\ k \notin At(g).retired
  BY DEF Named
<1>4. PICK j \in (h + 1)..g : k \in At(j).replaced
  BY <1>2, <1>3 DEF Onward
<1>5. \A l \in g..Newest : k \notin Archives(At(l))
  <2> SUFFICES ASSUME NEW l \in g..Newest PROVE k \notin Archives(At(l))
    OBVIOUS
  <2>1. l \in 0..Newest /\ j \in 0..l
    BY <1>1, <1>4
  <2>2. Onward(j, At(j), l, At(l))
    BY <2>1 DEF History
  <2> QED BY <2>2, <1>4 DEF Onward
<1>6. ASSUME k \in At(i).retired
      PROVE  FALSE
  <2>1. PICK l \in (g + 1)..i : k \in At(l).replaced
    BY <1>2, <1>3, <1>6 DEF Onward
  <2>2. l \in 0..Newest /\ l # 0 /\ l - 1 \in g..Newest
    BY <1>1, <2>1
  <2>3. Follows(archive, At(l - 1), At(l))
    BY <2>2 DEF History
  <2> QED BY <2>1, <2>2, <2>3, <1>5 DEF Follows
<1>7. i \in g..Newest
  OBVIOUS
<1> QED BY <1>5, <1>6, <1>7 DEF Named

\* What was replaced or retired by a publication is in none after it.
LEMMA NeverBack ==
  ASSUME Inv, History, NEW g \in 0..Newest, NEW h \in g..Newest, NEW k \in Archives(At(h))
  PROVE  k \notin At(g).replaced /\ k \notin At(g).retired
<1>1. h \in 0..Newest /\ g \in 0..h
  BY AtType DEF Inv
<1>2. Onward(g, At(g), h, At(h))
  BY <1>1 DEF History
<1> QED BY <1>2 DEF Onward

-----------------------------------------------------------------------------
(* What the register holds, next to the publications made.                  *)

\* Archive k, or none if 0, is what manifest m gives t.
Points(m, t, k) ==
  \/ k = 0 /\ Holders(m, t) = {}
  \/ k \in Holders(m, t) /\ \A j \in Holders(m, t) : m.archives[j] <= m.archives[k]

\* A row was in the manifest it is dated by.
Dated(t) ==
  /\ row[t].generation <= generation
  /\ row[t].archive # 0 => /\ row[t].archive \in Archives(At(row[t].generation))
                           /\ archive[row[t].archive][t] # 0

Books ==
  /\ rebuilt <= generation /\ generation <= Newest
  /\ \A g \in told : g <= generation
  /\ \A k \in DOMAIN archive : state[k] # Unheard
  /\ ordered => \A g \in DOMAIN publication : g > rebuilt => g \in told \cup telling
  /\ \A g \in telling : \A h \in g..Newest : Archives(At(g)) \subseteq Named(At(h))
  /\ stale => \E g \in DOMAIN publication : publication[g].uncovering
  /\ \A t \in Tile : Dated(t)

\* While everything after a publication is to be told, nothing it lists is let go.
Window ==
  \A g \in 0..Newest :
    (g + 1)..Newest \subseteq telling => Archives(At(g)) \subseteq stored \ doomed

\* The register heard the end of nothing stored that its manifest lists, or a
\* later one.
Ended ==
  \A g \in generation..Newest : \A k \in Archives(At(g)) \cap stored : state[k] < Retired

\* It heard of all that was told, and of nothing else that it is live.
Marked ==
  /\ \A h \in told \cup {rebuilt} : \A k \in Archives(At(h)) : state[k] >= Live
  /\ \A k \in At(rebuilt).retired : state[k] >= Retired
  /\ \A k \in Key : state[k] = Live => \E h \in 0..generation : k \in Archives(At(h))

\* A row points at a live archive that is stored, but for those a late rebuild
\* brought.
Sent(t) ==
  row[t].archive # 0 =>
    /\ row[t].archive \in stored \ doomed \/ row[t].generation \in outlasted
    /\ state[row[t].archive] = Live \/ row[t].generation \in late

Held ==
  /\ Window /\ Ended /\ Marked
  /\ outlasted \subseteq late
  /\ \A t \in Tile : Sent(t)

Sync == ordered /\ CaughtUp

\* A row is right, and was by every manifest since its own.
Right(m, t) ==
  /\ Points(m, t, row[t].archive)
  /\ row[t].archive # 0 =>
       \A h \in row[t].generation..generation : Points(At(h), t, row[t].archive)

\* A late rebuild left a row for a tile m has not.
Ghost(m, t) ==
  row[t].archive # 0 /\ row[t].generation \in late /\ Holders(m, t) = {}

\* The register holds the manifest it was last told of.
Told(m) ==
  /\ \A k \in Archives(m) : state[k] = Live /\ k \in known \ doomed
  /\ stale \/ \A t \in Tile : Right(m, t) \/ Ghost(m, t)
  /\ \A g \in telling : g <= generation =>
       \A k \in Archives(At(g)) : k \in Archives(m) \/ state[k] >= Retired
  /\ \A k \in Key : state[k] = Live => k \in Archives(m) \/ Forgotten(k)

IndInv == Inv /\ History /\ Books /\ Held /\ (Sync => Told(At(generation)))

\* What a publication leaves of the rest.
Frame(new) ==
  /\ \A k \in Key : state'[k] = IF k \in new THEN Writing ELSE state[k]
  /\ stored' = stored \cup new
  /\ UNCHANGED <<doomed, known, row, generation, stale, pastVars>>

LEMMA PublishBooks ==
  ASSUME Inv, History, Books, NEW new \in SUBSET Key, NEW p, Made(p, new), Frame(new)
  PROVE  Books'
<1> PICK n : n = Newest + 1
  OBVIOUS
<1>0. /\ TypeOK /\ p \in Publication /\ Publish(p) /\ Manifest' = p
      /\ DOMAIN archive \subseteq Key /\ Newest \in Nat
      /\ telling \subseteq DOMAIN publication /\ generation \in Nat
      /\ new \cap DOMAIN archive = {} /\ Archives(p) \subseteq Archives(Manifest) \cup new
  BY ListedAre, Published DEF Made, Sound, Inv, TypeOK
<1>1. /\ Newest' = n /\ At(n)' = p
      /\ \A g \in 0..Newest : At(g)' = At(g)
  BY <1>0, AtStays
<1>2. /\ DOMAIN publication = 1..Newest /\ Manifest = At(Newest)
      /\ DOMAIN publication' = 1..Newest \cup {n} /\ telling' = telling \cup {n}
      /\ \A g \in DOMAIN publication : publication'[g] = publication[g]
  BY <1>0, AtType, Published
<1>3. /\ UNCHANGED <<doomed, known, row, generation, stale, rebuilt, told, ordered>>
      /\ DOMAIN archive' = DOMAIN archive \cup new
      /\ \A k \in DOMAIN archive : archive'[k] = archive[k]
      /\ \A k \in Key : state'[k] = IF k \in new THEN Writing ELSE state[k]
  BY DEF Frame, Made, pastVars, readVars
<1>4. /\ rebuilt' <= generation' /\ generation' <= Newest' /\ \A g \in told' : g <= generation'
      /\ stale' => \E g \in DOMAIN publication' : publication'[g].uncovering
  BY <1>0, <1>1, <1>2, <1>3 DEF Books
<1>5. \A k \in DOMAIN archive' : state'[k] # Unheard
  BY <1>0, <1>3 DEF Books, Writing, Unheard
<1>6. ordered' => \A g \in DOMAIN publication' : g > rebuilt' => g \in told' \cup telling'
  BY <1>2, <1>3 DEF Books
<1>7. ASSUME NEW g \in telling', NEW h \in g..n
      PROVE  Archives(At(g))' \subseteq Named(At(h))'
  <2>1. CASE g = n
    <3>1. h = n
      BY <2>1, <1>0
    <3> QED BY <2>1, <3>1 DEF Named
  <2>2. CASE g \in telling /\ h \in g..Newest
    <3>1. g \in 0..Newest /\ h \in 0..Newest
      BY <2>2, <1>0, <1>2
    <3>2. Archives(At(g)) \subseteq Named(At(h))
      BY <2>2 DEF Books
    <3> QED BY <3>1, <3>2, <1>1 DEF Archives, Named
  <2>3. CASE g \in telling /\ h = n
    <3>1. g \in 0..Newest /\ Newest \in g..Newest
      BY <2>3, <1>0, <1>2
    <3>2. Archives(At(g)) \subseteq Named(Manifest) /\ Archives(At(g)) \cap doomed = {}
      BY <2>3, <3>1, <1>2 DEF Books, Inv, Tellable
    <3>3. Archives(At(g))' = Archives(At(g)) /\ Named(At(n))' = Named(p)
      BY <3>1, <1>1 DEF Archives, Named
    <3> QED BY <2>3, <3>2, <3>3 DEF Made
  <2> QED BY <2>1, <2>2, <2>3, <1>0, <1>2
<1>9. ASSUME NEW t \in Tile
      PROVE  Dated(t)'
  <2> PICK r : r = row[t]
    OBVIOUS
  <2>1. r.generation \in Nat /\ r.archive \in DOMAIN archive \cup {0} /\ row'[t] = r
    BY <1>0, <1>3 DEF TypeOK
  <2>2. Dated(t)
    BY DEF Books
  <2>3. r.generation <= generation /\ generation <= Newest /\ r.generation \in 0..Newest
    BY <1>0, <2>1, <2>2 DEF Books, Dated
  <2>4. At(r.generation)' = At(r.generation)
    BY <2>3, <1>1
  <2>5. At(row[t].generation)' = At(r.generation)
    BY <2>1, <2>4 DEF At
  <2> QED BY <2>1, <2>2, <2>3, <2>5, <1>3 DEF Archives, Dated
<1>10. (\A g \in telling : \A h \in g..Newest : Archives(At(g)) \subseteq Named(At(h)))'
  BY <1>7, <1>1
<1> QED BY <1>4, <1>5, <1>6, <1>9, <1>10 DEF Books

LEMMA PublishHeld ==
  ASSUME Inv, Books, Held, NEW new \in SUBSET Key, NEW p, Made(p, new), Frame(new)
  PROVE  Held'
<1> PICK n : n = Newest + 1
  OBVIOUS
<1>0. /\ TypeOK /\ p \in Publication /\ Publish(p) /\ Manifest = At(Newest)
      /\ DOMAIN archive \subseteq Key /\ Newest \in Nat /\ generation \in Nat
      /\ generation <= Newest /\ rebuilt \in Nat /\ rebuilt <= Newest
      /\ told \subseteq 0..Newest /\ doomed \subseteq DOMAIN archive
      /\ state \in [Key -> Unheard..Deleted]
      /\ new \cap DOMAIN archive = {} /\ Archives(p) \subseteq Archives(Manifest) \cup new
  BY ListedAre, AtType DEF Made, Sound, Inv, TypeOK, Books
<1>1. /\ Newest' = n /\ At(n)' = p
      /\ \A g \in 0..Newest : At(g)' = At(g)
      /\ telling' = telling \cup {n}
  BY <1>0, AtStays, Published
<1>2. /\ UNCHANGED <<doomed, row, generation, rebuilt, told, late, outlasted>>
      /\ DOMAIN archive' = DOMAIN archive \cup new /\ stored' = stored \cup new
      /\ \A k \in Key : state'[k] = IF k \in new THEN Writing ELSE state[k]
  BY DEF Frame, Made, pastVars, readVars
<1>3. /\ \A g \in 0..Newest : Archives(At(g))' = Archives(At(g))
      /\ Archives(At(n))' = Archives(p)
      /\ \A g \in 0..Newest : Archives(At(g)) \subseteq DOMAIN archive
  BY <1>1 DEF Archives, Inv, Listed
<1>4. Window'
  <2> SUFFICES ASSUME NEW g \in 0..n, (g + 1)..n \subseteq telling'
               PROVE  Archives(At(g))' \subseteq stored' \ doomed'
    BY <1>1 DEF Window
  <2>1. CASE g = n
    <3>1. Archives(Manifest) \subseteq stored \ doomed
      BY DEF Inv, Bucket
    <3> QED BY <2>1, <3>1, <1>0, <1>2, <1>3
  <2>2. CASE g \in 0..Newest
    <3>1. n \notin (g + 1)..Newest /\ (g + 1)..Newest \subseteq (g + 1)..n
      BY <1>0
    <3>2. (g + 1)..Newest \subseteq telling
      BY <3>1, <1>1
    <3>3. Archives(At(g)) \subseteq stored \ doomed
      BY <2>2, <3>2 DEF Held, Window
    <3> QED BY <2>2, <3>3, <1>2, <1>3
  <2> QED BY <2>1, <2>2, <1>0
<1>5. Ended'
  <2> SUFFICES ASSUME NEW g \in generation..n, NEW k \in Archives(At(g))', k \in stored'
               PROVE  state'[k] < Retired
    BY <1>1, <1>2 DEF Ended
  <2>1. k \in Key
    BY DEF Archives
  <2>2. CASE k \in new
    BY <2>1, <2>2, <1>2 DEF Writing, Retired
  <2>3. CASE k \notin new
    <3>1. k \in stored /\ state'[k] = state[k]
      BY <2>1, <2>3, <1>2
    <3>2. g \in generation..Newest \/ g = n
      BY <1>0
    <3>3. \E h \in generation..Newest : k \in Archives(At(h))
      <4>1. CASE g = n
        <5>1. k \in Archives(At(Newest)) /\ Newest \in generation..Newest
          BY <4>1, <2>3, <1>0, <1>3
        <5> QED BY <5>1
      <4>2. CASE g \in generation..Newest
        <5>1. g \in 0..Newest
          BY <4>2, <1>0
        <5> QED BY <4>2, <5>1, <1>3
      <4> QED BY <3>2, <4>1, <4>2
    <3> QED BY <3>1, <3>3 DEF Held, Ended
  <2> QED BY <2>2, <2>3
<1>6. Marked'
  <2>1. \A h \in told \cup {rebuilt} : h \in 0..Newest
    BY <1>0
  <2>2. \A k \in DOMAIN archive : state'[k] = state[k]
    BY <1>0, <1>2
  <2>3. (\A h \in told \cup {rebuilt} : \A k \in Archives(At(h)) : state[k] >= Live)'
    BY <2>1, <2>2, <1>2, <1>3 DEF Held, Marked
  <2>4. At(rebuilt)' = At(rebuilt)
    BY <2>1, <1>1, <1>2 DEF At
  <2>5. At(rebuilt).retired \subseteq DOMAIN archive
    BY <2>1 DEF Inv, Gone
  <2>6. (\A k \in At(rebuilt).retired : state[k] >= Retired)'
    BY <2>2, <2>4, <2>5 DEF Held, Marked
  <2>7. ASSUME NEW k \in Key, state'[k] = Live
        PROVE  \E h \in 0..generation : k \in Archives(At(h))'
    <3>1. state[k] = Live
      BY <2>7, <1>2 DEF Writing, Live
    <3>2. PICK h \in 0..generation : k \in Archives(At(h))
      BY <3>1 DEF Held, Marked
    <3>3. h \in 0..Newest
      BY <1>0
    <3> QED BY <3>2, <3>3, <1>3
  <2> QED BY <2>3, <2>6, <2>7, <1>2 DEF Marked
<1>7. \A t \in Tile : Sent(t)'
  <2> SUFFICES ASSUME NEW t \in Tile PROVE Sent(t)'
    OBVIOUS
  <2>1. Sent(t) /\ row[t].archive \in DOMAIN archive \cup {0}
    BY DEF Held, Inv, TypeOK
  <2>2. row[t].archive # 0 => state'[row[t].archive] = state[row[t].archive]
    BY <2>1, <1>0, <1>2
  <2> QED BY <2>1, <2>2, <1>2 DEF Sent
<1> QED BY <1>2, <1>4, <1>5, <1>6, <1>7 DEF Held

LEMMA PublishTold ==
  ASSUME Inv, History, Books, Sync => Told(At(generation)),
         NEW new \in SUBSET Key, NEW p, Made(p, new), Frame(new), Sync'
  PROVE  Told(At(generation))'
<1> PICK n : n = Newest + 1
  OBVIOUS
<1> PICK b : b = generation
  OBVIOUS
<1> PICK m : m = At(b)
  OBVIOUS
<1>0. /\ TypeOK /\ p \in Publication /\ Publish(p) /\ Manifest' = p
      /\ DOMAIN archive \subseteq Key /\ Newest \in Nat
      /\ telling \subseteq DOMAIN publication /\ b \in Nat
      /\ new \cap DOMAIN archive = {} /\ Archives(p) \subseteq Archives(Manifest) \cup new
  BY ListedAre, Published DEF Made, Sound, Inv, TypeOK
<1>1. /\ Newest' = n /\ At(n)' = p
      /\ \A g \in 0..Newest : At(g)' = At(g)
  BY <1>0, AtStays
<1>2. /\ DOMAIN publication = 1..Newest /\ Manifest = At(Newest) /\ telling' = telling \cup {n}
  BY <1>0, AtType, Published
<1>3. /\ UNCHANGED <<doomed, known, row, generation, stale, rebuilt, told, ordered, late>>
      /\ DOMAIN archive' = DOMAIN archive \cup new
      /\ \A k \in DOMAIN archive : archive'[k] = archive[k]
      /\ \A k \in Key : state'[k] = IF k \in new THEN Writing ELSE state[k]
  BY DEF Frame, Made, pastVars, readVars
<1>4. b \in 0..Newest /\ rebuilt \in Nat /\ rebuilt <= Newest
  BY <1>0 DEF Books, TypeOK
<1>5. Sync
  BY <1>2, <1>3 DEF Sync, CaughtUp
<1>6. Told(m)
  BY <1>5
<1>7. At(b)' = m /\ At(generation)' = m
  BY <1>1, <1>3, <1>4 DEF At
<1>8. Archives(m) \subseteq DOMAIN archive /\ Archives(m)' = Archives(m) /\ Archives(m) \cap new = {}
  <2>1. Archives(At(b)) \subseteq DOMAIN archive
    BY <1>4 DEF Inv, Listed
  <2> QED BY <2>1, <1>0 DEF Archives
<1>9. \A k \in Archives(m)' : state'[k] = Live /\ k \in known' \ doomed'
  BY <1>0, <1>3, <1>6, <1>8 DEF Told
<1>10. ASSUME NEW h \in 0..Newest, NEW t \in Tile
       PROVE  /\ Holders(At(h), t)' = Holders(At(h), t)
              /\ \A k : Points(At(h), t, k) => Points(At(h), t, k)'
  <2>1. /\ At(h)' = At(h) /\ Archives(At(h)) \subseteq DOMAIN archive
        /\ Archives(At(h))' = Archives(At(h))
    BY <1>1 DEF Inv, Listed, Archives
  <2>2. Holders(At(h), t)' = Holders(At(h), t)
    BY <2>1, <1>3 DEF Holders
  <2> QED BY <2>1, <2>2 DEF Points
<1>17. stale' \/ \A t \in Tile : Right(m, t)' \/ Ghost(m, t)'
  <2> SUFFICES ASSUME NEW t \in Tile, Right(m, t) \/ Ghost(m, t)
               PROVE  Right(m, t)' \/ Ghost(m, t)'
    BY <1>3, <1>6 DEF Told
  <2>1. /\ Holders(m, t)' = Holders(m, t)
        /\ \A k : Points(m, t, k) => Points(m, t, k)'
    BY <1>4, <1>7, <1>10 DEF Points, Holders, Archives
  <2>2. CASE Ghost(m, t)
    BY <2>1, <2>2, <1>3 DEF Ghost
  <2>3. CASE Right(m, t)
    <3>1. Points(m, t, row[t].archive)'
      BY <2>1, <2>3, <1>3 DEF Right, Points
    <3>2. ASSUME row[t].archive # 0, NEW h \in row[t].generation..generation
          PROVE  Points(At(h), t, row[t].archive)'
      <4>1. row[t].generation \in Nat /\ h \in 0..Newest
        BY <1>0, <1>4 DEF TypeOK
      <4>2. Points(At(h), t, row[t].archive)
        BY <2>3, <3>2 DEF Right
      <4> QED BY <4>1, <4>2, <1>3, <1>10 DEF Points
    <3> QED BY <3>1, <3>2, <1>3 DEF Right
  <2> QED BY <2>2, <2>3
<1>11. ASSUME NEW g \in telling', g <= generation', NEW k \in Archives(At(g))'
       PROVE  k \in Archives(m)' \/ state'[k] >= Retired
  <2>1. g # n
    BY <1>0, <1>3, <1>4, <1>11
  <2>2. g \in telling /\ At(g)' = At(g)
    BY <2>1, <1>0, <1>1, <1>2
  <2>3. g \in 0..Newest
    BY <2>2, <1>0, <1>2
  <2>4. k \in Archives(At(g)) /\ k \in DOMAIN archive
    BY <2>2, <2>3 DEF Archives, Inv, Listed
  <2>5. k \in Archives(m) \/ state[k] >= Retired
    BY <2>2, <2>4, <1>3, <1>6, <1>11 DEF Told
  <2> QED BY <2>4, <2>5, <1>0, <1>3, <1>8
<1>12. ASSUME NEW k \in Key, state'[k] = Live
       PROVE  k \in Archives(m)' \/ Forgotten(k)'
  <2>1. k \notin new /\ state[k] = Live
    BY <1>3, <1>12 DEF Writing, Live
  <2>2. k \in Archives(m) \/ Forgotten(k)
    BY <2>1, <1>6 DEF Told
  <2>3. ASSUME Forgotten(k)
        PROVE  Forgotten(k)'
    <3>1. k \notin Named(Manifest)
      BY <2>3, <1>0, <1>2, <1>4 DEF Forgotten
    <3>2. k \notin Named(p)
      BY <3>1, <2>1, <1>0 DEF Made, Follows, Named
    <3> SUFFICES ASSUME NEW g \in rebuilt..n
                 PROVE  k \notin Named(At(g))'
      BY <1>1, <1>3 DEF Forgotten
    <3>3. CASE g = n
      BY <3>2, <3>3, <1>1 DEF Named, Archives
    <3>4. CASE g \in rebuilt..Newest
      <4>1. g \in 0..Newest
        BY <3>4, <1>4
      <4>2. At(g)' = At(g) /\ k \notin Named(At(g))
        BY <4>1, <3>4, <2>3, <1>1 DEF Forgotten
      <4> QED BY <4>2 DEF Named, Archives
    <3> QED BY <3>3, <3>4, <1>0, <1>4
  <2> QED BY <2>2, <2>3, <1>8
<1>13. (\A g \in telling : g <= generation =>
         \A k \in Archives(At(g)) : k \in Archives(m) \/ state[k] >= Retired)'
  BY <1>11
<1>14. (\A k \in Archives(m) : state[k] = Live /\ k \in known \ doomed)'
  BY <1>9
<1>15. (\A k \in Key : state[k] = Live => k \in Archives(m) \/ Forgotten(k))'
  BY <1>12
<1>16. Told(m)'
  BY <1>13, <1>14, <1>15, <1>17 DEF Told
<1> QED BY <1>7, <1>16

\* A publication keeps everything.
LEMMA PublishIndInv ==
  ASSUME IndInv, Inv', NEW new \in SUBSET Key, NEW p, Made(p, new), Frame(new)
  PROVE  IndInv'
<1>1. History'
  BY HistoryGrows DEF IndInv
<1>2. Books'
  BY PublishBooks DEF IndInv
<1>3. Sync' => Told(At(generation))'
  BY PublishTold DEF IndInv
<1>4. Held'
  BY PublishHeld DEF IndInv
<1> QED BY <1>1, <1>2, <1>3, <1>4 DEF IndInv

-----------------------------------------------------------------------------
(* Every publication follows the manifest it replaces.                      *)

LEMMA LastDistinct ==
  ASSUME Inv, History
  PROVE  Distinct(Manifest)
BY AtType, ListedAre DEF Inv, History

LEMMA WriteMakes ==
  ASSUME Inv, NEW tiles \in Versions, Write(tiles)
  PROVE  /\ archive'[Len(archive) + 1] = tiles
         /\ \A j \in DOMAIN archive : archive'[j] = archive[j]
<1>1. archive \in Seq(Versions) /\ archive' = Append(archive, tiles)
  BY DEF Inv, TypeOK, Versions, Write
<1> QED BY <1>1

LEMMA WrittenMade ==
  ASSUME Inv, NEW tiles \in Versions, Write(tiles), NEW k, k = Len(archive) + 1,
         NEW p, Sound(p, {k}), Publish(p), Follows(archive', Manifest, p),
         Named(Manifest) \subseteq Named(p),
         UNCHANGED <<cleanVars, known, row, generation, stale, pastVars>>
  PROVE  k \in Key /\ Made(p, {k}) /\ Frame({k})
<1>1. /\ k \in Key /\ k \notin DOMAIN archive /\ DOMAIN archive' = DOMAIN archive \cup {k}
      /\ \A j \in Key : state'[j] = IF j \in {k} THEN Forward(state[j], Writing)
                                                 ELSE state[j]
  BY WriteType
<1>2. state[k] = Unheard
  BY <1>1 DEF Inv, States
<1>3. \A j \in Key : state'[j] = IF j \in {k} THEN Writing ELSE state[j]
  BY <1>1, <1>2 DEF Forward, Unheard, Writing
<1>4. Made(p, {k})
  BY <1>1, WriteMakes DEF Made
<1>5. stored' = stored \cup {k}
  BY WriteType
<1> QED BY <1>1, <1>3, <1>4, <1>5 DEF Frame, cleanVars

LEMMA FlushMade ==
  ASSUME Inv, History, NEW T \in SUBSET Tile, Flush(T)
  PROVE  \E new \in SUBSET Key : \E p : Made(p, new) /\ Frame(new)
<1> PICK k : k = Len(archive) + 1
  OBVIOUS
<1> PICK n : n = Newest + 1
  OBVIOUS
<1> DEFINE tiles == [t \in Tile |-> IF t \in T THEN k ELSE 0]
           p == [archives |-> [Manifest.archives EXCEPT ![k] = n],
                 retired |-> Manifest.retired, added |-> k, replaced |-> {},
                 uncovering |-> FALSE]
<1>1. Write(tiles) /\ Publish(p)
      /\ UNCHANGED <<cleanVars, known, row, generation, stale, pastVars>>
  BY DEF Flush
<1>2. k \in Key /\ tiles \in Versions
  BY <1>1 DEF Write, Versions
<1>3. k \notin DOMAIN archive
  BY <1>1, <1>2, WriteType
<1>4. p \in Publication
  BY <1>2, ListedAre DEF Publication
<1>5. \A j \in Key : p.archives[j] = IF j = k THEN n ELSE Manifest.archives[j]
  BY <1>2, ListedAre
<1>6. Archives(p) = Archives(Manifest) \cup {k} /\ k \notin Archives(Manifest)
  BY <1>2, <1>3, <1>5, ListedAre DEF Archives
<1>7. \A j \in Key : p.archives[j] <= n
  BY <1>5, ListedAre
<1>8. Sound(p, {k})
  BY <1>3, <1>4, <1>6, <1>7, ListedAre DEF Sound
<1>9. Follows(archive', Manifest, p)
  <2>1. p.replaced = {} /\ p.added = k /\ p.retired = Manifest.retired /\ k # 0
    BY <1>2 DEF Key
  <2>2. Stay(Manifest, p) = Archives(Manifest)
    BY <2>1 DEF Stay
  <2>3. \A j \in Archives(Manifest) :
          /\ p.archives[j] = Manifest.archives[j]
          /\ p.archives[k] # p.archives[j] /\ p.archives[j] < p.archives[k]
    BY <1>2, <1>5, <1>6, ListedAre DEF Archives
  <2> HIDE DEF p
  <2> QED BY <1>6, <2>1, <2>2, <2>3 DEF Follows
<1>10. Named(Manifest) \subseteq Named(p)
  BY <1>6 DEF Named
<1> HIDE DEF tiles, p
<1> QED BY <1>1, <1>2, <1>8, <1>9, <1>10, WrittenMade

\* An archive in the place of those it was made from.
LEMMA InsteadFollows ==
  ASSUME Inv, History, NEW K \in SUBSET Archives(Manifest), NEW c \in K,
         NEW k \in Key, k \notin DOMAIN archive, NEW a, NEW uncovering \in BOOLEAN,
         \A i \in K, j \in Archives(Manifest) \ K :
           Manifest.archives[i] < Manifest.archives[j]
             <=> Manifest.archives[c] < Manifest.archives[j],
         uncovering \/ \A t \in Tile, i \in K : a[i][t] # 0 =>
           \/ a[k][t] # 0
           \/ \A j \in Archives(Manifest) \ K :
                a[j][t] # 0 => Manifest.archives[i] < Manifest.archives[j]
  PROVE  LET p == [archives |-> Instead(K, k, Manifest.archives[c]),
                   retired |-> Manifest.retired \cup K,
                   added |-> k, replaced |-> K, uncovering |-> uncovering]
         IN  Follows(a, Manifest, p) /\ Named(Manifest) \subseteq Named(p) /\ Sound(p, {k})
<1> PICK place : place = Manifest.archives[c]
  OBVIOUS
<1> DEFINE p == [archives |-> Instead(K, k, place), retired |-> Manifest.retired \cup K,
                 added |-> k, replaced |-> K, uncovering |-> uncovering]
<1>1. place \in Nat /\ place # 0 /\ place <= Newest
  BY ListedAre DEF Archives
<1>2. Sound(p, {k})
  BY <1>1, InsteadSound
<1>3. \A j \in Key : p.archives[j] =
        IF j = k THEN place ELSE IF j \in K THEN 0 ELSE Manifest.archives[j]
  BY DEF Instead
<1>4. k \notin Archives(Manifest) /\ k # 0 /\ Distinct(Manifest)
  BY ListedAre, LastDistinct DEF Key
<1>5. /\ p.replaced = K /\ p.added = k /\ p.retired = Manifest.retired \cup K
      /\ p.uncovering = uncovering
  OBVIOUS
<1> HIDE DEF p
<1>6. Archives(p) = (Archives(Manifest) \ K) \cup {k}
  BY <1>1, <1>3, <1>4 DEF Archives
<1>7. Stay(Manifest, p) = Archives(Manifest) \ K
  BY <1>5 DEF Stay
<1>8. \A j \in Archives(Manifest) \ K :
        p.archives[j] = Manifest.archives[j] /\ p.archives[k] = place
  BY <1>3, <1>4 DEF Archives
<1>9. \A j \in Archives(Manifest) \ K : Manifest.archives[j] # place
  BY <1>4 DEF Distinct
<1>10. Follows(a, Manifest, p)
  BY <1>4, <1>5, <1>6, <1>7, <1>8, <1>9 DEF Follows
<1>11. Named(Manifest) \subseteq Named(p)
  BY <1>5, <1>6 DEF Named
<1> QED BY <1>2, <1>10, <1>11 DEF p

LEMMA MergeMade ==
  ASSUME Inv, History, NEW K \in Runs(Manifest), Merge(K)
  PROVE  \E new \in SUBSET Key : \E p : Made(p, new) /\ Frame(new)
<1> PICK k : k = Len(archive) + 1
  OBVIOUS
<1> DEFINE Holding(t) == {j \in K : archive[j][t] # 0}
           Last(t) == CHOOSE j \in K : archive[j][t] # 0 /\
                        \A i \in K : archive[i][t] # 0 => Manifest.archives[i] <= Manifest.archives[j]
           tiles == [t \in Tile |-> IF \E j \in K : archive[j][t] # 0
                                      THEN archive[Last(t)][t] ELSE 0]
           c == CHOOSE j \in K : TRUE
           p == [archives |-> Instead(K, k, Manifest.archives[c]),
                 retired |-> Manifest.retired \cup K,
                 added |-> k, replaced |-> K, uncovering |-> FALSE]
<1>1. Write(tiles) /\ Publish(p)
      /\ UNCHANGED <<cleanVars, known, row, generation, stale, pastVars>>
  BY DEF Merge
<1>2. /\ K \in SUBSET Archives(Manifest) /\ K # {} /\ K \subseteq DOMAIN archive
      /\ K \subseteq Key /\ c \in K
  BY ListedAre DEF Runs
<1>3. ASSUME NEW t \in Tile, \E j \in K : archive[j][t] # 0
      PROVE  Last(t) \in K /\ archive[Last(t)][t] # 0
  <2>1. Holding(t) \in SUBSET Key /\ Holding(t) # {}
    BY <1>2, <1>3
  <2>2. \E j \in Holding(t) : \A i \in Holding(t) : Manifest.archives[i] <= Manifest.archives[j]
    BY <2>1, LastExists, ListedAre
  <2> QED BY <2>2
<1>4. tiles \in Versions
  <2> SUFFICES ASSUME NEW t \in Tile, \E j \in K : archive[j][t] # 0
               PROVE  archive[Last(t)][t] \in Key \cup {0}
    BY DEF Versions
  <2> QED BY <1>2, <1>3, ListedAre DEF Versions
<1>5. k \in Key /\ k \notin DOMAIN archive
  BY <1>1, <1>4, WriteType
<1>6. archive'[k] = tiles /\ \A j \in K : archive'[j] = archive[j]
  BY <1>1, <1>2, <1>4, WriteMakes
<1>7. \A t \in Tile, i \in K : archive'[i][t] # 0 => archive'[k][t] # 0
  BY <1>3, <1>6
<1>8. ASSUME NEW i \in K, NEW j \in Archives(Manifest) \ K
      PROVE  Manifest.archives[i] < Manifest.archives[j]
               <=> Manifest.archives[c] < Manifest.archives[j]
  <2>1. K \subseteq Later(Manifest, j) \/ K \cap Later(Manifest, j) = {}
    BY DEF Runs
  <2>2. /\ Manifest.archives[i] > Manifest.archives[j]
             <=> Manifest.archives[c] > Manifest.archives[j]
        /\ Manifest.archives[i] # Manifest.archives[j]
        /\ Manifest.archives[c] # Manifest.archives[j]
    BY <1>2, <2>1, LastDistinct DEF Later, Distinct
  <2>3. /\ Manifest.archives[i] \in Nat /\ Manifest.archives[c] \in Nat
        /\ Manifest.archives[j] \in Nat
    BY <1>2, ListedAre
  <2> QED BY <2>2, <2>3
<1> HIDE DEF tiles, c
<1>9. Follows(archive', Manifest, p) /\ Named(Manifest) \subseteq Named(p) /\ Sound(p, {k})
  BY <1>2, <1>5, <1>7, <1>8, InsteadFollows
<1> HIDE DEF p
<1> QED BY <1>1, <1>4, <1>5, <1>9, WrittenMade

\* A scrub that read no older archive has none behind the one it scrubs.
LEMMA OldersAre ==
  ASSUME Inv, History, NEW j \in Archives(Manifest), NEW older \in OldersRead(j)
  PROVE  /\ older \in BOOLEAN
         /\ older \/ \A i \in Archives(Manifest) \ {j} :
                       Manifest.archives[j] < Manifest.archives[i]
<1>1. older \in BOOLEAN
  BY DEF OldersRead, Older
<1>2. ASSUME ~older, NEW i \in Archives(Manifest) \ {j}
      PROVE  Manifest.archives[j] < Manifest.archives[i]
  <2>1. PICK g \in 1..Newest : j \in Archives(publication[g]) /\ ~Older(publication[g], j)
    BY <1>2 DEF OldersRead
  <2>2. /\ Newest \in Nat /\ Manifest = At(Newest) /\ publication[g] = At(g)
        /\ Newest \in 0..Newest /\ g \in 0..Newest
    BY AtType DEF Inv
  <2>3. Onward(g, At(g), Newest, At(Newest))
    BY <2>2 DEF History
  <2>4. ~Older(Manifest, j)
    BY <2>1, <2>2, <2>3 DEF Onward
  <2>5. ~ (Manifest.archives[j] > Manifest.archives[i])
    BY <2>4 DEF Older, Later
  <2>6. Manifest.archives[j] # Manifest.archives[i]
    BY LastDistinct DEF Distinct
  <2>7. Manifest.archives[j] \in Nat /\ Manifest.archives[i] \in Nat
    BY ListedAre DEF Archives
  <2> QED BY <2>5, <2>6, <2>7
<1> QED BY <1>1, <1>2

LEMMA ScrubMade ==
  ASSUME Inv, History, NEW j \in Archives(Manifest), NEW T \in SUBSET Tile,
         NEW older \in OldersRead(j), Scrub(j, T, older)
  PROVE  \E new \in SUBSET Key : \E p : Made(p, new) /\ Frame(new)
<1> PICK k : k = Len(archive) + 1
  OBVIOUS
<1> DEFINE tiles == [t \in Tile |-> IF t \in T THEN 0 ELSE archive[j][t]]
           p == [archives |-> Instead({j}, k, Manifest.archives[j]),
                 retired |-> Manifest.retired \cup {j}, added |-> k, replaced |-> {j},
                 uncovering |-> older]
<1>1. Write(tiles) /\ Publish(p)
      /\ UNCHANGED <<cleanVars, known, row, generation, stale, pastVars>>
  BY DEF Scrub
<1>2. tiles \in Versions
  BY ListedAre DEF Versions
<1>3. k \in Key /\ k \notin DOMAIN archive
  BY <1>1, <1>2, WriteType
<1>4. archive'[k] = tiles
  BY <1>1, <1>2, WriteMakes
<1>5. /\ older \in BOOLEAN
      /\ older \/ \A i \in Archives(Manifest) \ {j} : Manifest.archives[j] < Manifest.archives[i]
  BY OldersAre
<1> HIDE DEF tiles
<1>6. Follows(archive', Manifest, p) /\ Named(Manifest) \subseteq Named(p) /\ Sound(p, {k})
  BY <1>3, <1>5, InsteadFollows
<1> HIDE DEF p
<1> QED BY <1>1, <1>2, <1>6, WrittenMade

\* Archives leave the list for none.
LEMMA RemoveMade ==
  ASSUME Inv, NEW K \in SUBSET Archives(Manifest), NEW uncovering \in BOOLEAN,
         uncovering \/ \A i \in K, j \in Archives(Manifest) \ K :
                         Manifest.archives[i] < Manifest.archives[j],
         Publish([archives |-> [i \in Key |-> IF i \in K THEN 0 ELSE Manifest.archives[i]],
                  retired |-> Manifest.retired \cup K, added |-> 0, replaced |-> K,
                  uncovering |-> uncovering]),
         UNCHANGED <<archive, stored, cleanVars, bookVars, pastVars>>
  PROVE  \E new \in SUBSET Key : \E p : Made(p, new) /\ Frame(new)
<1> DEFINE p == [archives |-> [i \in Key |-> IF i \in K THEN 0 ELSE Manifest.archives[i]],
                 retired |-> Manifest.retired \cup K, added |-> 0, replaced |-> K,
                 uncovering |-> uncovering]
<1>1. p \in Publication
  BY ListedAre DEF Publication
<1>2. \A i \in Key : p.archives[i] = IF i \in K THEN 0 ELSE Manifest.archives[i]
  OBVIOUS
<1>3. Archives(p) = Archives(Manifest) \ K /\ 0 \notin Archives(Manifest)
  BY <1>2 DEF Archives, Key
<1>4. \A i \in Key : p.archives[i] <= Newest + 1
  BY <1>2, ListedAre
<1>5. K \subseteq DOMAIN archive
  BY ListedAre
<1>6. /\ p.replaced = K /\ p.added = 0 /\ p.retired = Manifest.retired \cup K
      /\ p.uncovering = uncovering /\ Publish(p)
  OBVIOUS
<1> HIDE DEF p
<1>7. Sound(p, {})
  BY <1>1, <1>3, <1>4, <1>5, <1>6, ListedAre DEF Sound
<1>8. Stay(Manifest, p) = Archives(Manifest) \ K
  BY <1>6 DEF Stay
<1>9. \A i \in Archives(Manifest) \ K : p.archives[i] = Manifest.archives[i]
  BY <1>2 DEF Archives
<1>10. Follows(archive', Manifest, p)
  BY <1>3, <1>6, <1>8, <1>9 DEF Follows
<1>11. Named(Manifest) \subseteq Named(p)
  BY <1>3, <1>6 DEF Named
<1>12. Made(p, {}) /\ Frame({})
  BY <1>6, <1>7, <1>10, <1>11 DEF Made, Frame, cleanVars, bookVars
<1> QED BY <1>12

LEMMA ScrubWholeMade ==
  ASSUME Inv, History, NEW j \in Archives(Manifest), NEW older \in OldersRead(j),
         ScrubWhole(j, older)
  PROVE  \E new \in SUBSET Key : \E p : Made(p, new) /\ Frame(new)
<1>1. [Manifest.archives EXCEPT ![j] = 0]
        = [i \in Key |-> IF i \in {j} THEN 0 ELSE Manifest.archives[i]]
  BY ListedAre
<1>2. /\ older \in BOOLEAN
      /\ older \/ \A i \in Archives(Manifest) \ {j} : Manifest.archives[j] < Manifest.archives[i]
  BY OldersAre
<1> QED BY <1>1, <1>2, RemoveMade DEF ScrubWhole

LEMMA PruneMade ==
  ASSUME Inv, History, NEW j \in Archives(Manifest), Prune(j)
  PROVE  \E new \in SUBSET Key : \E p : Made(p, new) /\ Frame(new)
<1> DEFINE K == {i \in Archives(Manifest) : i = j \/ j \in Later(Manifest, i)}
<1>1. ASSUME NEW i \in K, NEW s \in Archives(Manifest) \ K
      PROVE  Manifest.archives[i] < Manifest.archives[s]
  <2>1. s # j /\ ~ (Manifest.archives[j] > Manifest.archives[s])
    BY DEF Later
  <2>2. Manifest.archives[j] # Manifest.archives[s]
    BY <2>1, LastDistinct DEF Distinct
  <2>3. i = j \/ Manifest.archives[j] > Manifest.archives[i]
    BY DEF Later
  <2>4. /\ Manifest.archives[j] \in Nat /\ Manifest.archives[i] \in Nat
        /\ Manifest.archives[s] \in Nat
    BY ListedAre DEF Archives
  <2> QED BY <2>1, <2>2, <2>3, <2>4
<1>2. Publish([archives |-> [i \in Key |-> IF i \in K THEN 0 ELSE Manifest.archives[i]],
               retired |-> Manifest.retired \cup K, added |-> 0, replaced |-> K,
               uncovering |-> FALSE])
  BY DEF Prune
<1>3. UNCHANGED <<archive, stored, cleanVars, bookVars, pastVars>>
  BY DEF Prune
<1>4. K \in SUBSET Archives(Manifest)
  OBVIOUS
<1> HIDE DEF K
<1> QED BY <1>1, <1>2, <1>3, <1>4, RemoveMade

LEMMA ForgetMade ==
  ASSUME Inv, Forget
  PROVE  \E new \in SUBSET Key : \E p : Made(p, new) /\ Frame(new)
<1> DEFINE p == [Manifest EXCEPT !.retired = Manifest.retired \ doomed, !.added = 0,
                                 !.replaced = {}, !.uncovering = FALSE]
<1>1. /\ p \in Publication /\ p.archives = Manifest.archives /\ p.added = 0
      /\ p.replaced = {} /\ p.retired = Manifest.retired \ doomed
  BY ListedAre DEF Publication
<1>2. Archives(p) = Archives(Manifest) /\ \A i \in Key : p.archives[i] <= Newest + 1
  BY <1>1, ListedAre DEF Archives
<1>3. Sound(p, {})
  BY <1>1, <1>2, ListedAre DEF Sound
<1>4. /\ Publish(p) /\ UNCHANGED <<archive, stored, doomed, bookVars, pastVars>>
  BY DEF Forget
<1>5. Follows(archive', Manifest, p)
  BY <1>1, <1>2, ListedAre DEF Follows, Stay, Archives, Key
<1>6. Named(Manifest) \ doomed \subseteq Named(p)
  BY <1>1, <1>2 DEF Named
<1> HIDE DEF p
<1>7. Made(p, {}) /\ Frame({})
  BY <1>3, <1>4, <1>5, <1>6 DEF Made, Frame, bookVars
<1> QED BY <1>7

-----------------------------------------------------------------------------
(* Steps that publish nothing.                                              *)

LEMMA HistoryStays ==
  ASSUME UNCHANGED <<archive, publication>>
  PROVE  /\ Newest' = Newest /\ Manifest' = Manifest /\ History' = History
         /\ \A g : At(g)' = At(g)
<1>1. Newest' = Newest /\ \A g : At(g)' = At(g)
  BY DEF Newest, At
<1>2. Manifest' = Manifest
  BY DEF Newest, At, Manifest
<1> QED BY <1>1, <1>2 DEF History, Onward

\* The register's book stays, and what is deleted or still to be told shrinks.
LEMMA QuietKeeps ==
  ASSUME IndInv, Inv',
         UNCHANGED <<archive, publication, bookVars, rebuilt, late, outlasted, told>>,
         stored' \subseteq stored, stored \ doomed \subseteq stored' \ doomed',
         doomed' \subseteq doomed, telling' \subseteq telling, Sync' => Sync,
         ordered' => ordered /\ \A g \in telling \ telling' : g <= rebuilt
  PROVE  IndInv'
<1>1. /\ Newest' = Newest /\ Manifest' = Manifest /\ History'
      /\ \A g : At(g)' = At(g)
  BY HistoryStays DEF IndInv
<1>2. TypeOK /\ DOMAIN publication \subseteq Nat /\ rebuilt \in Nat
  BY DEF IndInv, Inv, TypeOK
<1>3. Books'
  <2>1. \A t \in Tile : Dated(t)' <=> Dated(t)
    BY <1>1 DEF Dated, bookVars, At, Archives
  <2>2. ordered' => \A g \in DOMAIN publication : g > rebuilt => g \in told \cup telling'
    BY <1>2 DEF IndInv, Books
  <2> QED BY <2>1, <2>2, <1>1 DEF IndInv, Books, bookVars, Archives, Named
<1>4. Sync' => Told(At(generation))'
  <2> SUFFICES ASSUME Sync' PROVE Told(At(generation))'
    OBVIOUS
  <2> PICK m : m = At(generation)
    OBVIOUS
  <2>1. Told(m)
    BY DEF IndInv
  <2>2. At(generation)' = m
    BY DEF At, bookVars
  <2>3. \A t \in Tile : (Right(m, t) => Right(m, t)') /\ (Ghost(m, t) => Ghost(m, t)')
    <3>1. \A l, k : \A t \in Tile : Points(l, t, k)' <=> Points(l, t, k)
      BY DEF Points, Holders, Archives
    <3>2. \A t \in Tile : Holders(m, t)' = Holders(m, t)
      BY DEF Holders, Archives
    <3> QED BY <3>1, <3>2, <1>1 DEF Right, Ghost, bookVars, Points
  <2>4. \A k \in Key : Forgotten(k)' <=> Forgotten(k)
    BY <1>1 DEF Forgotten, Named, Archives
  <2>5. Told(m)'
    BY <2>1, <2>3, <2>4, <1>1 DEF Told, Archives, bookVars
  <2> QED BY <2>2, <2>5
<1>5. Held'
  <2>1. Window' /\ Ended' /\ Marked'
    BY <1>1 DEF IndInv, Held, Window, Ended, Marked, Archives, At, bookVars
  <2>2. \A t \in Tile : Sent(t)'
    BY DEF IndInv, Held, Sent, bookVars
  <2> QED BY <2>1, <2>2 DEF IndInv, Held
<1> QED BY <1>1, <1>3, <1>4, <1>5 DEF IndInv

LEMMA CleanupKeeps ==
  ASSUME IndInv, Inv', Delete \/ Stop
  PROVE  IndInv'
<1>1. /\ UNCHANGED <<archive, publication, bookVars, rebuilt, late, outlasted, told, telling,
                     ordered>>
      /\ doomed' \subseteq doomed /\ stored' \subseteq stored
      /\ stored \ doomed \subseteq stored' \ doomed'
  BY DEF Delete, Stop, pastVars, readVars
<1>2. Sync' => Sync
  BY <1>1 DEF Sync, CaughtUp, bookVars
<1> QED BY <1>1, <1>2, QuietKeeps

LEMMA MissKeeps ==
  ASSUME IndInv, Inv', NEW g \in telling, Miss(g)
  PROVE  IndInv'
<1>1. /\ UNCHANGED <<archive, publication, bookVars, rebuilt, late, outlasted, told, stored,
                     doomed>>
      /\ telling' = telling \ {g} /\ ordered' = (ordered /\ g <= rebuilt)
  BY DEF Miss, cleanVars, readVars
<1>2. rebuilt \in Nat /\ g \in Nat
  BY DEF IndInv, Inv, TypeOK
<1>3. Sync' => Sync
  <2>1. generation' = generation
    BY <1>1 DEF bookVars
  <2> SUFFICES ASSUME Sync', NEW h \in telling \ told, rebuilt < h, h < generation
               PROVE  FALSE
    BY <1>1 DEF Sync, CaughtUp
  <2>2. ordered'
    BY DEF Sync
  <2>3. g <= rebuilt
    BY <2>2, <1>1, Zenon
  <2>4. h # g
    BY <2>3, <1>2
  <2>5. h \in telling' \ told'
    BY <2>4, <1>1
  <2> QED BY <2>1, <2>5, <1>1 DEF Sync, CaughtUp
<1>4. ordered' => ordered /\ \A h \in telling \ telling' : h <= rebuilt
  BY <1>1
<1> HIDE DEF Sync
<1> QED BY <1>1, <1>3, <1>4, QuietKeeps

LEMMA ReadKeeps ==
  ASSUME IndInv, Inv', ReadForRebuild
  PROVE  IndInv'
<1>1. UNCHANGED <<archive, publication, bookVars, rebuilt, late, outlasted, told, telling,
                  ordered, stored, doomed>>
  BY DEF ReadForRebuild, cleanVars
<1>2. Sync' => Sync
  BY <1>1 DEF Sync, CaughtUp, bookVars
<1> QED BY <1>1, <1>2, QuietKeeps

\* What a manifest lists is not let go of while all that was published since is
\* still to be told: the publication that replaced it is.
LEMMA ListedNotLetGo ==
  ASSUME Inv, History, NEW g \in 0..Newest, (g + 1)..Newest \subseteq telling,
         NEW k \in Archives(At(g)), PastGrace(k)
  PROVE  k \in Archives(Manifest)
<1>1. /\ Newest \in Nat /\ Manifest = At(Newest) /\ Newest \in 0..Newest /\ g \in 0..Newest
      /\ \A h \in 1..Newest : At(h) = publication[h]
  BY AtType DEF Inv
<1>2. Onward(g, At(g), Newest, At(Newest))
  BY <1>1 DEF History
<1>3. ASSUME k \notin Archives(Manifest)
      PROVE  FALSE
  <2>1. PICK h \in (g + 1)..Newest : k \in At(h).replaced
    BY <1>1, <1>2, <1>3 DEF Onward
  <2>2. h \in 1..Newest /\ h \in telling
    BY <1>1, <2>1
  <2> QED BY <1>1, <2>1, <2>2 DEF PastGrace
<1> QED BY <1>3

\* A book that is in order awaits all that was published after it.
LEMMA Awaited ==
  ASSUME Inv, Books, ordered
  PROVE  (generation + 1)..Newest \subseteq telling /\ generation \in 0..Newest
<1>1. /\ TypeOK /\ Newest \in Nat /\ DOMAIN publication = 1..Newest /\ generation \in Nat
      /\ rebuilt \in Nat /\ rebuilt <= generation /\ generation <= Newest
      /\ \A g \in told : g <= generation
      /\ \A g \in DOMAIN publication : g > rebuilt => g \in told \cup telling
  BY AtType DEF Inv, TypeOK, Books
<1>2. ASSUME NEW g \in (generation + 1)..Newest
      PROVE  g \in telling
  <2>1. g \in DOMAIN publication /\ g > rebuilt /\ ~ (g <= generation)
    BY <1>1
  <2> QED BY <1>1, <2>1
<1> QED BY <1>1, <1>2

LEMMA LetGoKeeps ==
  ASSUME IndInv, Inv', NEW K \in SUBSET stored, LetGo(K)
  PROVE  IndInv'
<1>1. /\ row' = Without(row, K) /\ doomed' = K
      /\ K \cap Archives(Manifest) = {} /\ \A k \in K : PastGrace(k)
      /\ UNCHANGED <<archive, publication, stored, telling, state, known, generation,
                     stale, pastVars>>
  BY DEF LetGo
<1>2. /\ Newest' = Newest /\ Manifest' = Manifest /\ History'
      /\ \A g : At(g)' = At(g)
      /\ UNCHANGED <<rebuilt, late, outlasted, told, ordered>>
  BY <1>1, HistoryStays DEF IndInv, pastVars, readVars
<1>3. /\ 0 \notin K /\ generation \in Nat
      /\ \A t \in Tile : row'[t] = IF row[t].archive \in K THEN NoRow ELSE row[t]
  <2>1. K \subseteq Key
    BY ListedAre DEF IndInv
  <2> QED BY <1>1, <2>1 DEF Without, Key, IndInv, Inv, TypeOK
<1>4. \A t \in Tile : Dated(t)'
  <2> SUFFICES ASSUME NEW t \in Tile PROVE Dated(t)'
    OBVIOUS
  <2>1. Dated(t)
    BY DEF IndInv, Books
  <2>2. CASE row[t].archive \in K
    BY <2>2, <1>1, <1>3 DEF Dated, NoRow
  <2>3. CASE row[t].archive \notin K
    <3>1. row'[t] = row[t]
      BY <2>3, <1>3
    <3>2. At(row[t].generation)' = At(row[t].generation)
      BY <3>1, <1>1 DEF At
    <3> QED BY <2>1, <3>1, <3>2, <1>1 DEF Dated, Archives
  <2> QED BY <2>2, <2>3
<1>5. Books'
  BY <1>1, <1>2, <1>4 DEF IndInv, Books, Archives, Named
<1>6. Sync' => Told(At(generation))'
  <2> SUFFICES ASSUME Sync' PROVE Told(At(generation))'
    OBVIOUS
  <2> PICK m : m = At(generation)
    OBVIOUS
  <2>0. Sync
    BY <1>1, <1>2 DEF Sync, CaughtUp
  <2>1. Told(m)
    BY <2>0 DEF IndInv
  <2>2. At(generation)' = m
    BY <1>1 DEF At
  <2>3. K \cap Archives(m) = {}
    <3>1. (generation + 1)..Newest \subseteq telling /\ generation \in 0..Newest
      BY <2>0, Awaited DEF IndInv, Sync
    <3> QED BY <3>1, <1>1, ListedNotLetGo DEF IndInv
  <2>7. \A l, k : \A t \in Tile : Points(l, t, k)' <=> Points(l, t, k)
    BY <1>1 DEF Points, Holders, Archives
  <2>8. \A t \in Tile : Holders(m, t)' = Holders(m, t)
    BY <1>1 DEF Holders, Archives
  <2>4. ASSUME NEW t \in Tile, Right(m, t) \/ Ghost(m, t)
        PROVE  Right(m, t)' \/ Ghost(m, t)'
    <3>1. CASE row[t].archive \in K
      <4>1. Ghost(m, t)
        BY <3>1, <2>3, <2>4, <1>3 DEF Right, Points, Holders
      <4>2. row'[t].archive = 0 /\ Holders(m, t) = {}
        BY <4>1, <3>1, <1>3 DEF Ghost, NoRow
      <4> QED BY <4>2, <2>8 DEF Right, Points
    <3>2. CASE row[t].archive \notin K
      <4>1. row'[t] = row[t]
        BY <3>2, <1>3
      <4>2. CASE Right(m, t)
        BY <4>1, <4>2, <2>7, <1>1, <1>2 DEF Right, Points
      <4>3. CASE Ghost(m, t)
        BY <4>1, <4>3, <2>8, <1>2 DEF Ghost
      <4> QED BY <2>4, <4>2, <4>3
    <3> QED BY <3>1, <3>2
  <2>5. \A k \in Key : Forgotten(k)' <=> Forgotten(k)
    BY <1>1, <1>2 DEF Forgotten, Named, Archives
  <2>9. (stale \/ \A t \in Tile : Right(m, t) \/ Ghost(m, t))'
    BY <2>1, <2>4, <1>1 DEF Told
  <2>6. Told(m)'
    BY <2>1, <2>3, <2>9, <2>5, <1>1, <1>2 DEF Told, Archives
  <2> QED BY <2>2, <2>6
<1>7. Held'
  <2>1. Window'
    <3> SUFFICES ASSUME NEW g \in 0..Newest, (g + 1)..Newest \subseteq telling
                 PROVE  Archives(At(g)) \subseteq stored \ K
      BY <1>1, <1>2 DEF Window, Archives
    <3>1. Archives(At(g)) \subseteq stored
      BY DEF IndInv, Held, Window
    <3>2. K \cap Archives(At(g)) = {}
      BY <1>1, ListedNotLetGo DEF IndInv
    <3> QED BY <3>1, <3>2
  <2>2. Ended' /\ Marked'
    BY <1>1, <1>2 DEF IndInv, Held, Ended, Marked, Archives, At
  <2>3. \A t \in Tile : Sent(t)'
    BY <1>1, <1>2, <1>3 DEF IndInv, Held, Sent, NoRow
  <2> QED BY <2>1, <2>2, <2>3, <1>2 DEF IndInv, Held
<1> QED BY <1>2, <1>5, <1>6, <1>7 DEF IndInv

LEMMA ToldDeletedKeeps ==
  ASSUME IndInv, Inv', ToldDeleted
  PROVE  IndInv'
<1>1. /\ \A k \in Key : state'[k] = IF k \in doomed /\ state[k] # Unheard
                                      THEN Deleted ELSE state[k]
      /\ doomed' = {} /\ doomed \cap stored = {}
      /\ UNCHANGED <<archive, publication, stored, telling, known, row, generation,
                     stale, pastVars>>
  BY DEF ToldDeleted, IndInv, Inv, Swept
<1>2. /\ Newest' = Newest /\ Manifest' = Manifest /\ History'
      /\ \A g : At(g)' = At(g)
      /\ UNCHANGED <<rebuilt, late, outlasted, told, ordered>>
  BY <1>1, HistoryStays DEF IndInv, pastVars, readVars
<1>3. /\ DOMAIN archive \subseteq Key /\ state \in [Key -> Unheard..Deleted]
      /\ rebuilt \in 0..Newest
  <2>1. Newest \in Nat /\ rebuilt \in Nat /\ generation \in Nat
    BY AtType DEF IndInv, Inv, TypeOK
  <2> QED BY <2>1, ListedAre DEF IndInv, Inv, Books, TypeOK
<1>4. \A t \in Tile : Dated(t)' <=> Dated(t)
  BY <1>1 DEF Dated, At, Archives
<1>5. Books'
  <2>1. \A k \in DOMAIN archive : state'[k] # Unheard
    BY <1>1, <1>3 DEF IndInv, Books, Deleted, Unheard
  <2> QED BY <2>1, <1>1, <1>2, <1>4 DEF IndInv, Books, Archives, Named
<1>6. Sync' => Told(At(generation))'
  <2> SUFFICES ASSUME Sync' PROVE Told(At(generation))'
    OBVIOUS
  <2> PICK m : m = At(generation)
    OBVIOUS
  <2>0. Sync
    BY <1>1, <1>2 DEF Sync, CaughtUp
  <2>1. Told(m)
    BY <2>0 DEF IndInv
  <2>2. At(generation)' = m
    BY <1>1 DEF At
  <2>3. \A t \in Tile : (Right(m, t) => Right(m, t)') /\ (Ghost(m, t) => Ghost(m, t)')
    <3>1. \A l, k : \A t \in Tile : Points(l, t, k)' <=> Points(l, t, k)
      BY <1>1 DEF Points, Holders, Archives
    <3>2. \A t \in Tile : Holders(m, t)' = Holders(m, t)
      BY <1>1 DEF Holders, Archives
    <3> QED BY <3>1, <3>2, <1>1, <1>2 DEF Right, Ghost, Points
  <2>4. \A k \in Key : Forgotten(k)' <=> Forgotten(k)
    BY <1>1, <1>2 DEF Forgotten, Named, Archives
  <2>5. \A k \in Archives(m) : state'[k] = Live /\ k \in known \ doomed'
    BY <2>1, <1>1 DEF Told, Archives
  <2>6. \A k \in Key : (state'[k] = Live => state[k] = Live)
                    /\ (state[k] >= Retired => state'[k] >= Retired)
    BY <1>1 DEF Live, Deleted, Retired
  <2>7. \A g \in telling : g <= generation =>
          \A k \in Archives(At(g)) : k \in Archives(m) \/ state'[k] >= Retired
    BY <2>1, <2>6 DEF Told, Archives
  <2>8. Told(m)'
    BY <2>1, <2>3, <2>4, <2>5, <2>6, <2>7, <1>1, <1>2 DEF Told, Archives
  <2> QED BY <2>2, <2>8
<1>7. Held'
  <2>1. Window'
    BY <1>1, <1>2 DEF IndInv, Held, Window, Archives
  <2>2. Ended'
    BY <1>1, <1>2 DEF IndInv, Held, Ended, Archives
  <2>3. \A k \in Key : /\ state[k] >= Live => state'[k] >= Live
                       /\ state[k] >= Retired => state'[k] >= Retired
                       /\ state'[k] = Live => state[k] = Live
    BY <1>1, <1>3 DEF Live, Retired, Deleted, Unheard
  <2>4. At(rebuilt)' = At(rebuilt) /\ At(rebuilt).retired \subseteq Key
    BY <1>1, <1>2, <1>3 DEF At, IndInv, Inv, Gone
  <2>5. Marked'
    BY <2>3, <2>4, <1>1, <1>2 DEF IndInv, Held, Marked, Archives
  <2>6. ASSUME NEW t \in Tile
        PROVE  Sent(t)'
    <3>1. Sent(t) /\ row[t].archive \in Key \cup {0}
      BY <1>3 DEF IndInv, Held, Inv, TypeOK
    <3>2. CASE row[t].archive \in doomed
      <4>1. row[t].archive # 0 => row[t].generation \in outlasted /\ row[t].generation \in late
        BY <3>1, <3>2 DEF Sent, IndInv, Held
      <4> QED BY <4>1, <1>1, <1>2 DEF Sent
    <3>3. CASE row[t].archive \notin doomed
      <4>1. row[t].archive # 0 => state'[row[t].archive] = state[row[t].archive]
        BY <3>1, <3>3, <1>1
      <4> QED BY <3>1, <4>1, <1>1, <1>2 DEF Sent
    <3> QED BY <3>2, <3>3
  <2> QED BY <2>1, <2>2, <2>5, <2>6, <1>2 DEF IndInv, Held
<1> QED BY <1>2, <1>5, <1>6, <1>7 DEF IndInv

-----------------------------------------------------------------------------
(* A rebuild, late or not.                                                  *)

LEMMA RebuildRest ==
  ASSUME IndInv, NEW g \in reading, NEW again \in BOOLEAN, NEW read \in Indices(g),
         Rebuild(g, read, again)
  PROVE  /\ g \in 0..Newest /\ Newest \in Nat /\ generation \in Nat /\ generation <= Newest
         /\ known' = known \cup read
         /\ generation' = IF generation < g THEN g ELSE generation
         /\ stale' = (stale /\ g < generation)
         /\ rebuilt' = (IF g < generation THEN rebuilt ELSE g)
         /\ ordered' = (IF g < generation THEN ordered ELSE (g + 1)..Newest \subseteq telling)
         /\ late' = (IF Overtaken(g) THEN late \cup {g} ELSE {})
         /\ outlasted' = (IF Outlasted(g) THEN outlasted \cup {g}
                          ELSE IF Overtaken(g) THEN outlasted ELSE {})
         /\ UNCHANGED <<archive, publication, stored, doomed, telling, told>>
         /\ Newest' = Newest /\ History' /\ \A h : At(h)' = At(h)
<1>1. /\ known' = known \cup read
      /\ generation' = Forward(generation, g)
      /\ stale' = (stale /\ g < generation)
      /\ rebuilt' = (IF g < generation THEN rebuilt ELSE g)
      /\ ordered' = (IF g < generation THEN ordered ELSE (g + 1)..Newest \subseteq telling)
      /\ late' = (IF Overtaken(g) THEN late \cup {g} ELSE {})
      /\ outlasted' = (IF Outlasted(g) THEN outlasted \cup {g}
                       ELSE IF Overtaken(g) THEN outlasted ELSE {})
      /\ UNCHANGED <<archive, publication, stored, doomed, telling, told>>
  BY DEF Rebuild, cleanVars
<1>2. g \in 0..Newest /\ Newest \in Nat /\ generation \in Nat /\ generation <= Newest
  BY AtType DEF IndInv, Inv, TypeOK, Books
<1>3. Newest' = Newest /\ History' /\ \A h : At(h)' = At(h)
  BY <1>1, HistoryStays DEF IndInv
<1> QED BY <1>1, <1>2, <1>3 DEF Forward

\* A row stays, goes, or is given by the manifest read; and what that one does not
\* name stays only if it is dated later.
LEMMA RebuildTo ==
  ASSUME IndInv, NEW g \in reading, NEW again \in BOOLEAN, NEW read \in Indices(g),
         Rebuild(g, read, again), NEW m, m = At(g), NEW t \in Tile
  PROVE  /\ \/ row'[t] = NoRow
            \/ row'[t] = row[t]
            \/ \E x \in Holders(m, t) : row'[t] = [archive |-> x, generation |-> g]
         /\ row'[t] # NoRow => row'[t].generation > g \/ ~Unnamed(m, row'[t].archive)
         /\ 0 \notin Holders(m, t)
         /\ row[t].generation \in Nat /\ row[t].archive \in DOMAIN archive \cup {0}
         /\ Dated(t)
<1>1. PICK y : /\ Redone(m, g, read, t, y)
               /\ row'[t] = IF y.generation <= g /\ Unnamed(m, y.archive) THEN NoRow ELSE y
  BY RebuildRow DEF IndInv
<1>2. y = row[t] \/ \E x \in Holders(m, t) : y = [archive |-> x, generation |-> g]
  BY <1>1 DEF Redone
<1>3. /\ row[t].generation \in Nat /\ row[t].archive \in DOMAIN archive \cup {0}
      /\ g \in Nat /\ Dated(t)
  BY DEF IndInv, Inv, TypeOK, Books
<1>4. y.generation \in Nat
  BY <1>2, <1>3
<1>5. row'[t] # NoRow => row'[t] = y /\ (y.generation > g \/ ~Unnamed(m, y.archive))
  BY <1>1, <1>3, <1>4
<1>6. 0 \notin Holders(m, t)
  BY DEF Holders, Archives, Key
<1> QED BY <1>1, <1>2, <1>3, <1>5, <1>6

LEMMA RebuildBooks ==
  ASSUME IndInv, NEW g \in reading, NEW again \in BOOLEAN, NEW read \in Indices(g),
         Rebuild(g, read, again)
  PROVE  Books'
<1> PICK m : m = At(g)
  OBVIOUS
<1>1. /\ g \in 0..Newest /\ Newest \in Nat /\ generation \in Nat /\ generation <= Newest
      /\ generation' = (IF generation < g THEN g ELSE generation)
      /\ stale' = (stale /\ g < generation)
      /\ rebuilt' = (IF g < generation THEN rebuilt ELSE g)
      /\ ordered' = (IF g < generation THEN ordered ELSE (g + 1)..Newest \subseteq telling)
      /\ UNCHANGED <<archive, publication, stored, doomed, telling, told>>
      /\ Newest' = Newest /\ \A h : At(h)' = At(h)
  BY RebuildRest
<1>2. /\ rebuilt \in Nat /\ told \subseteq Nat /\ DOMAIN publication = 1..Newest
      /\ DOMAIN archive \subseteq Key
  BY AtType, ListedAre DEF IndInv, Inv, TypeOK
<1>3. generation' >= generation /\ generation' >= g /\ generation' <= Newest
  BY <1>1
<1>4. rebuilt' <= generation' /\ generation' <= Newest' /\ \A h \in told' : h <= generation'
  BY <1>1, <1>2 DEF IndInv, Books
<1>5. \A k \in DOMAIN archive : state'[k] # Unheard
  <2> SUFFICES ASSUME NEW k \in DOMAIN archive PROVE state'[k] # Unheard
    OBVIOUS
  <2>1. state[k] # Unheard /\ k \in Key
    BY <1>2 DEF IndInv, Books
  <2>2. state[k] \in Unheard..Deleted /\ state'[k] \in Unheard..Deleted /\ state'[k] >= state[k]
    BY <2>1, RebuildStates DEF IndInv
  <2> QED BY <2>1, <2>2 DEF Unheard, Deleted
<1>6. ordered' => \A h \in DOMAIN publication : h > rebuilt' => h \in told \cup telling
  <2>1. CASE g < generation
    BY <2>1, <1>1 DEF IndInv, Books
  <2>2. CASE ~ (g < generation)
    <3>1. rebuilt' = g
      BY <2>2, <1>1
    <3>2. ordered' = ((g + 1)..Newest \subseteq telling)
      BY <2>2, <1>1, Zenon
    <3>3. \A h \in 1..Newest : h > g => h \in (g + 1)..Newest
      BY <1>1
    <3> QED BY <3>1, <3>2, <3>3, <1>2, Zenon
  <2> QED BY <2>1, <2>2
<1>7. stale' => \E h \in DOMAIN publication : publication[h].uncovering
  BY <1>1 DEF IndInv, Books
<1>8. (\A h \in telling : \A i \in h..Newest : Archives(At(h)) \subseteq Named(At(i)))'
  BY <1>1 DEF IndInv, Books, Archives, Named
<1>9. ASSUME NEW t \in Tile
      PROVE  Dated(t)'
  <2>1. CASE row'[t] = NoRow
    BY <2>1, <1>1 DEF Dated, NoRow
  <2>2. CASE row'[t] = row[t]
    <3>1. Dated(t) /\ row[t].generation \in Nat
      BY RebuildTo
    <3>2. At(row[t].generation)' = At(row[t].generation)
      BY <2>2, <1>1 DEF At
    <3> QED BY <2>2, <3>1, <3>2, <1>1, <1>3 DEF Dated, Archives
  <2>3. CASE \E x \in Holders(m, t) : row'[t] = [archive |-> x, generation |-> g]
    <3>1. PICK x \in Holders(m, t) : row'[t] = [archive |-> x, generation |-> g]
      BY <2>3
    <3>2. At(row[t].generation)' = m
      BY <3>1, <1>1 DEF At
    <3> QED BY <3>1, <3>2, <1>1, <1>3 DEF Dated, Holders, Archives
  <2> QED BY <2>1, <2>2, <2>3, RebuildTo
<1> QED BY <1>1, <1>4, <1>5, <1>6, <1>7, <1>8, <1>9 DEF Books

LEMMA RebuildHeld ==
  ASSUME IndInv, NEW g \in reading, NEW again \in BOOLEAN, NEW read \in Indices(g),
         Rebuild(g, read, again)
  PROVE  Held'
<1> PICK m : m = At(g)
  OBVIOUS
<1>1. /\ g \in 0..Newest /\ Newest \in Nat /\ generation \in Nat /\ generation <= Newest
      /\ generation' = (IF generation < g THEN g ELSE generation)
      /\ rebuilt' = (IF g < generation THEN rebuilt ELSE g)
      /\ late' = (IF Overtaken(g) THEN late \cup {g} ELSE {})
      /\ outlasted' = (IF Outlasted(g) THEN outlasted \cup {g}
                       ELSE IF Overtaken(g) THEN outlasted ELSE {})
      /\ UNCHANGED <<archive, publication, stored, doomed, telling, told>>
      /\ Newest' = Newest /\ \A h : At(h)' = At(h)
  BY RebuildRest
<1>2. /\ Inv /\ History /\ DOMAIN archive \subseteq Key /\ Archives(m) \subseteq DOMAIN archive
      /\ m.retired \subseteq DOMAIN archive
      /\ \A k \in DOMAIN archive : state[k] # Unheard
      /\ \A k \in DOMAIN archive : state[k] \in Unheard..Deleted /\ state'[k] \in Unheard..Deleted
  BY RebuildStates DEF IndInv, Books
<1>3. \A h \in g..Newest : \A k \in Archives(At(h)) : k \notin m.retired
  BY <1>1, <1>2, NeverBack
<1>4. Window'
  BY <1>1 DEF IndInv, Held, Window, Archives
<1>5. Ended'
  <2> SUFFICES ASSUME NEW h \in generation'..Newest, NEW k \in Archives(At(h)) \cap stored
               PROVE  state'[k] < Retired
    BY <1>1 DEF Ended, Archives
  <2>1. h \in generation..Newest /\ h \in g..Newest /\ k \in Key
    BY <1>1 DEF Archives
  <2>2. state[k] < Retired /\ k \notin m.retired
    BY <2>1, <1>3 DEF IndInv, Held, Ended
  <2>3. state[k] \in Unheard..Deleted /\ state'[k] \in Unheard..Deleted
        /\ (state'[k] >= Retired => state[k] >= Retired \/ k \in m.retired)
    BY <2>1, <1>2, RebuildStates
  <2> QED BY <2>2, <2>3 DEF Unheard, Deleted, Retired
<1>6. \A k \in Key : /\ state[k] >= Live => state'[k] >= Live
                     /\ state[k] >= Retired => state'[k] >= Retired
                     /\ k \in Archives(m) => state'[k] >= Live
                     /\ k \notin Archives(m) /\ k \in m.retired => state'[k] >= Retired
                     /\ state'[k] = Live => state[k] = Live \/ k \in Archives(m)
  <2> SUFFICES ASSUME NEW k \in Key
               PROVE  /\ state[k] >= Live => state'[k] >= Live
                      /\ state[k] >= Retired => state'[k] >= Retired
                      /\ k \in Archives(m) => state'[k] >= Live
                      /\ k \notin Archives(m) /\ k \in m.retired => state'[k] >= Retired
                      /\ state'[k] = Live => state[k] = Live \/ k \in Archives(m)
    OBVIOUS
  <2>1. /\ state[k] \in Unheard..Deleted /\ state'[k] \in Unheard..Deleted
        /\ state'[k] >= state[k]
        /\ k \in Archives(m) => state'[k] >= Live
        /\ k \notin Archives(m) /\ k \in m.retired /\ state[k] # Unheard => state'[k] >= Retired
        /\ state'[k] = Live => state[k] = Live \/ (k \in Archives(m) /\ state[k] < Live)
    BY <1>2, RebuildStates
  <2>2. k \in m.retired => state[k] # Unheard
    BY <1>2
  <2> QED BY <2>1, <2>2 DEF Unheard, Deleted, Live, Retired
<1>7. Marked'
  <2>1. \A h \in told \cup {rebuilt, g} : \A k \in Archives(At(h)) : state'[k] >= Live
    <3> SUFFICES ASSUME NEW h \in told \cup {rebuilt, g}, NEW k \in Archives(At(h))
                 PROVE  state'[k] >= Live
      OBVIOUS
    <3>1. k \in Key
      BY DEF Archives
    <3>2. h = g \/ state[k] >= Live
      BY DEF IndInv, Held, Marked
    <3> QED BY <3>1, <3>2, <1>6
  <2>2. \A k \in At(rebuilt).retired : k \in Key => state'[k] >= Retired
    BY <1>6 DEF IndInv, Held, Marked
  <2>3. \A k \in m.retired : state'[k] >= Retired
    <3>1. g \in g..Newest
      BY <1>1
    <3>2. \A k \in m.retired : k \notin Archives(m)
      BY <3>1, <1>3
    <3> QED BY <3>2, <1>2, <1>6
  <2>4. At(rebuilt).retired \subseteq Key
    <3>1. rebuilt \in 0..Newest
      BY <1>1 DEF IndInv, Inv, TypeOK, Books
    <3> QED BY <3>1, <1>2 DEF Inv, Gone
  <2>5. At(rebuilt)' = IF g < generation THEN At(rebuilt) ELSE m
    BY <1>1 DEF At
  <2>6. (\A k \in At(rebuilt).retired : state[k] >= Retired)'
    BY <2>2, <2>3, <2>4, <2>5
  <2>7. (\A h \in told \cup {rebuilt} : \A k \in Archives(At(h)) : state[k] >= Live)'
    BY <2>1, <1>1 DEF Archives
  <2>8. ASSUME NEW k \in Key, state'[k] = Live
        PROVE  \E h \in 0..generation' : k \in Archives(At(h))
    <3>1. state[k] = Live \/ k \in Archives(m)
      BY <2>8, <1>6
    <3>2. state[k] = Live => \E h \in 0..generation : k \in Archives(At(h))
      BY DEF IndInv, Held, Marked
    <3>3. g \in 0..generation' /\ 0..generation \subseteq 0..generation'
      BY <1>1
    <3> QED BY <3>1, <3>2, <3>3
  <2>9. (\A k \in Key : state[k] = Live => \E h \in 0..generation : k \in Archives(At(h)))'
    BY <2>8, <1>1 DEF Archives
  <2> QED BY <2>6, <2>7, <2>9 DEF Marked
<1>8. outlasted' \subseteq late'
  BY <1>1 DEF IndInv, Held, Overtaken
<1>9. ASSUME NEW t \in Tile
      PROVE  Sent(t)'
  <2> SUFFICES ASSUME NEW x, NEW r, x = row'[t].archive, r = row'[t].generation, x # 0
               PROVE  /\ x \in stored \ doomed \/ r \in outlasted'
                      /\ state'[x] = Live \/ r \in late'
    BY <1>1 DEF Sent
  <2>1. row'[t] # NoRow
    BY DEF NoRow
  <2>2. \/ row'[t] = row[t]
        \/ x \in Archives(m) /\ r = g
    <3>1. CASE row'[t] = row[t]
      BY <3>1
    <3>2. CASE \E i \in Holders(m, t) : row'[t] = [archive |-> i, generation |-> g]
      <4>1. PICK i \in Holders(m, t) : row'[t] = [archive |-> i, generation |-> g]
        BY <3>2
      <4>2. x = i /\ r = g
        BY <4>1
      <4> QED BY <4>2 DEF Holders
    <3> QED BY <2>1, <3>1, <3>2, RebuildTo
  <2>3. r > g \/ ~Unnamed(m, x)
    BY <2>1, RebuildTo
  <2>4. CASE Overtaken(g)
    <3>1. CASE x \in Archives(m) /\ r = g
      BY <2>4, <3>1, <1>1 DEF Outlasted
    <3>2. CASE row'[t] = row[t]
      <4>1. /\ x \in stored \ doomed \/ r \in outlasted
            /\ state[x] = Live \/ r \in late
            /\ r \in Nat /\ r <= generation /\ x \in Archives(At(r)) /\ x \in DOMAIN archive
        BY <3>2, RebuildTo DEF IndInv, Held, Sent, Dated
      <4>2. x \in stored \ doomed \/ r \in outlasted'
        BY <4>1, <2>4, <1>1
      <4>3. ASSUME state[x] = Live, x \in m.retired
            PROVE  FALSE
        <5>1. g \in g..Newest /\ (r > g => r \in g..Newest)
          BY <4>1, <1>1
        <5>2. x \notin Archives(m) /\ ~ (r > g)
          BY <4>1, <4>3, <5>1, <1>3
        <5> QED BY <4>1, <5>2, <2>3, <1>2 DEF Unnamed
      <4>4. state[x] = Live => state'[x] = Live
        BY <4>1, <4>3, <1>2, RebuildStates
      <4> QED BY <4>1, <4>2, <4>4, <2>4, <1>1
    <3> QED BY <2>2, <3>1, <3>2
  <2>5. CASE ~Overtaken(g)
    <3>1. ~ (g < generation) /\ Archives(m) \subseteq stored \ doomed
      BY <2>5 DEF Overtaken, Outlasted
    <3>2. x \in Archives(m)
      <4>1. CASE row'[t] = row[t]
        <5>1. r \in Nat /\ r <= generation /\ x \in DOMAIN archive
          BY <4>1, RebuildTo DEF Dated
        <5>2. ~ (r > g)
          BY <5>1, <3>1, <1>1
        <5> QED BY <5>1, <5>2, <2>3, <1>2 DEF Unnamed
      <4> QED BY <4>1, <2>2
    <3>3. g \in generation..Newest
      BY <3>1, <1>1
    <3>4. state[x] < Retired
      BY <3>1, <3>2, <3>3 DEF IndInv, Held, Ended
    <3>5. state'[x] = Live
      BY <3>2, <3>4, <1>2, RebuildStates
    <3> QED BY <3>1, <3>2, <3>5
  <2> QED BY <2>4, <2>5
<1> QED BY <1>4, <1>5, <1>7, <1>8, <1>9 DEF Held

\* A rebuild that is overtaken leaves what the register was told since, but for
\* the tiles that are in no archive any more.
LEMMA RebuildLateRows ==
  ASSUME IndInv, NEW g \in reading, NEW again \in BOOLEAN, NEW read \in Indices(g),
         Rebuild(g, read, again), g < generation, NEW n, n = At(generation),
         NEW t \in Tile, Right(n, t) \/ Ghost(n, t)
  PROVE  Right(n, t)' \/ Ghost(n, t)'
<1> PICK m : m = At(g)
  OBVIOUS
<1> PICK k, r : k = row[t].archive /\ r = row[t].generation
  OBVIOUS
<1>1. /\ g \in 0..Newest /\ Newest \in Nat /\ generation \in Nat /\ generation <= Newest
      /\ generation' = generation /\ late' = late \cup {g}
      /\ UNCHANGED <<archive, publication>> /\ \A h : At(h)' = At(h)
  BY RebuildRest DEF Overtaken
<1>2. \A l, j : Points(l, t, j)' <=> Points(l, t, j)
  BY <1>1 DEF Points, Holders, Archives
<1>3. Holders(n, t)' = Holders(n, t)
  BY <1>1 DEF Holders, Archives
<1>4. r \in Nat /\ k \in DOMAIN archive \cup {0}
  BY DEF IndInv, Inv, TypeOK
<1>5. CASE Holders(n, t) = {}
  <2>1. CASE row'[t] = NoRow
    BY <1>3, <1>5, <2>1 DEF Right, Points, NoRow
  <2>2. CASE row'[t] = row[t]
    <3>1. CASE Right(n, t)
      BY <2>2, <3>1, <1>1, <1>2 DEF Right, Points
    <3>2. CASE Ghost(n, t)
      BY <2>2, <3>2, <1>1, <1>3 DEF Ghost
    <3> QED BY <3>1, <3>2
  <2>3. CASE \E x \in Holders(m, t) : row'[t] = [archive |-> x, generation |-> g]
    <3>1. PICK x \in Holders(m, t) : row'[t] = [archive |-> x, generation |-> g]
      BY <2>3
    <3>2. row'[t].archive = x /\ row'[t].generation = g /\ x # 0
      BY <3>1, RebuildTo
    <3> QED BY <3>2, <1>1, <1>3, <1>5 DEF Ghost
  <2> QED BY <2>1, <2>2, <2>3, RebuildTo
<1>6. CASE Holders(n, t) # {}
  <2>1. Right(n, t) /\ Points(n, t, k) /\ k \in Holders(n, t) /\ k # 0
    BY <1>4, <1>6 DEF Right, Ghost, Points, Holders, Archives, Key
  <2>2. \A h \in r..generation : Points(At(h), t, k)
    BY <2>1 DEF Right
  <2>3. PICK y : /\ Redone(m, g, read, t, y)
                 /\ row'[t] = IF y.generation <= g /\ Unnamed(m, y.archive) THEN NoRow ELSE y
    BY RebuildRow DEF IndInv
  <2>4. CASE r > g
    <3>1. y = row[t]
      BY <2>1, <2>3, <2>4 DEF Redone, Kept
    <3>2. ~ (y.generation <= g)
      BY <3>1, <2>4, <1>1, <1>4
    <3>3. row'[t] = row[t]
      BY <3>1, <3>2, <2>3
    <3> QED BY <3>3, <2>1, <1>1, <1>2 DEF Right, Points
  <2>5. CASE ~ (r > g)
    <3>1. g \in r..generation
      BY <2>5, <1>1, <1>4
    <3>2. Points(m, t, k)
      BY <3>1, <2>2
    <3>3. k \in Holders(m, t) /\ \A j \in Holders(m, t) : m.archives[j] <= m.archives[k]
      BY <3>2, <2>1 DEF Points
    <3>4. y = row[t] \/ y = [archive |-> k, generation |-> g]
      <4>1. CASE Holders(m, t) \cap read = {} /\ y = row[t]
        BY <4>1
      <4>2. CASE \E x \in Holders(m, t) \cap read :
                   /\ \A j \in Holders(m, t) \cap read : m.archives[j] <= m.archives[x]
                   /\ y = IF Kept(row[t], m, g, x) THEN row[t]
                            ELSE [archive |-> x, generation |-> g]
        <5>1. PICK x \in Holders(m, t) \cap read :
                   y = IF Kept(row[t], m, g, x) THEN row[t]
                         ELSE [archive |-> x, generation |-> g]
          BY <4>2
        <5>2. CASE Kept(row[t], m, g, x)
          BY <5>1, <5>2
        <5>3. CASE ~Kept(row[t], m, g, x)
          <6>1. k \notin Later(m, x)
            BY <5>3, <2>1 DEF Kept
          <6>2. /\ k \in Archives(m) /\ x \in Archives(m)
                /\ m.archives[k] \in Nat /\ m.archives[x] \in Nat
            BY <3>3, RebuildStates DEF Holders, Archives, IndInv
          <6>3. m.archives[x] = m.archives[k]
            BY <6>1, <6>2, <3>3 DEF Later
          <6>4. Distinct(m)
            BY <1>1 DEF IndInv, History
          <6>5. x = k
            BY <6>2, <6>3, <6>4 DEF Distinct
          <6> QED BY <6>5, <5>1, <5>3
        <5> QED BY <5>2, <5>3
      <4> QED BY <2>3, <4>1, <4>2 DEF Redone
    <3>5. y.archive = k
      BY <3>4
    <3>6. ~Unnamed(m, k)
      BY <3>3 DEF Unnamed, Holders
    <3>7. row'[t] = y
      BY <2>3, <3>5, <3>6
    <3>8. y.generation \in Nat /\ r <= y.generation
      BY <3>4, <2>5, <1>1, <1>4
    <3>9. \A h \in y.generation..generation : Points(At(h), t, k)
      BY <3>8, <2>2, <1>1, <1>4
    <3> QED BY <3>5, <3>7, <3>9, <2>1, <1>1, <1>2 DEF Right, Points
  <2> QED BY <2>4, <2>5
<1> QED BY <1>5, <1>6

LEMMA RebuildLate ==
  ASSUME IndInv, NEW g \in reading, NEW again \in BOOLEAN, NEW read \in Indices(g),
         Rebuild(g, read, again), g < generation, Sync'
  PROVE  Told(At(generation))'
<1> PICK m : m = At(g)
  OBVIOUS
<1> PICK n : n = At(generation)
  OBVIOUS
<1>1. /\ g \in 0..Newest /\ Newest \in Nat /\ generation \in Nat /\ generation <= Newest
      /\ generation' = generation /\ known' = known \cup read /\ stale' = stale
      /\ rebuilt' = rebuilt /\ ordered' = ordered
      /\ UNCHANGED <<archive, publication, stored, doomed, telling, told>>
      /\ Newest' = Newest /\ \A h : At(h)' = At(h)
  <2>1. stale \in BOOLEAN
    BY DEF IndInv, Inv, TypeOK
  <2>2. ordered' = ordered
    BY RebuildRest
  <2>3. stale' = stale
    BY <2>1, RebuildRest
  <2> QED BY <2>2, <2>3, RebuildRest
<1>2. Sync
  BY <1>1 DEF Sync, CaughtUp
<1>3. Told(n)
  BY <1>2 DEF IndInv
<1>4. At(generation)' = n
  BY <1>1 DEF At
<1>5. /\ Inv /\ History /\ rebuilt \in 0..Newest /\ generation \in g..Newest
      /\ DOMAIN publication = 1..Newest
      /\ \A k \in DOMAIN archive : state[k] # Unheard
  BY <1>1, AtType DEF IndInv, Inv, Books, TypeOK
<1>6. ASSUME NEW k \in Archives(n)
      PROVE  state'[k] = Live /\ k \in known' \ doomed
  <2>1. state[k] = Live /\ k \in known \ doomed /\ k \in Key
    BY <1>3 DEF Told, Archives
  <2>2. k \notin m.retired
    BY <1>1, <1>5, NeverBack
  <2> QED BY <2>1, <2>2, <1>1, <1>5, RebuildStates
<1>7. stale' \/ \A t \in Tile : Right(n, t)' \/ Ghost(n, t)'
  BY <1>1, <1>3, RebuildLateRows DEF Told
<1>8. ASSUME NEW h \in telling, h <= generation, NEW k \in Archives(At(h))
      PROVE  k \in Archives(n) \/ state'[k] >= Retired
  <2>1. k \in Archives(n) \/ state[k] >= Retired
    BY <1>3, <1>8 DEF Told
  <2>2. k \in Key
    BY DEF Archives
  <2>3. state'[k] >= state[k] /\ state[k] \in Unheard..Deleted /\ state'[k] \in Unheard..Deleted
    BY <2>2, <1>5, RebuildStates
  <2> QED BY <2>1, <2>3 DEF Retired, Unheard, Deleted
<1>9. ASSUME NEW k \in Key, state'[k] = Live
      PROVE  k \in Archives(n) \/ Forgotten(k)
  <2>1. CASE state[k] = Live
    BY <2>1, <1>3 DEF Told
  <2>2. CASE k \in Archives(m) /\ state[k] < Live
    <3>0. state[k] \in Unheard..Deleted
      BY <1>5, RebuildStates
    <3>1. \A h \in told \cup {rebuilt} : k \notin Archives(At(h))
      BY <2>2, <3>0 DEF IndInv, Held, Marked, Unheard, Deleted, Live
    <3>2. g \notin told /\ g # rebuilt
      BY <2>2, <3>1
    <3>3. ~ (g > rebuilt)
      <4> SUFFICES ASSUME g > rebuilt PROVE FALSE
        OBVIOUS
      <4>1. g \in DOMAIN publication
        BY <1>1, <1>5
      <4>2. g \in telling
        BY <4>1, <3>2, <1>2 DEF IndInv, Books, Sync
      <4> QED BY <4>2, <3>2, <1>2 DEF Sync, CaughtUp
    <3>4. rebuilt \in g..Newest
      BY <3>2, <3>3, <1>1, <1>5
    <3>5. k \notin At(rebuilt).retired
      BY <2>2, <3>0 DEF IndInv, Held, Marked, Unheard, Deleted, Live, Retired
    <3>6. k \notin Named(At(rebuilt))
      BY <3>1, <3>5 DEF Named
    <3>7. \A i \in rebuilt..Newest : k \notin Named(At(i))
      BY <2>2, <3>4, <3>6, <1>1, <1>5, NeverNamed
    <3> QED BY <3>7 DEF Forgotten
  <2> QED BY <2>1, <2>2, <1>5, <1>9, RebuildStates
<1>10. \A k \in Key : Forgotten(k)' <=> Forgotten(k)
  BY <1>1 DEF Forgotten, Named, Archives
<1>11. Archives(n)' = Archives(n) /\ \A h \in telling : Archives(At(h))' = Archives(At(h))
  BY <1>1 DEF Archives
<1>12. Told(n)'
  BY <1>1, <1>6, <1>7, <1>8, <1>9, <1>10, <1>11 DEF Told
<1> QED BY <1>4, <1>12

\* A rebuild that is not overtaken leaves what the manifest it read lists.
LEMMA RebuildTimelyRows ==
  ASSUME IndInv, NEW g \in reading, NEW again \in BOOLEAN, NEW read \in Indices(g),
         Rebuild(g, read, again), ~ (g < generation), NEW m, m = At(g),
         read = Archives(m), NEW t \in Tile
  PROVE  Right(m, t)'
<1> PICK k, r : k = row[t].archive /\ r = row[t].generation
  OBVIOUS
<1>1. /\ g \in 0..Newest /\ Newest \in Nat /\ generation \in Nat
      /\ generation' = g /\ \A h : At(h)' = At(h)
      /\ UNCHANGED <<archive, publication>>
  BY RebuildRest
<1>2. /\ r \in Nat /\ k \in DOMAIN archive \cup {0} /\ r <= g
      /\ k # 0 => archive[k][t] # 0
  BY <1>1, RebuildTo DEF Dated
<1>3. \A l, j : Points(l, t, j)' <=> Points(l, t, j)
  BY <1>1 DEF Points, Holders, Archives
<1>4. /\ \A j \in Key : m.archives[j] \in Nat
      /\ DOMAIN archive \subseteq Key /\ \A j \in DOMAIN archive : state[j] # Unheard
  BY RebuildStates DEF IndInv, Books
<1>5. Holders(m, t) \subseteq Archives(m) /\ (k \in Archives(m) => k \in Holders(m, t))
      /\ 0 \notin Holders(m, t)
  BY <1>2 DEF Holders, Archives, Key
<1>6. PICK y : /\ Redone(m, g, read, t, y)
               /\ row'[t] = IF y.generation <= g /\ Unnamed(m, y.archive) THEN NoRow ELSE y
  BY RebuildRow DEF IndInv
<1>7. CASE Holders(m, t) = {}
  <2>1. y = row[t]
    BY <1>6, <1>7 DEF Redone
  <2>2. k \notin Archives(m)
    BY <1>5, <1>7
  <2>3. k # 0 => Unnamed(m, k)
    BY <2>2, <1>2, <1>4 DEF Unnamed
  <2>4. row'[t].archive = 0
    BY <2>1, <2>3, <1>2, <1>6 DEF NoRow
  <2> QED BY <2>4, <1>3, <1>7 DEF Right, Points
<1>8. CASE Holders(m, t) # {}
  <2>1. PICK x \in Holders(m, t) :
          /\ \A j \in Holders(m, t) : m.archives[j] <= m.archives[x]
          /\ y = IF Kept(row[t], m, g, x) THEN row[t] ELSE [archive |-> x, generation |-> g]
    BY <1>5, <1>6, <1>8 DEF Redone
  <2>2. ASSUME Kept(row[t], m, g, x)
        PROVE  FALSE
    <3>1. k \in Archives(m) /\ m.archives[k] > m.archives[x]
      BY <2>2, <1>1, <1>2 DEF Kept, Later
    <3>2. k \in Key /\ x \in Key
      BY <3>1 DEF Archives, Holders
    <3> QED BY <2>1, <3>1, <3>2, <1>4, <1>5
  <2>3. y = [archive |-> x, generation |-> g]
    BY <2>1, <2>2
  <2>4. y.archive = x /\ y.generation = g
    BY <2>3
  <2>5. ~Unnamed(m, x)
    BY <1>5 DEF Unnamed
  <2>6. row'[t] = y
    BY <2>4, <2>5, <1>6
  <2>7. Points(m, t, x)
    BY <2>1 DEF Points
  <2>8. \A h \in g..g : At(h) = m
    BY <1>1
  <2> QED BY <2>4, <2>6, <2>7, <2>8, <1>1, <1>3 DEF Right, Points
<1> QED BY <1>7, <1>8

LEMMA RebuildTimely ==
  ASSUME IndInv, NEW g \in reading, NEW again \in BOOLEAN, NEW read \in Indices(g),
         Rebuild(g, read, again), ~ (g < generation), Sync'
  PROVE  Told(At(generation))'
<1> PICK m : m = At(g)
  OBVIOUS
<1>1. /\ g \in 0..Newest /\ Newest \in Nat /\ generation \in Nat
      /\ generation' = g /\ known' = known \cup read
      /\ rebuilt' = g
      /\ UNCHANGED <<archive, publication, stored, doomed, telling, told>>
      /\ Newest' = Newest /\ \A h : At(h)' = At(h)
  BY RebuildRest
<1>2. (g + 1)..Newest \subseteq telling
  <2>1. ordered'
    BY DEF Sync
  <2>2. ordered' = ((g + 1)..Newest \subseteq telling)
    BY RebuildRest, Zenon
  <2> QED BY <2>1, <2>2, Zenon
<1>3. /\ Inv /\ History /\ g \in generation..Newest
      /\ \A k \in DOMAIN archive : state[k] # Unheard
      /\ read \subseteq Archives(m) /\ Archives(m) \subseteq Key
      /\ telling \subseteq 1..Newest
      /\ m.retired \subseteq DOMAIN archive /\ DOMAIN archive \subseteq Key
  <2>1. /\ Inv /\ History /\ g \in generation..Newest
        /\ \A k \in DOMAIN archive : state[k] # Unheard
    BY <1>1 DEF IndInv, Books
  <2>2. /\ read \subseteq Archives(m) /\ m.retired \subseteq DOMAIN archive
        /\ DOMAIN archive \subseteq Key
    BY <2>1, RebuildStates
  <2>3. telling \subseteq 1..Newest
    BY <2>1, AtType DEF Inv, TypeOK
  <2> QED BY <2>1, <2>2, <2>3 DEF Archives
<1>4. Archives(m) \subseteq stored \ doomed
  BY <1>1, <1>2 DEF IndInv, Held, Window
<1>5. read = Archives(m)
  BY <1>3, <1>4 DEF Indices
<1>6. ASSUME NEW k \in Archives(m)
      PROVE  state'[k] = Live /\ k \in known' \ doomed
  <2>1. state[k] < Retired
    BY <1>3, <1>4 DEF IndInv, Held, Ended
  <2> QED BY <2>1, <1>1, <1>3, <1>4, <1>5, RebuildStates
<1>7. \A t \in Tile : Right(m, t)'
  BY <1>5, RebuildTimelyRows
<1>8. ASSUME NEW h \in telling, h <= g, NEW k \in Archives(At(h))
      PROVE  k \in Archives(m) \/ state'[k] >= Retired
  <2>1. g \in h..Newest
    BY <1>1, <1>3, <1>8
  <2>2. k \in Named(m)
    BY <2>1 DEF IndInv, Books
  <2>3. CASE k \in m.retired /\ k \notin Archives(m)
    BY <2>3, <1>3, RebuildStates
  <2> QED BY <2>2, <2>3 DEF Named
<1>9. ASSUME NEW k \in Key, state'[k] = Live
      PROVE  k \in Archives(m) \/ \A i \in g..Newest : k \notin Named(At(i))
  <2> SUFFICES ASSUME k \notin Archives(m), NEW i \in g..Newest PROVE k \notin Named(At(i))
    OBVIOUS
  <2>1. state[k] = Live
    BY <1>3, <1>9, RebuildStates
  <2>2. PICK h \in 0..generation : k \in Archives(At(h))
    BY <2>1 DEF IndInv, Held, Marked
  <2>3. h \in 0..Newest /\ g \in h..Newest
    BY <1>1, <1>3, <2>2
  <2>4. k \notin m.retired
    <3>1. k \in m.retired => state'[k] >= Retired
      BY <1>3, RebuildStates
    <3> QED BY <3>1, <1>9 DEF Live, Retired
  <2> QED BY <2>2, <2>3, <2>4, <1>3, NeverNamed DEF Named
<1>10. \A k \in Key : Forgotten(k)' <=> \A i \in g..Newest : k \notin Named(At(i))
  BY <1>1 DEF Forgotten, Named, Archives
<1>11. Archives(m)' = Archives(m) /\ \A h \in telling : Archives(At(h))' = Archives(At(h))
  BY <1>1 DEF Archives
<1>12. At(generation)' = m
  BY <1>1 DEF At
<1>13. Told(m)'
  BY <1>1, <1>6, <1>7, <1>8, <1>9, <1>10, <1>11 DEF Told
<1> QED BY <1>12, <1>13

LEMMA RebuildKeeps ==
  ASSUME IndInv, Inv', NEW g \in reading, NEW again \in BOOLEAN, NEW read \in Indices(g),
         Rebuild(g, read, again)
  PROVE  IndInv'
<1>1. History'
  BY RebuildRest
<1>2. Books'
  BY RebuildBooks
<1>3. Held'
  BY RebuildHeld
<1>4. Sync' => Told(At(generation))'
  BY RebuildLate, RebuildTimely
<1> QED BY <1>1, <1>2, <1>3, <1>4 DEF IndInv

-----------------------------------------------------------------------------
(* A publication told.                                                      *)

\* The rows once p, published at g, has given its tiles.
Given(p, g) == IF AddsTiles(p) THEN ApplyTiles(p, g, p.added) ELSE row

\* What a publication tells of the archives.
LEMMA TellStates ==
  ASSUME IndInv, NEW g \in telling, NEW again \in BOOLEAN, Tell(g, again),
         NEW p, p = At(g)
  PROVE  /\ p = publication[g] /\ p \in Publication /\ g \in 1..Newest /\ g \in 0..Newest
         /\ p.added \in Archives(p) \cup {0} /\ Archives(p) \cap doomed = {}
         /\ Archives(p) \subseteq DOMAIN archive /\ DOMAIN archive \subseteq Key
         /\ p.added # 0 => p.added \in Key
         /\ \A k \in Key :
              /\ state[k] \in Unheard..Deleted /\ state'[k] \in Unheard..Deleted
              /\ state'[k] >= state[k]
              /\ state'[k] = Live =>
                   k \notin p.replaced /\ (state[k] = Live \/ (k \in Archives(p) /\ state[k] < Live))
              /\ k \notin p.replaced /\ state[k] = Live => state'[k] = Live
              /\ k \notin p.replaced /\ k \in Archives(p) /\ state[k] < Retired => state'[k] = Live
              /\ k \notin p.replaced /\ k \notin Archives(p) => state'[k] = state[k]
              /\ k \in p.replaced /\ state[k] # Unheard => state'[k] >= Retired
         /\ AddsTiles(p) <=> p.added # 0 /\ state[p.added] < Retired
<1>1. /\ p = publication[g] /\ g \in 1..Newest /\ g \in 0..Newest /\ p \in Publication
      /\ DOMAIN archive \subseteq Key /\ Archives(p) \subseteq DOMAIN archive
      /\ state \in [Key -> Unheard..Deleted]
  <2>1. g \in 1..Newest /\ g \in 0..Newest /\ p \in Publication /\ p = publication[g]
    BY AtType DEF IndInv, Inv, TypeOK
  <2>2. Archives(At(g)) \subseteq DOMAIN archive
    BY <2>1 DEF IndInv, Inv, Listed
  <2> QED BY <2>1, <2>2, ListedAre DEF IndInv, Inv, TypeOK
<1>2. p.added \in Archives(p) \cup {0} /\ Archives(p) \cap doomed = {}
  BY <1>1 DEF IndInv, Inv, Tellable
<1>3. \A k \in Key : Heard(p)[k] = IF k \in Archives(p) THEN Forward(state[k], Live) ELSE state[k]
  BY DEF Heard
<1>4. \A k \in Key : state'[k] = IF k \in p.replaced /\ Heard(p)[k] # Unheard
                                   THEN Forward(Heard(p)[k], Retired) ELSE Heard(p)[k]
  BY <1>1 DEF Tell
<1>5. p.added # 0 => p.added \in Key
  BY <1>1, <1>2
<1>6. ASSUME NEW k \in Key
      PROVE  /\ state[k] \in Unheard..Deleted /\ state'[k] \in Unheard..Deleted
             /\ state'[k] >= state[k]
             /\ state'[k] = Live =>
                  k \notin p.replaced /\ (state[k] = Live \/ (k \in Archives(p) /\ state[k] < Live))
             /\ k \notin p.replaced /\ state[k] = Live => state'[k] = Live
             /\ k \notin p.replaced /\ k \in Archives(p) /\ state[k] < Retired => state'[k] = Live
             /\ k \notin p.replaced /\ k \notin Archives(p) => state'[k] = state[k]
             /\ k \in p.replaced /\ state[k] # Unheard => state'[k] >= Retired
  <2> PICK s, h : s = state[k] /\ h = Heard(p)[k]
    OBVIOUS
  <2>1. s \in Unheard..Deleted
    BY <1>1
  <2>2. h = IF k \in Archives(p) THEN Forward(s, Live) ELSE s
    BY <1>3
  <2>3. state'[k] = IF k \in p.replaced /\ h # Unheard THEN Forward(h, Retired) ELSE h
    BY <1>4
  <2> QED BY <2>1, <2>2, <2>3 DEF Forward, Unheard, Deleted, Live, Retired
<1>7. AddsTiles(p) <=> p.added # 0 /\ state[p.added] < Retired
  <2>1. ASSUME p.added # 0
        PROVE  Heard(p)[p.added] = Live <=> state[p.added] < Retired
    BY <2>1, <1>1, <1>2, <1>3, <1>5 DEF Forward, Unheard, Deleted, Live, Retired
  <2> QED BY <2>1 DEF AddsTiles
<1> HIDE DEF AddsTiles
<1> QED BY <1>1, <1>2, <1>5, <1>6, <1>7

\* What it tells of the rows.
LEMMA TellRows ==
  ASSUME IndInv, NEW g \in telling, NEW again \in BOOLEAN, Tell(g, again),
         NEW p, p = At(g)
  PROVE  /\ \A t \in Tile :
              /\ Given(p, g)[t] =
                   IF AddsTiles(p) /\ archive[p.added][t] # 0 /\ ~Kept(row[t], p, g, p.added)
                     THEN [archive |-> p.added, generation |-> g] ELSE row[t]
              /\ row'[t] = IF Given(p, g)[t].archive \in p.replaced THEN NoRow ELSE Given(p, g)[t]
         /\ known' = (IF AddsTiles(p) THEN known \cup {p.added} ELSE known)
         /\ stale' = (stale \/ (p.uncovering
                                /\ \E t \in Tile : Given(p, g)[t].archive \in p.replaced))
         /\ telling' \subseteq telling /\ telling \ {g} \subseteq telling'
         /\ generation' = Forward(generation, g) /\ told' = told \cup {g}
         /\ ordered' => ordered /\ (g \in told \/ g > generation \/ g <= rebuilt)
         /\ UNCHANGED <<archive, publication, stored, cleanVars, missed, readVars>>
<1>1. p = publication[g]
  BY TellStates
<1>2. /\ telling' = (IF again THEN telling ELSE telling \ {g})
      /\ known' = (IF AddsTiles(p) THEN known \cup {p.added} ELSE known)
      /\ row' = Without(Given(p, g), p.replaced)
      /\ generation' = Forward(generation, g)
      /\ stale' = (stale \/ (p.uncovering
                             /\ \E t \in Tile : Given(p, g)[t].archive \in p.replaced))
      /\ told' = told \cup {g}
      /\ ordered' = (ordered /\ (g \in told \/ g > generation \/ g <= rebuilt))
      /\ UNCHANGED <<archive, publication, stored, cleanVars, missed, readVars>>
  BY <1>1 DEF Tell, Given
<1>3. ASSUME NEW t \in Tile
      PROVE  Given(p, g)[t] =
               IF AddsTiles(p) /\ archive[p.added][t] # 0 /\ ~Kept(row[t], p, g, p.added)
                 THEN [archive |-> p.added, generation |-> g] ELSE row[t]
  BY DEF Given, ApplyTiles, TilesOf
<1>4. \A t \in Tile :
        row'[t] = IF Given(p, g)[t].archive \in p.replaced THEN NoRow ELSE Given(p, g)[t]
  BY <1>2 DEF Without
<1>5. ordered' => ordered /\ (g \in told \/ g > generation \/ g <= rebuilt)
  BY <1>2, Zenon
<1> QED BY <1>2, <1>3, <1>4, <1>5

LEMMA TellBooks ==
  ASSUME IndInv, Inv', NEW g \in telling, NEW again \in BOOLEAN, Tell(g, again)
  PROVE  Books'
<1> PICK p : p = At(g)
  OBVIOUS
<1>0. /\ stale' = (stale \/ (p.uncovering
                             /\ \E t \in Tile : Given(p, g)[t].archive \in p.replaced))
      /\ telling' \subseteq telling /\ telling \ {g} \subseteq telling'
      /\ generation' = Forward(generation, g) /\ told' = told \cup {g}
      /\ ordered' => ordered
      /\ UNCHANGED <<archive, publication, rebuilt>>
  BY TellRows DEF readVars
<1>1. /\ Newest' = Newest /\ Manifest' = Manifest
      /\ \A h : At(h)' = At(h)
  BY <1>0, HistoryStays
<1>2. /\ generation \in Nat /\ Newest \in Nat /\ g \in 1..Newest
      /\ telling \subseteq 1..Newest /\ told \subseteq 1..Newest /\ rebuilt \in Nat
      /\ DOMAIN archive \subseteq Key /\ DOMAIN publication = 1..Newest
  <2>1. TypeOK
    BY DEF IndInv, Inv
  <2>2. Newest \in Nat /\ DOMAIN publication = 1..Newest
    BY <2>1, AtType
  <2>3. DOMAIN archive \subseteq Key
    BY ListedAre DEF IndInv
  <2> QED BY <2>1, <2>2, <2>3 DEF TypeOK
<1>3. /\ generation' \in Nat /\ generation' >= generation /\ generation' >= g
      /\ generation' <= Newest
  <2>1. generation <= Newest
    BY DEF IndInv, Books
  <2> QED BY <2>1, <1>0, <1>2 DEF Forward
<1>4. rebuilt' <= generation' /\ generation' <= Newest' /\ \A h \in told' : h <= generation'
  <2>1. rebuilt <= generation /\ \A h \in told : h <= generation
    BY DEF IndInv, Books
  <2> QED BY <2>1, <1>0, <1>1, <1>2, <1>3
<1>5. \A k \in DOMAIN archive : state'[k] # Unheard
  <2> SUFFICES ASSUME NEW k \in DOMAIN archive PROVE state'[k] # Unheard
    OBVIOUS
  <2>1. k \in Key /\ state[k] # Unheard
    BY <1>2 DEF IndInv, Books
  <2>2. state'[k] >= state[k] /\ state[k] \in Unheard..Deleted /\ state'[k] \in Unheard..Deleted
    BY <2>1, TellStates
  <2> QED BY <2>1, <2>2 DEF Unheard, Deleted
<1>6. ordered' => \A h \in DOMAIN publication : h > rebuilt => h \in told' \cup telling'
  BY <1>0 DEF IndInv, Books
<1>8. stale' => \E h \in DOMAIN publication : publication[h].uncovering
  <2>1. stale => \E h \in DOMAIN publication : publication[h].uncovering
    BY DEF IndInv, Books
  <2>2. p.uncovering => \E h \in DOMAIN publication : publication[h].uncovering
    BY <1>2, TellStates
  <2> QED BY <2>1, <2>2, <1>0
<1>9. ASSUME NEW t \in Tile
      PROVE  Dated(t)'
  <2> PICK r : r = row'[t]
    OBVIOUS
  <2>1. Dated(t) /\ row[t].generation \in Nat
    BY DEF IndInv, Books, Inv, TypeOK
  <2>2. r = NoRow \/ r = row[t] \/ (r = [archive |-> p.added, generation |-> g]
                                    /\ p.added # 0 /\ archive[p.added][t] # 0)
    BY TellRows DEF AddsTiles
  <2>3. r.generation <= generation'
    BY <2>1, <2>2, <1>2, <1>3 DEF NoRow, Dated
  <2>4. r.archive # 0 => r.archive \in Archives(At(r.generation)) /\ archive[r.archive][t] # 0
    BY <2>1, <2>2, TellStates DEF NoRow, Dated
  <2>5. At(row[t].generation)' = At(r.generation)
    BY TellRows DEF At
  <2> QED BY <2>3, <2>4, <2>5, TellRows DEF Dated, Archives
<1>10. (\A h \in telling : \A i \in h..Newest : Archives(At(h)) \subseteq Named(At(i)))'
  BY <1>0, <1>1 DEF IndInv, Books, Archives, Named
<1> QED BY <1>0, <1>4, <1>5, <1>6, <1>8, <1>9, <1>10 DEF Books

\* A row is what p gave, unless p replaced that.
LEMMA TellRow ==
  ASSUME IndInv, NEW g \in telling, NEW again \in BOOLEAN, Tell(g, again),
         NEW p, p = At(g), NEW t \in Tile, row'[t] # NoRow
  PROVE  /\ row'[t] = Given(p, g)[t] /\ Given(p, g)[t].archive \notin p.replaced
         /\ \/ Given(p, g)[t] = row[t]
            \/ AddsTiles(p) /\ Given(p, g)[t] = [archive |-> p.added, generation |-> g]
<1>1. /\ Given(p, g)[t] =
           IF AddsTiles(p) /\ archive[p.added][t] # 0 /\ ~Kept(row[t], p, g, p.added)
             THEN [archive |-> p.added, generation |-> g] ELSE row[t]
      /\ row'[t] = IF Given(p, g)[t].archive \in p.replaced THEN NoRow ELSE Given(p, g)[t]
  BY TellRows
<1> QED BY <1>1

LEMMA TellHeld ==
  ASSUME IndInv, NEW g \in telling, NEW again \in BOOLEAN, Tell(g, again)
  PROVE  Held'
<1> PICK p : p = At(g)
  OBVIOUS
<1>0. /\ telling' \subseteq telling
      /\ generation' = Forward(generation, g) /\ told' = told \cup {g}
      /\ UNCHANGED <<archive, publication, stored, doomed, rebuilt, late, outlasted>>
  BY TellRows DEF cleanVars, readVars
<1>1. /\ Newest' = Newest /\ \A h : At(h)' = At(h)
  BY <1>0, HistoryStays
<1>2. /\ Inv /\ History /\ generation \in Nat /\ Newest \in Nat /\ g \in 0..Newest
      /\ generation' \in Nat /\ generation' >= generation /\ generation' >= g
      /\ rebuilt \in 0..Newest
  <2>1. /\ TypeOK /\ generation <= Newest /\ rebuilt <= generation
    BY DEF IndInv, Inv, Books
  <2>2. Newest \in Nat /\ g \in 0..Newest /\ generation \in Nat /\ rebuilt \in Nat
    BY <2>1, AtType, TellStates DEF TypeOK
  <2> QED BY <2>1, <2>2, <1>0 DEF Forward, IndInv
<1>3. \A h \in g..Newest : \A k \in Archives(At(h)) : k \notin p.replaced
  BY <1>2, NeverBack
<1>4. \A k \in Key : /\ state[k] >= Live => state'[k] >= Live
                     /\ state[k] >= Retired => state'[k] >= Retired
                     /\ k \in Archives(p) => state'[k] >= Live
                     /\ k \notin p.replaced /\ state[k] < Retired => state'[k] < Retired
                     /\ state'[k] = Live => state[k] = Live \/ k \in Archives(p)
  <2> SUFFICES ASSUME NEW k \in Key
               PROVE  /\ state[k] >= Live => state'[k] >= Live
                      /\ state[k] >= Retired => state'[k] >= Retired
                      /\ k \in Archives(p) => state'[k] >= Live
                      /\ k \notin p.replaced /\ state[k] < Retired => state'[k] < Retired
                      /\ state'[k] = Live => state[k] = Live \/ k \in Archives(p)
    OBVIOUS
  <2>1. g \in g..Newest
    BY <1>2
  <2>2. k \in Archives(p) => k \notin p.replaced
    BY <2>1, <1>3
  <2>3. /\ state[k] \in Unheard..Deleted /\ state'[k] \in Unheard..Deleted
        /\ state'[k] >= state[k]
        /\ state'[k] = Live =>
             k \notin p.replaced /\ (state[k] = Live \/ (k \in Archives(p) /\ state[k] < Live))
        /\ k \notin p.replaced /\ k \in Archives(p) /\ state[k] < Retired => state'[k] = Live
        /\ k \notin p.replaced /\ k \notin Archives(p) => state'[k] = state[k]
    BY TellStates
  <2> QED BY <2>2, <2>3 DEF Unheard, Deleted, Live, Retired
<1>5. Window'
  BY <1>0, <1>1 DEF IndInv, Held, Window, Archives
<1>6. Ended'
  <2> SUFFICES ASSUME NEW h \in generation'..Newest, NEW k \in Archives(At(h)) \cap stored
               PROVE  state'[k] < Retired
    BY <1>0, <1>1 DEF Ended, Archives
  <2>1. h \in generation..Newest /\ h \in g..Newest /\ k \in Key
    BY <1>2 DEF Archives
  <2>2. state[k] < Retired /\ k \notin p.replaced
    BY <2>1, <1>3 DEF IndInv, Held, Ended
  <2> QED BY <2>1, <2>2, <1>4
<1>7. Marked'
  <2>1. \A h \in told \cup {g} \cup {rebuilt} : \A k \in Archives(At(h)) : state'[k] >= Live
    <3> SUFFICES ASSUME NEW h \in told \cup {g} \cup {rebuilt}, NEW k \in Archives(At(h))
                 PROVE  state'[k] >= Live
      OBVIOUS
    <3>1. k \in Key
      BY DEF Archives
    <3>2. h = g \/ state[k] >= Live
      BY DEF IndInv, Held, Marked
    <3> QED BY <3>1, <3>2, <1>4
  <2>2. At(rebuilt).retired \subseteq Key
    <3>1. At(rebuilt).retired \subseteq DOMAIN archive
      BY <1>2 DEF Inv, Gone
    <3> QED BY <3>1, TellStates
  <2>3. \A k \in At(rebuilt).retired : state'[k] >= Retired
    BY <2>2, <1>4 DEF IndInv, Held, Marked
  <2>4. At(rebuilt)' = At(rebuilt)
    BY <1>0 DEF At
  <2>5. ASSUME NEW k \in Key, state'[k] = Live
        PROVE  \E h \in 0..generation' : k \in Archives(At(h))
    <3>1. state[k] = Live \/ k \in Archives(p)
      BY <2>5, <1>4
    <3>2. state[k] = Live => \E h \in 0..generation : k \in Archives(At(h))
      BY DEF IndInv, Held, Marked
    <3>3. g \in 0..generation' /\ 0..generation \subseteq 0..generation'
      BY <1>2
    <3> QED BY <3>1, <3>2, <3>3
  <2>6. (\A h \in told \cup {rebuilt} : \A k \in Archives(At(h)) : state[k] >= Live)'
    BY <2>1, <1>0, <1>1 DEF Archives
  <2>7. (\A k \in At(rebuilt).retired : state[k] >= Retired)'
    BY <2>3, <2>4
  <2>8. (\A k \in Key : state[k] = Live => \E h \in 0..generation : k \in Archives(At(h)))'
    BY <2>5, <1>1 DEF Archives
  <2> QED BY <2>6, <2>7, <2>8 DEF Marked
<1>8. ASSUME NEW t \in Tile
      PROVE  Sent(t)'
  <2> SUFFICES ASSUME NEW x, NEW r, x = row'[t].archive, r = row'[t].generation, x # 0
               PROVE  /\ x \in stored \ doomed \/ r \in outlasted
                      /\ state'[x] = Live \/ r \in late
    BY <1>0 DEF Sent
  <2>1. /\ row'[t] = Given(p, g)[t] /\ x \notin p.replaced
        /\ Given(p, g)[t] = row[t] \/ (AddsTiles(p) /\ x = p.added)
    <3>1. row'[t] # NoRow
      BY DEF NoRow
    <3>2. /\ row'[t] = Given(p, g)[t] /\ Given(p, g)[t].archive \notin p.replaced
          /\ \/ Given(p, g)[t] = row[t]
             \/ AddsTiles(p) /\ Given(p, g)[t] = [archive |-> p.added, generation |-> g]
      BY <3>1, TellRow
    <3> QED BY <3>1, <3>2
  <2>2. CASE row'[t] = row[t]
    <3>1. /\ x \in stored \ doomed \/ r \in outlasted
          /\ state[x] = Live \/ r \in late
          /\ x \in DOMAIN archive
      BY <2>2 DEF IndInv, Held, Sent, Inv, TypeOK
    <3>2. state[x] = Live => state'[x] = Live
      BY <3>1, <2>1, TellStates
    <3> QED BY <3>1, <3>2
  <2>3. CASE AddsTiles(p) /\ x = p.added
    <3>1. x \in Archives(p) /\ x \in Key /\ state[x] < Retired
      BY <2>3, TellStates
    <3>2. x \in stored \ doomed
      BY <3>1, <1>2 DEF Inv, Tellable
    <3>3. state'[x] = Live
      BY <3>1, <2>1, TellStates
    <3> QED BY <3>2, <3>3
  <2> QED BY <2>1, <2>2, <2>3
<1>9. outlasted' \subseteq late'
  BY <1>0 DEF IndInv, Held
<1> QED BY <1>5, <1>6, <1>7, <1>8, <1>9 DEF Held

\* What was caught up with after a publication was told was so before.
LEMMA TellSync ==
  ASSUME IndInv, NEW g \in telling, NEW again \in BOOLEAN, Tell(g, again), Sync'
  PROVE  Sync
<1>0. /\ telling \ {g} \subseteq telling' /\ told' = told \cup {g}
      /\ generation' = Forward(generation, g) /\ rebuilt' = rebuilt
      /\ ordered' => ordered /\ (g \in told \/ g > generation \/ g <= rebuilt)
  BY TellRows DEF readVars
<1>1. /\ generation \in Nat /\ rebuilt \in Nat /\ telling \subseteq Nat
      /\ ordered' /\ CaughtUp'
  BY DEF IndInv, Inv, TypeOK, Sync
<1>2. ordered /\ (g \in told \/ g > generation \/ g <= rebuilt)
  BY <1>0, <1>1
<1>3. ASSUME NEW h \in telling \ told, rebuilt < h, h < generation
      PROVE  FALSE
  <2>1. h # g
    BY <1>1, <1>2, <1>3
  <2>2. h \in telling' \ told' /\ h < generation'
    BY <2>1, <1>0, <1>1, <1>3 DEF Forward
  <2> QED BY <2>2, <1>0, <1>1, <1>3 DEF CaughtUp
<1> QED BY <1>2, <1>3 DEF Sync, CaughtUp

\* What an old publication tells changes no row of a book that is right.
LEMMA ReplayRow ==
  ASSUME IndInv, NEW g \in telling, NEW again \in BOOLEAN, Tell(g, again),
         NEW p, p = At(g), g <= generation, NEW m, m = At(generation), Told(m),
         NEW t \in Tile, Right(m, t) \/ Ghost(m, t)
  PROVE  Right(m, t)' \/ Ghost(m, t)'
<1> PICK x, r : x = row[t].archive /\ r = row[t].generation
  OBVIOUS
<1> PICK a : a = p.added
  OBVIOUS
<1>0. /\ generation \in 0..Newest /\ g \in 0..generation /\ g \in 0..Newest
      /\ p \in Publication /\ r \in Nat /\ Newest \in Nat /\ generation \in Nat
      /\ Inv /\ History /\ Distinct(p)
      /\ generation' = generation /\ late' = late
      /\ UNCHANGED <<archive, publication>>
  <2>1. generation \in Nat /\ g \in 1..Newest /\ Newest \in Nat /\ generation <= Newest
    BY AtType, TellStates DEF IndInv, Inv, TypeOK, Books
  <2>2. r \in Nat /\ p \in Publication /\ Inv /\ History
    BY TellStates DEF IndInv, Inv, TypeOK
  <2>3. Distinct(p)
    BY <2>1 DEF IndInv, History
  <2>4. /\ generation' = Forward(generation, g) /\ UNCHANGED readVars
        /\ UNCHANGED <<archive, publication>>
    BY TellRows
  <2>5. generation' = generation
    BY <2>1, <2>4 DEF Forward
  <2> QED BY <2>1, <2>2, <2>3, <2>4, <2>5 DEF readVars
<1>1. \A h : At(h)' = At(h)
  BY <1>0, HistoryStays
<1>2. /\ Given(p, g)[t] = IF AddsTiles(p) /\ archive[a][t] # 0 /\ ~Kept(row[t], p, g, a)
                            THEN [archive |-> a, generation |-> g] ELSE row[t]
      /\ row'[t] = IF Given(p, g)[t].archive \in p.replaced THEN NoRow ELSE Given(p, g)[t]
  BY TellRows
<1>3. /\ \A l, j : Points(l, t, j)' <=> Points(l, t, j)
      /\ Holders(m, t)' = Holders(m, t)
  BY <1>0 DEF Points, Holders, Archives
<1>4. ASSUME AddsTiles(p), archive[a][t] # 0
      PROVE  a \in Holders(m, t) /\ a \in Holders(p, t)
  <2>1. a # 0 /\ a \in Archives(p) /\ ~ (state[a] >= Retired)
    <3>1. p.added # 0 /\ state[p.added] < Retired /\ p.added \in Archives(p) /\ p.added \in Key
          /\ state[p.added] \in Unheard..Deleted
      BY <1>4, TellStates
    <3> QED BY <3>1 DEF Unheard, Deleted, Retired
  <2>2. a \in Archives(m)
    BY <2>1 DEF Told
  <2> QED BY <2>1, <2>2, <1>4 DEF Holders
<1>5. CASE Holders(m, t) = {}
  <2>1. Given(p, g)[t] = row[t]
    BY <1>2, <1>4, <1>5
  <2>2. row'[t] = NoRow \/ row'[t] = row[t]
    BY <2>1, <1>2
  <2>3. CASE row'[t] = NoRow
    BY <2>3, <1>3, <1>5 DEF Right, Points, NoRow
  <2>4. CASE row'[t] = row[t]
    <3>1. CASE Right(m, t)
      BY <2>4, <3>1, <1>0, <1>1, <1>3 DEF Right, Points
    <3>2. CASE Ghost(m, t)
      BY <2>4, <3>2, <1>0, <1>3 DEF Ghost
    <3> QED BY <3>1, <3>2
  <2> QED BY <2>2, <2>3, <2>4
<1>6. CASE Holders(m, t) # {}
  <2>1. Right(m, t) /\ x \in Holders(m, t) /\ x # 0
    BY <1>6 DEF Right, Ghost, Points, Holders, Archives, Key
  <2>2. x \notin p.replaced
    <3>1. x \in Archives(At(generation))
      BY <2>1 DEF Holders
    <3> QED BY <3>1, <1>0, NeverBack
  <2>3. CASE Given(p, g)[t] = row[t]
    <3>1. row'[t] = row[t]
      BY <2>2, <2>3, <1>2
    <3> QED BY <3>1, <2>1, <1>0, <1>1, <1>3 DEF Right, Points
  <2>4. CASE AddsTiles(p) /\ archive[a][t] # 0 /\ ~Kept(row[t], p, g, a)
    <3>1. ~ (r > g) /\ x \notin Later(p, a)
      BY <2>1, <2>4 DEF Kept
    <3>2. g \in r..generation
      BY <3>1, <1>0
    <3>3. Points(p, t, x)
      BY <3>2, <2>1 DEF Right
    <3>4. x \in Archives(p) /\ a \in Archives(p) /\ p.archives[a] <= p.archives[x]
      BY <3>3, <2>1, <2>4, <1>4 DEF Points, Holders
    <3>5. p.archives[a] \in Nat /\ p.archives[x] \in Nat
      BY <3>4, <1>0 DEF Archives, Publication
    <3>6. p.archives[a] = p.archives[x]
      BY <3>1, <3>4, <3>5 DEF Later
    <3>7. a = x
      BY <3>4, <3>6, <1>0 DEF Distinct
    <3>8. Given(p, g)[t] = [archive |-> x, generation |-> g]
      BY <3>7, <2>4, <1>2
    <3>9. row'[t].archive = x /\ row'[t].generation = g
      BY <3>8, <2>2, <1>2
    <3>10. \A h \in g..generation : Points(At(h), t, x)
      <4>1. \A h \in g..generation : h \in r..generation
        BY <3>2, <1>0
      <4> QED BY <4>1, <2>1 DEF Right
    <3>11. Points(m, t, x)
      BY <2>1 DEF Right
    <3> QED BY <3>9, <3>10, <3>11, <1>0, <1>1, <1>3 DEF Right
  <2> QED BY <2>3, <2>4, <1>2
<1> QED BY <1>5, <1>6

LEMMA ReplayTold ==
  ASSUME IndInv, NEW g \in telling, NEW again \in BOOLEAN, Tell(g, again),
         g <= generation, Sync
  PROVE  Told(At(generation))'
<1> PICK p : p = At(g)
  OBVIOUS
<1> PICK m : m = At(generation)
  OBVIOUS
<1>1. Told(m)
  BY DEF IndInv
<1>2. /\ UNCHANGED <<archive, publication, doomed, rebuilt>> /\ telling' \subseteq telling
      /\ known \subseteq known' /\ (stale => stale')
      /\ generation' = Forward(generation, g)
  BY TellRows DEF cleanVars, readVars
<1>3. Newest' = Newest /\ \A h : At(h)' = At(h)
  BY <1>2, HistoryStays
<1>4. generation' = generation /\ generation \in 0..Newest /\ g \in 0..generation
  <2>1. generation \in Nat /\ g \in 1..Newest /\ Newest \in Nat /\ generation <= Newest
    BY AtType, TellStates DEF IndInv, Inv, TypeOK, Books
  <2> QED BY <2>1, <1>2 DEF Forward
<1>5. At(generation)' = m
  BY <1>2, <1>4 DEF At
<1>6. p.replaced \cap Archives(m) = {}
  <2>1. Onward(g, At(g), generation, At(generation))
    BY <1>4 DEF IndInv, History
  <2> QED BY <2>1 DEF Onward
<1>7. \A k \in Archives(m) : state'[k] = Live /\ k \in known' \ doomed'
  <2> SUFFICES ASSUME NEW k \in Archives(m) PROVE state'[k] = Live /\ k \in known' \ doomed'
    OBVIOUS
  <2>1. k \in Key /\ state[k] = Live /\ k \in known \ doomed /\ k \notin p.replaced
    BY <1>1, <1>6 DEF Told, Archives
  <2>2. state'[k] = Live
    BY <2>1, TellStates
  <2> QED BY <2>1, <2>2, <1>2
<1>8. stale' \/ \A t \in Tile : Right(m, t)' \/ Ghost(m, t)'
  <2> SUFFICES ASSUME ~stale', NEW t \in Tile PROVE Right(m, t)' \/ Ghost(m, t)'
    OBVIOUS
  <2>1. Right(m, t) \/ Ghost(m, t)
    BY <1>1, <1>2 DEF Told
  <2> QED BY <1>1, <2>1, ReplayRow
<1>9. ASSUME NEW h \in telling, h <= generation, NEW k \in Archives(At(h))
      PROVE  k \in Archives(m) \/ state'[k] >= Retired
  <2>1. k \in Key /\ (k \in Archives(m) \/ state[k] >= Retired)
    BY <1>1, <1>9 DEF Told, Archives
  <2>2. state'[k] >= state[k] /\ state[k] \in Unheard..Deleted /\ state'[k] \in Unheard..Deleted
    BY <2>1, TellStates
  <2> QED BY <2>1, <2>2 DEF Unheard, Deleted, Retired
<1>10. ASSUME NEW k \in Key, state'[k] = Live, k \notin Archives(m)
       PROVE  Forgotten(k)'
  <2>1. /\ state[k] = Live \/ (k \in Archives(p) /\ state[k] < Live)
        /\ state[k] \in Unheard..Deleted
    BY <1>10, TellStates
  <2>2. k \in Archives(p) => state[k] >= Retired
    BY <1>1, <1>4, <1>10 DEF Told
  <2>3. state[k] = Live /\ Forgotten(k)
    BY <1>1, <1>10, <2>1, <2>2 DEF Told, Unheard, Deleted, Live, Retired
  <2> QED BY <2>3, <1>2, <1>3 DEF Forgotten, Named, Archives
<1>11. (\A k \in Archives(m) : state[k] = Live /\ k \in known \ doomed)'
  BY <1>7 DEF Archives
<1>13. (\A h \in telling : h <= generation =>
          \A k \in Archives(At(h)) : k \in Archives(m) \/ state[k] >= Retired)'
  BY <1>2, <1>3, <1>4, <1>9 DEF Archives
<1>14. (\A k \in Key : state[k] = Live => k \in Archives(m) \/ Forgotten(k))'
  BY <1>10 DEF Archives
<1>15. Told(m)'
  BY <1>8, <1>11, <1>13, <1>14 DEF Told
<1> QED BY <1>5, <1>15

\* A publication told in its turn is the one after the last told.
LEMMA NextIsNext ==
  ASSUME IndInv, NEW g \in telling, NEW again \in BOOLEAN, Tell(g, again),
         g > generation, Sync'
  PROVE  g = generation + 1 /\ generation \in 0..Newest /\ g \in 1..Newest
<1>1. /\ generation \in Nat /\ g \in 1..Newest /\ Newest \in Nat /\ generation <= Newest
      /\ rebuilt \in Nat /\ rebuilt <= generation /\ DOMAIN publication = 1..Newest
      /\ \A h \in told : h <= generation
  <2>1. TypeOK /\ rebuilt <= generation /\ generation <= Newest
        /\ \A h \in told : h <= generation
    BY DEF IndInv, Inv, Books
  <2>2. g \in 1..Newest /\ Newest \in Nat /\ DOMAIN publication = 1..Newest
    BY <2>1, AtType, TellStates
  <2> QED BY <2>1, <2>2 DEF TypeOK
<1>2. /\ telling \ {g} \subseteq telling' /\ told' = told \cup {g}
      /\ generation' = g /\ rebuilt' = rebuilt /\ (ordered' => ordered)
  BY <1>1, TellRows DEF Forward, readVars
<1>3. ASSUME g # generation + 1
      PROVE  FALSE
  <2> PICK h : h = generation + 1
    OBVIOUS
  <2>1. h \in DOMAIN publication /\ h > rebuilt /\ h < g /\ h \notin told
    BY <1>1, <1>3
  <2>2. h \in telling
    BY <2>1, <1>2 DEF IndInv, Books, Sync
  <2>3. h \in telling' \ told' /\ rebuilt' < h /\ h < generation'
    BY <1>1, <1>2, <2>1, <2>2
  <2> QED BY <2>3 DEF Sync, CaughtUp
<1> QED BY <1>1, <1>3

\* A row follows the publication that follows.
LEMMA NextRow ==
  ASSUME IndInv, NEW g \in telling, NEW again \in BOOLEAN, Tell(g, again),
         NEW p, p = At(g), g = generation + 1, NEW m, m = At(generation),
         m \in Publication, Distinct(m), Follows(archive, m, p), ~stale',
         p.added # 0 => AddsTiles(p),
         NEW t \in Tile, Points(m, t, row[t].archive)
  PROVE  Points(p, t, row'[t].archive)
<1> PICK x : x = row[t].archive
  OBVIOUS
<1> PICK a : a = p.added
  OBVIOUS
<1> PICK y : y = Given(p, g)[t]
  OBVIOUS
<1>0. /\ p \in Publication /\ row[t].generation \in Nat /\ generation \in Nat
      /\ row[t].generation <= generation
      /\ m.archives \in [Key -> Nat] /\ p.archives \in [Key -> Nat]
      /\ Archives(m) \subseteq Key /\ Archives(p) \subseteq Key
  <2>1. p \in Publication
    BY TellStates
  <2> QED BY <2>1 DEF IndInv, Inv, TypeOK, Books, Dated, Publication, Archives
<1>1. /\ y = IF a # 0 /\ archive[a][t] # 0 /\ ~Kept(row[t], p, g, a)
               THEN [archive |-> a, generation |-> g] ELSE row[t]
      /\ row'[t] = IF y.archive \in p.replaced THEN NoRow ELSE y
  <2>1. AddsTiles(p) <=> a # 0
    BY DEF AddsTiles
  <2> QED BY <2>1, TellRows
<1>2. Kept(row[t], p, g, a) <=> x # 0 /\ x \in Later(p, a)
  BY <1>0 DEF Kept
<1>3. /\ p.replaced \subseteq Archives(m) /\ a \notin Archives(m)
      /\ Archives(p) = Stay(m, p) \cup ({a} \ {0})
      /\ \A j \in Stay(m, p) : p.archives[j] = m.archives[j]
      /\ a # 0 => \A j \in Stay(m, p) :
           /\ p.archives[a] # p.archives[j]
           /\ \A i \in p.replaced : m.archives[i] < m.archives[j] <=> p.archives[a] < p.archives[j]
  BY DEF Follows
<1>4. \A j \in Holders(p, t) : j = a \/ (j \in Stay(m, p) /\ j \in Holders(m, t))
  BY <1>3 DEF Holders, Stay
<1>5. /\ x = 0 => Holders(m, t) = {}
      /\ x # 0 => /\ x \in Holders(m, t) /\ x \in Archives(m)
                  /\ \A j \in Holders(m, t) : m.archives[j] <= m.archives[x]
  BY DEF Points, Holders, Archives, Key
<1>6. CASE a # 0 /\ archive[a][t] # 0 /\ ~Kept(row[t], p, g, a)
  <2>1. row'[t].archive = a
    BY <1>1, <1>3, <1>6
  <2>2. a \in Holders(p, t)
    BY <1>3, <1>6 DEF Holders
  <2>3. ASSUME NEW j \in Holders(p, t), j # a
        PROVE  p.archives[j] <= p.archives[a]
    <3>1. j \in Stay(m, p) /\ j \in Holders(m, t) /\ p.archives[j] = m.archives[j]
      BY <1>3, <1>4, <2>3
    <3>2. x # 0 /\ x \in Archives(m) /\ m.archives[j] <= m.archives[x]
      BY <1>5, <3>1
    <3>3. /\ p.archives[a] \in Nat /\ m.archives[j] \in Nat /\ m.archives[x] \in Nat
      BY <1>0, <2>2, <3>1, <3>2 DEF Holders
    <3>4. CASE x \in Stay(m, p)
      <4>1. ~ (p.archives[x] > p.archives[a]) /\ p.archives[x] = m.archives[x]
        BY <1>2, <1>3, <1>6, <3>2, <3>4 DEF Later
      <4> QED BY <3>1, <3>2, <3>3, <4>1
    <3>5. CASE x \in p.replaced
      <4>1. j # x
        BY <3>1, <3>5 DEF Stay
      <4>2. m.archives[j] # m.archives[x]
        BY <3>1, <3>2, <4>1 DEF Distinct, Stay
      <4>3. ~ (p.archives[a] < p.archives[j])
        BY <1>3, <1>6, <3>1, <3>2, <3>3, <3>5, <4>2
      <4> QED BY <3>1, <3>3, <4>3
    <3> QED BY <3>2, <3>4, <3>5 DEF Stay
  <2>4. p.archives[a] <= p.archives[a]
    BY <1>0, <2>2 DEF Holders
  <2> QED BY <2>1, <2>2, <2>3, <2>4 DEF Points
<1>7. CASE ~ (a # 0 /\ archive[a][t] # 0 /\ ~Kept(row[t], p, g, a))
  <2>1. y = row[t] /\ y.archive = x
    BY <1>1, <1>7
  <2>2. a \in Holders(p, t) => a # 0 /\ archive[a][t] # 0 /\ x # 0 /\ x \in Later(p, a)
    BY <1>0, <1>2, <1>7 DEF Holders, Key
  <2>3. CASE x = 0
    <3>1. Holders(p, t) = {}
      BY <1>4, <1>5, <2>2, <2>3
    <3>2. row'[t].archive = 0
      BY <1>1, <2>1, <2>3 DEF NoRow
    <3> QED BY <3>1, <3>2 DEF Points
  <2>4. CASE x # 0 /\ x \in p.replaced
    <3>1. row'[t].archive = 0
      BY <1>1, <2>1, <2>4 DEF NoRow
    <3>2. ~p.uncovering
      <4>1. Given(p, g)[t].archive \in p.replaced
        BY <2>1, <2>4
      <4> QED BY <4>1, TellRows
    <3>3. archive[x][t] # 0
      BY <1>5, <2>4 DEF Holders
    <3>4. a \notin Holders(p, t)
      BY <1>3, <2>2, <2>4 DEF Later, Stay
    <3>5. \/ a # 0 /\ archive[a][t] # 0
          \/ \A j \in Stay(m, p) : archive[j][t] # 0 => m.archives[x] < m.archives[j]
      BY <2>4, <3>2, <3>3 DEF Follows
    <3>6. \A j \in Stay(m, p) : archive[j][t] # 0 => m.archives[x] < m.archives[j]
      BY <3>4, <3>5, <1>3 DEF Holders
    <3>7. ASSUME NEW j \in Holders(p, t)
          PROVE  FALSE
      <4>1. j \in Stay(m, p) /\ j \in Holders(m, t) /\ archive[j][t] # 0
        BY <1>4, <3>4 DEF Holders
      <4>2. m.archives[x] < m.archives[j] /\ m.archives[j] <= m.archives[x]
        BY <1>5, <2>4, <3>6, <4>1
      <4>3. m.archives[x] \in Nat /\ m.archives[j] \in Nat
        BY <1>0, <1>5, <2>4, <4>1 DEF Stay
      <4> QED BY <4>2, <4>3
    <3> QED BY <3>1, <3>7 DEF Points
  <2>5. CASE x # 0 /\ x \notin p.replaced
    <3>1. row'[t].archive = x
      BY <1>1, <2>1, <2>5
    <3>2. x \in Stay(m, p) /\ x \in Holders(p, t) /\ p.archives[x] = m.archives[x]
      BY <1>3, <1>5, <2>5 DEF Stay, Holders
    <3>3. ASSUME NEW j \in Holders(p, t)
          PROVE  p.archives[j] <= p.archives[x]
      <4>1. CASE j = a
        <5>1. p.archives[x] > p.archives[a]
          BY <2>2, <4>1, <3>3 DEF Later
        <5>2. p.archives[x] \in Nat /\ p.archives[a] \in Nat
          BY <1>0, <3>2, <3>3, <4>1 DEF Holders
        <5> QED BY <4>1, <5>1, <5>2
      <4>2. CASE j # a
        <5>1. j \in Stay(m, p) /\ j \in Holders(m, t)
          BY <1>4, <4>2
        <5> QED BY <1>3, <1>5, <2>5, <3>2, <5>1
      <4> QED BY <4>1, <4>2
    <3> QED BY <3>1, <3>2, <3>3 DEF Points
  <2> QED BY <2>3, <2>4, <2>5
<1> QED BY <1>6, <1>7

\* So a row that is right stays so, and one a late rebuild left goes if p holds
\* its tile.
LEMMA NextRows ==
  ASSUME IndInv, NEW g \in telling, NEW again \in BOOLEAN, Tell(g, again),
         NEW p, p = At(g), g = generation + 1, NEW m, m = At(generation),
         m \in Publication, Distinct(m), Follows(archive, m, p), ~stale',
         p.added # 0 => AddsTiles(p),
         NEW t \in Tile, Right(m, t) \/ Ghost(m, t)
  PROVE  Right(p, t)' \/ Ghost(p, t)'
<1> PICK x, r : x = row[t].archive /\ r = row[t].generation
  OBVIOUS
<1> PICK a : a = p.added
  OBVIOUS
<1> PICK y : y = Given(p, g)[t]
  OBVIOUS
<1>0. /\ generation \in Nat /\ r \in Nat /\ r <= generation /\ g \in Nat
      /\ generation' = g /\ late' = late /\ UNCHANGED <<archive, publication>>
      /\ p.archives \in [Key -> Nat] /\ (x # 0 => archive[x][t] # 0)
  <2>1. generation \in Nat /\ r \in Nat /\ Dated(t)
    BY DEF IndInv, Inv, TypeOK, Books
  <2>2. /\ generation' = Forward(generation, g) /\ UNCHANGED readVars
        /\ UNCHANGED <<archive, publication>>
    BY TellRows
  <2>3. p.archives \in [Key -> Nat]
    BY TellStates DEF Publication
  <2>4. generation' = g
    BY <2>1, <2>2 DEF Forward
  <2> QED BY <2>1, <2>2, <2>3, <2>4 DEF Dated, readVars
<1>1. \A h : At(h)' = At(h)
  BY <1>0, HistoryStays
<1>2. /\ y = IF a # 0 /\ archive[a][t] # 0 /\ ~Kept(row[t], p, g, a)
               THEN [archive |-> a, generation |-> g] ELSE row[t]
      /\ row'[t] = IF y.archive \in p.replaced THEN NoRow ELSE y
  <2>1. AddsTiles(p) <=> a # 0
    BY DEF AddsTiles
  <2> QED BY <2>1, TellRows
<1>3. /\ \A l, j : Points(l, t, j)' <=> Points(l, t, j)
      /\ Holders(p, t)' = Holders(p, t)
  BY <1>0 DEF Points, Holders, Archives
<1>4. CASE Right(m, t)
  <2>1. Points(p, t, row'[t].archive)
    <3>1. Points(m, t, row[t].archive)
      BY <1>4 DEF Right
    <3> QED BY <3>1, NextRow
  <2>2. CASE row'[t] = NoRow
    BY <2>1, <2>2, <1>3 DEF Right, NoRow
  <2>3. CASE row'[t] = row[t]
    <3>1. ASSUME x # 0, NEW h \in r..g
          PROVE  Points(At(h), t, x)
      <4>1. h \in r..generation \/ h = g
        BY <1>0
      <4> QED BY <4>1, <3>1, <2>1, <2>3, <1>4 DEF Right
    <3> QED BY <3>1, <2>1, <2>3, <1>0, <1>1, <1>3 DEF Right
  <2>4. CASE row'[t] = [archive |-> a, generation |-> g]
    <3>1. row'[t].archive = a /\ row'[t].generation = g
      BY <2>4
    <3>2. \A h \in g..g : At(h) = p
      BY <1>0
    <3> QED BY <3>1, <3>2, <2>1, <1>0, <1>1, <1>3 DEF Right
  <2> QED BY <1>2, <2>2, <2>3, <2>4
<1>5. CASE Ghost(m, t)
  <2>1. x # 0 /\ r \in late /\ Holders(m, t) = {} /\ x \notin Archives(m)
    BY <1>0, <1>5 DEF Ghost, Holders
  <2>2. /\ p.replaced \subseteq Archives(m) /\ a \notin Archives(m)
        /\ Archives(p) \subseteq Archives(m) \cup ({a} \ {0})
        /\ a # 0 => a \in Archives(p)
    BY DEF Follows, Stay
  <2>3. Holders(p, t) \subseteq {a}
    BY <2>1, <2>2 DEF Holders
  <2>4. CASE a # 0 /\ archive[a][t] # 0
    <3>1. ~Kept(row[t], p, g, a)
      <4>1. ~ (r > g)
        BY <1>0
      <4>2. x \notin Later(p, a)
        <5>1. ~ (p.archives[a] > p.archives[a])
          BY <2>2, <2>4, <1>0 DEF Archives
        <5> QED BY <5>1, <2>1, <2>2 DEF Later
      <4> QED BY <4>1, <4>2 DEF Kept
    <3>2. y = [archive |-> a, generation |-> g]
      BY <3>1, <2>4, <1>2
    <3>3. y.archive = a /\ y.generation = g
      BY <3>2
    <3>4. row'[t] = y
      BY <3>3, <2>2, <1>2
    <3>5. a \in Holders(p, t) /\ p.archives[a] <= p.archives[a]
      BY <2>2, <2>4, <1>0 DEF Holders, Archives
    <3>6. Points(p, t, a)
      BY <3>5, <2>3 DEF Points
    <3>7. \A h \in g..g : At(h) = p
      BY <1>0
    <3> QED BY <3>3, <3>4, <3>6, <3>7, <1>0, <1>1, <1>3 DEF Right
  <2>5. CASE ~ (a # 0 /\ archive[a][t] # 0)
    <3>1. Holders(p, t) = {}
      <4>1. a \notin Holders(p, t)
        BY <2>5 DEF Holders, Archives, Key
      <4> QED BY <4>1, <2>3
    <3>2. row'[t] = NoRow \/ row'[t] = row[t]
      BY <2>5, <1>2
    <3>3. CASE row'[t] = NoRow
      BY <3>1, <3>3, <1>3 DEF Right, Points, NoRow
    <3>4. CASE row'[t] = row[t]
      BY <3>1, <3>4, <2>1, <1>0, <1>3 DEF Ghost
    <3> QED BY <3>2, <3>3, <3>4
  <2> QED BY <2>4, <2>5
<1> QED BY <1>4, <1>5

LEMMA NextTold ==
  ASSUME IndInv, NEW g \in telling, NEW again \in BOOLEAN, Tell(g, again),
         g > generation, Sync'
  PROVE  Told(At(generation))'
<1> PICK p : p = At(g)
  OBVIOUS
<1> PICK m : m = At(generation)
  OBVIOUS
<1>1. g = generation + 1 /\ generation \in 0..Newest /\ g \in 1..Newest /\ g \in 0..Newest
  BY NextIsNext
<1>2. /\ UNCHANGED <<archive, publication, doomed, rebuilt>> /\ telling' \subseteq telling
      /\ known' = (IF AddsTiles(p) THEN known \cup {p.added} ELSE known)
      /\ (stale => stale') /\ generation' = g
  BY <1>1, TellRows DEF cleanVars, readVars, Forward
<1>3. Newest' = Newest /\ \A h : At(h)' = At(h)
  BY <1>2, HistoryStays
<1>4. At(generation)' = p
  BY <1>2 DEF At
<1>5. Told(m)
  BY TellSync DEF IndInv
<1>6. /\ Follows(archive, m, p) /\ Distinct(m) /\ m \in Publication /\ p \in Publication
  <2>1. Newest \in Nat /\ TypeOK
    BY AtType DEF IndInv, Inv
  <2>2. g # 0 /\ g - 1 = generation
    BY <1>1
  <2>3. Follows(archive, At(g - 1), At(g))
    BY <1>1, <2>2 DEF IndInv, History
  <2>4. Distinct(At(generation))
    BY <1>1 DEF IndInv, History
  <2> QED BY <1>1, <2>1, <2>2, <2>3, <2>4, AtType
<1>7. /\ p.added \in Archives(p) \cup {0} /\ Archives(p) \cap doomed = {}
      /\ Archives(p) = Stay(m, p) \cup ({p.added} \ {0})
      /\ p.replaced \subseteq Archives(m) /\ p.added \notin Archives(m)
      /\ Archives(p) \subseteq Key /\ Archives(m) \subseteq Key
  BY <1>6, TellStates DEF Follows, Archives
<1>8. \A k \in Archives(p) : state[k] < Retired
  <2>1. Archives(p) \subseteq stored
    BY DEF IndInv, Inv, Tellable
  <2>2. g \in generation..Newest
    BY <1>1
  <2> QED BY <2>1, <2>2 DEF IndInv, Held, Ended
<1>9. p.added # 0 => AddsTiles(p)
  <2>1. p.added # 0 => state[p.added] < Retired
    BY <1>7, <1>8
  <2> QED BY <2>1, TellStates
<1>10. \A k \in Archives(p) : state'[k] = Live /\ k \in known' \ doomed'
  <2> SUFFICES ASSUME NEW k \in Archives(p)
               PROVE  state'[k] = Live /\ k \in known' \ doomed'
    OBVIOUS
  <2>1. k \notin p.replaced /\ k \in Key
    BY <1>7 DEF Stay
  <2>2. state'[k] = Live
    BY <2>1, <1>8, TellStates
  <2>3. k \in known'
    <3>1. k \in Stay(m, p) => k \in known
      BY <1>5 DEF Told, Stay
    <3> QED BY <3>1, <1>2, <1>7, <1>9
  <2> QED BY <2>2, <2>3, <1>2, <1>7
<1>11. stale' \/ \A t \in Tile : Right(p, t)' \/ Ghost(p, t)'
  <2> SUFFICES ASSUME ~stale', NEW t \in Tile PROVE Right(p, t)' \/ Ghost(p, t)'
    OBVIOUS
  <2>1. Right(m, t) \/ Ghost(m, t)
    BY <1>2, <1>5 DEF Told
  <2> QED BY <2>1, <1>1, <1>6, <1>9, NextRows
<1>12. ASSUME NEW h \in telling, h <= g, NEW k \in Archives(At(h))
       PROVE  k \in Archives(p) \/ state'[k] >= Retired
  <2>0. k \in Key /\ h \in Nat /\ generation \in Nat
    BY DEF Archives, IndInv, Inv, TypeOK
  <2>1. CASE h = g
    BY <2>1
  <2>2. CASE h <= generation
    <3>1. k \in Archives(m) \/ state[k] >= Retired
      BY <2>2, <1>5 DEF Told
    <3>2. CASE k \in Stay(m, p)
      BY <3>2, <1>7
    <3>3. CASE k \in p.replaced
      <4>1. state[k] = Live
        BY <3>3, <1>5, <1>7 DEF Told
      <4> QED BY <4>1, <3>3, <2>0, TellStates DEF Live, Unheard
    <3>4. CASE state[k] >= Retired
      <4>1. state'[k] >= state[k] /\ state[k] \in Unheard..Deleted /\ state'[k] \in Unheard..Deleted
        BY <2>0, TellStates
      <4> QED BY <4>1, <3>4 DEF Unheard, Deleted, Retired
    <3> QED BY <3>1, <3>2, <3>3, <3>4 DEF Stay
  <2> QED BY <2>0, <2>1, <2>2, <1>1, <1>12
<1>13. ASSUME NEW k \in Key, state'[k] = Live, k \notin Archives(p)
       PROVE  Forgotten(k)'
  <2>1. k \notin p.replaced /\ state[k] = Live
    BY <1>13, TellStates
  <2>2. k \notin Archives(m)
    BY <2>1, <1>7, <1>13 DEF Stay
  <2>3. Forgotten(k)
    BY <2>1, <2>2, <1>5 DEF Told
  <2> QED BY <2>3, <1>2, <1>3 DEF Forgotten, Named, Archives
<1>14. (\A k \in Archives(p) : state[k] = Live /\ k \in known \ doomed)'
  BY <1>10 DEF Archives
<1>16. (\A h \in telling : h <= generation =>
          \A k \in Archives(At(h)) : k \in Archives(p) \/ state[k] >= Retired)'
  BY <1>2, <1>3, <1>12 DEF Archives
<1>17. (\A k \in Key : state[k] = Live => k \in Archives(p) \/ Forgotten(k))'
  BY <1>13 DEF Archives
<1>18. Told(p)'
  BY <1>11, <1>14, <1>16, <1>17 DEF Told
<1> QED BY <1>4, <1>18

LEMMA TellKeeps ==
  ASSUME IndInv, Inv', NEW g \in telling, NEW again \in BOOLEAN, Tell(g, again)
  PROVE  IndInv'
<1>1. History'
  BY TellRows, HistoryStays DEF IndInv
<1>2. Sync' => Told(At(generation))'
  <2>1. generation \in Nat /\ g \in Nat
    BY DEF IndInv, Inv, TypeOK
  <2> QED BY <2>1, TellSync, ReplayTold, NextTold
<1> QED BY <1>1, <1>2, TellBooks, TellHeld DEF IndInv
-----------------------------------------------------------------------------

LEMMA IndInit == Init => IndInv
<1> SUFFICES ASSUME Init PROVE IndInv
  OBVIOUS
<1>1. Inv
  BY InvInit
<1>2. /\ archive = << >> /\ publication = << >> /\ doomed = {} /\ telling = {} /\ known = {}
      /\ told = {} /\ state = [k \in Key |-> Unheard] /\ row = [t \in Tile |-> NoRow]
      /\ generation = 0 /\ stale = FALSE /\ rebuilt = 0 /\ late = {} /\ outlasted = {}
      /\ Newest = 0 /\ At(0) = NoPublication
  BY DEF Init, Newest, At
<1>3. Archives(NoPublication) = {} /\ NoPublication.replaced = {}
      /\ NoPublication.retired = {}
  BY DEF Archives, NoPublication
<1>4. History
  <2>1. Onward(0, At(0), 0, At(0))
    BY <1>2, <1>3 DEF Onward
  <2> QED BY <1>2, <1>3, <2>1 DEF History, Distinct
<1>5. \A t \in Tile : Dated(t) /\ Right(At(0), t) /\ Sent(t)
  BY <1>2, <1>3 DEF Dated, Right, Points, Holders, NoRow, Sent
<1>6. Books
  BY <1>2, <1>5 DEF Books
<1>7. Told(At(0))
  BY <1>2, <1>3, <1>5 DEF Told, Unheard, Live
<1>8. Held
  <2>1. Window /\ Ended
    BY <1>2, <1>3 DEF Window, Ended
  <2>2. Marked
    BY <1>2, <1>3 DEF Marked, Unheard, Live
  <2> QED BY <2>1, <2>2, <1>2, <1>5 DEF Held
<1> QED BY <1>1, <1>2, <1>4, <1>6, <1>7, <1>8 DEF IndInv

LEMMA IndNext == IndInv /\ [Next]_vars => IndInv'
<1> SUFFICES ASSUME IndInv, [Next]_vars PROVE IndInv'
  OBVIOUS
<1>0. Inv /\ History /\ Inv'
  BY InvNext DEF IndInv
<1>1. ASSUME NEW T \in SUBSET Tile, Flush(T) PROVE IndInv'
  BY <1>0, <1>1, FlushMade, PublishIndInv
<1>2. ASSUME NEW K \in Runs(Manifest), Merge(K) PROVE IndInv'
  BY <1>0, <1>2, MergeMade, PublishIndInv
<1>3. ASSUME NEW j \in Archives(Manifest),
             \/ Prune(j)
             \/ \E older \in OldersRead(j) :
                  \/ ScrubWhole(j, older)
                  \/ \E T \in SUBSET TilesOf(j) \ {{}} : Scrub(j, T, older)
      PROVE  IndInv'
  <2>1. CASE Prune(j)
    BY <2>1, <1>0, PruneMade, PublishIndInv
  <2>2. CASE \E older \in OldersRead(j) : ScrubWhole(j, older)
    BY <2>2, <1>0, ScrubWholeMade, PublishIndInv
  <2>3. CASE \E older \in OldersRead(j), T \in SUBSET Tile : Scrub(j, T, older)
    BY <2>3, <1>0, ScrubMade, PublishIndInv
  <2> QED BY <1>3, <2>1, <2>2, <2>3 DEF TilesOf
<1>4. ASSUME NEW K \in SUBSET stored, LetGo(K) PROVE IndInv'
  BY <1>0, <1>4, LetGoKeeps
<1>5. CASE Forget
  BY <1>0, <1>5, ForgetMade, PublishIndInv
<1>6. CASE Delete \/ Stop
  BY <1>0, <1>6, CleanupKeeps
<1>7. CASE ToldDeleted
  BY <1>0, <1>7, ToldDeletedKeeps
<1>8. ASSUME NEW g \in telling, Miss(g) \/ \E again \in BOOLEAN : Tell(g, again) PROVE IndInv'
  BY <1>0, <1>8, MissKeeps, TellKeeps
<1>9. CASE ReadForRebuild
  BY <1>0, <1>9, ReadKeeps
<1>10. ASSUME NEW g \in reading, NEW again \in BOOLEAN, NEW read \in Indices(g),
              Rebuild(g, read, again)
       PROVE  IndInv'
  BY <1>0, <1>10, RebuildKeeps
<1>11. CASE UNCHANGED vars
  <2>1. UNCHANGED <<archive, publication, bookVars, rebuilt, late, outlasted, told, telling,
                    ordered, stored, doomed>>
    BY <1>11 DEF vars, bookVars
  <2>2. Sync' => Sync
    BY <2>1 DEF Sync, CaughtUp, bookVars
  <2> QED BY <1>0, <2>1, <2>2, QuietKeeps
<1> QED BY <1>1, <1>2, <1>3, <1>4, <1>5, <1>6, <1>7, <1>8, <1>9, <1>10, <1>11 DEF Next

\* No row points at an archive the register heard was replaced or deleted, in
\* whatever order it was told and whatever it missed, but for those a rebuild
\* brought back that was applied to a book told of something newer, until one
\* that was not (NothingBroughtBack).
THEOREM NothingComesBack == Spec => []NothingBroughtBack
<1>1. IndInv => NothingBroughtBack
  BY DEF IndInv, Held, Sent, NothingBroughtBack
<1> QED BY <1>1, IndInit, IndNext, PTL DEF Spec

\* No row points at an archive that is not stored, whatever was missed, but for
\* those of a rebuild that outlasted the retire grace (RowsAreStored).
THEOREM RowsPointAtStored == Spec => []RowsAreStored
<1>1. IndInv => RowsAreStored
  BY DEF IndInv, Held, Sent, RowsAreStored
<1> QED BY <1>1, IndInit, IndNext, PTL DEF Spec

\* While nothing was missed or told out of order since the last rebuild, a zone
\* the register says it holds whole is answered as the manifest it was last told
\* of would be, but for a tile in no archive of it that a rebuild applied late
\* left a row of (AnswersAsTold).
THEOREM AnswersAreAsTold == Spec => []AnswersAsTold
<1>1. ASSUME IndInv
      PROVE  AnswersAsTold
  <2> SUFFICES ASSUME Sync, Indexed, NEW t \in Tile
               PROVE  \/ Answer(t) = View(At(generation))[t]
                      \/ View(At(generation))[t] = 0 /\ row[t].generation \in late
    BY DEF AnswersAsTold, Sync
  <2> PICK m : m = At(generation)
    OBVIOUS
  <2>1. Right(m, t) \/ Ghost(m, t)
    BY <1>1 DEF IndInv, Told, Indexed
  <2>2. Distinct(m) /\ generation \in 0..Newest
    <3>1. generation \in Nat /\ generation <= Newest /\ Newest \in Nat
      BY <1>1, AtType DEF IndInv, Inv, TypeOK, Books
    <3> QED BY <3>1, <1>1 DEF IndInv, History
  <2>3. CASE Holders(m, t) = {}
    BY <2>1, <2>3 DEF Right, Ghost, Points, Answer, View
  <2>4. CASE Holders(m, t) # {}
    <3> PICK x : x = row[t].archive
      OBVIOUS
    <3>1. x \in Holders(m, t) /\ \A j \in Holders(m, t) : m.archives[j] <= m.archives[x]
      BY <2>1, <2>4 DEF Right, Ghost, Points
    <3>2. x # 0
      BY <3>1 DEF Holders, Archives, Key
    <3>3. \A k \in Holders(m, t) :
            (\A j \in Holders(m, t) : m.archives[j] <= m.archives[k]) => k = x
      <4> SUFFICES ASSUME NEW k \in Holders(m, t),
                          \A j \in Holders(m, t) : m.archives[j] <= m.archives[k]
                   PROVE  k = x
        OBVIOUS
      <4>1. m.archives[k] \in Nat /\ m.archives[x] \in Nat
        <5>1. m \in Publication
          BY <1>1, <2>2, AtType DEF IndInv, Inv
        <5> QED BY <5>1, <3>1 DEF Publication, Holders, Archives
      <4>2. m.archives[k] = m.archives[x]
        BY <3>1, <4>1
      <4> QED BY <2>2, <3>1, <4>2 DEF Distinct, Holders
    <3>4. Holder(m, t) = x
      BY <3>1, <3>3 DEF Holder
    <3> QED BY <2>4, <3>2, <3>4 DEF Answer, View
  <2> QED BY <2>3, <2>4
<1> QED BY <1>1, IndInit, IndNext, PTL DEF Spec

\* It then holds the zone whole, but for one a scrub left to its archives, or
\* that was rebuilt once an archive had been forgotten (HeldWhole).
THEOREM HoldsWhole == Spec => []HeldWhole
<1>1. ASSUME IndInv
      PROVE  HeldWhole
  <2> SUFFICES ASSUME Sync, ~Indexed,
                      ~ \E g \in DOMAIN publication : publication[g].uncovering
               PROVE  \E k \in Key \ known : state[k] = Live /\ Forgotten(k)
    BY DEF HeldWhole, Sync
  <2>1. ~stale
    BY <1>1 DEF IndInv, Books
  <2>2. PICK k \in Key : state[k] = Live /\ k \notin known
    BY <2>1 DEF Indexed
  <2> QED BY <1>1, <2>2 DEF IndInv, Told
<1> QED BY <1>1, IndInit, IndNext, PTL DEF Spec

=============================================================================
