--------------------------- MODULE Buffers_proofs ---------------------------
(***************************************************************************)
(* Theorems about Buffers: what is counted is what is held (Counting), all *)
(* buffers together stay under their bound when puts do not overlap and    *)
(* nothing fails (Bounding), and flush_all that says it went well leaves   *)
(* nothing it found (Emptying).                                            *)
(*                                                                         *)
(* Sums over sets of tiles and of zones come first.  A sum is a fold, that *)
(* is, a choice of a function that satisfies its equation: that there is   *)
(* one, and that any element may be taken out first, is shown with a least *)
(* counterexample, for inclusion, among the subsets of a finite set.       *)
(***************************************************************************)
EXTENDS Buffers, TLAPS, FiniteSetTheorems, SequenceTheorems

-----------------------------------------------------------------------------
(* Sums.                                                                    *)

Pick(s) == CHOOSE x \in s : TRUE

\* What g, a sum of f over sets, should be of s.
SumAt(g, f, s) == IF s = {} THEN 0 ELSE f[Pick(s)] + g[s \ {Pick(s)}]
Sums(g, f, S) == g = [s \in SUBSET S |-> SumAt(g, f, s)]

LEMMA Unfold ==
  ASSUME NEW S, NEW f
  PROVE  Sizes(S, f) = (CHOOSE g : Sums(g, f, S))[S]
BY DEF Sizes, MapThenSumSet, MapThenFoldSet, Sums, SumAt, Pick

(* Instead of an induction: some set of finite sets has a least one.       *)
LEMMA LeastSet ==
  ASSUME NEW S, IsFiniteSet(S), NEW X \in SUBSET SUBSET S, X # {}
  PROVE  \E T \in X : \A U \in X : U \subseteq T => U = T
<1>1. X \subseteq FiniteSubsetsOf(S)
  BY FS_FiniteSubsetsOfFinite
<1>2. PICK T \in X : \A U \in X : ~ (<<U, T>> \in StrictSubsetOrdering(S))
  BY <1>1, FS_StrictSubsetOrderingWellFounded, WFMin
<1>3. ASSUME NEW U \in X, U \subseteq T PROVE U = T
  <2> SUFFICES ASSUME U # T PROVE FALSE
    OBVIOUS
  <2>1. <<U, T>> \in (SUBSET S) \X (SUBSET S)
    OBVIOUS
  <2>2. <<U, T>>[1] \subseteq <<U, T>>[2] /\ <<U, T>>[1] # <<U, T>>[2]
    BY <1>3
  <2>3. <<U, T>> \in StrictSubsetOrdering(S)
    BY <2>1, <2>2 DEF StrictSubsetOrdering
  <2> QED BY <1>2, <2>3
<1> QED BY <1>3

LEMMA PickIn == \A s : s # {} => Pick(s) \in s
BY DEF Pick


LEMMA SumsAt ==
  ASSUME NEW S, NEW f, NEW g, Sums(g, f, S), NEW s \in SUBSET S
  PROVE  g[s] = SumAt(g, f, s)
<1>1. g = [r \in SUBSET S |-> SumAt(g, f, r)]
  BY DEF Sums
<1> QED BY <1>1

(* What there is of g is one for the subsets.                               *)
LEMMA SumsRestricted ==
  ASSUME NEW S, NEW f, NEW g, Sums(g, f, S), NEW R \in SUBSET S
  PROVE  Sums([s \in SUBSET R |-> g[s]], f, R)
<1> DEFINE h == [s \in SUBSET R |-> g[s]]
<1>1. ASSUME NEW s \in SUBSET R
      PROVE  g[s] = SumAt(h, f, s)
  <2>1. g[s] = SumAt(g, f, s)
    BY SumsAt
  <2> QED BY <2>1 DEF SumAt
<1>2. h = [s \in SUBSET R |-> SumAt(h, f, s)]
  BY <1>1
<1> QED BY <1>2 DEF Sums

LEMMA SumsUnique ==
  ASSUME NEW S, IsFiniteSet(S), NEW f, NEW g, NEW h, Sums(g, f, S), Sums(h, f, S)
  PROVE  \A s \in SUBSET S : g[s] = h[s]
<1> DEFINE X == {s \in SUBSET S : g[s] # h[s]}
<1> SUFFICES ASSUME X # {} PROVE FALSE
  OBVIOUS
<1>1. PICK T \in X : \A U \in X : U \subseteq T => U = T
  <2>1. X \in SUBSET SUBSET S
    OBVIOUS
  <2> HIDE DEF X
  <2> QED BY <2>1, LeastSet
<1>2. T \in SUBSET S
  BY <1>1
<1>3. g[T] = SumAt(g, f, T)
  BY <1>2, SumsAt
<1>4. h[T] = SumAt(h, f, T)
  BY <1>2, SumsAt
<1>5. T # {}
  BY <1>3, <1>4 DEF SumAt
<1>6. T \ {Pick(T)} \notin X
  BY <1>1, <1>5, PickIn
<1>7. g[T \ {Pick(T)}] = h[T \ {Pick(T)}]
  BY <1>6
<1> QED BY <1>3, <1>4, <1>7 DEF SumAt

LEMMA SumsOfPart ==
  ASSUME NEW S, NEW f, NEW h, Sums(h, f, S),
         NEW R \in SUBSET S, IsFiniteSet(R), NEW g, Sums(g, f, R)
  PROVE  g[R] = h[R]
<1> DEFINE k == [s \in SUBSET R |-> h[s]]
<1>1. Sums(k, f, R)
  BY SumsRestricted
<1>2. k[R] = h[R]
  OBVIOUS
<1> HIDE DEF k
<1>3. \A s \in SUBSET R : g[s] = k[s]
  BY <1>1, SumsUnique
<1> QED BY <1>2, <1>3

LEMMA SumsExist ==
  ASSUME NEW S, IsFiniteSet(S), NEW f
  PROVE  \E g : Sums(g, f, S)
<1> DEFINE X == {s \in SUBSET S : ~ \E g : Sums(g, f, s)}
<1> SUFFICES ASSUME X # {} PROVE FALSE
  OBVIOUS
<1>1. PICK T \in X : \A U \in X : U \subseteq T => U = T
  <2>1. X \in SUBSET SUBSET S
    OBVIOUS
  <2> HIDE DEF X
  <2> QED BY <2>1, LeastSet
<1> DEFINE Sum(s) == CHOOSE g : Sums(g, f, s)
           all == [s \in SUBSET T |-> IF s = T THEN 0 ELSE Sum(s)[s]]
           g == [s \in SUBSET T |-> SumAt(all, f, s)]
<1>2. \A s \in SUBSET T : s # T => Sums(Sum(s), f, s)
  <2> SUFFICES ASSUME NEW s \in SUBSET T, s # T
               PROVE  Sums(CHOOSE h : Sums(h, f, s), f, s)
    OBVIOUS
  <2>1. s \notin X
    BY <1>1
  <2>2. \E h : Sums(h, f, s)
    BY <2>1
  <2> QED BY <2>2, Zenon
<1> HIDE DEF Sum
<1>3. ASSUME NEW s \in SUBSET T, s # T
      PROVE  all[s] = SumAt(all, f, s)
  <2>1. Sum(s)[s] = SumAt(Sum(s), f, s)
    BY <1>2, <1>3, SumsAt
  <2>2. CASE s = {}
    BY <1>3, <2>1, <2>2 DEF SumAt
  <2>3. CASE s # {}
    <3> DEFINE r == s \ {Pick(s)}
    <3>1. r \in SUBSET T /\ r # T /\ r \in SUBSET s
      BY <1>3, <2>3, PickIn
    <3>2. IsFiniteSet(r)
      BY <1>1, <3>1, FS_Subset
    <3>3. Sum(r)[r] = Sum(s)[r]
      <4>1. Sums(Sum(s), f, s) /\ Sums(Sum(r), f, r)
        BY <1>2, <1>3, <3>1
      <4> HIDE DEF r, X
      <4> QED BY <4>1, <3>1, <3>2, SumsOfPart
    <3>4. all[r] = Sum(s)[r] /\ all[s] = Sum(s)[s]
      BY <1>3, <3>1, <3>3
    <3> HIDE DEF all
    <3> QED BY <2>1, <2>3, <3>4 DEF SumAt
  <2> QED BY <2>2, <2>3
<1>4. ASSUME NEW s \in SUBSET T
      PROVE  SumAt(all, f, s) = SumAt(g, f, s)
  <2>1. CASE s = {}
    BY <2>1 DEF SumAt
  <2>2. CASE s # {}
    <3> DEFINE r == s \ {Pick(s)}
    <3>1. r \in SUBSET T /\ r # T
      BY <2>2, PickIn
    <3>2. all[r] = SumAt(all, f, r)
      BY <3>1, <1>3
    <3>3. g[r] = SumAt(all, f, r)
      BY <3>1
    <3> HIDE DEF all, g
    <3> QED BY <2>2, <3>2, <3>3 DEF SumAt
  <2> QED BY <2>1, <2>2
<1>5. g = [s \in SUBSET T |-> SumAt(g, f, s)]
  BY <1>4
<1>6. \E h : Sums(h, f, T)
  <2> HIDE DEF g
  <2> QED BY <1>5 DEF Sums
<1> QED BY <1>1, <1>6

(* The equation of a sum.                                                   *)
LEMMA SizesStep ==
  ASSUME NEW S, IsFiniteSet(S), NEW f
  PROVE  Sizes(S, f) = IF S = {} THEN 0 ELSE f[Pick(S)] + Sizes(S \ {Pick(S)}, f)
<1> DEFINE g == CHOOSE g : Sums(g, f, S)
           R == S \ {Pick(S)}
           h == CHOOSE h : Sums(h, f, R)
<1>1. Sums(g, f, S)
  BY SumsExist, Zenon
<1>2. IsFiniteSet(R)
  BY FS_Subset
<1>3. Sums(h, f, R)
  <2> HIDE DEF R
  <2> QED BY <1>2, SumsExist, Zenon
<1>4. h[R] = g[R]
  <2>1. R \subseteq S /\ R \in SUBSET R
    OBVIOUS
  <2> HIDE DEF g, h, R
  <2> QED BY <2>1, <1>1, <1>2, <1>3, SumsOfPart
<1>5. g[S] = IF S = {} THEN 0 ELSE f[Pick(S)] + g[R]
  <2> HIDE DEF g
  <2>1. g[S] = SumAt(g, f, S)
    BY <1>1, SumsAt
  <2> QED BY <2>1 DEF SumAt
<1>6. Sizes(S, f) = g[S] /\ Sizes(R, f) = h[R]
  BY Unfold
<1> QED BY <1>4, <1>5, <1>6

LEMMA SizesEmpty == \A f : Sizes({}, f) = 0
BY SizesStep, FS_EmptySet

(* A sum of naturals is one.                                                *)
LEMMA SizesType ==
  ASSUME NEW S, IsFiniteSet(S), NEW f, \A x \in S : f[x] \in Nat
  PROVE  Sizes(S, f) \in Nat
<1> DEFINE X == {s \in SUBSET S : Sizes(s, f) \notin Nat}
<1> SUFFICES ASSUME X # {} PROVE FALSE
  BY Zenon
<1>1. PICK T \in X : \A U \in X : U \subseteq T => U = T
  <2>1. X \in SUBSET SUBSET S
    OBVIOUS
  <2> HIDE DEF X
  <2> QED BY <2>1, LeastSet
<1>2. IsFiniteSet(T) /\ T \in SUBSET S
  BY FS_Subset
<1>3. Sizes(T, f) = IF T = {} THEN 0 ELSE f[Pick(T)] + Sizes(T \ {Pick(T)}, f)
  BY <1>2, SizesStep
<1>4. T # {}
  BY <1>3
<1>5. Sizes(T \ {Pick(T)}, f) \in Nat
  BY <1>1, <1>4, PickIn
<1> QED BY <1>2, <1>3, <1>4, <1>5, PickIn

(* Any element may be taken out first.                                      *)
LEMMA SizesOneOut ==
  ASSUME NEW S, IsFiniteSet(S), NEW f, \A x \in S : f[x] \in Nat, NEW x \in S
  PROVE  Sizes(S, f) = f[x] + Sizes(S \ {x}, f)
<1> DEFINE Holds_(s) == \A y \in s : Sizes(s, f) = f[y] + Sizes(s \ {y}, f)
           X == {s \in SUBSET S : ~ Holds_(s)}
<1> SUFFICES ASSUME X # {} PROVE FALSE
  OBVIOUS
<1>1. PICK T \in X : \A U \in X : U \subseteq T => U = T
  <2>1. X \in SUBSET SUBSET S
    OBVIOUS
  <2> HIDE DEF X
  <2> QED BY <2>1, LeastSet
<1>2. PICK y \in T : Sizes(T, f) # f[y] + Sizes(T \ {y}, f)
  BY <1>1
<1> DEFINE p == Pick(T)
<1>3. /\ T \in SUBSET S /\ IsFiniteSet(T)
      /\ p \in T /\ IsFiniteSet(T \ {y}) /\ IsFiniteSet(T \ {p}) /\ IsFiniteSet((T \ {p}) \ {y})
  BY <1>1, FS_Subset, PickIn
<1>4. Sizes(T, f) = f[p] + Sizes(T \ {p}, f)
  BY <1>3, SizesStep
<1>5. p # y
  BY <1>2, <1>4
<1>6. T \ {p} \notin X /\ T \ {y} \notin X
  BY <1>1, <1>2, <1>3
<1>7. Sizes(T \ {p}, f) = f[y] + Sizes((T \ {p}) \ {y}, f)
  BY <1>2, <1>3, <1>5, <1>6
<1>8. Sizes(T \ {y}, f) = f[p] + Sizes((T \ {y}) \ {p}, f)
  BY <1>2, <1>3, <1>5, <1>6
<1>9. (T \ {y}) \ {p} = (T \ {p}) \ {y}
  OBVIOUS
<1>10. Sizes((T \ {p}) \ {y}, f) \in Nat
  BY <1>3, SizesType
<1>11. f[p] \in Nat /\ f[y] \in Nat
  BY <1>2, <1>3
<1>12. Sizes(T \ {y}, f) = f[p] + Sizes((T \ {p}) \ {y}, f)
  BY <1>8, <1>9
<1>13. Sizes(T, f) = f[p] + (f[y] + Sizes((T \ {p}) \ {y}, f))
  BY <1>4, <1>7
<1>14. Sizes(T, f) = f[y] + (f[p] + Sizes((T \ {p}) \ {y}, f))
  <2> DEFINE n == Sizes((T \ {p}) \ {y}, f)
             fp == f[p]
             fy == f[y]
  <2>1. n \in Nat /\ fp \in Nat /\ fy \in Nat /\ Sizes(T, f) = fp + (fy + n)
    BY <1>10, <1>11, <1>13
  <2> HIDE DEF n, fp, fy, p
  <2>2. Sizes(T, f) = fy + (fp + n)
    BY <2>1
  <2> QED BY <2>2 DEF n, fp, fy
<1> QED BY <1>2, <1>12, <1>14

(* Sums of functions that are alike on the set, or one below the other.     *)
LEMMA SizesMonotone ==
  ASSUME NEW S, IsFiniteSet(S), NEW f, NEW h,
         \A x \in S : f[x] \in Nat /\ h[x] \in Nat /\ f[x] <= h[x]
  PROVE  Sizes(S, f) <= Sizes(S, h)
<1> DEFINE X == {s \in SUBSET S : ~ (Sizes(s, f) <= Sizes(s, h))}
<1> SUFFICES ASSUME X # {} PROVE FALSE
  BY Zenon
<1>1. PICK T \in X : \A U \in X : U \subseteq T => U = T
  <2>1. X \in SUBSET SUBSET S
    OBVIOUS
  <2> HIDE DEF X
  <2> QED BY <2>1, LeastSet
<1>2. T \in SUBSET S /\ IsFiniteSet(T) /\ IsFiniteSet(T \ {Pick(T)})
  BY FS_Subset
<1>3. T # {}
  BY SizesEmpty
<1>4. T \ {Pick(T)} \notin X
  BY <1>1, <1>3, PickIn
<1>5. Sizes(T \ {Pick(T)}, f) <= Sizes(T \ {Pick(T)}, h)
  BY <1>4, <1>2
<1>6. Sizes(T, f) = f[Pick(T)] + Sizes(T \ {Pick(T)}, f)
  BY <1>2, <1>3, SizesStep
<1>7. Sizes(T, h) = h[Pick(T)] + Sizes(T \ {Pick(T)}, h)
  BY <1>2, <1>3, SizesStep
<1>8. Sizes(T \ {Pick(T)}, f) \in Nat /\ Sizes(T \ {Pick(T)}, h) \in Nat
  BY <1>2, SizesType
<1>9. f[Pick(T)] \in Nat /\ h[Pick(T)] \in Nat /\ f[Pick(T)] <= h[Pick(T)]
  BY <1>2, <1>3, PickIn
<1>10. ~ (Sizes(T, f) <= Sizes(T, h))
  BY <1>1
<1> QED BY <1>5, <1>6, <1>7, <1>8, <1>9, <1>10

LEMMA SizesSame ==
  ASSUME NEW S, IsFiniteSet(S), NEW f, NEW h, \A x \in S : f[x] \in Nat /\ h[x] = f[x]
  PROVE  Sizes(S, h) = Sizes(S, f)
<1>1. Sizes(S, f) <= Sizes(S, h) /\ Sizes(S, h) <= Sizes(S, f)
  BY SizesMonotone
<1>2. Sizes(S, f) \in Nat /\ Sizes(S, h) \in Nat
  BY SizesType
<1> QED BY <1>1, <1>2

(* Two sets with nothing in common.                                         *)
LEMMA SizesUnion ==
  ASSUME NEW S, IsFiniteSet(S), NEW R, IsFiniteSet(R), S \cap R = {}, NEW f,
         \A x \in S \cup R : f[x] \in Nat
  PROVE  Sizes(S \cup R, f) = Sizes(S, f) + Sizes(R, f)
<1> DEFINE X == {r \in SUBSET R : Sizes(S \cup r, f) # Sizes(S, f) + Sizes(r, f)}
<1> SUFFICES ASSUME X # {} PROVE FALSE
  BY Zenon
<1>1. PICK T \in X : \A U \in X : U \subseteq T => U = T
  <2>1. X \in SUBSET SUBSET R
    OBVIOUS
  <2> HIDE DEF X
  <2> QED BY <2>1, LeastSet
<1>2. T \in SUBSET R /\ IsFiniteSet(T) /\ IsFiniteSet(S \cup T)
  BY FS_Subset, FS_Union
<1>3. Sizes(S, f) \in Nat
  BY SizesType
<1>4. T # {}
  <2> SUFFICES ASSUME T = {} PROVE FALSE
    OBVIOUS
  <2>1. S \cup T = S /\ Sizes(T, f) = 0
    BY SizesEmpty
  <2> QED BY <1>1, <1>3, <2>1
<1> DEFINE p == Pick(T)
<1>5. p \in T /\ p \notin S /\ f[p] \in Nat
  BY <1>2, <1>4, PickIn
<1>6. Sizes(S \cup (T \ {p}), f) = Sizes(S, f) + Sizes(T \ {p}, f)
  BY <1>1, <1>5
<1>7. Sizes(T, f) = f[p] + Sizes(T \ {p}, f)
  BY <1>2, <1>5, SizesOneOut
<1>8. Sizes(S \cup T, f) = f[p] + Sizes((S \cup T) \ {p}, f)
  BY <1>2, <1>5, SizesOneOut
<1>9. (S \cup T) \ {p} = S \cup (T \ {p})
  BY <1>5
<1>10. Sizes(T \ {p}, f) \in Nat
  BY <1>2, SizesType, FS_Subset
<1>11. Sizes(S \cup T, f) # Sizes(S, f) + Sizes(T, f)
  BY <1>1
<1> HIDE DEF p, X
<1> QED BY <1>3, <1>5, <1>6, <1>7, <1>8, <1>9, <1>10, <1>11
-----------------------------------------------------------------------------
(* Lines.                                                                   *)

Call == Writer \cup Upkeep
State == [op : {"idle", "put", "due", "all"}, todo : SUBSET Zone, ok : BOOLEAN]

\* Nobody is twice in a line.
Once == \A z \in Zone : \A i, j \in DOMAIN line[z] : line[z][i] = line[z][j] => i = j

LinesOK == line \in [Zone -> Seq(Process)] /\ Once

LEMMA Join ==
  ASSUME LinesOK, NEW p \in Process, NEW z \in Zone, z \notin Lines(p),
         line' = [line EXCEPT ![z] = Append(@, p)]
  PROVE  /\ LinesOK'
         /\ \A q \in Process : Lines(q)' = IF q = p THEN Lines(q) \cup {z} ELSE Lines(q)
         /\ \A q \in Process, y \in Zone :
              Holds(q, y)' <=> Holds(q, y) \/ (q = p /\ y = z /\ line[z] = <<>>)
<1> DEFINE s == line[z]
           r == Append(s, p)
<1>1. s \in Seq(Process) /\ \A i \in DOMAIN s : s[i] # p
  BY DEF Lines, LinesOK
<1>2. /\ r \in Seq(Process) /\ Len(r) = Len(s) + 1 /\ r[Len(s) + 1] = p
      /\ \A i \in 1..Len(s) : r[i] = s[i]
  BY <1>1, AppendProperties
<1>3. DOMAIN s = 1..Len(s) /\ DOMAIN r = 1..(Len(s) + 1) /\ Len(s) \in Nat
  BY <1>1, <1>2, LenProperties
<1>4. line'[z] = r /\ \A y \in Zone : y # z => line'[y] = line[y]
  BY DEF LinesOK
<1>5. line' \in [Zone -> Seq(Process)]
  BY <1>2 DEF LinesOK
<1> HIDE DEF r
<1>6. Once'
  <2>1. \A i, j \in DOMAIN r : r[i] = r[j] => i = j
    <3>1. \A i, j \in DOMAIN s : s[i] = s[j] => i = j
      BY DEF LinesOK, Once
    <3> HIDE DEF s
    <3> QED BY <1>1, <1>2, <1>3, <3>1
  <2> QED BY <2>1, <1>4 DEF LinesOK, Once
<1>7. ASSUME NEW q \in Process
      PROVE  Lines(q)' = IF q = p THEN Lines(q) \cup {z} ELSE Lines(q)
  <2>1. (\E i \in DOMAIN r : r[i] = q) <=> (q = p \/ \E i \in DOMAIN s : s[i] = q)
    <3> HIDE DEF s
    <3> QED BY <1>2, <1>3
  <2> QED BY <2>1, <1>4 DEF Lines
<1>8. ASSUME NEW q \in Process, NEW y \in Zone
      PROVE  Holds(q, y)' <=> Holds(q, y) \/ (q = p /\ y = z /\ line[z] = <<>>)
  <2>1. CASE y # z
    BY <2>1, <1>4 DEF Holds
  <2>2. CASE y = z
    <3>1. r # <<>> /\ Head(r) = IF s = <<>> THEN p ELSE Head(s)
      BY <1>1, <1>2, <1>3
    <3> QED BY <2>2, <3>1, <1>4 DEF Holds
  <2> QED BY <2>1, <2>2
<1> QED BY <1>5, <1>6, <1>7, <1>8 DEF LinesOK

LEMMA LeavesLine ==
  ASSUME LinesOK, NEW p \in Process, NEW z \in Zone, Holds(p, z), Leave(z)
  PROVE  /\ LinesOK'
         /\ \A q \in Process : Lines(q)' = IF q = p THEN Lines(q) \ {z} ELSE Lines(q)
         /\ \A q \in Process, y \in Zone : y # z => (Holds(q, y)' <=> Holds(q, y))
<1> DEFINE s == line[z]
           r == Tail(s)
<1>1. s \in Seq(Process) /\ s # <<>> /\ s[1] = p
  BY DEF LinesOK, Holds
<1>2. /\ r \in Seq(Process) /\ Len(r) = Len(s) - 1
      /\ \A i \in 1..Len(r) : r[i] = s[i + 1]
  BY <1>1, HeadTailProperties
<1>3. DOMAIN s = 1..Len(s) /\ DOMAIN r = 1..(Len(s) - 1) /\ Len(s) \in Nat \ {0}
  BY <1>1, <1>2, LenProperties, EmptySeq
<1>4. line'[z] = r /\ \A y \in Zone : y # z => line'[y] = line[y]
  BY DEF LinesOK, Leave
<1>5. line' \in [Zone -> Seq(Process)]
  BY <1>2 DEF LinesOK, Leave
<1>6. \A i, j \in DOMAIN s : s[i] = s[j] => i = j
  BY DEF LinesOK, Once
<1> HIDE DEF r, s
<1>7. Once'
  <2>1. ASSUME NEW i \in DOMAIN r, NEW j \in DOMAIN r, r[i] = r[j]
        PROVE  i = j
    <3>1. i + 1 \in DOMAIN s /\ j + 1 \in DOMAIN s /\ s[i + 1] = s[j + 1]
      BY <2>1, <1>2, <1>3
    <3>2. i + 1 = j + 1
      BY <3>1, <1>6
    <3> QED BY <3>2, <1>3
  <2> QED BY <2>1, <1>4 DEF LinesOK, Once
<1>8. ASSUME NEW q \in Process
      PROVE  Lines(q)' = IF q = p THEN Lines(q) \ {z} ELSE Lines(q)
  <2>1. (\E i \in DOMAIN r : r[i] = q) <=> (q # p /\ \E i \in DOMAIN s : s[i] = q)
    <3>1. ASSUME NEW i \in DOMAIN r, r[i] = q
          PROVE  q # p /\ \E j \in DOMAIN s : s[j] = q
      <4>1. i + 1 \in DOMAIN s /\ s[i + 1] = q /\ 1 \in DOMAIN s /\ i + 1 # 1
        BY <3>1, <1>2, <1>3
      <4> QED BY <4>1, <1>1, <1>6
    <3>2. ASSUME NEW j \in DOMAIN s, s[j] = q, q # p
          PROVE  \E i \in DOMAIN r : r[i] = q
      <4>1. j - 1 \in DOMAIN r /\ r[j - 1] = q
        BY <3>2, <1>1, <1>2, <1>3
      <4> QED BY <4>1
    <3> QED BY <3>1, <3>2
  <2> QED BY <2>1, <1>4 DEF Lines, s
<1>9. \A q \in Process, y \in Zone : y # z => (Holds(q, y)' <=> Holds(q, y))
  BY <1>4 DEF Holds
<1> QED BY <1>5, <1>7, <1>8, <1>9 DEF LinesOK

(* A line without one of its own.                                           *)
TakesOut(s, p, r) ==
  /\ r \in Seq(Process)
  /\ \A i, j \in DOMAIN r : r[i] = r[j] => i = j
  /\ \A q : (\E i \in DOMAIN r : r[i] = q) <=> (q # p /\ \E i \in DOMAIN s : s[i] = q)
  /\ s # <<>> /\ Head(s) # p => r # <<>> /\ Head(r) = Head(s)

LEMMA Removed ==
  ASSUME NEW s \in Seq(Process), NEW p, \A i, j \in DOMAIN s : s[i] = s[j] => i = j
  PROVE  TakesOut(s, p, RemoveFirst(s, p))
<1>1. DOMAIN s = 1..Len(s) /\ Len(s) \in Nat
  BY LenProperties
<1>2. CASE ~ \E i \in 1..Len(s) : s[i] = p
  BY <1>1, <1>2 DEF RemoveFirst, TakesOut
<1>3. CASE \E i \in 1..Len(s) : s[i] = p
  <2> DEFINE k == SelectInSeq(s, LAMBDA v : v = p)
             r == RemoveAt(s, k)
             a == SubSeq(s, 1, k - 1)
             b == SubSeq(s, k + 1, Len(s))
  <2>1. k \in 1..Len(s) /\ s[k] = p
    <3>1. PICK i \in 1..Len(s) : s[i] = p
      BY <1>3
    <3>2. {j \in 1..Len(s) : s[j] = p} = {i}
      BY <3>1, <1>1
    <3>3. Min({i}) = i
      BY DEF Min
    <3>4. k = i
      BY <3>2, <3>3 DEF SelectInSeq
    <3> QED BY <3>1, <3>4
  <2>2. RemoveFirst(s, p) = r
    BY <1>3 DEF RemoveFirst
  <2> HIDE DEF k
  <2>3. r = a \o b
    BY DEF RemoveAt
  <2>4. a \in Seq(Process) /\ Len(a) = k - 1 /\ \A i \in 1..(k - 1) : a[i] = s[i]
    BY <2>1, <1>1
  <2>5. b \in Seq(Process) /\ Len(b) = Len(s) - k /\ \A i \in 1..(Len(s) - k) : b[i] = s[k + i]
    BY <2>1, <1>1
  <2> HIDE DEF a, b, r
  <2>6. /\ r \in Seq(Process) /\ DOMAIN r = 1..(Len(s) - 1)
        /\ \A i \in 1..(k - 1) : r[i] = s[i]
        /\ \A i \in k..(Len(s) - 1) : r[i] = s[i + 1]
    <3>1. r \in Seq(Process) /\ Len(r) = Len(s) - 1
      <4>1. r \in Seq(Process) /\ Len(r) = Len(a) + Len(b)
        BY <2>3, <2>4, <2>5, ConcatProperties
      <4> QED BY <4>1, <2>1, <2>4, <2>5, <1>1
    <3>2. DOMAIN r = 1..(Len(s) - 1)
      BY <3>1, LenProperties
    <3>3. ASSUME NEW i \in 1..(k - 1)
          PROVE  r[i] = s[i]
      <4>1. i \in 1..(Len(a) + Len(b)) /\ i <= Len(a)
        BY <2>1, <2>4, <2>5, <1>1
      <4>2. r[i] = a[i]
        BY <4>1, <2>3, <2>4, <2>5, ConcatProperties
      <4> QED BY <4>2, <2>4
    <3>4. ASSUME NEW i \in k..(Len(s) - 1)
          PROVE  r[i] = s[i + 1]
      <4>1. i \in 1..(Len(a) + Len(b)) /\ ~ (i <= Len(a))
        BY <2>1, <2>4, <2>5, <1>1
      <4>2. r[i] = b[i - Len(a)]
        BY <4>1, <2>3, <2>4, <2>5, ConcatProperties
      <4>3. i - Len(a) \in 1..(Len(s) - k) /\ k + (i - Len(a)) = i + 1
        BY <2>1, <2>4, <1>1
      <4> QED BY <4>2, <4>3, <2>5
    <3> QED BY <3>1, <3>2, <3>3, <3>4
  <2> DEFINE m(i) == IF i < k THEN i ELSE i + 1
  <2>10. ASSUME NEW i \in DOMAIN r
         PROVE  m(i) \in DOMAIN s /\ m(i) # k /\ r[i] = s[m(i)]
    <3>1. CASE i < k
      BY <3>1, <2>6, <2>1, <1>1
    <3>2. CASE ~ (i < k)
      <4>1. i \in k..(Len(s) - 1)
        BY <3>2, <2>6, <2>1, <1>1
      <4> QED BY <3>2, <4>1, <2>6, <2>1, <1>1
    <3> QED BY <3>1, <3>2
  <2>7. ASSUME NEW i \in DOMAIN r, NEW j \in DOMAIN r, r[i] = r[j]
        PROVE  i = j
    <3>1. m(i) = m(j)
      BY <2>7, <2>10
    <3> QED BY <3>1, <2>6, <2>1, <1>1
  <2>8. ASSUME NEW q
        PROVE  (\E i \in DOMAIN r : r[i] = q) <=> (q # p /\ \E i \in DOMAIN s : s[i] = q)
    <3>1. ASSUME NEW i \in DOMAIN r, r[i] = q
          PROVE  q # p /\ \E j \in DOMAIN s : s[j] = q
      BY <3>1, <2>10, <2>1, <1>1
    <3>2. ASSUME NEW j \in DOMAIN s, s[j] = q, q # p
          PROVE  \E i \in DOMAIN r : r[i] = q
      <4>1. CASE j < k
        BY <4>1, <3>2, <2>6, <2>1, <1>1
      <4>2. CASE j > k
        <5>1. j - 1 \in k..(Len(s) - 1)
          BY <4>2, <2>1, <1>1
        <5>2. r[j - 1] = s[(j - 1) + 1]
          BY <5>1, <2>6
        <5> QED BY <5>1, <5>2, <3>2, <2>6, <2>1, <1>1
      <4> QED BY <4>1, <4>2, <3>2, <2>1, <1>1
    <3> QED BY <3>1, <3>2
  <2>9. ASSUME s # <<>>, Head(s) # p
        PROVE  r # <<>> /\ Head(r) = Head(s)
    <3>1. s[1] # p /\ Head(s) = s[1]
      BY <2>9
    <3>2. k # 1
      BY <3>1, <2>1
    <3>3. 1 \in 1..(k - 1) /\ 1 \in DOMAIN r
      BY <3>2, <2>1, <2>6, <1>1
    <3>4. r[1] = s[1]
      BY <3>3, <2>6
    <3>5. r # <<>>
      BY <3>3
    <3>6. Head(r) = r[1]
      BY <3>5, <2>6
    <3> QED BY <3>1, <3>4, <3>5, <3>6
  <2> QED BY <2>2, <2>6, <2>7, <2>8, <2>9 DEF TakesOut
<1> QED BY <1>2, <1>3

LEMMA DropsOut ==
  ASSUME LinesOK, NEW p \in Process, line' = [z \in Zone |-> RemoveFirst(line[z], p)]
  PROVE  /\ LinesOK'
         /\ \A q \in Process : Lines(q)' = IF q = p THEN {} ELSE Lines(q)
         /\ \A q \in Process, y \in Zone : q # p /\ Holds(q, y) => Holds(q, y)'
         /\ \A q \in Process, y \in Zone : Holds(q, y)' => Holds(q, y) \/ Holds(p, y)
<1>1. ASSUME NEW z \in Zone
      PROVE  TakesOut(line[z], p, line'[z])
  <2>1. line[z] \in Seq(Process) /\ \A i, j \in DOMAIN line[z] : line[z][i] = line[z][j] => i = j
    BY DEF LinesOK, Once
  <2>2. line'[z] = RemoveFirst(line[z], p)
    OBVIOUS
  <2> QED BY <2>1, <2>2, Removed
<1>2. line' \in [Zone -> Seq(Process)]
  BY <1>1 DEF TakesOut
<1>3. Once'
  BY <1>1 DEF Once, TakesOut
<1>4. \A q \in Process : Lines(q)' = IF q = p THEN {} ELSE Lines(q)
  BY <1>1 DEF Lines, TakesOut
<1>5. \A q \in Process, y \in Zone : q # p /\ Holds(q, y) => Holds(q, y)'
  BY <1>1 DEF Holds, TakesOut
<1>6. ASSUME NEW q \in Process, NEW y \in Zone, Holds(q, y)'
      PROVE  Holds(q, y) \/ Holds(p, y)
  <2>1. line[y] # <<>>
    <3>1. line'[y] # <<>> /\ line'[y] \in Seq(Process)
      BY <1>1, <1>6 DEF Holds, TakesOut
    <3>2. 1 \in DOMAIN line'[y]
      BY <3>1
    <3>3. PICK r : \E i \in DOMAIN line'[y] : line'[y][i] = r
      BY <3>2
    <3>4. \E i \in DOMAIN line[y] : line[y][i] = r
      BY <3>3, <1>1 DEF TakesOut
    <3>5. DOMAIN line[y] # {}
      BY <3>4
    <3> QED BY <3>5
  <2> QED BY <2>1, <1>1, <1>6 DEF Holds, TakesOut
<1> QED BY <1>2, <1>3, <1>4, <1>5, <1>6 DEF LinesOK
-----------------------------------------------------------------------------
(* Types, and what each buffer counts.                                      *)

Types ==
  /\ pending \in [Tile -> Nat] /\ frozen \in [Tile -> Nat]
  /\ bytes \in [Zone -> Int] /\ age \in [Zone -> Nat]
  /\ LinesOK
  /\ call \in [Process -> State]
  /\ owed \in [Upkeep -> SUBSET Tile]
  /\ alone \in BOOLEAN /\ puts \in Nat /\ faults \in Nat

Counted == Types /\ BytesAreCounted

LEMMA Finite ==
  ASSUME NEW S \in SUBSET Tile
  PROVE  IsFiniteSet(S)
BY SizesAssumption, FS_Subset

LEMMA ZonesOf == \A t \in Tile : ZoneOf[t] \in Zone
BY SizesAssumption

LEMMA IdleType == Idle \in State
BY DEF Idle, State

LEMMA CountedIsNat ==
  ASSUME Counted, NEW z \in Zone
  PROVE  bytes[z] \in Nat
<1>1. Pending(z) \in SUBSET Tile
  BY DEF Pending, In
<1>2. \A t \in Pending(z) : pending[t] \in Nat
  BY <1>1 DEF Counted, Types
<1> QED BY <1>1, <1>2, Finite, SizesType DEF Counted, BytesAreCounted

LEMMA PutCounted ==
  ASSUME Counted, NEW w \in Writer, NEW t \in Tile, NEW size \in SizesOf[t], Put(w, t, size)
  PROVE  /\ pending' \in [Tile -> Nat] /\ bytes' \in [Zone -> Int] /\ BytesAreCounted'
<1> DEFINE z == ZoneOf[t]
<1>1. size \in Nat \ {0} /\ z \in Zone /\ t \in In(z)
  BY SizesAssumption DEF In
<1>2. pending' = [pending EXCEPT ![t] = size]
      /\ bytes' = [bytes EXCEPT ![z] = @ + Added(t, size)]
  BY DEF Put
<1>3. pending' \in [Tile -> Nat] /\ bytes' \in [Zone -> Int]
  BY <1>1, <1>2 DEF Counted, Types, Added
<1>4. ASSUME NEW y \in Zone
      PROVE  bytes'[y] = Sizes(Pending(y)', pending')
  <2>1. Pending(y) \in SUBSET Tile /\ Pending(y)' \in SUBSET Tile
    BY DEF Pending, In
  <2>2. bytes[y] = Sizes(Pending(y), pending)
    BY DEF Counted, BytesAreCounted
  <2>3. CASE y # z
    <3>1. Pending(y)' = Pending(y)
      BY <2>3, <1>2 DEF Pending, In, Counted, Types
    <3>2. \A x \in Pending(y) : pending[x] \in Nat /\ pending'[x] = pending[x]
      BY <2>3, <1>2 DEF Pending, In, Counted, Types
    <3>3. Sizes(Pending(y), pending') = Sizes(Pending(y), pending)
      BY <2>1, <3>2, Finite, SizesSame
    <3> QED BY <2>2, <2>3, <3>1, <3>3, <1>2 DEF Counted, Types
  <2>4. CASE y = z
    <3> DEFINE R == Pending(z) \ {t}
    <3>1. Pending(z)' = R \cup {t} /\ Pending(z)' \ {t} = R
      BY <1>1, <1>2 DEF Pending, In, Counted, Types
    <3>2. Pending(z)' \in SUBSET Tile /\ R \in SUBSET Tile /\ t \in Pending(z)'
      BY <2>1, <2>4, <3>1
    <3>3. \A x \in Tile : pending[x] \in Nat /\ pending'[x] \in Nat
      BY <1>3 DEF Counted, Types
    <3>4. Sizes(Pending(z)', pending') = pending'[t] + Sizes(R, pending')
      BY <3>1, <3>2, <3>3, Finite, SizesOneOut
    <3>5. Sizes(R, pending') = Sizes(R, pending)
      <4>1. \A x \in R : pending[x] \in Nat /\ pending'[x] = pending[x]
        BY <1>2, <3>2, <3>3 DEF Counted, Types
      <4> HIDE DEF R
      <4> QED BY <4>1, <3>2, Finite, SizesSame
    <3>6. Sizes(R, pending) \in Nat
      <4> HIDE DEF R
      <4> QED BY <3>2, <3>3, Finite, SizesType
    <3>7. bytes[z] = pending[t] + Sizes(R, pending)
      <4>1. CASE pending[t] = 0
        <5>1. R = Pending(z)
          BY <4>1 DEF Pending
        <5>2. bytes[z] = Sizes(R, pending)
          BY <5>1, <2>2, <2>4
        <5> HIDE DEF R
        <5> QED BY <4>1, <5>2, <3>6
      <4>2. CASE pending[t] # 0
        <5>1. t \in Pending(z)
          BY <4>2, <1>1 DEF Pending
        <5>2. Sizes(Pending(z), pending) = pending[t] + Sizes(R, pending)
          BY <5>1, <2>1, <2>4, <3>3, Finite, SizesOneOut
        <5> QED BY <5>2, <2>2, <2>4
      <4> QED BY <4>1, <4>2
    <3>8. bytes'[z] = bytes[z] + (size - pending[t]) /\ pending'[t] = size
      BY <1>1, <1>2 DEF Counted, Types, Added
    <3> HIDE DEF R
    <3> QED BY <2>4, <3>3, <3>4, <3>5, <3>6, <3>7, <3>8, <1>1
  <2> QED BY <2>3, <2>4
<1> QED BY <1>3, <1>4 DEF BytesAreCounted

LEMMA FreezeCounted ==
  ASSUME Counted, NEW z \in Zone,
         frozen' = [t \in Tile |-> IF t \in In(z) THEN pending[t] ELSE frozen[t]],
         pending' = [t \in Tile |-> IF t \in In(z) THEN 0 ELSE pending[t]],
         bytes' = [bytes EXCEPT ![z] = 0]
  PROVE  /\ frozen' \in [Tile -> Nat] /\ pending' \in [Tile -> Nat] /\ bytes' \in [Zone -> Int]
         /\ BytesAreCounted'
<1>1. frozen' \in [Tile -> Nat] /\ pending' \in [Tile -> Nat] /\ bytes' \in [Zone -> Int]
  BY DEF Counted, Types
<1>2. ASSUME NEW y \in Zone
      PROVE  bytes'[y] = Sizes(Pending(y)', pending')
  <2>1. CASE y # z
    <3>1. Pending(y)' = Pending(y)
      BY <2>1 DEF Pending, In
    <3>2. Pending(y) \in SUBSET Tile
      BY DEF Pending, In
    <3>3. \A x \in Pending(y) : pending[x] \in Nat /\ pending'[x] = pending[x]
      BY <2>1 DEF Pending, In, Counted, Types
    <3>4. Sizes(Pending(y), pending') = Sizes(Pending(y), pending)
      BY <3>2, <3>3, Finite, SizesSame
    <3> QED BY <2>1, <3>1, <3>4 DEF Counted, Types, BytesAreCounted
  <2>2. CASE y = z
    <3>1. Pending(z)' = {}
      BY DEF Pending, In
    <3> QED BY <2>2, <3>1, SizesEmpty DEF Counted, Types
  <2> QED BY <2>1, <2>2
<1> QED BY <1>1, <1>2 DEF BytesAreCounted

LEMMA EndFlushCounted ==
  ASSUME Counted, NEW Z \in SUBSET Zone, EndFlush(Z)
  PROVE  /\ frozen' \in [Tile -> Nat] /\ pending' \in [Tile -> Nat] /\ bytes' \in [Zone -> Int]
         /\ age' \in [Zone -> Nat] /\ BytesAreCounted'
<1> DEFINE B == Back(Z)
<1>0. /\ pending' = [t \in Tile |-> IF t \in B THEN frozen[t] ELSE pending[t]]
      /\ bytes' = [z \in Zone |-> bytes[z] + Sizes(B \cap In(z), frozen)]
      /\ frozen' = [t \in Tile |-> IF ZoneOf[t] \in Z THEN 0 ELSE frozen[t]]
      /\ age' = [z \in Zone |-> IF z \in Z /\ age[z] = 0 THEN 1 ELSE age[z]]
  BY DEF EndFlush
<1>1. B \subseteq Tile /\ \A t \in B : pending[t] = 0 /\ frozen[t] # 0
  BY DEF Back, Frozen, In
<1> HIDE DEF B
<1>2. \A t \in Tile : pending[t] \in Nat /\ frozen[t] \in Nat
  BY DEF Counted, Types
<1>3. frozen' \in [Tile -> Nat] /\ pending' \in [Tile -> Nat] /\ age' \in [Zone -> Nat]
  BY <1>0, <1>2 DEF Counted, Types
<1>4. ASSUME NEW y \in Zone
      PROVE  bytes'[y] \in Int /\ bytes'[y] = Sizes(Pending(y)', pending')
  <2> DEFINE P == Pending(y)
             R == B \cap In(y)
  <2>1. P \in SUBSET Tile /\ R \in SUBSET Tile /\ P \cap R = {} /\ Pending(y)' = P \cup R
    BY <1>0, <1>1 DEF Pending, In
  <2>2. bytes[y] = Sizes(P, pending) /\ bytes'[y] = bytes[y] + Sizes(R, frozen)
    BY <1>0 DEF Counted, BytesAreCounted
  <2>3. \A x \in P : pending[x] \in Nat /\ pending'[x] = pending[x]
    BY <1>0, <1>1, <1>2 DEF Pending, In
  <2>4. \A x \in R : frozen[x] \in Nat /\ pending'[x] = frozen[x]
    BY <1>0, <1>1, <1>2
  <2>5. \A x \in P \cup R : pending'[x] \in Nat
    BY <2>3, <2>4
  <2> HIDE DEF P, R
  <2>6. Sizes(P, pending') = Sizes(P, pending)
    BY <2>1, <2>3, Finite, SizesSame
  <2>7. Sizes(R, pending') = Sizes(R, frozen)
    BY <2>1, <2>4, Finite, SizesSame
  <2>8. Sizes(P \cup R, pending') = Sizes(P, pending') + Sizes(R, pending')
    BY <2>1, <2>5, Finite, SizesUnion
  <2>9. Sizes(P, pending') \in Nat /\ Sizes(R, pending') \in Nat
    BY <2>1, <2>5, Finite, SizesType
  <2> QED BY <2>1, <2>2, <2>6, <2>7, <2>8, <2>9
<1>5. bytes' \in [Zone -> Int]
  BY <1>0, <1>4
<1> QED BY <1>3, <1>4, <1>5 DEF BytesAreCounted
-----------------------------------------------------------------------------
(* Who waits for what.                                                      *)

\* Who is idle is in no line, and nobody is in one he has still to join.
Waits ==
  \A p \in Process : /\ call[p].todo \cap Lines(p) = {}
                     /\ call[p].op = "idle" /\ p \in Call => call[p].todo \cup Lines(p) = {}
                     /\ p \in Maintainer => call[p].todo = {}

\* What is frozen is being published by who holds the lock.
FrozenHeld == \A z \in Zone : Frozen(z) # {} => \E p \in Call : Holds(p, z)

\* What flush_all owes is there, at a zone it has still to flush; once that is
\* frozen by it, so is what it owes.
Owes ==
  \A u \in Upkeep : call[u].op = "all" /\ call[u].ok =>
    \A t \in owed[u] :
      /\ ZoneOf[t] \in call[u].todo \cup Lines(u)
      /\ pending[t] # 0 \/ frozen[t] # 0
      /\ Holds(u, ZoneOf[t]) /\ Frozen(ZoneOf[t]) # {} => frozen[t] # 0

Inv == Counted /\ Waits /\ FrozenHeld /\ Owes

LEMMA Roles ==
  /\ Call \subseteq Process /\ Call \cap Maintainer = {} /\ Writer \cap Upkeep = {}
  /\ Writer \subseteq Call /\ Upkeep \subseteq Call /\ Maintainer \subseteq Process
  /\ \A p \in Process : p \in Call \/ p \in Maintainer
BY RolesAssumption DEF Call, Process

LEMMA HoldsIn == \A p, z : z \in Zone /\ LinesOK /\ Holds(p, z) => z \in Lines(p)
<1> SUFFICES ASSUME NEW p, NEW z \in Zone, LinesOK, Holds(p, z)
             PROVE  z \in Lines(p)
  OBVIOUS
<1>1. line[z] \in Seq(Process) /\ line[z] # <<>> /\ line[z][1] = p
  BY DEF LinesOK, Holds
<1>2. 1 \in DOMAIN line[z]
  BY <1>1
<1> QED BY <1>1, <1>2 DEF Lines

LEMMA OneHolds == \A p, q, z : Holds(p, z) /\ Holds(q, z) => p = q
BY DEF Holds

LEMMA InvInit == Init => Inv
<1> SUFFICES ASSUME Init PROVE Inv
  OBVIOUS
<1>1. LinesOK
  BY DEF Init, LinesOK, Once
<1>2. Types
  BY <1>1, IdleType DEF Init, Types
<1>3. \A z \in Zone : Pending(z) = {} /\ Frozen(z) = {}
  BY DEF Init, Pending, Frozen, In
<1>4. BytesAreCounted
  BY <1>3, SizesEmpty DEF Init, BytesAreCounted
<1>5. \A p \in Process : Lines(p) = {} /\ call[p].todo = {} /\ call[p].op = "idle"
  BY DEF Init, Lines, Idle
<1> QED BY <1>2, <1>3, <1>4, <1>5, Roles DEF Inv, Counted, Waits, FrozenHeld, Owes

LEMMA PutStep ==
  ASSUME Inv, NEW w \in Writer, NEW t \in Tile, NEW size \in SizesOf[t], Put(w, t, size)
  PROVE  Inv'
<1> USE DEF Inv
<1>1. pending' \in [Tile -> Nat] /\ bytes' \in [Zone -> Int] /\ BytesAreCounted'
  BY PutCounted
<1>2. w \in Process /\ w \in Call /\ w \notin Upkeep /\ call[w].op = "idle" /\ call[w] \in State
      /\ call[w].todo = {} /\ Lines(w) = {}
  <2>1. w \in Process /\ w \in Call /\ w \notin Upkeep
    BY Roles
  <2>2. call[w] = Idle
    BY DEF Put
  <2>3. call[w].op = "idle" /\ call[w].todo = {} /\ call[w] \in State
    BY <2>2, IdleType DEF Idle
  <2> QED BY <2>1, <2>3 DEF Waits
<1>3. /\ pending' = [pending EXCEPT ![t] = size]
      /\ UNCHANGED <<frozen, owed, faults>> /\ puts' = puts + 1
      /\ age' = [age EXCEPT ![ZoneOf[t]] = IF @ = 0 THEN 1 ELSE @]
      /\ alone' \in BOOLEAN
  BY DEF Put, Counted, Types
<1>4. size # 0
  BY SizesAssumption
<1>5. /\ LinesOK' /\ call' \in [Process -> State]
      /\ \A p \in Process : p # w => Lines(p)' = Lines(p) /\ call'[p] = call[p]
      /\ call'[w].todo = {} /\ (call'[w].op = "idle" => Lines(w)' = {})
      /\ \A p \in Process, z \in Zone : Holds(p, z) => Holds(p, z)'
      /\ \A p \in Process, z \in Zone : p # w /\ Holds(p, z)' => Holds(p, z)
  <2>1. CASE UNCHANGED <<line, call>>
    <3>1. LinesOK' /\ \A p \in Process : Lines(p)' = Lines(p)
      BY <2>1 DEF Counted, Types, LinesOK, Once, Lines
    <3> QED BY <2>1, <3>1, <1>2 DEF Counted, Types, Holds
  <2>2. CASE ~ UNCHANGED <<line, call>>
    <3>1. PICK l \in Zone : /\ line' = [line EXCEPT ![l] = Append(@, w)]
                            /\ call' = [call EXCEPT ![w].op = "put"]
      <4>1. PICK b : \E l \in Full(b, ZoneOf[t]) :
                       /\ line' = [line EXCEPT ![l] = Append(@, w)]
                       /\ call' = [call EXCEPT ![w].op = "put"]
        BY <2>2 DEF Put
      <4> QED BY <4>1, ZonesOf DEF Full
    <3>2. [call[w] EXCEPT !.op = "put"] \in State
      BY <1>2 DEF State
    <3>3. call' \in [Process -> State] /\ call'[w].op = "put" /\ call'[w].todo = {}
      BY <1>2, <3>1, <3>2 DEF Counted, Types, State
    <3>4. /\ LinesOK'
          /\ \A q \in Process : Lines(q)' = IF q = w THEN Lines(q) \cup {l} ELSE Lines(q)
          /\ \A q \in Process, y \in Zone :
               Holds(q, y)' <=> Holds(q, y) \/ (q = w /\ y = l /\ line[l] = <<>>)
      BY <1>2, <3>1, Join DEF Counted, Types
    <3> QED BY <1>2, <3>1, <3>3, <3>4 DEF Counted, Types
  <2> QED BY <2>1, <2>2
<1>6. Types'
  BY <1>1, <1>3, <1>5, ZonesOf DEF Counted, Types
<1>7. Waits'
  BY <1>2, <1>5 DEF Waits
<1>8. \A z \in Zone : Frozen(z)' = Frozen(z)
  BY <1>3 DEF Frozen, In
<1>9. FrozenHeld'
  BY <1>5, <1>8, Roles DEF FrozenHeld
<1>10. Owes'
  <2> SUFFICES ASSUME NEW u \in Upkeep, call'[u].op = "all" /\ call'[u].ok, NEW x \in owed'[u]
               PROVE  /\ ZoneOf[x] \in call'[u].todo \cup Lines(u)'
                      /\ pending'[x] # 0 \/ frozen'[x] # 0
                      /\ Holds(u, ZoneOf[x])' /\ Frozen(ZoneOf[x])' # {} => frozen'[x] # 0
    BY DEF Owes
  <2>1. u # w /\ u \in Process /\ x \in Tile /\ x \in owed[u] /\ ZoneOf[x] \in Zone
    BY <1>2, <1>3, Roles, ZonesOf DEF Counted, Types
  <2>2. call'[u] = call[u] /\ Lines(u)' = Lines(u) /\ (Holds(u, ZoneOf[x])' => Holds(u, ZoneOf[x]))
    BY <2>1, <1>5
  <2>3. pending[x] # 0 => pending'[x] # 0
    BY <2>1, <1>3, <1>4 DEF Counted, Types
  <2> QED BY <2>1, <2>2, <2>3, <1>3, <1>8 DEF Owes
<1> QED BY <1>1, <1>6, <1>7, <1>9, <1>10 DEF Counted

(* Calls that begin and return.                                             *)
LEMMA CallStep ==
  ASSUME Inv, UNCHANGED <<buffers, line, alone, puts, faults>>,
         NEW u \in Call, NEW c \in State, call' = [call EXCEPT ![u] = c],
         Lines(u) = {}, c.op = "idle" => c.todo = {},
         owed' \in [Upkeep -> SUBSET Tile],
         \A v \in Upkeep : v # u => owed'[v] = owed[v],
         u \in Upkeep /\ c.op = "all" =>
           \A t \in owed'[u] : ZoneOf[t] \in c.todo /\ pending[t] # 0
  PROVE  Inv'
<1> USE DEF Inv
<1>1. /\ LinesOK' /\ \A p \in Process : Lines(p)' = Lines(p)
      /\ \A p, z : Holds(p, z)' <=> Holds(p, z)
  BY DEF Counted, Types, LinesOK, Once, Lines, Holds, buffers
<1>2. call' \in [Process -> State] /\ u \in Process /\ call'[u] = c
      /\ \A p \in Process : p # u => call'[p] = call[p]
  BY Roles DEF Counted, Types
<1>3. Types' /\ BytesAreCounted'
  BY <1>1, <1>2 DEF Counted, Types, BytesAreCounted, buffers, Pending, In
<1>4. Waits'
  BY <1>1, <1>2, Roles DEF Waits
<1>5. \A z \in Zone : Frozen(z)' = Frozen(z)
  BY DEF Frozen, In, buffers
<1>6. FrozenHeld'
  BY <1>1, <1>5 DEF FrozenHeld
<1>7. Owes'
  <2> SUFFICES ASSUME NEW v \in Upkeep, call'[v].op = "all" /\ call'[v].ok, NEW x \in owed'[v]
               PROVE  /\ ZoneOf[x] \in call'[v].todo \cup Lines(v)'
                      /\ pending'[x] # 0 \/ frozen'[x] # 0
                      /\ Holds(v, ZoneOf[x])' /\ Frozen(ZoneOf[x])' # {} => frozen'[x] # 0
    BY DEF Owes
  <2>1. v \in Process /\ x \in Tile /\ ZoneOf[x] \in Zone
    BY Roles, ZonesOf DEF Counted, Types
  <2>2. CASE v # u
    BY <2>1, <2>2, <1>1, <1>2, <1>5 DEF Owes, buffers
  <2>3. CASE v = u
    <3>1. ZoneOf[x] \in c.todo /\ pending[x] # 0
      BY <2>3, <1>2
    <3>2. ~ Holds(u, ZoneOf[x])
      BY <2>1, HoldsIn DEF Counted, Types
    <3> QED BY <2>3, <3>1, <3>2, <1>1, <1>2 DEF buffers
  <2> QED BY <2>2, <2>3
<1> QED BY <1>3, <1>4, <1>6, <1>7 DEF Counted

LEMMA IdleIsOut ==
  ASSUME Inv, NEW u \in Call, call[u] = Idle
  PROVE  Lines(u) = {} /\ u \in Process
<1>1. call[u].op = "idle"
  BY DEF Idle
<1> QED BY <1>1, Roles DEF Inv, Waits

LEMMA CallSteps ==
  ASSUME Inv, NEW u \in Upkeep, FlushDue(u) \/ FlushAll(u)
  PROVE  Inv'
<1>1. u \in Call /\ call[u] = Idle
  BY Roles DEF FlushDue, FlushAll
<1>2. Lines(u) = {}
  BY <1>1, IdleIsOut
<1>3. CASE FlushDue(u)
  <2> DEFINE c == [Idle EXCEPT !.op = "due", !.todo = {z \in Zone : Due(z)}]
  <2>1. c \in State /\ c.op = "due"
    BY DEF Idle, State
  <2>2. call' = [call EXCEPT ![u] = c] /\ UNCHANGED <<buffers, line, owed, alone, puts, faults>>
    BY <1>3 DEF FlushDue
  <2>3. owed' \in [Upkeep -> SUBSET Tile]
    BY <2>2 DEF Inv, Counted, Types
  <2> HIDE DEF c
  <2> QED BY <1>1, <1>2, <2>1, <2>2, <2>3, CallStep
<1>4. CASE FlushAll(u)
  <2> DEFINE c == [Idle EXCEPT !.op = "all", !.todo = {z \in Zone : Pending(z) # {}}]
  <2>1. c \in State /\ c.op = "all" /\ c.todo = {z \in Zone : Pending(z) # {}}
    BY DEF Idle, State
  <2>2. /\ call' = [call EXCEPT ![u] = c] /\ UNCHANGED <<buffers, line, alone, puts, faults>>
        /\ owed' = [owed EXCEPT ![u] = {t \in Tile : pending[t] # 0}]
    BY <1>4 DEF FlushAll
  <2>3. owed' \in [Upkeep -> SUBSET Tile] /\ owed'[u] = {t \in Tile : pending[t] # 0}
        /\ \A v \in Upkeep : v # u => owed'[v] = owed[v]
    BY <2>2 DEF Inv, Counted, Types
  <2>4. \A t \in owed'[u] : ZoneOf[t] \in c.todo /\ pending[t] # 0
    BY <2>1, <2>3, ZonesOf DEF Pending, In
  <2> HIDE DEF c
  <2> QED BY <1>1, <1>2, <2>1, <2>2, <2>3, <2>4, CallStep
<1> QED BY <1>3, <1>4

LEMMA ReturnStep ==
  ASSUME Inv, NEW p \in Call, Return(p)
  PROVE  Inv'
<1>1. /\ call' = [call EXCEPT ![p] = Idle] /\ UNCHANGED <<buffers, line, alone, puts, faults>>
      /\ owed' = [u \in Upkeep |-> IF u = p THEN {} ELSE owed[u]] /\ Lines(p) = {}
  BY DEF Return
<1>2. Idle.op = "idle" /\ Idle.todo = {}
  BY DEF Idle
<1>3. owed' \in [Upkeep -> SUBSET Tile] /\ \A v \in Upkeep : v # p => owed'[v] = owed[v]
  BY <1>1 DEF Inv, Counted, Types
<1> QED BY <1>1, <1>2, <1>3, IdleType, CallStep

LEMMA BeginStep ==
  ASSUME Inv, NEW u \in Upkeep, Begin(u)
  PROVE  Inv'
<1> USE DEF Inv
<1>1. PICK z \in call[u].todo : /\ line' = [line EXCEPT ![z] = Append(@, u)]
                                /\ call' = [call EXCEPT ![u].todo = @ \ {z}]
  BY DEF Begin
<1>2. UNCHANGED <<buffers, owed, alone, puts, faults>>
  BY DEF Begin
<1>3. u \in Process /\ u \in Call /\ call[u] \in State /\ z \in Zone /\ z \notin Lines(u)
      /\ call[u].op # "idle"
  BY <1>1, Roles DEF Counted, Types, State, Waits
<1>4. /\ LinesOK'
      /\ \A q \in Process : Lines(q)' = IF q = u THEN Lines(q) \cup {z} ELSE Lines(q)
      /\ \A q \in Process, y \in Zone :
           Holds(q, y)' <=> Holds(q, y) \/ (q = u /\ y = z /\ line[z] = <<>>)
  BY <1>1, <1>3, Join DEF Counted, Types
<1>5. [call[u] EXCEPT !.todo = @ \ {z}] \in State
  BY <1>3 DEF State
<1>6. /\ call' \in [Process -> State] /\ call'[u].todo = call[u].todo \ {z}
      /\ call'[u].op = call[u].op /\ call'[u].ok = call[u].ok
      /\ \A p \in Process : p # u => call'[p] = call[p]
  BY <1>1, <1>3, <1>5 DEF Counted, Types, State
<1>7. Types' /\ BytesAreCounted'
  BY <1>2, <1>4, <1>6 DEF Counted, Types, BytesAreCounted, buffers, Pending, In
<1>8. Waits'
  BY <1>3, <1>4, <1>6 DEF Waits
<1>9. \A y \in Zone : Frozen(y)' = Frozen(y)
  BY <1>2 DEF Frozen, In, buffers
<1>10. FrozenHeld'
  BY <1>4, <1>9, Roles DEF FrozenHeld
<1>11. Owes'
  <2> SUFFICES ASSUME NEW v \in Upkeep, call'[v].op = "all" /\ call'[v].ok, NEW x \in owed'[v]
               PROVE  /\ ZoneOf[x] \in call'[v].todo \cup Lines(v)'
                      /\ pending'[x] # 0 \/ frozen'[x] # 0
                      /\ Holds(v, ZoneOf[x])' /\ Frozen(ZoneOf[x])' # {} => frozen'[x] # 0
    BY DEF Owes
  <2>1. v \in Process /\ x \in Tile /\ ZoneOf[x] \in Zone /\ x \in owed[v]
        /\ call[v].op = "all" /\ call[v].ok
    BY <1>2, <1>6, Roles, ZonesOf DEF Counted, Types
  <2>2. ZoneOf[x] \in call'[v].todo \cup Lines(v)'
    BY <2>1, <1>4, <1>6 DEF Owes
  <2>3. pending'[x] # 0 \/ frozen'[x] # 0
    BY <2>1, <1>2 DEF Owes, buffers
  <2>4. ASSUME Holds(v, ZoneOf[x])', Frozen(ZoneOf[x])' # {}
        PROVE  frozen'[x] # 0
    <3>1. PICK p \in Call : Holds(p, ZoneOf[x])
      BY <2>1, <2>4, <1>9 DEF FrozenHeld
    <3>2. Holds(v, ZoneOf[x])
      BY <2>1, <2>4, <3>1, <1>4 DEF Holds
    <3> QED BY <2>1, <2>4, <3>2, <1>2, <1>9 DEF Owes, buffers
  <2> QED BY <2>2, <2>3, <2>4
<1> QED BY <1>7, <1>8, <1>10, <1>11 DEF Counted

(* The steps of flush_zone.                                                 *)
LEMMA FreeStep ==
  ASSUME Inv, NEW p \in Process, NEW z \in Zone, Holds(p, z), Leave(z), Frozen(z) = {},
         p \in Call => Pending(z) = {},
         UNCHANGED <<buffers, call, owed, alone, puts, faults>>
  PROVE  Inv'
<1> USE DEF Inv
<1>1. /\ LinesOK'
      /\ \A q \in Process : Lines(q)' = IF q = p THEN Lines(q) \ {z} ELSE Lines(q)
      /\ \A q \in Process, y \in Zone : y # z => (Holds(q, y)' <=> Holds(q, y))
  BY LeavesLine DEF Counted, Types
<1>2. Types' /\ BytesAreCounted'
  BY <1>1 DEF Counted, Types, BytesAreCounted, buffers, Pending, In
<1>3. Waits'
  BY <1>1 DEF Waits
<1>4. \A y \in Zone : Frozen(y)' = Frozen(y)
  BY DEF Frozen, In, buffers
<1>5. FrozenHeld'
  BY <1>1, <1>4, Roles DEF FrozenHeld
<1>6. Owes'
  <2> SUFFICES ASSUME NEW u \in Upkeep, call[u].op = "all" /\ call[u].ok, NEW x \in owed[u]
               PROVE  /\ ZoneOf[x] \in call[u].todo \cup Lines(u)'
                      /\ pending[x] # 0 \/ frozen[x] # 0
                      /\ Holds(u, ZoneOf[x])' /\ Frozen(ZoneOf[x])' # {} => frozen[x] # 0
    BY DEF Owes, buffers
  <2>1. u \in Process /\ u \in Call /\ x \in Tile /\ ZoneOf[x] \in Zone
    BY Roles, ZonesOf DEF Counted, Types
  <2>2. /\ ZoneOf[x] \in call[u].todo \cup Lines(u)
        /\ pending[x] # 0 \/ frozen[x] # 0
        /\ Holds(u, ZoneOf[x]) /\ Frozen(ZoneOf[x]) # {} => frozen[x] # 0
    BY DEF Owes
  <2>3. u # p \/ ZoneOf[x] # z
    BY <2>1, <2>2 DEF Pending, Frozen, In
  <2> QED BY <2>1, <2>2, <2>3, <1>1, <1>4
<1> QED BY <1>2, <1>3, <1>5, <1>6 DEF Counted

LEMMA FreezeStep ==
  ASSUME Inv, NEW p \in Call, NEW z \in Zone, Freeze(p, z)
  PROVE  Inv'
<1> USE DEF Inv
<1>1. p \in Process /\ Holds(p, z) /\ Frozen(z) = {}
      /\ UNCHANGED <<call, owed, alone, puts, faults>>
  BY Roles DEF Freeze
<1>2. CASE Pending(z) = {}
  BY <1>1, <1>2, FreeStep DEF Freeze
<1>3. CASE Pending(z) # {}
  <2>1. /\ frozen' = [t \in Tile |-> IF t \in In(z) THEN pending[t] ELSE frozen[t]]
        /\ pending' = [t \in Tile |-> IF t \in In(z) THEN 0 ELSE pending[t]]
        /\ bytes' = [bytes EXCEPT ![z] = 0]
        /\ age' = [age EXCEPT ![z] = 0] /\ UNCHANGED line
    BY <1>3 DEF Freeze
  <2>2. /\ frozen' \in [Tile -> Nat] /\ pending' \in [Tile -> Nat] /\ bytes' \in [Zone -> Int]
        /\ BytesAreCounted'
    BY <2>1, FreezeCounted
  <2>3. /\ LinesOK' /\ \A q \in Process : Lines(q)' = Lines(q)
        /\ \A q, y : Holds(q, y)' <=> Holds(q, y)
    BY <2>1 DEF Counted, Types, LinesOK, Once, Lines, Holds
  <2>4. Types'
    BY <1>1, <2>1, <2>2, <2>3 DEF Counted, Types
  <2>5. Waits'
    BY <1>1, <2>3 DEF Waits
  <2>6. \A y \in Zone : y # z => Frozen(y)' = Frozen(y)
    BY <2>1 DEF Frozen, In
  <2>7. FrozenHeld'
    BY <1>1, <2>3, <2>6 DEF FrozenHeld
  <2>8. Owes'
    <3> SUFFICES ASSUME NEW u \in Upkeep, call[u].op = "all" /\ call[u].ok, NEW x \in owed[u]
                 PROVE  /\ ZoneOf[x] \in call[u].todo \cup Lines(u)
                        /\ pending'[x] # 0 \/ frozen'[x] # 0
                        /\ Holds(u, ZoneOf[x]) /\ Frozen(ZoneOf[x])' # {} => frozen'[x] # 0
      BY <1>1, <2>3, Roles DEF Owes
    <3>1. x \in Tile /\ ZoneOf[x] \in Zone
      BY ZonesOf DEF Counted, Types
    <3>2. /\ ZoneOf[x] \in call[u].todo \cup Lines(u)
          /\ pending[x] # 0 \/ frozen[x] # 0
          /\ Holds(u, ZoneOf[x]) /\ Frozen(ZoneOf[x]) # {} => frozen[x] # 0
      BY DEF Owes
    <3>3. CASE ZoneOf[x] = z
      <4>1. frozen[x] = 0 /\ x \in In(z)
        BY <1>1, <3>1, <3>3 DEF Frozen, In
      <4> QED BY <4>1, <3>1, <3>2, <2>1
    <3>4. CASE ZoneOf[x] # z
      <4>1. frozen'[x] = frozen[x] /\ pending'[x] = pending[x]
        BY <3>1, <3>4, <2>1 DEF In
      <4> QED BY <4>1, <3>1, <3>2, <3>4, <2>6
    <3> QED BY <3>3, <3>4
  <2> QED BY <2>2, <2>4, <2>5, <2>7, <2>8 DEF Counted
<1> QED BY <1>2, <1>3

LEMMA PublishStep ==
  ASSUME Inv, NEW p \in Call, NEW z \in Zone, Publish(p, z)
  PROVE  Inv'
<1> USE DEF Inv
<1>1. /\ frozen' = [t \in Tile |-> IF t \in In(z) THEN 0 ELSE frozen[t]]
      /\ owed' = [u \in Upkeep |-> owed[u] \ Frozen(z)]
      /\ Leave(z) /\ Holds(p, z) /\ Frozen(z) # {} /\ p \in Process
      /\ UNCHANGED <<pending, bytes, age, call, alone, puts, faults>>
  BY Roles DEF Publish, Publishing
<1>2. /\ LinesOK'
      /\ \A q \in Process : Lines(q)' = IF q = p THEN Lines(q) \ {z} ELSE Lines(q)
      /\ \A q \in Process, y \in Zone : y # z => (Holds(q, y)' <=> Holds(q, y))
  BY <1>1, LeavesLine DEF Counted, Types
<1>3. frozen' \in [Tile -> Nat] /\ owed' \in [Upkeep -> SUBSET Tile]
  BY <1>1 DEF Counted, Types
<1>4. Types' /\ BytesAreCounted'
  BY <1>1, <1>2, <1>3 DEF Counted, Types, BytesAreCounted, Pending, In
<1>5. Waits'
  BY <1>1, <1>2 DEF Waits
<1>6. Frozen(z)' = {} /\ \A y \in Zone : y # z => Frozen(y)' = Frozen(y)
  BY <1>1 DEF Frozen, In
<1>7. FrozenHeld'
  BY <1>2, <1>6, Roles DEF FrozenHeld
<1>8. Owes'
  <2> SUFFICES ASSUME NEW u \in Upkeep, call[u].op = "all" /\ call[u].ok, NEW x \in owed'[u]
               PROVE  /\ ZoneOf[x] \in call[u].todo \cup Lines(u)'
                      /\ pending[x] # 0 \/ frozen'[x] # 0
                      /\ Holds(u, ZoneOf[x])' /\ Frozen(ZoneOf[x])' # {} => frozen'[x] # 0
    BY <1>1 DEF Owes
  <2>1. x \in Tile /\ ZoneOf[x] \in Zone /\ x \in owed[u] /\ x \notin Frozen(z) /\ u \in Process
    BY <1>1, Roles, ZonesOf DEF Counted, Types
  <2>2. /\ ZoneOf[x] \in call[u].todo \cup Lines(u)
        /\ pending[x] # 0 \/ frozen[x] # 0
        /\ Holds(u, ZoneOf[x]) /\ Frozen(ZoneOf[x]) # {} => frozen[x] # 0
    BY <2>1 DEF Owes
  <2>3. CASE ZoneOf[x] = z
    <3>1. frozen[x] = 0
      BY <2>1, <2>3 DEF Frozen, In
    <3>2. pending[x] # 0 /\ u # p
      BY <3>1, <2>2, <2>3, <1>1
    <3> QED BY <3>2, <2>1, <2>2, <2>3, <1>2, <1>6
  <2>4. CASE ZoneOf[x] # z
    <3>1. frozen'[x] = frozen[x]
      BY <2>1, <2>4, <1>1 DEF In
    <3> QED BY <3>1, <2>1, <2>2, <2>4, <1>2, <1>6
  <2> QED BY <2>3, <2>4
<1> QED BY <1>4, <1>5, <1>7, <1>8 DEF Counted

\* A flush that failed or was dropped: Z was not published.
LEMMA EndStep ==
  ASSUME Inv, NEW p \in Call, NEW Z \in SUBSET Zone, EndFlush(Z),
         LinesOK', NEW c \in State, call' = [call EXCEPT ![p] = c],
         \A q \in Process : Lines(q)' \subseteq Lines(q) /\ (q # p => Lines(q)' = Lines(q)),
         \A q \in Process, y \in Zone : y \notin Z /\ Frozen(y) # {} /\ Holds(q, y)' => Holds(q, y),
         \A q \in Process, y \in Zone : y \notin Z /\ Frozen(y) # {} /\ Holds(q, y) => Holds(q, y)',
         c.op = "idle" => Lines(p)' = {} /\ c.todo = {}, c.todo \subseteq call[p].todo,
         ~ (c.op = "all" /\ c.ok),
         owed' \in [Upkeep -> SUBSET Tile], \A u \in Upkeep : u # p => owed'[u] = owed[u],
         UNCHANGED <<alone, puts>>, faults' = faults + 1
  PROVE  Inv'
<1> USE DEF Inv
<1>1. /\ frozen' \in [Tile -> Nat] /\ pending' \in [Tile -> Nat] /\ bytes' \in [Zone -> Int]
      /\ age' \in [Zone -> Nat] /\ BytesAreCounted'
  BY EndFlushCounted
<1>2. p \in Process /\ p \notin Maintainer /\ call' \in [Process -> State] /\ call'[p] = c
      /\ \A q \in Process : q # p => call'[q] = call[q]
  BY Roles DEF Counted, Types
<1>3. Types'
  BY <1>1, <1>2 DEF Counted, Types
<1>4. Waits'
  BY <1>2 DEF Waits
<1>5. /\ frozen' = [t \in Tile |-> IF ZoneOf[t] \in Z THEN 0 ELSE frozen[t]]
      /\ pending' = [t \in Tile |-> IF t \in Back(Z) THEN frozen[t] ELSE pending[t]]
  BY DEF EndFlush
<1>6. \A y \in Zone : Frozen(y)' = IF y \in Z THEN {} ELSE Frozen(y)
  BY <1>5 DEF Frozen, In
<1>7. FrozenHeld'
  BY <1>6, Roles DEF FrozenHeld
<1>8. ASSUME NEW x \in Tile, pending[x] # 0 \/ frozen[x] # 0
      PROVE  pending'[x] # 0 \/ frozen'[x] # 0
  <2>1. x \in Back(Z) => frozen[x] # 0
    BY DEF Back, Frozen
  <2>2. pending[x] # 0 => x \notin Back(Z)
    BY DEF Back
  <2>3. ZoneOf[x] \in Z /\ pending[x] = 0 /\ frozen[x] # 0 => x \in Back(Z)
    BY DEF Back, Frozen, In
  <2> HIDE DEF Inv
  <2> QED BY <1>5, <1>8, <2>1, <2>2, <2>3
<1>9. Owes'
  <2> SUFFICES ASSUME NEW u \in Upkeep, call'[u].op = "all" /\ call'[u].ok, NEW x \in owed'[u]
               PROVE  /\ ZoneOf[x] \in call'[u].todo \cup Lines(u)'
                      /\ pending'[x] # 0 \/ frozen'[x] # 0
                      /\ Holds(u, ZoneOf[x])' /\ Frozen(ZoneOf[x])' # {} => frozen'[x] # 0
    BY DEF Owes
  <2>1. u # p
    BY <1>2
  <2>2. u \in Process /\ call'[u] = call[u] /\ owed'[u] = owed[u] /\ Lines(u)' = Lines(u)
    BY <2>1, <1>2, Roles
  <2>3. x \in Tile /\ ZoneOf[x] \in Zone
    BY <2>2, ZonesOf DEF Counted, Types
  <2>4. /\ ZoneOf[x] \in call[u].todo \cup Lines(u)
        /\ pending[x] # 0 \/ frozen[x] # 0
        /\ Holds(u, ZoneOf[x]) /\ Frozen(ZoneOf[x]) # {} => frozen[x] # 0
    BY <2>2 DEF Owes
  <2>5. ASSUME Holds(u, ZoneOf[x])', Frozen(ZoneOf[x])' # {}
        PROVE  frozen'[x] # 0
    <3>1. ZoneOf[x] \notin Z /\ Frozen(ZoneOf[x]) # {}
      BY <2>3, <2>5, <1>6
    <3>2. Holds(u, ZoneOf[x])
      BY <2>2, <2>3, <2>5, <3>1
    <3> QED BY <2>3, <2>4, <3>1, <3>2, <1>5
  <2> QED BY <2>2, <2>3, <2>4, <2>5, <1>8
<1> QED BY <1>1, <1>3, <1>4, <1>7, <1>9 DEF Counted

LEMMA FailStep ==
  ASSUME Inv, NEW p \in Call, NEW z \in Zone, Fail(p, z)
  PROVE  Inv'
<1>1. /\ Holds(p, z) /\ Leave(z) /\ EndFlush({z}) /\ call' = [call EXCEPT ![p] = Failed(p)]
      /\ UNCHANGED <<owed, alone, puts>> /\ faults' = faults + 1
  BY DEF Fail, Publishing, Fault
<1>2. p \in Process /\ p \notin Maintainer /\ call[p] \in State
  BY Roles DEF Inv, Counted, Types
<1>3. /\ LinesOK'
      /\ \A q \in Process : Lines(q)' = IF q = p THEN Lines(q) \ {z} ELSE Lines(q)
      /\ \A q \in Process, y \in Zone : y # z => (Holds(q, y)' <=> Holds(q, y))
  BY <1>1, <1>2, LeavesLine DEF Inv, Counted, Types
<1>4. z \in Lines(p)
  BY <1>1, HoldsIn DEF Inv, Counted, Types
<1> DEFINE c == Failed(p)
<1>5. /\ c \in State /\ ~ c.ok /\ c.op = call[p].op /\ c.todo \subseteq call[p].todo
  BY <1>2 DEF Failed, State
<1>6. c.op # "idle"
  BY <1>2, <1>4, <1>5 DEF Inv, Waits
<1>7. owed' \in [Upkeep -> SUBSET Tile]
  BY <1>1 DEF Inv, Counted, Types
<1> HIDE DEF c
<1> DEFINE Z == {z}
<1>8. Z \in SUBSET Zone /\ EndFlush(Z) /\ call' = [call EXCEPT ![p] = c]
      /\ (\A y \in Zone : y \notin Z => y # z)
  BY <1>1 DEF c
<1> HIDE DEF Z
<1> QED BY <1>1, <1>3, <1>5, <1>6, <1>7, <1>8, EndStep

LEMMA DropStep ==
  ASSUME Inv, NEW p \in Call, Drop(p)
  PROVE  Inv'
<1> DEFINE Z == {z \in Zone : Publishing(p, z)}
<1>1. /\ EndFlush(Z) /\ call' = [call EXCEPT ![p] = Idle]
      /\ line' = [z \in Zone |-> RemoveFirst(line[z], p)]
      /\ owed' = [u \in Upkeep |-> IF u = p THEN {} ELSE owed[u]]
      /\ UNCHANGED <<alone, puts>> /\ faults' = faults + 1
  BY DEF Drop, Fault
<1>2. p \in Process /\ p \notin Maintainer
  BY Roles
<1>3. /\ LinesOK'
      /\ \A q \in Process : Lines(q)' = IF q = p THEN {} ELSE Lines(q)
      /\ \A q \in Process, y \in Zone : q # p /\ Holds(q, y) => Holds(q, y)'
      /\ \A q \in Process, y \in Zone : Holds(q, y)' => Holds(q, y) \/ Holds(p, y)
  BY <1>1, <1>2, DropsOut DEF Inv, Counted, Types
<1>4. \A y \in Zone : y \notin Z /\ Frozen(y) # {} => ~ Holds(p, y)
  BY <1>2 DEF Publishing
<1>5. Z \in SUBSET Zone
  OBVIOUS
<1>6. /\ owed' \in [Upkeep -> SUBSET Tile] /\ \A u \in Upkeep : u # p => owed'[u] = owed[u]
  BY <1>1 DEF Inv, Counted, Types
<1>7. Idle \in State /\ Idle.op = "idle" /\ Idle.todo = {}
  BY IdleType DEF Idle
<1> HIDE DEF Z
<1>8. /\ \A q \in Process : Lines(q)' \subseteq Lines(q) /\ (q # p => Lines(q)' = Lines(q))
      /\ Lines(p)' = {}
      /\ \A q \in Process, y \in Zone : y \notin Z /\ Frozen(y) # {} /\ Holds(q, y)' => Holds(q, y)
      /\ \A q \in Process, y \in Zone : y \notin Z /\ Frozen(y) # {} /\ Holds(q, y) => Holds(q, y)'
  BY <1>2, <1>3, <1>4
<1> QED BY <1>1, <1>3, <1>5, <1>6, <1>7, <1>8, EndStep

(* Compactions and prunings, and time.                                      *)
LEMMA KeepStep ==
  ASSUME Inv, NEW m \in Maintainer, NEW z \in Zone, Keep(m, z)
  PROVE  Inv'
<1> USE DEF Inv
<1>1. /\ line' = [line EXCEPT ![z] = Append(@, m)] /\ m \in Process /\ m \notin Call
      /\ z \notin Lines(m) /\ UNCHANGED <<buffers, call, owed, alone, puts, faults>>
  BY Roles DEF Keep
<1>2. /\ LinesOK'
      /\ \A q \in Process : Lines(q)' = IF q = m THEN Lines(q) \cup {z} ELSE Lines(q)
      /\ \A q \in Process, y \in Zone :
           Holds(q, y)' <=> Holds(q, y) \/ (q = m /\ y = z /\ line[z] = <<>>)
  BY <1>1, Join DEF Counted, Types
<1>3. Types' /\ BytesAreCounted'
  BY <1>1, <1>2 DEF Counted, Types, BytesAreCounted, buffers, Pending, In
<1>4. Waits'
  BY <1>1, <1>2 DEF Waits
<1>5. \A y \in Zone : Frozen(y)' = Frozen(y)
  BY <1>1 DEF Frozen, In, buffers
<1>6. FrozenHeld'
  BY <1>2, <1>5, Roles DEF FrozenHeld
<1>7. \A u \in Upkeep : u \in Process /\ u # m
  BY <1>1, Roles
<1>8. Owes'
  <2> SUFFICES ASSUME NEW u \in Upkeep, call[u].op = "all" /\ call[u].ok, NEW x \in owed[u]
               PROVE  /\ ZoneOf[x] \in call[u].todo \cup Lines(u)'
                      /\ pending[x] # 0 \/ frozen[x] # 0
                      /\ Holds(u, ZoneOf[x])' /\ Frozen(ZoneOf[x])' # {} => frozen[x] # 0
    BY <1>1 DEF Owes, buffers
  <2>1. x \in Tile /\ ZoneOf[x] \in Zone
    BY ZonesOf DEF Counted, Types
  <2> QED BY <2>1, <1>2, <1>5, <1>7 DEF Owes
<1> QED BY <1>3, <1>4, <1>6, <1>8 DEF Counted

LEMMA KeptStep ==
  ASSUME Inv, NEW m \in Maintainer, NEW z \in Zone, Kept(m, z)
  PROVE  Inv'
<1>1. /\ m \in Process /\ m \notin Call /\ Holds(m, z) /\ Leave(z)
      /\ UNCHANGED <<buffers, call, owed, alone, puts, faults>>
  BY Roles DEF Kept
<1>2. Frozen(z) = {}
  BY <1>1, OneHolds DEF Inv, FrozenHeld
<1> QED BY <1>1, <1>2, FreeStep

LEMMA StillStep ==
  ASSUME Inv, UNCHANGED <<pending, frozen, bytes, line, call, owed, alone, puts, faults>>,
         age' \in [Zone -> Nat]
  PROVE  Inv'
<1> USE DEF Inv
<1>1. /\ LinesOK' /\ \A q \in Process : Lines(q)' = Lines(q)
      /\ \A q, y : Holds(q, y)' <=> Holds(q, y)
  BY DEF Counted, Types, LinesOK, Once, Lines, Holds
<1>2. Types' /\ BytesAreCounted'
  BY <1>1 DEF Counted, Types, BytesAreCounted, Pending, In
<1>3. \A y \in Zone : Frozen(y)' = Frozen(y)
  BY DEF Frozen, In
<1>4. Waits' /\ FrozenHeld'
  BY <1>1, <1>3 DEF Waits, FrozenHeld
<1>5. Owes'
  <2> SUFFICES ASSUME NEW u \in Upkeep, call[u].op = "all" /\ call[u].ok, NEW x \in owed[u]
               PROVE  /\ ZoneOf[x] \in call[u].todo \cup Lines(u)'
                      /\ pending[x] # 0 \/ frozen[x] # 0
                      /\ Holds(u, ZoneOf[x])' /\ Frozen(ZoneOf[x])' # {} => frozen[x] # 0
    BY DEF Owes
  <2>1. u \in Process /\ x \in Tile /\ ZoneOf[x] \in Zone
    BY Roles, ZonesOf DEF Counted, Types
  <2> QED BY <2>1, <1>1, <1>3 DEF Owes
<1> QED BY <1>2, <1>4, <1>5 DEF Counted

LEMMA TickStep ==
  ASSUME Inv, Tick
  PROVE  Inv'
<1>1. \A n \in Nat : Older(n) \in Nat
  BY DEF Older
<1>2. age' \in [Zone -> Nat]
  BY <1>1 DEF Tick, Inv, Counted, Types
<1> QED BY <1>2, StillStep DEF Tick

LEMMA InvNext == Inv /\ [Next]_vars => Inv'
<1> SUFFICES ASSUME Inv, [Next]_vars PROVE Inv'
  OBVIOUS
<1> USE DEF Call
<1>1. ASSUME NEW w \in Writer, NEW t \in Tile, NEW size \in SizesOf[t], Put(w, t, size)
      PROVE  Inv'
  BY <1>1, PutStep
<1>2. ASSUME NEW u \in Upkeep, FlushDue(u) \/ FlushAll(u)
      PROVE  Inv'
  BY <1>2, CallSteps
<1>3. ASSUME NEW u \in Upkeep, Begin(u)
      PROVE  Inv'
  BY <1>3, BeginStep
<1>4. ASSUME NEW p \in Call, Return(p)
      PROVE  Inv'
  BY <1>4, ReturnStep
<1>5. ASSUME NEW p \in Call, Drop(p)
      PROVE  Inv'
  BY <1>5, DropStep
<1>6. ASSUME NEW p \in Call, NEW z \in Zone, Freeze(p, z)
      PROVE  Inv'
  BY <1>6, FreezeStep
<1>7. ASSUME NEW p \in Call, NEW z \in Zone, Publish(p, z)
      PROVE  Inv'
  BY <1>7, PublishStep
<1>8. ASSUME NEW p \in Call, NEW z \in Zone, Fail(p, z)
      PROVE  Inv'
  BY <1>8, FailStep
<1>9. ASSUME NEW m \in Maintainer, NEW z \in Zone, Keep(m, z)
      PROVE  Inv'
  BY <1>9, KeepStep
<1>10. ASSUME NEW m \in Maintainer, NEW z \in Zone, Kept(m, z)
       PROVE  Inv'
  BY <1>10, KeptStep
<1>11. CASE Tick
  BY <1>11, TickStep
<1>12. CASE UNCHANGED vars
  <2>1. UNCHANGED <<pending, frozen, bytes, line, call, owed, alone, puts, faults>> /\ UNCHANGED age
    BY <1>12 DEF vars
  <2>2. age' \in [Zone -> Nat]
    BY <2>1 DEF Inv, Counted, Types
  <2> QED BY <2>1, <2>2, StillStep
<1> QED BY <1>1, <1>2, <1>3, <1>4, <1>5, <1>6, <1>7, <1>8, <1>9, <1>10, <1>11, <1>12 DEF Next

-----------------------------------------------------------------------------
(* The bound.                                                               *)

\* w is about to flush z, or is publishing all that z held.
Flushing(w, z) ==
  /\ call[w].op # "idle" /\ z \in Lines(w)
  /\ Holds(w, z) /\ Frozen(z) # {} => bytes[z] = 0

\* Without overlapping puts and without faults there is room in the buffers,
\* or there is without a zone that a put is flushing.
Room ==
  alone /\ faults = 0 =>
    \/ Total(bytes) < MaxBuffered
    \/ \E w \in Writer, z \in Zone : Flushing(w, z) /\ Total(bytes) - bytes[z] < MaxBuffered

LEMMA BytesAreNatNext == ASSUME Inv' PROVE bytes' \in [Zone -> Nat]
<1>1. ASSUME NEW z \in Zone PROVE bytes'[z] \in Nat
  <2>1. Pending(z)' \in SUBSET Tile
    BY DEF Pending, In
  <2>2. \A t \in Pending(z)' : pending'[t] \in Nat
    BY <2>1 DEF Inv, Counted, Types
  <2> QED BY <2>1, <2>2, Finite, SizesType DEF Inv, Counted, BytesAreCounted
<1> QED BY <1>1 DEF Inv, Counted, Types

LEMMA SizesZero ==
  ASSUME NEW S, IsFiniteSet(S), NEW f, \A x \in S : f[x] = 0
  PROVE  Sizes(S, f) = 0
<1> DEFINE X == {s \in SUBSET S : Sizes(s, f) # 0}
<1> SUFFICES ASSUME X # {} PROVE FALSE
  BY Zenon
<1>1. PICK T \in X : \A U \in X : U \subseteq T => U = T
  <2>1. X \in SUBSET SUBSET S
    OBVIOUS
  <2> HIDE DEF X
  <2> QED BY <2>1, LeastSet
<1>2. IsFiniteSet(T) /\ T \in SUBSET S
  BY FS_Subset
<1>3. Sizes(T, f) = IF T = {} THEN 0 ELSE f[Pick(T)] + Sizes(T \ {Pick(T)}, f)
  BY <1>2, SizesStep
<1>4. T # {}
  BY <1>3
<1>5. Sizes(T \ {Pick(T)}, f) = 0
  BY <1>1, <1>4, PickIn
<1> QED BY <1>2, <1>3, <1>4, <1>5, PickIn

LEMMA Totals ==
  ASSUME NEW b \in [Zone -> Nat]
  PROVE  /\ Total(b) \in Nat
         /\ \A z \in Zone : Total(b) = b[z] + Sizes(Zone \ {z}, b) /\ Sizes(Zone \ {z}, b) \in Nat
<1>1. Total(b) = Sizes(Zone, b)
  BY DEF Total, Sizes
<1>2. \A S \in SUBSET Zone : Sizes(S, b) \in Nat
  BY SizesAssumption, FS_Subset, SizesType
<1>3. IsFiniteSet(Zone) /\ \A z \in Zone : b[z] \in Nat
  BY SizesAssumption
<1>4. \A z \in Zone : Sizes(Zone, b) = b[z] + Sizes(Zone \ {z}, b)
  BY <1>3, SizesOneOut
<1> QED BY <1>1, <1>2, <1>4

LEMMA TotalElsewhere ==
  ASSUME NEW b \in [Zone -> Nat], NEW c \in [Zone -> Nat], NEW z \in Zone,
         \A y \in Zone : y # z => c[y] = b[y]
  PROVE  Total(c) - c[z] = Total(b) - b[z]
<1>1. Sizes(Zone \ {z}, c) = Sizes(Zone \ {z}, b)
  <2>1. IsFiniteSet(Zone \ {z})
    BY SizesAssumption, FS_Subset
  <2>2. \A y \in Zone \ {z} : b[y] \in Nat /\ c[y] = b[y]
    OBVIOUS
  <2> QED BY <2>1, <2>2, SizesSame
<1>2. Total(b) = b[z] + Sizes(Zone \ {z}, b) /\ Total(c) = c[z] + Sizes(Zone \ {z}, c)
      /\ Sizes(Zone \ {z}, b) \in Nat /\ b[z] \in Nat /\ c[z] \in Nat
  BY Totals
<1> QED BY <1>1, <1>2

LEMMA BytesAreNat == ASSUME Inv PROVE bytes \in [Zone -> Nat]
BY CountedIsNat DEF Inv, Counted, Types

LEMMA RoomInit == Init => Room
<1> SUFFICES ASSUME Init PROVE Room
  OBVIOUS
<1>1. \A z \in Zone : bytes[z] = 0
  BY DEF Init
<1>2. Sizes(Zone, bytes) = 0
  BY <1>1, SizesZero, SizesAssumption
<1>3. Total(bytes) = 0
  BY <1>2 DEF Total, Sizes
<1> QED BY <1>3, SizesAssumption DEF Room

\* Some zone is the largest.
LEMMA Largest ==
  ASSUME NEW b \in [Zone -> Nat], NEW z \in Zone
  PROVE  \E l \in Zone : \A k \in Zone : b[k] <= b[l]
<1> DEFINE More(l) == {k \in Zone : b[k] > b[l]}
           X == {More(l) : l \in Zone}
<1>1. PICK T \in X : \A U \in X : U \subseteq T => U = T
  <2>1. X \in SUBSET SUBSET Zone /\ X # {}
    OBVIOUS
  <2> HIDE DEF X
  <2> QED BY <2>1, SizesAssumption, LeastSet
<1>2. PICK l \in Zone : T = More(l)
  OBVIOUS
<1>3. ASSUME NEW k \in More(l) PROVE FALSE
  <2>1. More(k) \subseteq More(l) /\ k \notin More(k) /\ More(k) \in X
    OBVIOUS
  <2> QED BY <1>1, <1>2, <1>3, <2>1
<1> QED BY <1>3

LEMMA RoomStays ==
  ASSUME Inv, Room, UNCHANGED bytes, alone' /\ faults' = 0 => alone /\ faults = 0,
         \A w \in Writer, z \in Zone : Flushing(w, z) => Flushing(w, z)' \/ bytes[z] = 0
  PROVE  Room'
<1>1. Total(bytes)' = Total(bytes)
  OBVIOUS
<1>2. Total(bytes) \in Nat /\ \A z \in Zone : bytes[z] \in Nat
  BY BytesAreNat, Totals
<1> QED BY <1>1, <1>2, SizesAssumption DEF Room

LEMMA PutRoom ==
  ASSUME Inv, Inv', Room, NEW w \in Writer, NEW t \in Tile, NEW size \in SizesOf[t], Put(w, t, size)
  PROVE  Room'
<1> DEFINE z == ZoneOf[t]
           b == [bytes EXCEPT ![z] = @ + Added(t, size)]
<1>1. /\ bytes' = b /\ alone' = (alone /\ \A v \in Writer : call[v] = Idle)
      /\ UNCHANGED <<frozen, faults>> /\ call[w] = Idle /\ z \in Zone
      /\ IF Full(b, z) = {} THEN UNCHANGED <<line, call>>
         ELSE \E l \in Full(b, z) :
                /\ line' = [line EXCEPT ![l] = Append(@, w)]
                /\ call' = [call EXCEPT ![w].op = "put"]
  BY ZonesOf DEF Put
<1> HIDE DEF b
<1>2. bytes \in [Zone -> Nat] /\ bytes' \in [Zone -> Nat] /\ \A y \in Zone : y # z => bytes'[y] = bytes[y]
  <2>1. bytes \in [Zone -> Nat] /\ bytes' \in [Zone -> Nat]
    BY BytesAreNat, BytesAreNatNext
  <2> QED BY <2>1, <1>1 DEF b
<1>3. Total(bytes)' = Total(bytes')
  OBVIOUS
<1> SUFFICES ASSUME alone', faults' = 0, ~ (Total(bytes') < MaxBuffered)
             PROVE  \E y \in Zone : Flushing(w, y)' /\ Total(bytes') - bytes'[y] < MaxBuffered
  BY <1>3 DEF Room
<1>4. Total(bytes) < MaxBuffered
  <2>1. \A v \in Writer : call[v] = Idle
    BY <1>1
  <2>2. \A v \in Writer : call[v].op = "idle"
    BY <2>1 DEF Idle
  <2> QED BY <1>1, <2>2 DEF Room, Flushing
<1>5. Full(b, z) # {}
  <2>1. \E l \in Zone : \A k \in Zone : b[k] <= b[l]
    BY <1>1, <1>2, Largest
  <2>2. Total(b) >= MaxBuffered
    BY <1>1, <1>2, Totals, SizesAssumption
  <2> QED BY <2>1, <2>2 DEF Full
<1>6. PICK l \in Full(b, z) : /\ line' = [line EXCEPT ![l] = Append(@, w)]
                              /\ call' = [call EXCEPT ![w].op = "put"]
  BY <1>1, <1>5
<1>7. l \in Zone /\ (l = z \/ bytes'[z] <= bytes'[l])
  BY <1>1, <1>6 DEF Full
<1>8. Total(bytes') - bytes'[l] < MaxBuffered
  <2>1. Total(bytes') - bytes'[z] = Total(bytes) - bytes[z]
    BY <1>1, <1>2, TotalElsewhere
  <2>2. /\ Total(bytes') \in Nat /\ Total(bytes) \in Nat /\ bytes[z] \in Nat
        /\ bytes'[z] \in Nat /\ bytes'[l] \in Nat /\ MaxBuffered \in Nat
    BY <1>1, <1>2, <1>7, Totals, SizesAssumption
  <2> QED BY <2>1, <2>2, <1>4, <1>7
<1>9. w \in Call /\ w \in Process /\ Lines(w) = {} /\ call \in [Process -> State]
  BY <1>1, Roles, IdleIsOut DEF Inv, Counted, Types
<1>10. /\ \A q \in Process : Lines(q)' = IF q = w THEN Lines(q) \cup {l} ELSE Lines(q)
       /\ \A q \in Process, y \in Zone :
            Holds(q, y)' <=> Holds(q, y) \/ (q = w /\ y = l /\ line[l] = <<>>)
  BY <1>6, <1>7, <1>9, Join DEF Inv, Counted, Types
<1>11. call'[w].op = "put" /\ l \in Lines(w)'
  BY <1>6, <1>9, <1>10 DEF State
<1>12. Holds(w, l)' => Frozen(l)' = {}
  <2>1. Frozen(l)' = Frozen(l) /\ ~ Holds(w, l)
    BY <1>1, <1>7, <1>9, HoldsIn DEF Frozen, In, Inv, Counted, Types
  <2> QED BY <2>1, <1>7, <1>9, <1>10 DEF Inv, FrozenHeld, Holds
<1> QED BY <1>7, <1>8, <1>11, <1>12 DEF Flushing

LEMMA FreezeRoom ==
  ASSUME Inv, Inv', Room, NEW p \in Call, NEW z \in Zone, Freeze(p, z)
  PROVE  Room'
<1>1. /\ p \in Process /\ Holds(p, z) /\ Frozen(z) = {}
      /\ UNCHANGED <<call, alone, faults>>
  BY Roles DEF Freeze
<1>2. CASE Pending(z) = {}
  <2>1. Leave(z) /\ UNCHANGED buffers
    BY <1>2 DEF Freeze
  <2>2. bytes[z] = 0
    BY <1>2, SizesEmpty DEF Inv, Counted, BytesAreCounted
  <2>3. /\ \A q \in Process : Lines(q)' = IF q = p THEN Lines(q) \ {z} ELSE Lines(q)
        /\ \A q \in Process, y \in Zone : y # z => (Holds(q, y)' <=> Holds(q, y))
    BY <1>1, <2>1, LeavesLine DEF Inv, Counted, Types
  <2>4. \A y \in Zone : Frozen(y)' = Frozen(y) /\ bytes'[y] = bytes[y]
    BY <2>1 DEF buffers, Frozen, In
  <2>5. \A w \in Writer, y \in Zone : Flushing(w, y) => Flushing(w, y)' \/ bytes[y] = 0
    BY <1>1, <2>2, <2>3, <2>4, Roles DEF Flushing
  <2> QED BY <1>1, <2>1, <2>5, RoomStays DEF buffers
<1>3. CASE Pending(z) # {}
  <2>1. /\ frozen' = [t \in Tile |-> IF t \in In(z) THEN pending[t] ELSE frozen[t]]
        /\ bytes' = [bytes EXCEPT ![z] = 0] /\ UNCHANGED line
    BY <1>3 DEF Freeze
  <2>2. bytes \in [Zone -> Nat] /\ bytes' \in [Zone -> Nat]
    BY BytesAreNat, BytesAreNatNext
  <2>3. Total(bytes') - bytes'[z] = Total(bytes) - bytes[z] /\ bytes'[z] = 0
    BY <2>1, <2>2, TotalElsewhere
  <2>4. Total(bytes') \in Nat /\ Total(bytes) \in Nat /\ MaxBuffered \in Nat
        /\ \A y \in Zone : bytes[y] \in Nat
    BY <2>2, Totals, SizesAssumption
  <2>5. Total(bytes') <= Total(bytes)
    BY <2>3, <2>4
  <2>6. Total(bytes)' = Total(bytes')
    OBVIOUS
  <2> SUFFICES ASSUME alone, faults = 0, ~ (Total(bytes') < MaxBuffered)
               PROVE  \E w \in Writer, y \in Zone :
                        Flushing(w, y)' /\ Total(bytes') - bytes'[y] < MaxBuffered
    BY <1>1, <2>6 DEF Room
  <2>7. ~ (Total(bytes) < MaxBuffered)
    BY <2>4, <2>5
  <2>8. PICK w \in Writer, y \in Zone : Flushing(w, y) /\ Total(bytes) - bytes[y] < MaxBuffered
    BY <2>7 DEF Room
  <2>9. y # z
    BY <2>3, <2>4, <2>8
  <2>10. bytes'[y] = bytes[y] /\ Frozen(y)' = Frozen(y)
    BY <2>1, <2>2, <2>9 DEF Frozen, In
  <2>11. Flushing(w, y)'
    BY <1>1, <2>1, <2>8, <2>10 DEF Flushing, Lines, Holds
  <2> QED BY <2>4, <2>5, <2>8, <2>10, <2>11
<1> QED BY <1>2, <1>3

LEMMA PublishRoom ==
  ASSUME Inv, Room, NEW p \in Call, NEW z \in Zone, Publish(p, z)
  PROVE  Room'
<1>1. /\ frozen' = [t \in Tile |-> IF t \in In(z) THEN 0 ELSE frozen[t]]
      /\ Leave(z) /\ Holds(p, z) /\ Frozen(z) # {} /\ p \in Process
      /\ UNCHANGED <<bytes, call, alone, faults>>
  BY Roles DEF Publish, Publishing
<1>2. /\ \A q \in Process : Lines(q)' = IF q = p THEN Lines(q) \ {z} ELSE Lines(q)
      /\ \A q \in Process, y \in Zone : y # z => (Holds(q, y)' <=> Holds(q, y))
  BY <1>1, LeavesLine DEF Inv, Counted, Types
<1>3. Frozen(z)' = {} /\ \A y \in Zone : y # z => Frozen(y)' = Frozen(y)
  BY <1>1 DEF Frozen, In
<1>4. \A w \in Writer, y \in Zone : Flushing(w, y) => Flushing(w, y)' \/ bytes[y] = 0
  BY <1>1, <1>2, <1>3, Roles DEF Flushing
<1> QED BY <1>1, <1>4, RoomStays

LEMMA FaultRoom ==
  ASSUME Inv, Fault
  PROVE  Room'
BY DEF Fault, Room, Inv, Counted, Types

\* The steps of others: what holds or waits for a zone stays there.
LEMMA OthersRoom ==
  ASSUME Inv, Room, UNCHANGED <<frozen, bytes, alone, faults>>,
         \A w \in Writer : call'[w] = call[w] \/ Lines(w) = {},
         \A w \in Writer : Lines(w)' = Lines(w),
         \A w \in Writer, z \in Zone : Holds(w, z)' /\ Frozen(z) # {} => Holds(w, z)
  PROVE  Room'
<1>1. \A z \in Zone : Frozen(z)' = Frozen(z)
  BY DEF Frozen, In
<1>2. \A w \in Writer, y \in Zone : Flushing(w, y) => Flushing(w, y)' \/ bytes[y] = 0
  BY <1>1 DEF Flushing
<1> QED BY <1>2, RoomStays

LEMMA RoomNext == Inv /\ Inv' /\ Room /\ [Next]_vars => Room'
<1> SUFFICES ASSUME Inv, Inv', Room, [Next]_vars PROVE Room'
  OBVIOUS
<1> USE DEF Call
<1>1. ASSUME NEW w \in Writer, NEW t \in Tile, NEW size \in SizesOf[t], Put(w, t, size)
      PROVE  Room'
  BY <1>1, PutRoom
<1>2. ASSUME UNCHANGED <<frozen, bytes, line, alone, faults>>,
             \A w \in Writer : call'[w] = call[w] \/ Lines(w) = {}
      PROVE  Room'
  BY <1>2, OthersRoom DEF Lines, Holds
<1>3. ASSUME NEW u \in Upkeep, FlushDue(u) \/ FlushAll(u)
      PROVE  Room'
  <2>1. \A w \in Writer : w # u /\ w \in Process
    BY Roles
  <2>2. \A w \in Writer : call'[w] = call[w]
    BY <1>3, <2>1 DEF FlushDue, FlushAll, Inv, Counted, Types
  <2> QED BY <1>2, <1>3, <2>2 DEF FlushDue, FlushAll, buffers
<1>4. ASSUME NEW p \in Call, Return(p)
      PROVE  Room'
  <2>1. \A w \in Writer : w \in Process
    BY Roles
  <2>2. \A w \in Writer : call'[w] = call[w] \/ Lines(w) = {}
    BY <1>4, <2>1 DEF Return, Inv, Counted, Types
  <2> QED BY <1>2, <1>4, <2>2 DEF Return, buffers
<1>5. ASSUME NEW q \in Process \ Writer, NEW z \in Zone, z \notin Lines(q),
             line' = [line EXCEPT ![z] = Append(@, q)],
             UNCHANGED <<frozen, bytes, alone, faults>>,
             \A w \in Writer : call'[w] = call[w]
      PROVE  Room'
  <2>1. /\ \A w \in Process : Lines(w)' = IF w = q THEN Lines(w) \cup {z} ELSE Lines(w)
        /\ \A w \in Process, y \in Zone :
             Holds(w, y)' <=> Holds(w, y) \/ (w = q /\ y = z /\ line[z] = <<>>)
    BY <1>5, Join DEF Inv, Counted, Types
  <2> QED BY <1>5, <2>1, Roles, OthersRoom
<1>6. ASSUME NEW u \in Upkeep, Begin(u)
      PROVE  Room'
  <2>1. u \in Process \ Writer
    BY Roles
  <2>2. PICK z \in call[u].todo : /\ line' = [line EXCEPT ![z] = Append(@, u)]
                                  /\ call' = [call EXCEPT ![u].todo = @ \ {z}]
    BY <1>6 DEF Begin
  <2>3. z \in Zone /\ z \notin Lines(u)
    BY <2>1, <2>2 DEF Inv, Counted, Types, State, Waits
  <2>4. \A w \in Writer : call'[w] = call[w]
    BY <2>1, <2>2, Roles DEF Inv, Counted, Types
  <2> QED BY <1>5, <1>6, <2>1, <2>2, <2>3, <2>4 DEF Begin, buffers
<1>7. ASSUME NEW m \in Maintainer, NEW z \in Zone, Keep(m, z)
      PROVE  Room'
  <2>1. m \in Process \ Writer
    BY Roles
  <2> QED BY <1>5, <1>7, <2>1 DEF Keep, buffers
<1>8. ASSUME NEW m \in Maintainer, NEW z \in Zone, Kept(m, z)
      PROVE  Room'
  <2>1. m \in Process \ Writer /\ m \notin Call /\ Holds(m, z)
    BY <1>8, Roles DEF Kept
  <2>2. Frozen(z) = {}
    BY <2>1, OneHolds DEF Inv, FrozenHeld
  <2>3. /\ \A q \in Process : Lines(q)' = IF q = m THEN Lines(q) \ {z} ELSE Lines(q)
        /\ \A q \in Process, y \in Zone : y # z => (Holds(q, y)' <=> Holds(q, y))
    BY <1>8, <2>1, LeavesLine DEF Kept, Inv, Counted, Types
  <2> QED BY <1>8, <2>1, <2>2, <2>3, Roles, OthersRoom DEF Kept, buffers
<1>9. ASSUME NEW p \in Call, NEW z \in Zone, Freeze(p, z)
      PROVE  Room'
  BY <1>9, FreezeRoom
<1>10. ASSUME NEW p \in Call, NEW z \in Zone, Publish(p, z)
       PROVE  Room'
  BY <1>10, PublishRoom
<1>11. ASSUME NEW p \in Call, NEW z \in Zone, Fail(p, z)
       PROVE  Room'
  BY <1>11, FaultRoom DEF Fail
<1>12. ASSUME NEW p \in Call, Drop(p)
       PROVE  Room'
  BY <1>12, FaultRoom DEF Drop
<1>13. CASE Tick
  BY <1>2, <1>13 DEF Tick
<1>14. CASE UNCHANGED vars
  BY <1>2, <1>14 DEF vars
<1> QED BY <1>1, <1>3, <1>4, <1>6, <1>7, <1>8, <1>9, <1>10, <1>11, <1>12, <1>13, <1>14 DEF Next

-----------------------------------------------------------------------------
(* Theorems.                                                                *)

\* Each buffer is of its type, nobody waits twice for a lock, and what is
\* frozen is published by who holds it.
THEOREM Invariance == Spec => []Inv
<1>1. Init => Inv
  BY InvInit
<1>2. Inv /\ [Next]_vars => Inv'
  BY InvNext
<1> QED BY <1>1, <1>2, PTL DEF Spec

\* The bytes a buffer says it holds are those of the tiles it holds (put_fetched,
\* begin_flush, end_flush), however puts, flushes, failures and drops mix.
THEOREM Counting == Spec => []BytesAreCounted
<1>1. Inv => BytesAreCounted
  BY DEF Inv, Counted
<1> QED BY <1>1, Invariance, PTL

\* flush_all that says it went well leaves nothing of what was there when it
\* was called.
THEOREM Emptying == Spec => FlushedAll
<1>1. Inv /\ [Next]_vars
      => [\A u \in Upkeep : Return(u) /\ call[u].op = "all" /\ call[u].ok => owed[u] = {}]_vars
  <2> SUFFICES ASSUME Inv, NEW u \in Upkeep, Return(u), call[u].op = "all", call[u].ok
               PROVE  owed[u] = {}
    OBVIOUS
  <2>1. call[u].todo \cup Lines(u) = {}
    BY DEF Return
  <2> QED BY <2>1 DEF Inv, Owes
<1> QED BY <1>1, Invariance, PTL DEF Spec, FlushedAll

\* Puts that do not overlap keep all the buffers together under their bound.
THEOREM Bounding == Spec => []Bounded
<1>1. Init => Inv /\ Room
  BY InvInit, RoomInit
<1>2. Inv /\ Room /\ [Next]_vars => (Inv /\ Room)'
  BY InvNext, RoomNext
<1>3. Inv /\ Room => Bounded
  <2>1. ASSUME \A w \in Writer : call[w] = Idle
        PROVE  \A w \in Writer : call[w].op = "idle"
    BY <2>1 DEF Idle
  <2> QED BY <2>1 DEF Room, Flushing, Bounded
<1> QED BY <1>1, <1>2, <1>3, PTL DEF Spec

=============================================================================
