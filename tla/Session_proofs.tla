--------------------------- MODULE Session_proofs ---------------------------
(***************************************************************************)
(* Theorems about Session, for any number of resources: the session and    *)
(* its budget agree on every copy (Accounting), a view drawn whole stays   *)
(* drawn whole (Drawing), and a film's renderer holds what it is told to   *)
(* draw (FilmsDraw) and, once all is read, what is counted (FilmsCount).   *)
(*                                                                         *)
(* First what each operation makes of a budget whose ledger is sound, then *)
(* what a turn and its step make of the copies, which Inv says.  Messages  *)
(* are read one at a time by a function over the positions read: that all  *)
(* of them keep what one keeps is shown with a least counterexample.       *)
(*                                                                         *)
(* Of a film, Inv is too weak: what the renderer holds depends on what is  *)
(* still on its way, both ways, and on its order.  Film says how, from a   *)
(* position on in each queue, so that it can be followed through a turn    *)
(* that has read some of its messages and not yet the others.              *)
(***************************************************************************)
EXTENDS Session, TLAPS, FiniteSetTheorems, SequenceTheorems, WellFoundedInduction

-----------------------------------------------------------------------------
(* Counting.                                                                *)

LEMMA CardMinus ==
  ASSUME NEW A, IsFiniteSet(A), NEW B \in SUBSET A
  PROVE  /\ Cardinality(A \ B) = Cardinality(A) - Cardinality(B)
         /\ Cardinality(A) \in Nat /\ Cardinality(B) \in Nat /\ Cardinality(A \ B) \in Nat
<1>1. IsFiniteSet(B) /\ IsFiniteSet(A \ B)
  BY FS_Subset, FS_Difference
<1>2. Cardinality(A) \in Nat /\ Cardinality(B) \in Nat /\ Cardinality(A \ B) \in Nat
  BY <1>1, FS_CardinalityType
<1>3. Cardinality(A \ B) = Cardinality(A) - Cardinality(A \cap B)
  BY FS_Difference
<1>4. A \cap B = B
  OBVIOUS
<1> QED BY <1>2, <1>3, <1>4

LEMMA CardPlus ==
  ASSUME NEW A, IsFiniteSet(A), NEW B, IsFiniteSet(B), A \cap B = {}
  PROVE  /\ Cardinality(A \cup B) = Cardinality(A) + Cardinality(B)
         /\ Cardinality(A) \in Nat /\ Cardinality(B) \in Nat
<1>1. Cardinality(A) \in Nat /\ Cardinality(B) \in Nat
  BY FS_CardinalityType
<1>2. Cardinality(A \cup B) = Cardinality(A) + Cardinality(B) - Cardinality(A \cap B)
  BY FS_Union
<1>3. Cardinality(A \cap B) = 0
  BY FS_EmptySet
<1> QED BY <1>1, <1>2, <1>3

-----------------------------------------------------------------------------
(* The copies and the ledger: each change of the budget keeps both.         *)

Copy == [gen : Nat, epoch : Nat]
Copies == [Resource -> Copy]
Budgets == [load : Copies, cpu : Copies, transit : Copies, gpu : Copies,
            bytes : Int, inTransit : Int, flights : Int]

\* The ledger is what the copies say.
Ledger(b) ==
  /\ b.bytes = Bytes(b)
  /\ b.inTransit = Cardinality(Of(b.transit))
  /\ b.flights = Cardinality(Of(b.load))

Sound(b) == b \in Budgets /\ Ledger(b)

LEMMA OfFinite ==
  ASSUME NEW copies
  PROVE  /\ IsFiniteSet(Of(copies)) /\ Of(copies) \subseteq Resource
         /\ Cardinality(Of(copies)) \in Nat
<1>1. Of(copies) \subseteq Resource
  BY DEF Of
<1>2. IsFiniteSet(Of(copies))
  BY <1>1, BoundsAssumption, FS_Subset
<1> QED BY <1>1, <1>2, FS_CardinalityType

LEMMA WithoutCopies ==
  ASSUME NEW copies \in Copies, NEW S
  PROVE  /\ Without(copies, S) \in Copies
         /\ Of(Without(copies, S)) = Of(copies) \ S
BY DEF Without, Copies, Copy, None, Of, Holds

LEMMA BudgetFields ==
  ASSUME NEW b \in Budgets
  PROVE  /\ b.load \in Copies /\ b.cpu \in Copies /\ b.transit \in Copies /\ b.gpu \in Copies
         /\ b.bytes \in Int /\ b.inTransit \in Int /\ b.flights \in Int
BY DEF Budgets

LEMMA IdleLoadsSound ==
  ASSUME NEW b, Sound(b), NEW S \in SUBSET Of(b.load)
  PROVE  /\ Sound(IdleLoads(b, S))
         /\ IdleLoads(b, S).load = Without(b.load, S)
         /\ IdleLoads(b, S).cpu = b.cpu /\ IdleLoads(b, S).transit = b.transit
         /\ IdleLoads(b, S).gpu = b.gpu
<1> DEFINE n == IdleLoads(b, S)
<1>1. b \in Budgets
  BY DEF Sound
<1>2. /\ Without(b.load, S) \in Copies
      /\ Of(Without(b.load, S)) = Of(b.load) \ S
  BY <1>1, BudgetFields, WithoutCopies
<1>3. /\ Cardinality(Of(b.load) \ S) = Cardinality(Of(b.load)) - Cardinality(S)
      /\ Cardinality(Of(b.load)) \in Nat /\ Cardinality(S) \in Nat
  BY OfFinite, CardMinus
<1>4. n \in Budgets
  <2>1. b.flights - Cardinality(S) \in Int
    BY <1>1, <1>3, BudgetFields
  <2> QED BY <1>1, <1>2, <2>1 DEF IdleLoads, Budgets
<1>5. /\ n.load = Without(b.load, S) /\ n.cpu = b.cpu /\ n.transit = b.transit
      /\ n.gpu = b.gpu /\ n.bytes = b.bytes /\ n.inTransit = b.inTransit
      /\ n.flights = b.flights - Cardinality(S)
  BY <1>1 DEF IdleLoads, Budgets
<1> HIDE DEF n
<1>6. Ledger(n)
  BY <1>2, <1>3, <1>5 DEF Sound, Ledger, Bytes
<1> QED BY <1>4, <1>5, <1>6 DEF Sound, n

LEMMA StartLoadsSound ==
  ASSUME NEW b, Sound(b), NEW gens, NEW e \in Nat,
         DOMAIN gens \subseteq Resource, DOMAIN gens \cap Of(b.load) = {},
         \A r \in DOMAIN gens : gens[r] \in Nat \ {0}
  PROVE  /\ Sound(StartLoads(b, gens, e))
         /\ StartLoads(b, gens, e).load =
              [r \in Resource |-> IF r \in DOMAIN gens THEN [gen |-> gens[r], epoch |-> e]
                                  ELSE b.load[r]]
         /\ StartLoads(b, gens, e).cpu = b.cpu /\ StartLoads(b, gens, e).transit = b.transit
         /\ StartLoads(b, gens, e).gpu = b.gpu
<1> DEFINE n == StartLoads(b, gens, e)
           new == [r \in Resource |-> IF r \in DOMAIN gens THEN [gen |-> gens[r], epoch |-> e]
                                      ELSE b.load[r]]
<1>1. b \in Budgets /\ b.load \in Copies
  BY BudgetFields DEF Sound
<1>2. new \in Copies
  BY <1>1 DEF Copies, Copy
<1>3. Of(new) = Of(b.load) \cup DOMAIN gens
  BY <1>1 DEF Of, Holds
<1>4. IsFiniteSet(DOMAIN gens)
  BY BoundsAssumption, FS_Subset
<1>5. /\ Cardinality(Of(new)) = Cardinality(Of(b.load)) + Cardinality(DOMAIN gens)
      /\ Cardinality(Of(b.load)) \in Nat /\ Cardinality(DOMAIN gens) \in Nat
  BY <1>3, <1>4, OfFinite, CardPlus
<1>6. /\ n.load = new /\ n.cpu = b.cpu /\ n.transit = b.transit
      /\ n.gpu = b.gpu /\ n.bytes = b.bytes /\ n.inTransit = b.inTransit
      /\ n.flights = b.flights + Cardinality(DOMAIN gens)
  BY <1>1 DEF StartLoads, Budgets
<1>7. n \in Budgets
  <2>1. b.flights + Cardinality(DOMAIN gens) \in Int
    BY <1>1, <1>5, BudgetFields
  <2>2. n = [b EXCEPT !.load = new, !.flights = b.flights + Cardinality(DOMAIN gens)]
    BY DEF StartLoads
  <2> HIDE DEF new, n
  <2> QED BY <1>1, <1>2, <2>1, <2>2 DEF Budgets
<1> HIDE DEF n, new
<1>8. Ledger(n)
  BY <1>5, <1>6 DEF Sound, Ledger, Bytes
<1> QED BY <1>6, <1>7, <1>8 DEF Sound, n, new

LEMMA TakeTransitSound ==
  ASSUME NEW b, Sound(b), NEW S \in SUBSET Of(b.transit)
  PROVE  /\ Sound(TakeTransit(b, S))
         /\ TakeTransit(b, S).transit = Without(b.transit, S)
         /\ TakeTransit(b, S).cpu = b.cpu /\ TakeTransit(b, S).load = b.load
         /\ TakeTransit(b, S).gpu = b.gpu
<1> DEFINE n == TakeTransit(b, S)
<1>1. b \in Budgets
  BY DEF Sound
<1>2. /\ Without(b.transit, S) \in Copies
      /\ Of(Without(b.transit, S)) = Of(b.transit) \ S
  BY <1>1, BudgetFields, WithoutCopies
<1>3. /\ Cardinality(Of(b.transit) \ S) = Cardinality(Of(b.transit)) - Cardinality(S)
      /\ Cardinality(Of(b.transit)) \in Nat /\ Cardinality(S) \in Nat
      /\ Cardinality(Of(b.gpu)) \in Nat
  BY OfFinite, CardMinus
<1>4. n \in Budgets
  <2>1. b.bytes - 1 * Cardinality(S) \in Int /\ b.inTransit - Cardinality(S) \in Int
    BY <1>1, <1>3, BudgetFields
  <2> QED BY <1>1, <1>2, <2>1 DEF TakeTransit, Budgets, Estimate
<1>5. /\ n.transit = Without(b.transit, S) /\ n.cpu = b.cpu /\ n.load = b.load
      /\ n.gpu = b.gpu /\ n.bytes = b.bytes - 1 * Cardinality(S)
      /\ n.inTransit = b.inTransit - Cardinality(S) /\ n.flights = b.flights
  BY <1>1 DEF TakeTransit, Budgets, Estimate
<1> HIDE DEF n
<1>6. Ledger(n)
  <2>1. /\ b.bytes = 2 * Cardinality(Of(b.gpu)) + 1 * Cardinality(Of(b.transit))
        /\ b.inTransit = Cardinality(Of(b.transit)) /\ b.flights = Cardinality(Of(b.load))
    BY DEF Sound, Ledger, Bytes, Estimate, Actual
  <2>2. n.bytes = 2 * Cardinality(Of(n.gpu)) + 1 * Cardinality(Of(n.transit))
    <3>1. PICK g, t, s : /\ g = Cardinality(Of(b.gpu)) /\ t = Cardinality(Of(b.transit))
                         /\ s = Cardinality(S)
      OBVIOUS
    <3>2. g \in Nat /\ t \in Nat /\ s \in Nat
      BY <1>3, <3>1
    <3>3. n.bytes = 2 * g + 1 * t - 1 * s
      BY <1>5, <2>1, <3>1, <3>2
    <3>4. Cardinality(Of(n.gpu)) = g /\ Cardinality(Of(n.transit)) = t - s
      BY <1>2, <1>3, <1>5, <3>1
    <3> QED BY <3>2, <3>3, <3>4
  <2>3. n.inTransit = Cardinality(Of(n.transit)) /\ n.flights = Cardinality(Of(n.load))
    BY <1>2, <1>3, <1>5, <2>1
  <2> QED BY <2>2, <2>3 DEF Ledger, Bytes, Estimate, Actual
<1> QED BY <1>4, <1>5, <1>6 DEF Sound, n

\* Only what is decoded and not on its way is put on its way.
LEMMA PutTransitSound ==
  ASSUME NEW b, Sound(b), NEW S \in SUBSET Of(b.cpu), S \cap Of(b.transit) = {}
  PROVE  /\ Sound(PutTransit(b, S))
         /\ PutTransit(b, S).transit =
              [r \in Resource |-> IF r \in S THEN b.cpu[r] ELSE b.transit[r]]
         /\ PutTransit(b, S).cpu = b.cpu /\ PutTransit(b, S).load = b.load
         /\ PutTransit(b, S).gpu = b.gpu
<1> DEFINE n == PutTransit(b, S)
           new == [r \in Resource |-> IF r \in S THEN b.cpu[r] ELSE b.transit[r]]
<1>1. b \in Budgets /\ b.cpu \in Copies /\ b.transit \in Copies /\ S \subseteq Resource
  BY BudgetFields, OfFinite DEF Sound
<1>2. new \in Copies /\ Of(new) = Of(b.transit) \cup S
  BY <1>1 DEF Copies, Of, Holds
<1>3. IsFiniteSet(S)
  BY <1>1, BoundsAssumption, FS_Subset
<1>4. /\ Cardinality(Of(new)) = Cardinality(Of(b.transit)) + Cardinality(S)
      /\ Cardinality(Of(b.transit)) \in Nat /\ Cardinality(S) \in Nat
      /\ Cardinality(Of(b.gpu)) \in Nat
  BY <1>2, <1>3, OfFinite, CardPlus
<1>5. /\ n.transit = new /\ n.cpu = b.cpu /\ n.load = b.load
      /\ n.gpu = b.gpu /\ n.bytes = b.bytes + 1 * Cardinality(S)
      /\ n.inTransit = b.inTransit + Cardinality(S) /\ n.flights = b.flights
  BY <1>1 DEF PutTransit, Budgets, Estimate
<1>6. n \in Budgets
  <2>1. b.bytes + 1 * Cardinality(S) \in Int /\ b.inTransit + Cardinality(S) \in Int
    BY <1>1, <1>4, BudgetFields
  <2>2. n = [b EXCEPT !.transit = new, !.bytes = b.bytes + 1 * Cardinality(S),
                      !.inTransit = b.inTransit + Cardinality(S)]
    BY DEF PutTransit, Estimate
  <2> HIDE DEF new, n
  <2> QED BY <1>1, <1>2, <2>1, <2>2 DEF Budgets
<1> HIDE DEF n, new
<1>7. Ledger(n)
  BY <1>4, <1>5 DEF Sound, Ledger, Bytes, Estimate, Actual
<1> QED BY <1>5, <1>6, <1>7 DEF Sound, n, new

LEMMA TakeGpuSound ==
  ASSUME NEW b, Sound(b), NEW S \in SUBSET Of(b.gpu)
  PROVE  /\ Sound(TakeGpu(b, S))
         /\ TakeGpu(b, S).gpu = Without(b.gpu, S)
         /\ TakeGpu(b, S).cpu = b.cpu /\ TakeGpu(b, S).load = b.load
         /\ TakeGpu(b, S).transit = b.transit
<1> DEFINE n == TakeGpu(b, S)
<1>1. b \in Budgets
  BY DEF Sound
<1>2. /\ Without(b.gpu, S) \in Copies
      /\ Of(Without(b.gpu, S)) = Of(b.gpu) \ S
  BY <1>1, BudgetFields, WithoutCopies
<1>3. /\ Cardinality(Of(b.gpu) \ S) = Cardinality(Of(b.gpu)) - Cardinality(S)
      /\ Cardinality(Of(b.gpu)) \in Nat /\ Cardinality(S) \in Nat
      /\ Cardinality(Of(b.transit)) \in Nat
  BY OfFinite, CardMinus
<1>4. n \in Budgets
  <2>1. b.bytes - 2 * Cardinality(S) \in Int
    BY <1>1, <1>3, BudgetFields
  <2> QED BY <1>1, <1>2, <2>1 DEF TakeGpu, Budgets, Actual
<1>5. /\ n.gpu = Without(b.gpu, S) /\ n.cpu = b.cpu /\ n.load = b.load
      /\ n.transit = b.transit /\ n.bytes = b.bytes - 2 * Cardinality(S)
      /\ n.inTransit = b.inTransit /\ n.flights = b.flights
  BY <1>1 DEF TakeGpu, Budgets, Actual
<1> HIDE DEF n
<1>6. Ledger(n)
  <2>1. /\ b.bytes = 2 * Cardinality(Of(b.gpu)) + 1 * Cardinality(Of(b.transit))
        /\ b.inTransit = Cardinality(Of(b.transit)) /\ b.flights = Cardinality(Of(b.load))
    BY DEF Sound, Ledger, Bytes, Estimate, Actual
  <2>2. n.bytes = 2 * Cardinality(Of(n.gpu)) + 1 * Cardinality(Of(n.transit))
    <3>1. PICK g, t, s : /\ g = Cardinality(Of(b.gpu)) /\ t = Cardinality(Of(b.transit))
                         /\ s = Cardinality(S)
      OBVIOUS
    <3>2. g \in Nat /\ t \in Nat /\ s \in Nat
      BY <1>3, <3>1
    <3>3. n.bytes = 2 * g + 1 * t - 2 * s
      BY <1>5, <2>1, <3>1, <3>2
    <3>4. Cardinality(Of(n.gpu)) = g - s /\ Cardinality(Of(n.transit)) = t
      BY <1>2, <1>3, <1>5, <3>1
    <3> QED BY <3>2, <3>3, <3>4
  <2>3. n.inTransit = Cardinality(Of(n.transit)) /\ n.flights = Cardinality(Of(n.load))
    BY <1>2, <1>3, <1>5, <2>1
  <2> QED BY <2>2, <2>3 DEF Ledger, Bytes, Estimate, Actual
<1> QED BY <1>4, <1>5, <1>6 DEF Sound, n

LEMMA PutGpuSound ==
  ASSUME NEW b, Sound(b), NEW r \in Resource, NEW copy \in Copy, copy.gen # 0
  PROVE  /\ Sound(PutGpu(b, r, copy))
         /\ PutGpu(b, r, copy).gpu = [b.gpu EXCEPT ![r] = copy]
         /\ PutGpu(b, r, copy).cpu = b.cpu /\ PutGpu(b, r, copy).load = b.load
         /\ PutGpu(b, r, copy).transit = b.transit
<1> DEFINE n == PutGpu(b, r, copy)
           new == [b.gpu EXCEPT ![r] = copy]
<1>1. b \in Budgets /\ b.gpu \in Copies
  BY BudgetFields DEF Sound
<1>2. new \in Copies /\ Of(new) = Of(b.gpu) \cup {r}
  BY <1>1 DEF Copies, Of, Holds
<1>3. /\ Cardinality(Of(new)) = IF Holds(b.gpu, r) THEN Cardinality(Of(b.gpu))
                                ELSE Cardinality(Of(b.gpu)) + 1
      /\ Cardinality(Of(b.gpu)) \in Nat /\ Cardinality(Of(b.transit)) \in Nat
  BY <1>2, OfFinite, FS_AddElement DEF Of
<1>4. /\ n.gpu = new /\ n.cpu = b.cpu /\ n.load = b.load /\ n.transit = b.transit
      /\ n.bytes = b.bytes + 2 - (IF Holds(b.gpu, r) THEN 2 ELSE 0)
      /\ n.inTransit = b.inTransit /\ n.flights = b.flights
  BY <1>1 DEF PutGpu, Budgets, Actual
<1>5. n \in Budgets
  <2> DEFINE was == IF Holds(b.gpu, r) THEN 2 ELSE 0
  <2>1. b.bytes + 2 - was \in Int
    BY <1>1, BudgetFields
  <2>2. n = [b EXCEPT !.gpu = new, !.bytes = b.bytes + 2 - was]
    BY DEF PutGpu, Actual
  <2> HIDE DEF new, n, was
  <2> QED BY <1>1, <1>2, <2>1, <2>2 DEF Budgets
<1> HIDE DEF n, new
<1>6. Ledger(n)
  BY <1>3, <1>4 DEF Sound, Ledger, Bytes, Estimate, Actual
<1> QED BY <1>4, <1>5, <1>6 DEF Sound, n, new

\* What is decoded counts for nothing in the ledger.
LEMMA TakeCpuSound ==
  ASSUME NEW b, Sound(b), NEW S
  PROVE  /\ Sound(TakeCpu(b, S))
         /\ TakeCpu(b, S).cpu = Without(b.cpu, S)
         /\ TakeCpu(b, S).gpu = b.gpu /\ TakeCpu(b, S).load = b.load
         /\ TakeCpu(b, S).transit = b.transit
<1> DEFINE n == TakeCpu(b, S)
<1>1. b \in Budgets /\ Without(b.cpu, S) \in Copies
  BY BudgetFields, WithoutCopies DEF Sound
<1>2. n \in Budgets
  BY <1>1 DEF TakeCpu, Budgets
<1>3. /\ n.cpu = Without(b.cpu, S) /\ n.gpu = b.gpu /\ n.load = b.load
      /\ n.transit = b.transit /\ n.bytes = b.bytes
      /\ n.inTransit = b.inTransit /\ n.flights = b.flights
  BY <1>1 DEF TakeCpu, Budgets
<1> HIDE DEF n
<1>4. Ledger(n)
  BY <1>3 DEF Sound, Ledger, Bytes
<1> QED BY <1>2, <1>3, <1>4 DEF Sound, n

-----------------------------------------------------------------------------
(* Messages taken one after the other.                                      *)

\* Every non-empty set of naturals has a least element.
LEMMA LeastElement ==
  ASSUME NEW S \in SUBSET Nat, S # {}
  PROVE  \E x \in S : \A y \in S : x <= y
<1> DEFINE R == OpToRel(<, Nat)
<1>1. IsWellFoundedOn(R, Nat)
  BY NatLessThanWellFounded
<1>2. \A x, y \in Nat : <<y, x>> \in R <=> y < x
  BY DEF OpToRel
<1> HIDE DEF R
<1>3. PICK x \in S : \A y \in S : ~ (<<y, x>> \in R)
  BY <1>1, WFMin
<1>4. \A y \in S : ~ (y < x)
  BY <1>2, <1>3, Zenon
<1> QED BY <1>4

Answered(b, m) == IF m.type = "Ack" THEN Drawable(b, m) ELSE b

AckRun(g, b, news, n) == g = [i \in 0..n |-> IF i = 0 THEN b ELSE Answered(g[i - 1], news[i])]
ReadRun(g, c, news, n) == g = [i \in 0..n |-> IF i = 0 THEN c ELSE Told(g[i - 1], news[i])]

LEMMA AckRunExists ==
  ASSUME NEW b, NEW news, NEW n \in Nat
  PROVE  \E g : AckRun(g, b, news, n)
<1> DEFINE X == {k \in Nat : ~ \E g : AckRun(g, b, news, k)}
<1> SUFFICES ASSUME X # {} PROVE FALSE
  OBVIOUS
<1>1. PICK k \in X : \A j \in X : k <= j
  <2>1. X \in SUBSET Nat
    OBVIOUS
  <2> HIDE DEF X
  <2> QED BY <2>1, LeastElement
<1>2. CASE k = 0
  <2> DEFINE g == [i \in 0..k |-> b]
  <2>1. g = [i \in 0..k |-> IF i = 0 THEN b ELSE Answered(g[i - 1], news[i])]
    BY <1>2
  <2> HIDE DEF g
  <2>2. AckRun(g, b, news, k)
    BY <2>1 DEF AckRun
  <2> QED BY <1>1, <2>2
<1>3. CASE k # 0
  <2>1. k - 1 \in Nat /\ k - 1 \notin X
    BY <1>1, <1>3
  <2>2. PICK g : AckRun(g, b, news, k - 1)
    BY <2>1
  <2> DEFINE h == [i \in 0..k |-> IF i = k THEN Answered(g[k - 1], news[k]) ELSE g[i]]
  <2>3. \A i \in 0..k : h[i] = IF i = 0 THEN b ELSE Answered(h[i - 1], news[i])
    <3> SUFFICES ASSUME NEW i \in 0..k
                 PROVE  h[i] = IF i = 0 THEN b ELSE Answered(h[i - 1], news[i])
      OBVIOUS
    <3>1. \A j \in 0..(k - 1) : g[j] = IF j = 0 THEN b ELSE Answered(g[j - 1], news[j])
      BY <2>2 DEF AckRun
    <3>2. CASE i = k
      <4>1. k - 1 \in 0..k /\ k - 1 # k
        BY <1>3
      <4>2. h[k - 1] = g[k - 1]
        BY <4>1
      <4> QED BY <1>3, <3>2, <4>2
    <3>3. CASE i # k
      <4>1. i \in 0..(k - 1) /\ h[i] = g[i]
        BY <1>1, <3>3
      <4>2. i # 0 => i - 1 \in 0..k /\ i - 1 # k
        OBVIOUS
      <4>3. i # 0 => h[i - 1] = g[i - 1]
        BY <4>2
      <4> HIDE DEF h
      <4> QED BY <3>1, <4>1, <4>3
    <3> QED BY <3>2, <3>3
  <2>4. h = [i \in 0..k |-> IF i = 0 THEN b ELSE Answered(h[i - 1], news[i])]
    BY <2>3
  <2> HIDE DEF h
  <2>5. AckRun(h, b, news, k)
    BY <2>4 DEF AckRun
  <2> QED BY <1>1, <2>5
<1> QED BY <1>2, <1>3

LEMMA ReadRunExists ==
  ASSUME NEW c, NEW news, NEW n \in Nat
  PROVE  \E g : ReadRun(g, c, news, n)
<1> DEFINE X == {k \in Nat : ~ \E g : ReadRun(g, c, news, k)}
<1> SUFFICES ASSUME X # {} PROVE FALSE
  OBVIOUS
<1>1. PICK k \in X : \A j \in X : k <= j
  <2>1. X \in SUBSET Nat
    OBVIOUS
  <2> HIDE DEF X
  <2> QED BY <2>1, LeastElement
<1>2. CASE k = 0
  <2> DEFINE g == [i \in 0..k |-> c]
  <2>1. g = [i \in 0..k |-> IF i = 0 THEN c ELSE Told(g[i - 1], news[i])]
    BY <1>2
  <2> HIDE DEF g
  <2>2. ReadRun(g, c, news, k)
    BY <2>1 DEF ReadRun
  <2> QED BY <1>1, <2>2
<1>3. CASE k # 0
  <2>1. k - 1 \in Nat /\ k - 1 \notin X
    BY <1>1, <1>3
  <2>2. PICK g : ReadRun(g, c, news, k - 1)
    BY <2>1
  <2> DEFINE h == [i \in 0..k |-> IF i = k THEN Told(g[k - 1], news[k]) ELSE g[i]]
  <2>3. \A i \in 0..k : h[i] = IF i = 0 THEN c ELSE Told(h[i - 1], news[i])
    <3> SUFFICES ASSUME NEW i \in 0..k
                 PROVE  h[i] = IF i = 0 THEN c ELSE Told(h[i - 1], news[i])
      OBVIOUS
    <3>1. \A j \in 0..(k - 1) : g[j] = IF j = 0 THEN c ELSE Told(g[j - 1], news[j])
      BY <2>2 DEF ReadRun
    <3>2. CASE i = k
      <4>1. k - 1 \in 0..k /\ k - 1 # k
        BY <1>3
      <4>2. h[k - 1] = g[k - 1]
        BY <4>1
      <4> QED BY <1>3, <3>2, <4>2
    <3>3. CASE i # k
      <4>1. i \in 0..(k - 1) /\ h[i] = g[i]
        BY <1>1, <3>3
      <4>2. i # 0 => i - 1 \in 0..k /\ i - 1 # k
        OBVIOUS
      <4>3. i # 0 => h[i - 1] = g[i - 1]
        BY <4>2
      <4> HIDE DEF h
      <4> QED BY <3>1, <4>1, <4>3
    <3> QED BY <3>2, <3>3
  <2>4. h = [i \in 0..k |-> IF i = 0 THEN c ELSE Told(h[i - 1], news[i])]
    BY <2>3
  <2> HIDE DEF h
  <2>5. ReadRun(h, c, news, k)
    BY <2>4 DEF ReadRun
  <2> QED BY <1>1, <2>5
<1> QED BY <1>2, <1>3

\* What holds before the first acknowledgment and after each holds after all;
\* P[i] is what is allowed after i.
LEMMA AcknowledgedIn ==
  ASSUME NEW b, NEW news, Len(news) \in Nat, NEW P, b \in P[0],
         \A i \in 1..Len(news) : \A c \in P[i - 1] : Answered(c, news[i]) \in P[i]
  PROVE  Acknowledged(b, news) \in P[Len(news)]
<1> DEFINE n == Len(news)
           g == CHOOSE g : AckRun(g, b, news, n)
<1>1. AckRun(g, b, news, n)
  <2>1. \E f : AckRun(f, b, news, n)
    BY AckRunExists
  <2> QED BY <2>1, Zenon
<1>2. Acknowledged(b, news) = g[n]
  BY DEF Acknowledged, AckRun, Answered
<1> HIDE DEF g
<1>3. \A i \in 0..n : g[i] = IF i = 0 THEN b ELSE Answered(g[i - 1], news[i])
  BY <1>1 DEF AckRun
<1> DEFINE X == {i \in 0..n : g[i] \notin P[i]}
<1>4. X = {}
  <2> SUFFICES ASSUME X # {} PROVE FALSE
    OBVIOUS
  <2>1. PICK k \in X : \A j \in X : k <= j
    <3>1. X \in SUBSET Nat
      OBVIOUS
    <3> HIDE DEF X
    <3> QED BY <3>1, LeastElement
  <2>2. k # 0
    BY <1>3
  <2>3. k \in 1..n /\ k - 1 \in 0..n /\ k - 1 \notin X
    BY <2>1, <2>2
  <2>4. g[k - 1] \in P[k - 1]
    BY <2>3
  <2>5. g[k] = Answered(g[k - 1], news[k])
    BY <1>3, <2>2, <2>3
  <2> QED BY <2>3, <2>4, <2>5
<1> QED BY <1>2, <1>4

LEMMA ReadsIn ==
  ASSUME NEW c, NEW news, Len(news) \in Nat, NEW P, c \in P[0],
         \A i \in 1..Len(news) : \A d \in P[i - 1] : Told(d, news[i]) \in P[i]
  PROVE  Reads(c, news) \in P[Len(news)]
<1> DEFINE n == Len(news)
           g == CHOOSE g : ReadRun(g, c, news, n)
<1>1. ReadRun(g, c, news, n)
  <2>1. \E f : ReadRun(f, c, news, n)
    BY ReadRunExists
  <2> QED BY <2>1, Zenon
<1>2. Reads(c, news) = g[n]
  BY DEF Reads, ReadRun
<1> HIDE DEF g
<1>3. \A i \in 0..n : g[i] = IF i = 0 THEN c ELSE Told(g[i - 1], news[i])
  BY <1>1 DEF ReadRun
<1> DEFINE X == {i \in 0..n : g[i] \notin P[i]}
<1>4. X = {}
  <2> SUFFICES ASSUME X # {} PROVE FALSE
    OBVIOUS
  <2>1. PICK k \in X : \A j \in X : k <= j
    <3>1. X \in SUBSET Nat
      OBVIOUS
    <3> HIDE DEF X
    <3> QED BY <3>1, LeastElement
  <2>2. k # 0
    BY <1>3
  <2>3. k \in 1..n /\ k - 1 \in 0..n /\ k - 1 \notin X
    BY <2>1, <2>2
  <2>4. g[k - 1] \in P[k - 1]
    BY <2>3
  <2>5. g[k] = Told(g[k - 1], news[k])
    BY <1>3, <2>2, <2>3
  <2> QED BY <2>3, <2>4, <2>5
<1> QED BY <1>2, <1>4

-----------------------------------------------------------------------------
(* The messages, and what is sent in any order.                             *)

SessionMessage ==
  [type : {"View"}, what : SUBSET Resource] \cup [type : {"Release"}]
    \cup [type : {"Ack", "Discarded"}, r : Resource, gen : Nat \ {0}]

ConsumerMessage ==
  [type : {"Select", "Evict"}, what : SUBSET Resource]
    \cup [type : {"Cancel"}, what : SUBSET [r : Resource, gen : Nat]]
    \cup [type : {"Content"}, r : Resource, gen : Nat \ {0}]

\* A finite set sent as a sequence: each element once.
LEMMA SetToSeqIs ==
  ASSUME NEW S, IsFiniteSet(S)
  PROVE  /\ SetToSeq(S) \in Seq(S) /\ Len(SetToSeq(S)) \in Nat
         /\ SetToSeq(S) \in [1..Len(SetToSeq(S)) -> S]
         /\ \A i, j \in 1..Len(SetToSeq(S)) : SetToSeq(S)[i] = SetToSeq(S)[j] => i = j
         /\ \A x \in S : \E i \in 1..Len(SetToSeq(S)) : SetToSeq(S)[i] = x
<1> DEFINE n == Cardinality(S)
           f == SetToSeq(S)
<1>1. n \in Nat /\ ExistsBijection(1..n, S)
  BY FS_CardinalityType
<1>2. \E g \in [1..n -> S] : IsInjective(g)
  BY <1>1 DEF ExistsBijection, Bijection, Injection
<1>3. f \in [1..n -> S] /\ IsInjective(f)
  BY <1>2 DEF SetToSeq
<1>4. f \in Injection(1..n, S)
  BY <1>3 DEF Injection
<1>5. Cardinality(1..n) = n
  BY <1>1, FS_Interval
<1>6. f \in Surjection(1..n, S)
  <2> HIDE DEF f, n
  <2>1. Cardinality(1..n) = Cardinality(S)
    BY <1>5 DEF n
  <2> QED BY <1>4, <2>1, FS_Injection
<1> HIDE DEF f, n
<1>7. f \in Seq(S) /\ Len(f) = n
  BY <1>1, <1>3
<1>8. \A x \in S : \E i \in 1..n : f[i] = x
  BY <1>6 DEF Surjection
<1> QED BY <1>1, <1>3, <1>7, <1>8 DEF f, IsInjective

LEMMA ContentSent ==
  ASSUME NEW b, Sound(b), NEW contents \in [Resource -> Nat],
         \A r \in Resource : contents[r] = b.cpu[r].gen, NEW S \in SUBSET Of(b.cpu)
  PROVE  LET q == Content(b, contents, S) IN
         /\ q \in Seq(ConsumerMessage) /\ Len(q) \in Nat
         /\ \A i \in 1..Len(q) : /\ q[i].type = "Content" /\ q[i].r \in S
                                 /\ q[i].gen = b.cpu[q[i].r].gen
         /\ \A i, j \in 1..Len(q) : q[i].r = q[j].r => i = j
         /\ \A r \in S : \E i \in 1..Len(q) : q[i].r = r
<1> DEFINE M == {[type |-> "Content", r |-> r, gen |-> contents[r]] : r \in S}
           q == Content(b, contents, S)
           f == [r \in S |-> [type |-> "Content", r |-> r, gen |-> contents[r]]]
<1>1. S \subseteq Resource /\ \A r \in S : contents[r] = b.cpu[r].gen /\ contents[r] \in Nat \ {0}
  BY DEF Of, Holds
<1>2. {r \in S : contents[r] = b.cpu[r].gen} = S
  BY <1>1
<1>3. q = SetToSeq(M)
  BY <1>2 DEF Content
<1>4. IsFiniteSet(M)
  <2>1. IsFiniteSet(S)
    BY <1>1, BoundsAssumption, FS_Subset
  <2>2. f \in Surjection(S, M)
    BY DEF Surjection
  <2> HIDE DEF f, M
  <2> QED BY <2>1, <2>2, FS_Surjection
<1>5. \A m \in M : /\ m \in ConsumerMessage /\ m.type = "Content" /\ m.r \in S
                   /\ m.gen = b.cpu[m.r].gen
  BY <1>1 DEF ConsumerMessage
<1>6. \A m1, m2 \in M : m1.r = m2.r => m1 = m2
  OBVIOUS
<1>7. \A r \in S : \E m \in M : m.r = r
  <2> SUFFICES ASSUME NEW r \in S PROVE \E m \in M : m.r = r
    OBVIOUS
  <2> DEFINE m == [type |-> "Content", r |-> r, gen |-> contents[r]]
  <2>1. m \in M /\ m.r = r
    OBVIOUS
  <2> HIDE DEF m, M
  <2> QED BY <2>1
<1> HIDE DEF M, q
<1>8. /\ q \in Seq(M) /\ Len(q) \in Nat /\ q \in [1..Len(q) -> M]
      /\ \A i, j \in 1..Len(q) : q[i] = q[j] => i = j
      /\ \A x \in M : \E i \in 1..Len(q) : q[i] = x
  BY <1>3, <1>4, SetToSeqIs
<1>9. q \in Seq(ConsumerMessage)
  BY <1>5, <1>8
<1>10. \A i \in 1..Len(q) : q[i] \in M
  BY <1>8
<1> QED BY <1>5, <1>6, <1>7, <1>8, <1>9, <1>10 DEF q

LEMMA MessageSent ==
  ASSUME NEW type, NEW S, [type |-> type, what |-> S] \in ConsumerMessage
  PROVE  LET q == Message(type, S) IN
         /\ q \in Seq(ConsumerMessage) /\ Len(q) \in Nat
         /\ \A i \in 1..Len(q) : i = 1 /\ q[i] = [type |-> type, what |-> S]
         /\ S # {} => Len(q) = 1
<1>1. CASE S = {}
  BY <1>1 DEF Message
<1>2. CASE S # {}
  BY <1>2 DEF Message
<1> QED BY <1>1, <1>2

-----------------------------------------------------------------------------
(* Arrivals.                                                                *)

LEMMA DrawableSound ==
  ASSUME NEW b, Sound(b), NEW ack, ack.r \in Resource, ack.gen \in Nat \ {0}
  PROVE  LET d == Drawable(b, ack) IN
         /\ Sound(d) /\ d.load = b.load /\ d.cpu = b.cpu
         /\ Of(b.gpu) \subseteq Of(d.gpu)
         /\ b.transit[ack.r].gen = ack.gen =>
              /\ d.transit = [b.transit EXCEPT ![ack.r] = None]
              /\ d.gpu = [b.gpu EXCEPT ![ack.r] = b.transit[ack.r]]
<1> DEFINE r == ack.r
           d == Drawable(b, ack)
<1>0. /\ b.transit \in Copies /\ b.gpu \in Copies /\ b.cpu \in Copies
  BY BudgetFields DEF Sound
<1>1. CASE b.transit[r].gen = ack.gen
  <2> DEFINE c == TakeTransit(b, {r})
  <2>1. {r} \in SUBSET Of(b.transit) /\ b.transit[r] \in Copy /\ b.transit[r].gen # 0
    BY <1>0, <1>1 DEF Of, Holds, Copies
  <2>2. /\ Sound(c) /\ c.transit = Without(b.transit, {r}) /\ c.cpu = b.cpu
        /\ c.load = b.load /\ c.gpu = b.gpu
    BY <2>1, TakeTransitSound
  <2>3. d = PutGpu(c, r, b.transit[r])
    BY <1>1 DEF Drawable
  <2> HIDE DEF c, d
  <2>4. /\ Sound(d) /\ d.gpu = [c.gpu EXCEPT ![r] = b.transit[r]]
        /\ d.cpu = c.cpu /\ d.load = c.load /\ d.transit = c.transit
    BY <2>1, <2>2, <2>3, PutGpuSound
  <2>5. Without(b.transit, {r}) = [b.transit EXCEPT ![r] = None]
    BY <1>0 DEF Without, Copies
  <2>6. Of(b.gpu) \subseteq Of(d.gpu)
    BY <1>0, <2>1, <2>2, <2>4 DEF Of, Holds, Copies
  <2> QED BY <2>2, <2>4, <2>5, <2>6 DEF d
<1>2. CASE b.transit[r].gen # ack.gen /\ ~Holds(b.transit, r) /\ ~Holds(b.gpu, r)
             /\ b.cpu[r].gen = ack.gen
  <2>1. b.cpu[r] \in Copy /\ b.cpu[r].gen # 0
    BY <1>0, <1>2 DEF Copies
  <2>2. d = PutGpu(b, r, b.cpu[r])
    BY <1>2 DEF Drawable
  <2> HIDE DEF d
  <2>3. /\ Sound(d) /\ d.gpu = [b.gpu EXCEPT ![r] = b.cpu[r]]
        /\ d.cpu = b.cpu /\ d.load = b.load /\ d.transit = b.transit
    BY <2>1, <2>2, PutGpuSound
  <2>4. Of(b.gpu) \subseteq Of(d.gpu)
    BY <1>0, <2>1, <2>3 DEF Of, Holds, Copies
  <2> QED BY <1>2, <2>3, <2>4 DEF d
<1>3. CASE /\ b.transit[r].gen # ack.gen
           /\ ~(~Holds(b.transit, r) /\ ~Holds(b.gpu, r) /\ b.cpu[r].gen = ack.gen)
  <2>1. d = b
    BY <1>3 DEF Drawable
  <2> QED BY <1>3, <2>1
<1> QED BY <1>1, <1>2, <1>3

LEMMA AcknowledgedSound ==
  ASSUME NEW b, Sound(b), NEW news \in Seq(SessionMessage)
  PROVE  LET d == Acknowledged(b, news) IN
         Sound(d) /\ d.load = b.load /\ d.cpu = b.cpu /\ Of(b.gpu) \subseteq Of(d.gpu)
<1> DEFINE Good == {d \in Budgets : /\ Ledger(d) /\ d.load = b.load /\ d.cpu = b.cpu
                                    /\ Of(b.gpu) \subseteq Of(d.gpu)}
           P == [i \in 0..Len(news) |-> Good]
<1>1. Len(news) \in Nat
  OBVIOUS
<1>2. b \in Good
  BY DEF Sound
<1>3. ASSUME NEW i \in 1..Len(news), NEW d \in Good
      PROVE  Answered(d, news[i]) \in Good
  <2>1. news[i] \in SessionMessage
    OBVIOUS
  <2>2. CASE news[i].type = "Ack"
    <3>1. news[i].r \in Resource /\ news[i].gen \in Nat \ {0}
      BY <2>1, <2>2 DEF SessionMessage
    <3>2. Sound(d)
      BY DEF Sound
    <3> DEFINE e == Drawable(d, news[i])
    <3>3. Sound(e) /\ e.load = d.load /\ e.cpu = d.cpu /\ Of(d.gpu) \subseteq Of(e.gpu)
      BY <3>1, <3>2, DrawableSound
    <3> HIDE DEF e
    <3>4. e \in Good
      BY <3>3 DEF Sound
    <3> QED BY <2>2, <3>4 DEF e, Answered
  <2>3. CASE news[i].type # "Ack"
    BY <2>3 DEF Answered
  <2> QED BY <2>2, <2>3
<1> HIDE DEF Good
<1>4. b \in P[0] /\ \A i \in 1..Len(news) : \A d \in P[i - 1] : Answered(d, news[i]) \in P[i]
  BY <1>1, <1>2, <1>3
<1>5. P[Len(news)] = Good
  BY <1>1
<1> HIDE DEF P
<1>6. Acknowledged(b, news) \in Good
  BY <1>1, <1>4, <1>5, AcknowledgedIn
<1> QED BY <1>6 DEF Good, Sound

LEMMA LandedSound ==
  ASSUME NEW b, Sound(b), NEW ended \in SUBSET Of(b.load), NEW good \in SUBSET ended
  PROVE  LET d == Landed(b, ended, good) IN
         /\ Sound(d) /\ d.load = Without(b.load, ended)
         /\ d.cpu = [r \in Resource |-> IF r \in good THEN b.load[r] ELSE b.cpu[r]]
         /\ d.transit = b.transit /\ d.gpu = b.gpu
<1> DEFINE c == IdleLoads(b, ended)
           new == [r \in Resource |-> IF r \in good THEN b.load[r] ELSE b.cpu[r]]
           d == Landed(b, ended, good)
<1>1. /\ Sound(c) /\ c.load = Without(b.load, ended) /\ c.transit = b.transit /\ c.gpu = b.gpu
  BY IdleLoadsSound
<1>2. new \in Copies
  BY BudgetFields DEF Copies, Sound
<1>3. d = [c EXCEPT !.cpu = new]
  BY DEF Landed
<1> HIDE DEF c, new, d
<1>4. /\ d \in Budgets /\ d.load = c.load /\ d.cpu = new /\ d.transit = c.transit
      /\ d.gpu = c.gpu /\ d.bytes = c.bytes /\ d.inTransit = c.inTransit
      /\ d.flights = c.flights
  BY <1>1, <1>2, <1>3 DEF Budgets, Sound
<1>5. Ledger(d)
  BY <1>1, <1>4 DEF Ledger, Sound, Bytes
<1> QED BY <1>1, <1>4, <1>5 DEF Sound, d, new

LEMMA RefusalsIn == \A b, news : Refusals(b, news) \subseteq Of(b.transit)
BY DEF Refusals, Of

LEMMA WantedIn ==
  ASSUME want \subseteq Resource, NEW news \in Seq(SessionMessage)
  PROVE  Wanted(news) \subseteq Resource
<1> DEFINE V == {i \in 1..Len(news) : news[i].type = "View"}
<1>1. CASE V = {}
  BY <1>1 DEF Wanted
<1>2. CASE V # {}
  <2>1. \E i \in V : \A j \in V : i >= j
    <3> DEFINE G == {Len(news) - i : i \in V}
    <3>1. G \in SUBSET Nat /\ G # {}
      BY <1>2
    <3>2. PICK g \in G : \A h \in G : g <= h
      <4> HIDE DEF G
      <4> QED BY <3>1, LeastElement
    <3>3. PICK i \in V : g = Len(news) - i
      BY <3>2
    <3>4. \A j \in V : Len(news) - i <= Len(news) - j
      BY <3>2, <3>3
    <3> QED BY <3>4
  <2>2. Max(V) \in V
    BY <2>1 DEF Max
  <2>3. news[Max(V)] \in SessionMessage /\ news[Max(V)].type = "View"
    BY <2>2
  <2>4. news[Max(V)].what \subseteq Resource
    BY <2>3 DEF SessionMessage
  <2> QED BY <1>2, <2>4 DEF Wanted
<1> QED BY <1>1, <1>2

-----------------------------------------------------------------------------
(* A step.                                                                  *)

\* What a step does, once all is chosen.
Does(t, D, unneeded, late, withdrawn, gens, gone, freed) ==
  LET b == t.budget
      w == Wants(b, t.view, D, loaderEpoch)
      b2 == TakeTransit(IdleLoads(b, unneeded \cup late), withdrawn)
      failed == late \ unneeded
      starts == LoadJobs(b2, w, loaderEpoch, t.resting \cup failed)
      delivered == DeliverJobs(b2, w, loaderEpoch, t.refused)
      b4 == PutTransit(StartLoads(b2, gens, loaderEpoch), delivered)
      squeezed == gone \cup freed # {}
      faulty == late \cup t.failed # {}
  IN
  /\ faulty => faults < MaxFaults
  /\ squeezed => squeezes < MaxSqueezes /\ policy # "Batch"
  /\ faults' = IF faulty THEN faults + 1 ELSE faults
  /\ squeezes' = IF squeezed THEN squeezes + 1 ELSE squeezes
  /\ budget' = TakeCpu(TakeGpu(b4, gone), freed)
  /\ nextGen' = nextGen + Cardinality(starts)
  /\ inFlight' = [r \in Resource |-> IF r \in starts THEN gens[r]
                                     ELSE IF r \in unneeded \cup late THEN 0
                                     ELSE t.flying[r]]
  /\ decoded' = [r \in Resource |-> IF r \in freed THEN 0 ELSE t.contents[r]]
  /\ want' = t.view /\ drawn' = D
  /\ idle' = Resource \ (w \cup D)
  /\ waits' = t.resting \cup failed
  /\ refused' = t.refused
  /\ epoch' = loaderEpoch
  /\ over' = (policy = "Batch" /\ failed \cup t.failed # {})
  /\ toConsumer' = toConsumer \o t.sent \o
       Messages(Message("Cancel", {[r |-> r, gen |-> b.transit[r].gen] : r \in withdrawn}),
                Content(b, t.contents, delivered), D, gone)

Chosen(t, D, unneeded, late, withdrawn, gens, gone, freed) ==
  LET b == t.budget
      w == Wants(b, t.view, D, loaderEpoch)
      stale == Cancellable(b, w, D)
      b2 == TakeTransit(IdleLoads(b, unneeded \cup late), withdrawn)
      starts == LoadJobs(b2, w, loaderEpoch, t.resting \cup (late \ unneeded))
      b4 == PutTransit(StartLoads(b2, gens, loaderEpoch),
                       DeliverJobs(b2, w, loaderEpoch, t.refused))
  IN
  /\ D \in DrawSets(b, t.view)
  /\ unneeded \in SUBSET (Of(b.load) \cap stale) /\ late \in SUBSET Of(b.load)
  /\ withdrawn \in SUBSET (Of(b.transit) \cap stale)
  /\ gens \in Numbered(starts)
  /\ gone \in SUBSET Evictable(b4, D)
  /\ freed \in SUBSET (Of(b4.cpu) \ Of(b4.transit))

LEMMA StepDoes ==
  ASSUME NEW t, Step(t)
  PROVE  \E D, unneeded, late, withdrawn, gens, gone, freed :
           /\ Chosen(t, D, unneeded, late, withdrawn, gens, gone, freed)
           /\ Does(t, D, unneeded, late, withdrawn, gens, gone, freed)
<1> DEFINE b == t.budget
           w(D) == Wants(b, t.view, D, loaderEpoch)
           stale(D) == Cancellable(b, w(D), D)
           b2(unneeded, late, withdrawn) ==
             TakeTransit(IdleLoads(b, unneeded \cup late), withdrawn)
           starts(D, unneeded, late, withdrawn) ==
             LoadJobs(b2(unneeded, late, withdrawn), w(D), loaderEpoch,
                      t.resting \cup (late \ unneeded))
           b4(D, unneeded, late, withdrawn, gens) ==
             PutTransit(StartLoads(b2(unneeded, late, withdrawn), gens, loaderEpoch),
                        DeliverJobs(b2(unneeded, late, withdrawn), w(D), loaderEpoch, t.refused))
<1>1. \E D \in DrawSets(b, t.view) :
      \E unneeded \in SUBSET (Of(b.load) \cap stale(D)), late \in SUBSET Of(b.load),
         withdrawn \in SUBSET (Of(b.transit) \cap stale(D)) :
        Works(t, D, unneeded, late, withdrawn)
  BY Zenon DEF Step
<1>2. ASSUME NEW D, NEW unneeded, NEW late, NEW withdrawn,
             Works(t, D, unneeded, late, withdrawn)
      PROVE  \E gens \in Numbered(starts(D, unneeded, late, withdrawn)) :
             \E gone \in SUBSET Evictable(b4(D, unneeded, late, withdrawn, gens), D),
                freed \in SUBSET (Of(b4(D, unneeded, late, withdrawn, gens).cpu)
                                   \ Of(b4(D, unneeded, late, withdrawn, gens).transit)) :
               Does(t, D, unneeded, late, withdrawn, gens, gone, freed)
  BY <1>2, Zenon DEF Works, Does
<1>3. ASSUME NEW D, NEW unneeded, NEW late, NEW withdrawn, NEW gens, NEW gone, NEW freed,
             D \in DrawSets(b, t.view),
             unneeded \in SUBSET (Of(b.load) \cap stale(D)), late \in SUBSET Of(b.load),
             withdrawn \in SUBSET (Of(b.transit) \cap stale(D)),
             gens \in Numbered(starts(D, unneeded, late, withdrawn)),
             gone \in SUBSET Evictable(b4(D, unneeded, late, withdrawn, gens), D),
             freed \in SUBSET (Of(b4(D, unneeded, late, withdrawn, gens).cpu)
                                \ Of(b4(D, unneeded, late, withdrawn, gens).transit))
      PROVE  Chosen(t, D, unneeded, late, withdrawn, gens, gone, freed)
  BY <1>3, Zenon DEF Chosen
<1> HIDE DEF b, w, stale, b2, starts, b4
<1>4. PICK D \in DrawSets(t.budget, t.view) :
        \E unneeded \in SUBSET (Of(b.load) \cap stale(D)), late \in SUBSET Of(b.load),
           withdrawn \in SUBSET (Of(b.transit) \cap stale(D)) :
          Works(t, D, unneeded, late, withdrawn)
  BY <1>1, Zenon DEF b
<1>5. PICK unneeded \in SUBSET (Of(b.load) \cap stale(D)), late \in SUBSET Of(b.load),
           withdrawn \in SUBSET (Of(b.transit) \cap stale(D)) :
          Works(t, D, unneeded, late, withdrawn)
  BY <1>4
<1>6. PICK gens \in Numbered(starts(D, unneeded, late, withdrawn)) :
             \E gone \in SUBSET Evictable(b4(D, unneeded, late, withdrawn, gens), D),
                freed \in SUBSET (Of(b4(D, unneeded, late, withdrawn, gens).cpu)
                                   \ Of(b4(D, unneeded, late, withdrawn, gens).transit)) :
               Does(t, D, unneeded, late, withdrawn, gens, gone, freed)
  BY <1>2, <1>5, Zenon
<1>7. PICK gone \in SUBSET Evictable(b4(D, unneeded, late, withdrawn, gens), D),
           freed \in SUBSET (Of(b4(D, unneeded, late, withdrawn, gens).cpu)
                              \ Of(b4(D, unneeded, late, withdrawn, gens).transit)) :
               Does(t, D, unneeded, late, withdrawn, gens, gone, freed)
  BY <1>6
<1>8. D \in DrawSets(b, t.view)
  BY <1>4 DEF b
<1>9. Chosen(t, D, unneeded, late, withdrawn, gens, gone, freed)
  BY <1>3, <1>8, <1>5, <1>6, <1>7, Zenon
<1> QED BY <1>7, <1>9, Zenon
\* What is asked of what a turn gives the step.
Ready(t) ==
  /\ Sound(t.budget) /\ t.view \subseteq Resource
  /\ t.contents \in [Resource -> Nat] /\ t.flying \in [Resource -> Nat]
  /\ \A r \in Resource : /\ t.contents[r] = t.budget.cpu[r].gen
                         /\ t.flying[r] = t.budget.load[r].gen
  /\ t.sent \in Seq(ConsumerMessage)

\* What a step makes of the copies.
Becomes(b, n, unneeded, late, withdrawn, gens, delivered, gone, freed) ==
  /\ Sound(n)
  /\ n.load = [r \in Resource |-> IF r \in DOMAIN gens
                                    THEN [gen |-> gens[r], epoch |-> loaderEpoch]
                                  ELSE IF r \in unneeded \cup late THEN None ELSE b.load[r]]
  /\ n.cpu = Without(b.cpu, freed)
  /\ n.transit = [r \in Resource |-> IF r \in delivered THEN b.cpu[r]
                                     ELSE IF r \in withdrawn THEN None ELSE b.transit[r]]
  /\ n.gpu = Without(b.gpu, gone)

\* What a step does, said once.
Outcome(t, D, unneeded, late, withdrawn, gens, gone, freed, delivered, starts) ==
  /\ Becomes(t.budget, budget', unneeded, late, withdrawn, gens, delivered, gone, freed)
  /\ D \subseteq Of(t.budget.gpu) /\ (t.view \subseteq Of(t.budget.gpu) => t.view \subseteq D)
  /\ gone \subseteq Of(t.budget.gpu) /\ gone \cap D = {}
  /\ withdrawn \subseteq Of(t.budget.transit)
  /\ delivered \subseteq Of(t.budget.cpu)
  /\ delivered \cap (Of(t.budget.transit) \ withdrawn) = {}
  /\ freed \cap delivered = {}
  /\ starts = DOMAIN gens /\ gens \in [starts -> Nat \ {0}]
  /\ IsFiniteSet(starts) /\ starts \subseteq Resource
  /\ toConsumer' = toConsumer \o t.sent \o
       Messages(Message("Cancel", {[r |-> r, gen |-> t.budget.transit[r].gen] :
                                     r \in withdrawn}),
                Content(t.budget, t.contents, delivered), D, gone)
  /\ nextGen' = nextGen + Cardinality(starts)
  /\ inFlight' = [r \in Resource |-> IF r \in starts THEN gens[r]
                                     ELSE IF r \in unneeded \cup late THEN 0
                                     ELSE t.flying[r]]
  /\ policy = "Batch" => withdrawn = {} /\ gone = {} /\ freed = {}

LEMMA StepBudget ==
  ASSUME nextGen \in Nat \ {0}, loaderEpoch \in Nat,
         NEW t, Ready(t), NEW D, NEW unneeded, NEW late, NEW withdrawn, NEW gens,
         NEW gone, NEW freed, Chosen(t, D, unneeded, late, withdrawn, gens, gone, freed),
         Does(t, D, unneeded, late, withdrawn, gens, gone, freed)
  PROVE  \E delivered, starts :
           Outcome(t, D, unneeded, late, withdrawn, gens, gone, freed, delivered, starts)
<1> DEFINE b == t.budget
           w == Wants(b, t.view, D, loaderEpoch)
           b1 == IdleLoads(b, unneeded \cup late)
           b2 == TakeTransit(b1, withdrawn)
           failed == late \ unneeded
           starts == LoadJobs(b2, w, loaderEpoch, t.resting \cup failed)
           delivered == DeliverJobs(b2, w, loaderEpoch, t.refused)
           b3 == StartLoads(b2, gens, loaderEpoch)
           b4 == PutTransit(b3, delivered)
           b5 == TakeGpu(b4, gone)
           b6 == TakeCpu(b5, freed)
<1>1. /\ Sound(b) /\ t.view \subseteq Resource /\ unneeded \cup late \in SUBSET Of(b.load)
      /\ withdrawn \in SUBSET Of(b.transit) /\ D \subseteq Of(b.gpu)
      /\ (t.view \subseteq Of(b.gpu) => t.view \subseteq D)
  BY DEF Ready, Chosen, DrawSets
<1>2. gens \in Numbered(starts)
  BY DEF Chosen
<1>3. gone \in SUBSET Evictable(b4, D)
  BY DEF Chosen
<1>4. freed \subseteq Of(b4.cpu) \ Of(b4.transit)
  BY DEF Chosen
<1>5. budget' = b6
  BY DEF Does
<1>6. /\ Sound(b1) /\ b1.load = Without(b.load, unneeded \cup late)
      /\ b1.cpu = b.cpu /\ b1.transit = b.transit /\ b1.gpu = b.gpu
  <2> HIDE DEF b
  <2> QED BY <1>1, IdleLoadsSound
<1>7. w \subseteq Resource
  BY <1>1 DEF Wants, Of
<1>8. /\ nextGen' = nextGen + Cardinality(starts)
      /\ inFlight' = [r \in Resource |-> IF r \in starts THEN gens[r]
                                         ELSE IF r \in unneeded \cup late THEN 0
                                         ELSE t.flying[r]]
  BY Zenon DEF Does
<1>9. toConsumer' = toConsumer \o t.sent \o
                Messages(Message("Cancel", {[r |-> r, gen |-> b.transit[r].gen] : r \in withdrawn}),
                         Content(b, t.contents, delivered), D, gone)
  BY Zenon DEF Does
<1>10. policy = "Batch" => withdrawn = {} /\ gone = {} /\ freed = {}
  <2>1. gone \cup freed # {} => policy # "Batch"
    BY DEF Does
  <2>2. withdrawn \subseteq Cancellable(b, w, D)
    BY DEF Chosen
  <2> QED BY <2>1, <2>2 DEF Cancellable
<1> HIDE DEF b, w, b1, failed
<1>11. /\ Sound(b2) /\ b2.transit = Without(b1.transit, withdrawn)
       /\ b2.cpu = b1.cpu /\ b2.load = b1.load /\ b2.gpu = b1.gpu
  BY <1>1, <1>6, TakeTransitSound
<1>12. /\ starts \subseteq Resource /\ starts \cap Of(b2.load) = {}
  BY <1>7 DEF LoadJobs, Missing, Of
<1>13. delivered \in SUBSET Of(b2.cpu) /\ delivered \cap Of(b2.transit) = {}
  BY <1>7 DEF DeliverJobs, Missing, Of, Fresh
<1>14. IsFiniteSet(starts) /\ Cardinality(starts) \in Nat
  BY <1>12, BoundsAssumption, FS_Subset, FS_CardinalityType
<1>15. DOMAIN gens = starts /\ gens \in [starts -> Nat \ {0}]
  <2> HIDE DEF starts
  <2>1. gens \in [starts -> nextGen..(nextGen + Cardinality(starts) - 1)]
    BY <1>2 DEF Numbered
  <2>2. nextGen..(nextGen + Cardinality(starts) - 1) \subseteq Nat \ {0}
    BY <1>14
  <2> QED BY <2>1, <2>2
<1> HIDE DEF b2, starts, delivered
<1>16. /\ Sound(b3)
       /\ b3.load = [r \in Resource |-> IF r \in DOMAIN gens
                                          THEN [gen |-> gens[r], epoch |-> loaderEpoch]
                                          ELSE b2.load[r]]
       /\ b3.cpu = b2.cpu /\ b3.transit = b2.transit /\ b3.gpu = b2.gpu
  <2>1. /\ DOMAIN gens \subseteq Resource /\ DOMAIN gens \cap Of(b2.load) = {}
        /\ \A r \in DOMAIN gens : gens[r] \in Nat \ {0}
    BY <1>12, <1>15
  <2> QED BY <2>1, <1>11, StartLoadsSound
<1> HIDE DEF b3
<1>17. /\ Sound(b4)
       /\ b4.transit = [r \in Resource |-> IF r \in delivered THEN b3.cpu[r] ELSE b3.transit[r]]
       /\ b4.cpu = b3.cpu /\ b4.load = b3.load /\ b4.gpu = b3.gpu
  <2>1. delivered \in SUBSET Of(b3.cpu) /\ delivered \cap Of(b3.transit) = {}
    BY <1>13, <1>16
  <2> QED BY <1>16, <2>1, PutTransitSound
<1> HIDE DEF b4
<1>18. gone \in SUBSET Of(b4.gpu) /\ gone \cap D = {}
  BY <1>3 DEF Evictable
<1>19. /\ Sound(b5) /\ b5.gpu = Without(b4.gpu, gone)
       /\ b5.cpu = b4.cpu /\ b5.load = b4.load /\ b5.transit = b4.transit
  BY <1>17, <1>18, TakeGpuSound
<1> HIDE DEF b5
<1>20. /\ Sound(b6) /\ b6.cpu = Without(b5.cpu, freed)
       /\ b6.gpu = b5.gpu /\ b6.load = b5.load /\ b6.transit = b5.transit
  BY <1>19, TakeCpuSound
<1> HIDE DEF b6
<1>21. b6.load = [r \in Resource |-> IF r \in DOMAIN gens
                                       THEN [gen |-> gens[r], epoch |-> loaderEpoch]
                                     ELSE IF r \in unneeded \cup late THEN None ELSE b.load[r]]
  BY <1>6, <1>11, <1>16, <1>17, <1>19, <1>20 DEF Without
<1>22. b6.transit = [r \in Resource |-> IF r \in delivered THEN b.cpu[r]
                                     ELSE IF r \in withdrawn THEN None ELSE b.transit[r]]
  BY <1>6, <1>11, <1>16, <1>17, <1>19, <1>20 DEF Without
<1>23. b6.cpu = Without(b.cpu, freed) /\ b6.gpu = Without(b.gpu, gone)
  BY <1>6, <1>11, <1>16, <1>17, <1>19, <1>20
<1>24. Becomes(b, budget', unneeded, late, withdrawn, gens, delivered, gone, freed)
  BY <1>5, <1>20, <1>21, <1>22, <1>23, Zenon DEF Becomes
<1>25. /\ gone \subseteq Of(b.gpu) /\ delivered \subseteq Of(b.cpu)
  BY <1>6, <1>11, <1>13, <1>16, <1>17, <1>18
<1>26. delivered \cap (Of(b.transit) \ withdrawn) = {}
  <2>1. Of(b1.transit) \ withdrawn \subseteq Of(Without(b1.transit, withdrawn))
    BY DEF Of, Holds, Without
  <2> QED BY <1>6, <1>11, <1>13, <2>1
<1>27. freed \cap delivered = {}
  <2>1. delivered \subseteq Of(b4.transit)
    BY <1>13, <1>16, <1>17 DEF Of, Holds
  <2> QED BY <1>4, <2>1
<1>28. Outcome(t, D, unneeded, late, withdrawn, gens, gone, freed, delivered, starts)
  BY <1>1, <1>8, <1>9, <1>10, <1>12, <1>14, <1>15, <1>18, <1>24, <1>25, <1>26, <1>27, Zenon
     DEF b, Outcome
<1> QED BY <1>28, Zenon
-----------------------------------------------------------------------------
(* The invariant: what every variable is, what the session and its budget   *)
(* agree on, and what is drawn.                                             *)

Typed ==
  /\ Sound(budget) /\ nextGen \in Nat \ {0} /\ loaderEpoch \in Nat
  /\ inFlight \in [Resource -> Nat] /\ decoded \in [Resource -> Nat]
  /\ queue \in [Resource -> Nat] /\ held \in [Resource -> Nat]
  /\ want \subseteq Resource /\ looking \subseteq Resource /\ shown \subseteq Resource
  /\ toSession \in Seq(SessionMessage) /\ toConsumer \in Seq(ConsumerMessage)

Agree == \A r \in Resource : /\ inFlight[r] = budget.load[r].gen
                             /\ decoded[r] = budget.cpu[r].gen

\* What is drawn has a copy, and is not idle.
Draws == drawn \subseteq Of(budget.gpu) /\ idle \cap drawn = {}

Inv == Typed /\ Agree /\ Draws

LEMMA StepSends ==
  ASSUME NEW S \in SUBSET [r : Resource, gen : Nat], NEW delivered \in Seq(ConsumerMessage),
         NEW D \in SUBSET Resource, NEW gone \in SUBSET Resource
  PROVE  Messages(Message("Cancel", S), delivered, D, gone) \in Seq(ConsumerMessage)
<1>1. /\ [type |-> "Cancel", what |-> S] \in ConsumerMessage
      /\ [type |-> "Evict", what |-> gone] \in ConsumerMessage
      /\ [type |-> "Select", what |-> D] \in ConsumerMessage
  BY DEF ConsumerMessage
<1>2. /\ Message("Cancel", S) \in Seq(ConsumerMessage)
      /\ Message("Evict", gone) \in Seq(ConsumerMessage)
  BY <1>1, MessageSent
<1>3. <<[type |-> "Select", what |-> D]>> \in Seq(ConsumerMessage)
  BY <1>1
<1> QED BY <1>2, <1>3 DEF Messages

LEMMA StepKeeps ==
  ASSUME nextGen \in Nat \ {0}, loaderEpoch \in Nat, toConsumer \in Seq(ConsumerMessage),
         NEW t, Ready(t), Step(t)
  PROVE  /\ Sound(budget') /\ nextGen' \in Nat \ {0}
         /\ inFlight' \in [Resource -> Nat] /\ decoded' \in [Resource -> Nat]
         /\ Agree' /\ Draws'
         /\ want' = t.view /\ toConsumer' \in Seq(ConsumerMessage)
         /\ (t.view \subseteq Of(t.budget.gpu) => t.view \subseteq drawn')
<1>1. PICK D, unneeded, late, withdrawn, gens, gone, freed :
           /\ Chosen(t, D, unneeded, late, withdrawn, gens, gone, freed)
           /\ Does(t, D, unneeded, late, withdrawn, gens, gone, freed)
  BY StepDoes
<1> DEFINE b == t.budget
<1>0. PICK delivered, starts :
        Outcome(t, D, unneeded, late, withdrawn, gens, gone, freed, delivered, starts)
  BY <1>1, StepBudget, Zenon
<1>2. /\ Becomes(t.budget, budget', unneeded, late, withdrawn, gens, delivered, gone, freed)
      /\ D \subseteq Of(t.budget.gpu) /\ (t.view \subseteq Of(t.budget.gpu) => t.view \subseteq D)
      /\ gone \subseteq Of(t.budget.gpu) /\ gone \cap D = {}
      /\ withdrawn \subseteq Of(t.budget.transit)
      /\ delivered \subseteq Of(t.budget.cpu)
      /\ delivered \cap (Of(t.budget.transit) \ withdrawn) = {}
      /\ freed \cap delivered = {}
      /\ starts = DOMAIN gens /\ gens \in [starts -> Nat \ {0}]
      /\ IsFiniteSet(starts) /\ starts \subseteq Resource
      /\ toConsumer' = toConsumer \o t.sent \o
           Messages(Message("Cancel", {[r |-> r, gen |-> t.budget.transit[r].gen] :
                                         r \in withdrawn}),
                    Content(t.budget, t.contents, delivered), D, gone)
      /\ nextGen' = nextGen + Cardinality(starts)
      /\ inFlight' = [r \in Resource |-> IF r \in starts THEN gens[r]
                                         ELSE IF r \in unneeded \cup late THEN 0
                                         ELSE t.flying[r]]
      /\ policy = "Batch" => withdrawn = {} /\ gone = {} /\ freed = {}
  BY <1>0, Zenon DEF Outcome
<1>3. PICK n : n = budget'
  OBVIOUS
<1>4. /\ Sound(n)
      /\ n.load = [r \in Resource |-> IF r \in DOMAIN gens
                                    THEN [gen |-> gens[r], epoch |-> loaderEpoch]
                                  ELSE IF r \in unneeded \cup late THEN None ELSE b.load[r]]
      /\ n.cpu = Without(b.cpu, freed) /\ n.gpu = Without(b.gpu, gone)
  BY <1>2, <1>3 DEF Becomes
<1>5. /\ want' = t.view /\ drawn' = D
      /\ idle' = Resource \ (Wants(b, t.view, D, loaderEpoch) \cup D)
      /\ decoded' = [r \in Resource |-> IF r \in freed THEN 0 ELSE t.contents[r]]
  BY <1>1, Zenon DEF Does
<1>6. nextGen' \in Nat \ {0}
  BY <1>2, FS_CardinalityType
<1>7. /\ inFlight' \in [Resource -> Nat]
      /\ \A r \in Resource : inFlight'[r] = n.load[r].gen
  <2>1. PICK f : f = inFlight'
    OBVIOUS
  <2>2. f = [r \in Resource |-> IF r \in starts THEN gens[r]
                                ELSE IF r \in unneeded \cup late THEN 0 ELSE t.flying[r]]
    BY <1>2, <2>1
  <2>3. f \in [Resource -> Nat] /\ \A r \in Resource : f[r] = n.load[r].gen
    <3> SUFFICES ASSUME NEW r \in Resource
                 PROVE  /\ (IF r \in starts THEN gens[r]
                            ELSE IF r \in unneeded \cup late THEN 0 ELSE t.flying[r]) \in Nat
                        /\ f[r] = n.load[r].gen
      BY <2>2
    <3>1. t.flying[r] = b.load[r].gen /\ t.flying[r] \in Nat
      BY DEF Ready
    <3>2. n.load[r] = IF r \in DOMAIN gens THEN [gen |-> gens[r], epoch |-> loaderEpoch]
                      ELSE IF r \in unneeded \cup late THEN None ELSE b.load[r]
      BY <1>4
    <3> QED BY <1>2, <2>2, <3>1, <3>2 DEF None
  <2> QED BY <2>1, <2>3
<1>8. /\ decoded' \in [Resource -> Nat]
      /\ \A r \in Resource : decoded'[r] = n.cpu[r].gen
  <2>1. PICK f : f = decoded'
    OBVIOUS
  <2>2. f = [r \in Resource |-> IF r \in freed THEN 0 ELSE t.contents[r]]
    BY <1>5, <2>1
  <2>3. f \in [Resource -> Nat]
    BY <2>2 DEF Ready
  <2>4. \A r \in Resource : f[r] = n.cpu[r].gen
    BY <2>2, <1>4 DEF Ready, Without, None
  <2> QED BY <2>1, <2>3, <2>4
<1>9. drawn' \subseteq Of(n.gpu) /\ idle' \cap drawn' = {}
  <2>1. D \subseteq Of(n.gpu)
    BY <1>2, <1>4 DEF Without, Of, Holds
  <2> QED BY <1>5, <2>1
<1>10. toConsumer' \in Seq(ConsumerMessage)
  <2> DEFINE S == {[r |-> r, gen |-> b.transit[r].gen] : r \in withdrawn}
             q == Content(b, t.contents, delivered)
             ms == Messages(Message("Cancel", S), q, D, gone)
  <2>1. Sound(b) /\ b.transit \in Copies
    BY BudgetFields DEF Ready, Sound
  <2>2. S \subseteq [r : Resource, gen : Nat]
    BY <1>2, <2>1 DEF Of, Copies, Copy
  <2>3. q \in Seq(ConsumerMessage)
    <3> HIDE DEF b
    <3>1. /\ t.contents \in [Resource -> Nat] /\ delivered \in SUBSET Of(b.cpu)
          /\ \A r \in Resource : t.contents[r] = b.cpu[r].gen
      BY <1>2 DEF Ready, b
    <3> QED BY <2>1, <3>1, ContentSent
  <2>4. D \subseteq Resource /\ gone \subseteq Resource
    BY <1>2 DEF Of
  <2>5. toConsumer' = toConsumer \o t.sent \o ms
    BY <1>2
  <2> HIDE DEF S, q
  <2>6. ms \in Seq(ConsumerMessage)
    BY <2>2, <2>3, <2>4, StepSends
  <2> HIDE DEF ms
  <2>7. t.sent \in Seq(ConsumerMessage)
    BY DEF Ready
  <2> QED BY <2>5, <2>6, <2>7
<1>11. (t.view \subseteq Of(t.budget.gpu) => t.view \subseteq drawn')
  BY <1>2, <1>5
<1>12. Agree'
  BY <1>3, <1>7, <1>8 DEF Agree
<1>13. Draws'
  BY <1>3, <1>9 DEF Draws
<1> QED BY <1>3, <1>4, <1>5, <1>6, <1>7, <1>8, <1>10, <1>11, <1>12, <1>13
-----------------------------------------------------------------------------
(* The turns of the session.                                                *)

StillWhole == want \subseteq drawn /\ want' \subseteq want => want' \subseteq drawn'

\* What answering the client's first n messages starts from, let_go released.
Released(let_go) == TakeCpu(TakeGpu(budget, let_go \cap Of(budget.gpu)), let_go)
Left(let_go) == [r \in Resource |->
                   IF r \in let_go /\ Holds(budget.cpu, r) THEN 0 ELSE decoded[r]]
Turn(news, let_go) ==
  LET b1 == Acknowledged(Released(let_go), news)
      shy == Refusals(b1, news)
  IN [budget |-> TakeTransit(b1, shy), view |-> Wanted(news),
      sent |-> Message("Evict", let_go \cap Of(budget.gpu)),
      contents |-> Left(let_go), flying |-> inFlight,
      failed |-> {}, resting |-> waits, refused |-> refused \cup shy]

Answers(n, let_go) ==
  LET news == SubSeq(toSession, 1, n)
  IN
  /\ n \in 1..Len(toSession)
  /\ let_go \in IF \E m \in ToSet(news) : m.type = "Release"
                  THEN SUBSET Releasable(budget) ELSE {{}}
  /\ ~over
  /\ toSession' = SubSeq(toSession, n + 1, Len(toSession))
  /\ \/ /\ \A m \in ToSet(news) : m.type = "Release"
        /\ budget' = Released(let_go) /\ decoded' = Left(let_go)
        /\ toConsumer' = toConsumer \o Message("Evict", let_go \cap Of(budget.gpu))
        /\ UNCHANGED <<nextGen, epoch, inFlight, want, drawn, idle, waits, refused,
                       over, faults, squeezes>>
     \/ /\ ~ \A m \in ToSet(news) : m.type = "Release"
        /\ Step(Turn(news, let_go))
  /\ UNCHANGED <<policy, loaderEpoch, consumerVars, looks>>

LEMMA ClientAnswers ==
  ASSUME AnswerClient
  PROVE  \E n, let_go : Answers(n, let_go)
<1>1. PICK n \in 1..Len(toSession) :
        LET news == SubSeq(toSession, 1, n)
            asks == \E m \in ToSet(news) : m.type = "Release"
        IN
        \E let_go \in IF asks THEN SUBSET Releasable(budget) ELSE {{}} :
        LET gone == let_go \cap Of(budget.gpu)
            b0 == TakeCpu(TakeGpu(budget, gone), let_go)
            contents == [r \in Resource |->
                           IF r \in let_go /\ Holds(budget.cpu, r) THEN 0 ELSE decoded[r]]
            sent == Message("Evict", gone)
        IN
        /\ ~over
        /\ toSession' = SubSeq(toSession, n + 1, Len(toSession))
        /\ IF \A m \in ToSet(news) : m.type = "Release"
             THEN /\ budget' = b0 /\ decoded' = contents
                  /\ toConsumer' = toConsumer \o sent
                  /\ UNCHANGED <<nextGen, epoch, inFlight, want, drawn, idle, waits, refused,
                                 over, faults, squeezes>>
             ELSE LET b1 == Acknowledged(b0, news)
                      shy == Refusals(b1, news)
                  IN Step([budget |-> TakeTransit(b1, shy), view |-> Wanted(news),
                              sent |-> sent, contents |-> contents, flying |-> inFlight,
                              failed |-> {}, resting |-> waits, refused |-> refused \cup shy])
        /\ UNCHANGED <<policy, loaderEpoch, consumerVars, looks>>
  BY Zenon DEF AnswerClient
<1>2. \E let_go : Answers(n, let_go)
  BY <1>1, Zenon DEF Answers, Turn, Released, Left
<1> QED BY <1>2

LEMMA ReleasedSound ==
  ASSUME Inv, NEW let_go \in SUBSET Resource, let_go \cap drawn = {}
  PROVE  /\ Sound(Released(let_go)) /\ drawn \subseteq Of(Released(let_go).gpu)
         /\ Released(let_go).gpu = Without(budget.gpu, let_go \cap Of(budget.gpu))
         /\ Released(let_go).transit = budget.transit
         /\ Released(let_go).cpu = Without(budget.cpu, let_go)
         /\ Left(let_go) \in [Resource -> Nat]
         /\ \A r \in Resource : /\ Left(let_go)[r] = Released(let_go).cpu[r].gen
                                /\ inFlight[r] = Released(let_go).load[r].gen
         /\ Message("Evict", let_go \cap Of(budget.gpu)) \in Seq(ConsumerMessage)
<1> DEFINE gone == let_go \cap Of(budget.gpu)
           c == TakeGpu(budget, gone)
           b == Released(let_go)
<1>1. Sound(budget) /\ decoded \in [Resource -> Nat] /\ budget.gpu \in Copies
  BY BudgetFields DEF Inv, Typed, Sound
<1>2. /\ Sound(c) /\ c.gpu = Without(budget.gpu, gone) /\ c.cpu = budget.cpu
      /\ c.load = budget.load /\ c.transit = budget.transit
  BY <1>1, TakeGpuSound
<1>3. b = TakeCpu(c, let_go)
  BY DEF Released
<1> HIDE DEF c
<1>4. /\ Sound(b) /\ b.cpu = Without(c.cpu, let_go) /\ b.gpu = c.gpu /\ b.load = c.load
      /\ b.transit = c.transit
  BY <1>2, <1>3, TakeCpuSound
<1> HIDE DEF b
<1>5. drawn \subseteq Of(b.gpu)
  BY <1>2, <1>4 DEF Inv, Draws, Without, Of, Holds
<1>6. Left(let_go) \in [Resource -> Nat]
  BY <1>1 DEF Left
<1>7. \A r \in Resource : Left(let_go)[r] = b.cpu[r].gen /\ inFlight[r] = b.load[r].gen
  BY <1>2, <1>4 DEF Left, Inv, Agree, Without, Holds, None
<1>8. Message("Evict", gone) \in Seq(ConsumerMessage)
  <2>1. [type |-> "Evict", what |-> gone] \in ConsumerMessage
    BY DEF ConsumerMessage
  <2> HIDE DEF gone
  <2> QED BY <2>1, MessageSent
<1> QED BY <1>2, <1>4, <1>5, <1>6, <1>7, <1>8 DEF b

LEMMA AnswersIn ==
  ASSUME Inv, NEW n, NEW let_go, Answers(n, let_go)
  PROVE  /\ let_go \subseteq Resource /\ let_go \cap drawn = {}
         /\ let_go \cap Of(budget.transit) = {}
         /\ n \in 1..Len(toSession) /\ Len(toSession) \in Nat
         /\ SubSeq(toSession, 1, n) \in Seq(SessionMessage)
         /\ toSession' \in Seq(SessionMessage)
<1>1. toSession \in Seq(SessionMessage) /\ n \in 1..Len(toSession) /\ Len(toSession) \in Nat
  BY DEF Inv, Typed, Answers
<1>2. let_go \in SUBSET Releasable(budget)
  BY DEF Answers
<1>3. /\ let_go \subseteq Resource /\ let_go \cap drawn = {}
      /\ let_go \cap Of(budget.transit) = {}
  BY <1>2 DEF Releasable, Of, Inv, Draws
<1>4. SubSeq(toSession, 1, n) \in Seq(SessionMessage)
  BY <1>1
<1>5. SubSeq(toSession, n + 1, Len(toSession)) \in Seq(SessionMessage)
  BY <1>1
<1>6. toSession' = SubSeq(toSession, n + 1, Len(toSession))
  BY Zenon DEF Answers
<1> QED BY <1>1, <1>3, <1>4, <1>5, <1>6

LEMMA TurnReady ==
  ASSUME Inv, NEW let_go \in SUBSET Resource, let_go \cap drawn = {},
         NEW news \in Seq(SessionMessage)
  PROVE  Ready(Turn(news, let_go)) /\ drawn \subseteq Of(Turn(news, let_go).budget.gpu)
<1> DEFINE t == Turn(news, let_go)
           b0 == Released(let_go)
           b1 == Acknowledged(b0, news)
           shy == Refusals(b1, news)
           b2 == TakeTransit(b1, shy)
<1>1. /\ Sound(b0) /\ drawn \subseteq Of(b0.gpu)
      /\ Left(let_go) \in [Resource -> Nat]
      /\ \A r \in Resource : Left(let_go)[r] = b0.cpu[r].gen /\ inFlight[r] = b0.load[r].gen
      /\ Message("Evict", let_go \cap Of(budget.gpu)) \in Seq(ConsumerMessage)
  BY ReleasedSound
<1>2. /\ t.budget = b2 /\ t.view = Wanted(news) /\ t.contents = Left(let_go)
      /\ t.flying = inFlight /\ t.sent = Message("Evict", let_go \cap Of(budget.gpu))
  BY DEF Turn
<1> HIDE DEF t, b0
<1>3. Sound(b1) /\ b1.load = b0.load /\ b1.cpu = b0.cpu /\ Of(b0.gpu) \subseteq Of(b1.gpu)
  BY <1>1, AcknowledgedSound
<1> HIDE DEF b1
<1>4. shy \in SUBSET Of(b1.transit)
  BY RefusalsIn
<1> HIDE DEF shy
<1>5. /\ Sound(b2) /\ b2.cpu = b1.cpu /\ b2.load = b1.load /\ b2.gpu = b1.gpu
  BY <1>3, <1>4, TakeTransitSound
<1> HIDE DEF b2
<1>6. Wanted(news) \subseteq Resource
  BY WantedIn DEF Inv, Typed
<1>7. inFlight \in [Resource -> Nat]
  BY DEF Inv, Typed
<1>8. Ready(t)
  BY <1>1, <1>2, <1>3, <1>5, <1>6, <1>7 DEF Ready
<1> QED BY <1>1, <1>2, <1>3, <1>5, <1>8 DEF t

LEMMA ClientKeeps ==
  ASSUME Inv, AnswerClient
  PROVE  Inv' /\ StillWhole
<1>1. PICK n, let_go : Answers(n, let_go)
  BY ClientAnswers
<1> DEFINE news == SubSeq(toSession, 1, n)
<1>2. /\ let_go \in SUBSET Resource /\ let_go \cap drawn = {}
      /\ news \in Seq(SessionMessage) /\ toSession' \in Seq(SessionMessage)
  BY <1>1, AnswersIn
<1>3. UNCHANGED <<policy, loaderEpoch, queue, held, shown, looking>>
  BY <1>1, Zenon DEF Answers, consumerVars
<1>4. CASE /\ budget' = Released(let_go) /\ decoded' = Left(let_go)
           /\ toConsumer' = toConsumer \o Message("Evict", let_go \cap Of(budget.gpu))
           /\ UNCHANGED <<nextGen, epoch, inFlight, want, drawn, idle, waits, refused,
                          over, faults, squeezes>>
  <2>1. /\ Sound(Released(let_go)) /\ drawn \subseteq Of(Released(let_go).gpu)
        /\ Left(let_go) \in [Resource -> Nat]
        /\ \A r \in Resource : /\ Left(let_go)[r] = Released(let_go).cpu[r].gen
                               /\ inFlight[r] = Released(let_go).load[r].gen
        /\ Message("Evict", let_go \cap Of(budget.gpu)) \in Seq(ConsumerMessage)
    BY <1>2, ReleasedSound
  <2>2. /\ Sound(budget') /\ drawn' \subseteq Of(budget'.gpu)
        /\ decoded' \in [Resource -> Nat] /\ inFlight' = inFlight
        /\ \A r \in Resource : decoded'[r] = budget'.cpu[r].gen /\ inFlight[r] = budget'.load[r].gen
    <3> QED BY <1>4, <2>1
  <2>3. toConsumer' \in Seq(ConsumerMessage)
    BY <1>4, <2>1 DEF Inv, Typed
  <2>4. Typed'
    BY <1>2, <1>3, <1>4, <2>2, <2>3 DEF Inv, Typed
  <2>5. Agree'
    BY <2>2 DEF Agree
  <2>6. Draws'
    BY <1>4, <2>2 DEF Inv, Draws
  <2>7. StillWhole
    BY <1>4 DEF StillWhole
  <2> QED BY <2>4, <2>5, <2>6, <2>7 DEF Inv
<1>5. CASE Step(Turn(news, let_go))
  <2>1. Ready(Turn(news, let_go)) /\ drawn \subseteq Of(Turn(news, let_go).budget.gpu)
    BY <1>2, TurnReady
  <2>2. PICK t : t = Turn(news, let_go)
    OBVIOUS
  <2>3. /\ Sound(budget') /\ nextGen' \in Nat \ {0}
        /\ inFlight' \in [Resource -> Nat] /\ decoded' \in [Resource -> Nat]
        /\ Agree' /\ Draws' /\ want' = t.view /\ toConsumer' \in Seq(ConsumerMessage)
        /\ (t.view \subseteq Of(t.budget.gpu) => t.view \subseteq drawn')
    <3>1. nextGen \in Nat \ {0} /\ loaderEpoch \in Nat /\ toConsumer \in Seq(ConsumerMessage)
      BY DEF Inv, Typed
    <3>2. Ready(t) /\ Step(t)
      BY <1>5, <2>1, <2>2
    <3> QED BY <3>1, <3>2, StepKeeps
  <2>4. t.view \subseteq Resource /\ drawn \subseteq Of(t.budget.gpu)
    BY <2>1, <2>2 DEF Ready
  <2>5. Typed'
    BY <1>2, <1>3, <2>3, <2>4 DEF Inv, Typed
  <2>6. StillWhole
    BY <2>3, <2>4 DEF StillWhole
  <2> QED BY <2>3, <2>5, <2>6 DEF Inv
<1>6. \/ /\ budget' = Released(let_go) /\ decoded' = Left(let_go)
         /\ toConsumer' = toConsumer \o Message("Evict", let_go \cap Of(budget.gpu))
         /\ UNCHANGED <<nextGen, epoch, inFlight, want, drawn, idle, waits, refused,
                        over, faults, squeezes>>
      \/ Step(Turn(news, let_go))
  BY <1>1, Zenon DEF Answers
<1> QED BY <1>4, <1>5, <1>6
\* The turn that takes the loads that ended.
Landing(ended, good) ==
  [budget |-> Landed(budget, ended, good), view |-> want, sent |-> <<>>,
   contents |-> [r \in Resource |-> IF r \in good THEN inFlight[r] ELSE decoded[r]],
   flying |-> [r \in Resource |-> IF r \in ended THEN 0 ELSE inFlight[r]],
   failed |-> ended \ good, resting |-> (waits \ good) \cup (ended \ good),
   refused |-> refused]

LEMMA LandingReady ==
  ASSUME Inv, NEW ended \in SUBSET Loads, NEW good \in SUBSET ended
  PROVE  Ready(Landing(ended, good)) /\ drawn \subseteq Of(Landing(ended, good).budget.gpu)
<1> DEFINE t == Landing(ended, good)
           d == Landed(budget, ended, good)
<1>1. /\ Sound(budget) /\ decoded \in [Resource -> Nat] /\ inFlight \in [Resource -> Nat]
      /\ want \subseteq Resource
      /\ \A r \in Resource : inFlight[r] = budget.load[r].gen /\ decoded[r] = budget.cpu[r].gen
      /\ drawn \subseteq Of(budget.gpu)
  BY DEF Inv, Typed, Agree, Draws
<1>2. ended \in SUBSET Of(budget.load)
  BY <1>1 DEF Loads, Of, Holds
<1>3. /\ Sound(d) /\ d.load = Without(budget.load, ended)
      /\ d.cpu = [r \in Resource |-> IF r \in good THEN budget.load[r] ELSE budget.cpu[r]]
      /\ d.transit = budget.transit /\ d.gpu = budget.gpu
  BY <1>1, <1>2, LandedSound
<1>4. /\ t.budget = d /\ t.view = want /\ t.sent = <<>>
      /\ t.contents = [r \in Resource |-> IF r \in good THEN inFlight[r] ELSE decoded[r]]
      /\ t.flying = [r \in Resource |-> IF r \in ended THEN 0 ELSE inFlight[r]]
  BY DEF Landing
<1> HIDE DEF t, d
<1>5. t.contents \in [Resource -> Nat] /\ t.flying \in [Resource -> Nat]
  BY <1>1, <1>4
<1>6. \A r \in Resource : t.contents[r] = d.cpu[r].gen /\ t.flying[r] = d.load[r].gen
  BY <1>1, <1>3, <1>4 DEF Without, None
<1>7. t.sent \in Seq(ConsumerMessage)
  BY <1>4
<1> QED BY <1>1, <1>3, <1>4, <1>5, <1>6, <1>7 DEF Ready, t

LEMMA LoadsKeep ==
  ASSUME Inv, AnswerLoads
  PROVE  Inv' /\ StillWhole
<1>0. PICK ended \in SUBSET Loads : \E good \in SUBSET ended : Step(Landing(ended, good))
  BY Zenon DEF AnswerLoads, Landing
<1>1. PICK good \in SUBSET ended : Step(Landing(ended, good))
  BY <1>0
<1>2. UNCHANGED <<policy, loaderEpoch, toSession, queue, held, shown, looking, looks>>
  BY Zenon DEF AnswerLoads, consumerVars
<1>3. PICK t : t = Landing(ended, good)
  OBVIOUS
<1>4. Ready(t) /\ drawn \subseteq Of(t.budget.gpu)
  BY <1>3, LandingReady
<1>5. /\ Sound(budget') /\ nextGen' \in Nat \ {0}
      /\ inFlight' \in [Resource -> Nat] /\ decoded' \in [Resource -> Nat]
      /\ Agree' /\ Draws' /\ want' = t.view /\ toConsumer' \in Seq(ConsumerMessage)
      /\ (t.view \subseteq Of(t.budget.gpu) => t.view \subseteq drawn')
  <2>1. nextGen \in Nat \ {0} /\ loaderEpoch \in Nat /\ toConsumer \in Seq(ConsumerMessage)
    BY DEF Inv, Typed
  <2> QED BY <1>1, <1>3, <1>4, <2>1, StepKeeps
<1>6. t.view \subseteq Resource
  BY <1>4 DEF Ready
<1>7. Typed'
  BY <1>2, <1>5, <1>6 DEF Inv, Typed
<1>8. StillWhole
  BY <1>4, <1>5 DEF StillWhole
<1> QED BY <1>5, <1>7, <1>8 DEF Inv

-----------------------------------------------------------------------------
(* The renderer.                                                            *)

Consumer == [queue : [Resource -> Nat], held : [Resource -> Nat], shown : SUBSET Resource]

LEMMA ToldIn ==
  ASSUME NEW c \in Consumer, NEW m \in ConsumerMessage
  PROVE  Told(c, m) \in Consumer
<1>1. CASE m.type = "Select"
  BY <1>1 DEF Told, Consumer, ConsumerMessage
<1>2. CASE m.type = "Content"
  <2>1. m.r \in Resource /\ m.gen \in Nat
    BY <1>2 DEF ConsumerMessage
  <2>2. Told(c, m) = [c EXCEPT !.queue[m.r] = m.gen]
    BY <1>2 DEF Told
  <2> QED BY <2>1, <2>2 DEF Consumer
<1>3. CASE m.type = "Cancel"
  <2> DEFINE q == [r \in Resource |->
                     IF [r |-> r, gen |-> c.queue[r]] \in m.what THEN 0 ELSE c.queue[r]]
  <2>1. Told(c, m) = [c EXCEPT !.queue = q]
    BY <1>3 DEF Told
  <2>2. q \in [Resource -> Nat]
    BY DEF Consumer
  <2> HIDE DEF q
  <2> QED BY <2>1, <2>2 DEF Consumer
<1>4. CASE m.type = "Evict"
  <2> DEFINE q == [r \in Resource |-> IF r \in m.what THEN 0 ELSE c.queue[r]]
             h == [r \in Resource |-> IF r \in m.what THEN 0 ELSE c.held[r]]
  <2>1. Told(c, m) = [c EXCEPT !.queue = q, !.held = h]
    BY <1>4 DEF Told
  <2>2. q \in [Resource -> Nat] /\ h \in [Resource -> Nat]
    BY DEF Consumer
  <2> HIDE DEF q, h
  <2> QED BY <2>1, <2>2 DEF Consumer
<1>5. m.type \in {"Select", "Evict", "Cancel", "Content"}
  BY DEF ConsumerMessage
<1> QED BY <1>1, <1>2, <1>3, <1>4, <1>5

LEMMA ReadsTyped ==
  ASSUME NEW c \in Consumer, NEW news \in Seq(ConsumerMessage)
  PROVE  Reads(c, news) \in Consumer
<1> DEFINE P == [i \in 0..Len(news) |-> Consumer]
<1>1. Len(news) \in Nat
  OBVIOUS
<1>2. \A i \in 1..Len(news) : \A d \in Consumer : Told(d, news[i]) \in Consumer
  BY ToldIn
<1>3. c \in P[0] /\ \A i \in 1..Len(news) : \A d \in P[i - 1] : Told(d, news[i]) \in P[i]
  <2> HIDE DEF Consumer
  <2> QED BY <1>1, <1>2
<1>4. P[Len(news)] = Consumer
  BY <1>1
<1> HIDE DEF P
<1> QED BY <1>1, <1>3, <1>4, ReadsIn

Reading(n) ==
  Reads([queue |-> queue, held |-> held, shown |-> shown], SubSeq(toConsumer, 1, n))
Answer(c, kept, r) ==
  [type |-> IF r \in kept THEN "Ack" ELSE "Discarded", r |-> r, gen |-> c.queue[r]]

AnswersOf(c, kept, taken) == {Answer(c, kept, r) : r \in taken}

\* A frame that reads n messages, and then stands at c.
Pumps(n, c, taken, kept) ==
  LET there == {r \in Resource : c.queue[r] # 0}
  IN
  /\ n \in 0..Len(toConsumer) /\ c = Reading(n)
  /\ taken \in SUBSET there /\ kept \in SUBSET taken
  /\ n > 0 \/ there # {}
  /\ there # {} => taken # {}
  /\ kept # taken => faults < MaxFaults /\ policy = "Interactive"
  /\ faults' = IF kept = taken THEN faults ELSE faults + 1
  /\ toConsumer' = SubSeq(toConsumer, n + 1, Len(toConsumer))
  /\ toSession' = toSession \o SetToSeq(AnswersOf(c, kept, taken))
  /\ queue' = [r \in Resource |-> IF r \in taken THEN 0 ELSE c.queue[r]]
  /\ held' = [r \in Resource |-> IF r \in kept THEN c.queue[r] ELSE c.held[r]]
  /\ shown' = c.shown
  /\ UNCHANGED <<sessionVars, loaderEpoch, looking, looks, squeezes>>

LEMMA PumpPumps ==
  ASSUME Pump
  PROVE  \E n, c, taken, kept : Pumps(n, c, taken, kept)
<1> DEFINE there(n) == {r \in Resource : Reading(n).queue[r] # 0}
<1>1. \E n \in 0..Len(toConsumer) : \E taken \in SUBSET there(n) : \E kept \in SUBSET taken :
        Pumps(n, Reading(n), taken, kept)
  BY Zenon DEF Pump, Pumps, Reading, Answer, AnswersOf
<1> QED BY <1>1, Zenon

\* The answers of a frame: one of each resource taken.
Answering(q, c, kept, taken) ==
  /\ q \in Seq(SessionMessage) /\ Len(q) \in Nat
  /\ \A i \in 1..Len(q) : q[i].r \in taken /\ q[i] = Answer(c, kept, q[i].r)
  /\ \A i, j \in 1..Len(q) : q[i].r = q[j].r => i = j
  /\ \A r \in taken : \E i \in 1..Len(q) : q[i].r = r

LEMMA AnswersSent ==
  ASSUME NEW c \in Consumer, NEW taken \in SUBSET {r \in Resource : c.queue[r] # 0},
         NEW kept \in SUBSET taken,
         NEW q, q = SetToSeq(AnswersOf(c, kept, taken))
  PROVE  Answering(q, c, kept, taken)
<1> DEFINE M == AnswersOf(c, kept, taken)
           f == [r \in taken |-> Answer(c, kept, r)]
<1>1. IsFiniteSet(M)
  <2>1. IsFiniteSet(taken)
    BY BoundsAssumption, FS_Subset
  <2>2. f \in Surjection(taken, M)
    BY DEF Surjection, AnswersOf
  <2> HIDE DEF f, M
  <2> QED BY <2>1, <2>2, FS_Surjection
<1>2. \A r \in taken : Answer(c, kept, r).r = r
  BY DEF Answer
<1>3. \A m \in M : m.r \in taken /\ m = Answer(c, kept, m.r)
  BY <1>2 DEF AnswersOf
<1>4. \A r \in taken : Answer(c, kept, r) \in SessionMessage
  <2> SUFFICES ASSUME NEW r \in taken PROVE Answer(c, kept, r) \in SessionMessage
    OBVIOUS
  <2>1. c.queue[r] \in Nat \ {0} /\ r \in Resource
    BY DEF Consumer
  <2> QED BY <2>1 DEF Answer, SessionMessage
<1>5. \A m \in M : m \in SessionMessage
  BY <1>4 DEF AnswersOf
<1>6. \A r \in taken : \E m \in M : m.r = r
  <2> SUFFICES ASSUME NEW r \in taken PROVE \E m \in M : m.r = r
    OBVIOUS
  <2> DEFINE m == Answer(c, kept, r)
  <2>1. m \in M /\ m.r = r
    BY <1>2 DEF AnswersOf
  <2> HIDE DEF m, M
  <2> QED BY <2>1
<1> HIDE DEF M
<1>7. /\ q \in Seq(M) /\ Len(q) \in Nat /\ q \in [1..Len(q) -> M]
      /\ \A i, j \in 1..Len(q) : q[i] = q[j] => i = j
      /\ \A x \in M : \E i \in 1..Len(q) : q[i] = x
  BY <1>1, SetToSeqIs DEF M
<1>8. q \in Seq(SessionMessage)
  BY <1>5, <1>7
<1>9. \A i \in 1..Len(q) : q[i].r \in taken /\ q[i] = Answer(c, kept, q[i].r)
  BY <1>3, <1>7
<1>10. \A i, j \in 1..Len(q) : q[i].r = q[j].r => i = j
  <2> SUFFICES ASSUME NEW i \in 1..Len(q), NEW j \in 1..Len(q), q[i].r = q[j].r PROVE i = j
    OBVIOUS
  <2>1. q[i] = q[j]
    BY <1>9, Zenon
  <2> QED BY <1>7, <2>1
<1>11. \A r \in taken : \E i \in 1..Len(q) : q[i].r = r
  BY <1>6, <1>7
<1> QED BY <1>7, <1>8, <1>9, <1>10, <1>11 DEF Answering

LEMMA ReadingTyped ==
  ASSUME Inv, NEW n \in 0..Len(toConsumer)
  PROVE  Reading(n) \in Consumer
<1>1. [queue |-> queue, held |-> held, shown |-> shown] \in Consumer
  BY DEF Inv, Typed, Consumer
<1>2. SubSeq(toConsumer, 1, n) \in Seq(ConsumerMessage)
  BY DEF Inv, Typed
<1> QED BY <1>1, <1>2, ReadsTyped DEF Reading

LEMMA PumpKeeps ==
  ASSUME Inv, Pump
  PROVE  Inv' /\ UNCHANGED sessionVars
<1>1. PICK n, c, taken, kept : Pumps(n, c, taken, kept)
  BY PumpPumps
<1>2. n \in 0..Len(toConsumer) /\ c = Reading(n)
  BY <1>1, Zenon DEF Pumps
<1>3. c \in Consumer
  BY <1>2, ReadingTyped
<1>4. taken \in SUBSET {r \in Resource : c.queue[r] # 0} /\ kept \in SUBSET taken
  BY <1>1, Zenon DEF Pumps
<1>14. PICK q : q = SetToSeq(AnswersOf(c, kept, taken))
  OBVIOUS
<1>5. q \in Seq(SessionMessage)
  BY <1>3, <1>4, <1>14, AnswersSent DEF Answering
<1>6. /\ toConsumer' = SubSeq(toConsumer, n + 1, Len(toConsumer))
      /\ toSession' = toSession \o q
      /\ queue' = [r \in Resource |-> IF r \in taken THEN 0 ELSE c.queue[r]]
      /\ held' = [r \in Resource |-> IF r \in kept THEN c.queue[r] ELSE c.held[r]]
      /\ shown' = c.shown
      /\ UNCHANGED <<sessionVars, loaderEpoch, looking, looks, squeezes>>
  BY <1>1, <1>14, Zenon DEF Pumps
<1>7. toConsumer' \in Seq(ConsumerMessage)
  BY <1>2, <1>6 DEF Inv, Typed
<1>8. toSession' \in Seq(SessionMessage)
  BY <1>5, <1>6 DEF Inv, Typed
<1>9. queue' \in [Resource -> Nat] /\ held' \in [Resource -> Nat] /\ shown' \subseteq Resource
  BY <1>3, <1>4, <1>6 DEF Consumer
<1>10. UNCHANGED sessionVars
  BY <1>6
<1>11. UNCHANGED <<policy, budget, nextGen, epoch, inFlight, decoded, want, drawn, idle,
                   looking, loaderEpoch>>
  BY <1>6 DEF sessionVars
<1>12. Typed'
  BY <1>7, <1>8, <1>9, <1>11 DEF Inv, Typed
<1>13. Agree' /\ Draws'
  BY <1>11 DEF Inv, Agree, Draws
<1> QED BY <1>10, <1>12, <1>13 DEF Inv
-----------------------------------------------------------------------------
(* Every step.                                                              *)

LEMMA Starts == Init => Inv
<1> SUFFICES ASSUME Init PROVE Inv
  OBVIOUS
<1>1. budget = Empty /\ NoCopies \in Copies
  BY DEF Init, NoCopies, None, Copies, Copy
<1>2. Of(NoCopies) = {}
  BY DEF Of, Holds, NoCopies, None
<1>3. Sound(budget)
  BY <1>1, <1>2, FS_EmptySet DEF Sound, Budgets, Ledger, Bytes, Empty, Actual, Estimate
<1>4. toSession \in Seq(SessionMessage) /\ toConsumer \in Seq(ConsumerMessage)
  BY DEF Init
<1>5. Typed
  BY <1>3, <1>4 DEF Init, Typed
<1>6. Agree /\ Draws
  BY <1>1 DEF Init, Agree, Draws, Empty, NoCopies, None
<1> QED BY <1>5, <1>6 DEF Inv

LEMMA Sends ==
  ASSUME Inv, NEW m \in SessionMessage, Send(m)
  PROVE  toSession' \in Seq(SessionMessage)
BY DEF Send, Inv, Typed

LEMMA Steps ==
  ASSUME Inv, [Next]_vars
  PROVE  Inv' /\ StillWhole
<1>1. CASE AnswerClient
  BY <1>1, ClientKeeps
<1>2. CASE AnswerLoads
  BY <1>2, LoadsKeep
<1>3. CASE Pump
  BY <1>3, PumpKeeps DEF StillWhole, sessionVars
<1>4. CASE Redrape
  BY <1>4 DEF Redrape, sessionVars, consumerVars, Inv, Typed, Agree, Draws, StillWhole
<1>5. ASSUME NEW r \in Resource, Rested(r)
      PROVE  Inv' /\ StillWhole
  BY <1>5 DEF Rested, consumerVars, Inv, Typed, Agree, Draws, StillWhole
<1>6. ASSUME NEW v \in SUBSET Resource, Look(v)
      PROVE  Inv' /\ StillWhole
  <2>1. toSession' \in Seq(SessionMessage)
    <3>1. [type |-> "View", what |-> v] \in SessionMessage
      BY DEF SessionMessage
    <3> QED BY <1>6, <3>1, Sends DEF Look
  <2> QED BY <1>6, <2>1 DEF Look, sessionVars, Inv, Typed, Agree, Draws, StillWhole
<1>7. CASE Frame
  <2>1. toSession' \in Seq(SessionMessage)
    <3>1. [type |-> "View", what |-> looking] \in SessionMessage
      BY DEF SessionMessage, Inv, Typed
    <3> QED BY <1>7, <3>1, Sends DEF Frame
  <2> QED BY <1>7, <2>1 DEF Frame, sessionVars, consumerVars, Inv, Typed, Agree, Draws, StillWhole
<1>8. CASE Release
  <2>1. toSession' \in Seq(SessionMessage)
    <3>1. [type |-> "Release"] \in SessionMessage
      BY DEF SessionMessage
    <3> QED BY <1>8, <3>1, Sends DEF Release
  <2> QED BY <1>8, <2>1 DEF Release, sessionVars, consumerVars, Inv, Typed, Agree, Draws, StillWhole
<1>9. CASE UNCHANGED vars
  BY <1>9 DEF vars, sessionVars, consumerVars, Inv, Typed, Agree, Draws, StillWhole
<1> QED BY <1>1, <1>2, <1>3, <1>4, <1>5, <1>6, <1>7, <1>8, <1>9 DEF Next

LEMMA Always == Spec => []Inv
BY Starts, Steps, PTL DEF Spec

\* Between two turns the budget and the session agree on every load and every
\* decoded content, and the ledger is what the copies say (audit_impl).
THEOREM Accounting == Spec => []BooksAgree
<1>1. Inv => BooksAgree
  BY DEF Inv, Typed, Agree, Sound, Ledger, BooksAgree
<1> QED BY <1>1, Always, PTL

\* A view drawn whole stays drawn whole until it wants something else: what fails,
\* is loaded again or goes to make room is never what is drawn (I1, I9).
THEOREM Drawing == Spec => StaysWhole
<1>1. Inv /\ [Next]_vars =>
        [want \subseteq drawn /\ want' \subseteq want => want' \subseteq drawn']_vars
  BY Steps DEF StillWhole
<1> QED BY <1>1, Always, PTL DEF Spec, StaysWhole

-----------------------------------------------------------------------------
(* Films.  A film withdraws, refuses and evicts nothing of itself: of each  *)
(* resource, what its budget counts on its way is at one place, and what it *)
(* counts on the GPU is what the renderer holds, or will once the           *)
(* evictions and the acknowledgments on their way are read.                 *)

\* The positions after k of what is in M.
At(q, k, M) == {i \in (k + 1)..Len(q) : q[i] \in M}

Contents(r) == {m \in ConsumerMessage : m.type = "Content" /\ m.r = r}
Evicts(r) == {m \in ConsumerMessage : m.type = "Evict" /\ r \in m.what}
Selects(r) == {m \in ConsumerMessage : m.type = "Select" /\ r \in m.what}
Omits(r) == {m \in ConsumerMessage : m.type = "Select" /\ r \notin m.what}
Acks(r) == {m \in SessionMessage : m.type = "Ack" /\ m.r = r}

Cancels == {m \in ConsumerMessage : m.type = "Cancel"}
AllSelects == {m \in ConsumerMessage : m.type = "Select"}
Discards == {m \in SessionMessage : m.type = "Discarded"}

\* Of one resource: t in transit and g on the GPU by the budget, q queued and
\* h held by the renderer; and the positions of what is said of it.
FilmIs(t, g, q, h, C, A, E, S, O, out, in) ==
  /\ q # 0 => q = t /\ C = {} /\ A = {} /\ E = {}
  /\ \A i \in C : /\ q = 0 /\ A = {} /\ C = {i} /\ out[i].gen = t
                  /\ \A e \in E : e < i
  /\ \A i \in A : /\ q = 0 /\ C = {} /\ A = {i} /\ E = {}
                  /\ in[i].gen = t /\ h = t
  /\ t # 0 => q # 0 \/ C # {} \/ A # {}
  /\ E # {} => g = 0
  /\ E = {} /\ A = {} => h = g
  /\ \A i \in S : h # 0 /\ \A e \in E : \E s \in O : i < s /\ s < e

\* What is shown is held, until it is no longer drawn.
ShownIs(h, sh, r, E, O) == r \in sh => h # 0 /\ \A e \in E : \E s \in O : s < e

FilmOf(b, c, in, k, out, j, r) ==
  /\ FilmIs(b.transit[r].gen, b.gpu[r].gen, c.queue[r], c.held[r],
            At(out, j, Contents(r)), At(in, k, Acks(r)), At(out, j, Evicts(r)),
            At(out, j, Selects(r)), At(out, j, Omits(r)), out, in)
  /\ ShownIs(c.held[r], c.shown, r, At(out, j, Evicts(r)), At(out, j, Omits(r)))

\* The last draw set is what the renderer shows, or will.
LastIs(dr, sh, out, j) ==
  LET P == At(out, j, AllSelects) IN
  /\ P = {} => sh = dr
  /\ \A i \in P : (\A s \in P : s <= i) => out[i].what = dr

FilmAt(b, dr, c, in, k, out, j) ==
  /\ At(out, j, Cancels) = {} /\ At(in, k, Discards) = {}
  /\ LastIs(dr, c.shown, out, j)
  /\ \A r \in Resource : FilmOf(b, c, in, k, out, j, r)

Film ==
  policy = "Batch" =>
    FilmAt(budget, drawn, [queue |-> queue, held |-> held, shown |-> shown],
           toSession, 0, toConsumer, 0)

LEMMA AtNext ==
  ASSUME NEW q, Len(q) \in Nat, NEW i \in 1..Len(q), NEW M
  PROVE  /\ At(q, i, M) = At(q, i - 1, M) \ {i}
         /\ i \in At(q, i - 1, M) <=> q[i] \in M
         /\ At(q, i - 1, M) \subseteq Int /\ \A x \in At(q, i - 1, M) : i <= x
<1>1. \A x : x \in At(q, i - 1, M) <=> x \in i..Len(q) /\ q[x] \in M
  BY DEF At
<1>2. \A x : x \in At(q, i, M) <=> x \in (i + 1)..Len(q) /\ q[x] \in M
  BY DEF At
<1>3. \A x : x \in i..Len(q) <=> x = i \/ x \in (i + 1)..Len(q)
  OBVIOUS
<1>4. i \notin (i + 1)..Len(q)
  OBVIOUS
<1>5. At(q, i, M) = At(q, i - 1, M) \ {i}
  BY <1>1, <1>2, <1>3, <1>4
<1> QED BY <1>1, <1>5

Joined(q, m) == q \o m

LEMMA AtAppend ==
  ASSUME NEW X, NEW Y, NEW q \in Seq(X), NEW m \in Seq(Y), NEW M
  PROVE  /\ At(Joined(q, m), 0, M) = At(q, 0, M) \cup {Len(q) + i : i \in At(m, 0, M)}
         /\ \A i \in At(q, 0, M) : Joined(q, m)[i] = q[i] /\ i \in Int /\ i <= Len(q)
         /\ \A i \in At(m, 0, M) : Joined(q, m)[Len(q) + i] = m[i] /\ i \in Int /\ 1 <= i
<1> DEFINE p == Joined(q, m)
<1>1. /\ Len(q) \in Nat /\ Len(m) \in Nat /\ Len(p) = Len(q) + Len(m)
      /\ \A i \in 1..Len(q) : p[i] = q[i]
      /\ \A i \in 1..Len(m) : p[Len(q) + i] = m[i]
  BY ConcatProperties, LenProperties DEF Joined
<1> HIDE DEF p
<1>2. \A i \in At(p, 0, M) : i \in At(q, 0, M) \cup {Len(q) + x : x \in At(m, 0, M)}
  <2> SUFFICES ASSUME NEW i \in At(p, 0, M), i > Len(q)
               PROVE  \E x \in At(m, 0, M) : i = Len(q) + x
    BY <1>1 DEF At
  <2>1. i \in 1..Len(p) /\ p[i] \in M
    BY DEF At
  <2>2. i - Len(q) \in 1..Len(m) /\ i = Len(q) + (i - Len(q))
    BY <1>1, <2>1
  <2>3. m[i - Len(q)] = p[i]
    BY <1>1, <2>2
  <2>4. i - Len(q) \in At(m, 0, M)
    BY <2>1, <2>2, <2>3 DEF At
  <2> QED BY <2>2, <2>4
<1>3. \A i \in At(q, 0, M) : i \in At(p, 0, M)
  BY <1>1 DEF At
<1>4. \A x \in At(m, 0, M) : Len(q) + x \in At(p, 0, M)
  BY <1>1 DEF At
<1>5. At(p, 0, M) = At(q, 0, M) \cup {Len(q) + i : i \in At(m, 0, M)}
  BY <1>2, <1>3, <1>4
<1>6. \A i \in At(q, 0, M) : p[i] = q[i] /\ i \in Int /\ i <= Len(q)
  BY <1>1 DEF At
<1>7. \A i \in At(m, 0, M) : p[Len(q) + i] = m[i] /\ i \in Int /\ 1 <= i
  BY <1>1 DEF At
<1> QED BY <1>5, <1>6, <1>7 DEF p

LEMMA AtRest ==
  ASSUME NEW X, NEW q \in Seq(X), NEW n \in 0..Len(q), NEW M
  PROVE  LET p == SubSeq(q, n + 1, Len(q)) IN
         /\ \A i \in Int : i \in At(p, 0, M) <=> i + n \in At(q, n, M)
         /\ \A i \in At(p, 0, M) : i \in Int /\ p[i] = q[i + n]
         /\ At(q, n, M) \subseteq Int
<1> DEFINE p == SubSeq(q, n + 1, Len(q))
<1>1. /\ Len(q) \in Nat /\ Len(p) = Len(q) - n
      /\ \A i \in 1..Len(p) : p[i] = q[i + n]
  BY SubSeqProperties
<1> HIDE DEF p
<1>2. \A i \in Int : i \in At(p, 0, M) <=> i \in 1..Len(p) /\ p[i] \in M
  BY DEF At
<1>3. \A i \in Int : i + n \in At(q, n, M) <=> i + n \in (n + 1)..Len(q) /\ q[i + n] \in M
  BY DEF At
<1>4. \A i \in Int : i \in 1..Len(p) <=> i + n \in (n + 1)..Len(q)
  BY <1>1
<1>5. \A i \in Int : i \in At(p, 0, M) <=> i + n \in At(q, n, M)
  BY <1>1, <1>2, <1>3, <1>4
<1>6. \A i \in At(p, 0, M) : i \in Int /\ p[i] = q[i + n]
  BY <1>1 DEF At
<1>7. At(q, n, M) \subseteq Int
  BY DEF At
<1> QED BY <1>5, <1>6, <1>7 DEF p

\* Counting the positions from elsewhere says the same.
LEMMA ShownShift ==
  ASSUME NEW h, NEW sh, NEW r, NEW E \in SUBSET Int, NEW O \in SUBSET Int,
         NEW E2 \in SUBSET Int, NEW O2 \in SUBSET Int, NEW n \in Int,
         ShownIs(h, sh, r, E, O),
         \A i \in Int : (i \in E2 <=> i + n \in E) /\ (i \in O2 <=> i + n \in O)
  PROVE  ShownIs(h, sh, r, E2, O2)
<1> SUFFICES ASSUME r \in sh
             PROVE  h # 0 /\ \A e \in E2 : \E s \in O2 : s < e
  BY DEF ShownIs
<1>1. h # 0 /\ \A e \in E : \E s \in O : s < e
  BY DEF ShownIs
<1>2. ASSUME NEW e \in E2
      PROVE  \E s \in O2 : s < e
  <2>1. e + n \in E
    OBVIOUS
  <2>2. PICK s \in O : s < e + n
    BY <1>1, <2>1
  <2>3. (s - n) + n \in O /\ s - n \in Int
    BY <2>2
  <2>4. s - n \in O2 /\ s - n < e
    BY <2>2, <2>3
  <2> QED BY <2>4
<1> QED BY <1>1, <1>2

LEMMA FilmShiftIn ==
  ASSUME NEW t, NEW g, NEW q, NEW h, NEW C, NEW A \in SUBSET Int, NEW E, NEW S, NEW O,
         NEW A2 \in SUBSET Int, NEW out, NEW in, NEW in2, NEW n \in Int,
         FilmIs(t, g, q, h, C, A, E, S, O, out, in),
         \A i \in Int : i \in A2 <=> i + n \in A,
         \A i \in A2 : in2[i] = in[i + n]
  PROVE  FilmIs(t, g, q, h, C, A2, E, S, O, out, in2)
<1>1. A = {} <=> A2 = {}
  <2>1. \A i \in Int : i \in A => i - n \in A2
    <3> SUFFICES ASSUME NEW i \in Int PROVE i \in A => i - n \in A2
      OBVIOUS
    <3>1. i - n \in Int /\ (i - n) + n = i
      OBVIOUS
    <3> QED BY <3>1
  <2> QED BY <2>1
<1>2. ASSUME NEW i \in A2
      PROVE  /\ q = 0 /\ C = {} /\ A2 = {i} /\ E = {}
             /\ in2[i].gen = t /\ h = t
  <2>1. i + n \in A
    OBVIOUS
  <2>2. /\ q = 0 /\ C = {} /\ A = {i + n} /\ E = {}
        /\ in[i + n].gen = t /\ h = t
    BY <2>1 DEF FilmIs
  <2>3. \A x \in A2 : x = i
    <3> SUFFICES ASSUME NEW x \in A2 PROVE x = i
      OBVIOUS
    <3>1. x + n \in A
      OBVIOUS
    <3>2. x + n = i + n
      BY <2>2, <3>1
    <3> QED BY <3>2
  <2> QED BY <2>2, <2>3
<1> QED BY <1>1, <1>2 DEF FilmIs

-----------------------------------------------------------------------------
(* The renderer reads a message: the first there is.                        *)

LEMMA ToldSelect ==
  ASSUME NEW t, NEW g, NEW q, NEW h, NEW r, NEW sh, NEW what, NEW C, NEW A, NEW E, NEW S, NEW O,
         NEW out, NEW in, NEW i \in Int,
         FilmIs(t, g, q, h, C, A, E, S, O, out, in), ShownIs(h, sh, r, E, O),
         E \subseteq Int, S \subseteq Int, O \subseteq Int,
         \A x \in O : i <= x, \A x \in S : i <= x,
         i \notin C, i \notin E, i \in S <=> r \in what, i \in O <=> r \notin what
  PROVE  /\ FilmIs(t, g, q, h, C \ {i}, A, E \ {i}, S \ {i}, O \ {i}, out, in)
         /\ ShownIs(h, what, r, E \ {i}, O \ {i})
<1>1. C \ {i} = C /\ E \ {i} = E
  OBVIOUS
<1>2. ASSUME NEW x \in S
      PROVE  h # 0 /\ \A e \in E : \E s \in O \ {i} : x < s /\ s < e
  <2>1. h # 0 /\ \A e \in E : \E s \in O : x < s /\ s < e
    BY DEF FilmIs
  <2>2. \A s \in O : x < s => s # i
    BY <1>2
  <2> QED BY <2>1, <2>2
<1>3. ShownIs(h, what, r, E, O \ {i})
  BY <1>2 DEF ShownIs
<1> QED BY <1>1, <1>2, <1>3 DEF FilmIs

LEMMA ToldContent ==
  ASSUME NEW t, NEW g, NEW q, NEW h, NEW r, NEW sh, NEW C, NEW A, NEW E, NEW S, NEW O,
         NEW out, NEW in, NEW i \in Int,
         FilmIs(t, g, q, h, C, A, E, S, O, out, in), ShownIs(h, sh, r, E, O),
         E \subseteq Int, \A x \in E : i <= x,
         i \notin E, i \notin S, i \notin O, i \in C
  PROVE  /\ FilmIs(t, g, out[i].gen, h, C \ {i}, A, E \ {i}, S \ {i}, O \ {i}, out, in)
         /\ ShownIs(h, sh, r, E \ {i}, O \ {i})
<1>1. E \ {i} = E /\ S \ {i} = S /\ O \ {i} = O
  OBVIOUS
<1>2. /\ q = 0 /\ A = {} /\ C = {i} /\ out[i].gen = t
      /\ \A e \in E : e < i
  BY DEF FilmIs
<1>3. E = {} /\ C \ {i} = {}
  BY <1>2
<1> QED BY <1>1, <1>2, <1>3 DEF FilmIs

LEMMA ToldEvict ==
  ASSUME NEW t, NEW g, NEW q, NEW h, NEW r, NEW sh, NEW C, NEW A, NEW E, NEW S, NEW O,
         NEW out, NEW in, NEW i \in Int,
         FilmIs(t, g, q, h, C, A, E, S, O, out, in), ShownIs(h, sh, r, E, O),
         S \subseteq Int, O \subseteq Int,
         \A x \in S : i <= x, \A x \in O : i <= x,
         i \notin C, i \notin S, i \notin O, i \in E
  PROVE  /\ FilmIs(t, g, 0, 0, C \ {i}, A, E \ {i}, S \ {i}, O \ {i}, out, in)
         /\ ShownIs(0, sh, r, E \ {i}, O \ {i})
<1>1. C \ {i} = C /\ S \ {i} = S /\ O \ {i} = O
  OBVIOUS
<1>2. q = 0 /\ A = {} /\ g = 0
  BY DEF FilmIs
<1>3. S = {}
  <2> SUFFICES ASSUME NEW x \in S PROVE FALSE
    OBVIOUS
  <2>1. PICK s \in O : x < s /\ s < i
    BY DEF FilmIs
  <2> QED BY <2>1
<1>4. r \notin sh
  <2> SUFFICES ASSUME r \in sh PROVE FALSE
    OBVIOUS
  <2>1. PICK s \in O : s < i
    BY DEF ShownIs
  <2> QED BY <2>1
<1>5. \A x \in C : \A e \in E : e < x
  BY DEF FilmIs
<1> QED BY <1>1, <1>2, <1>3, <1>4, <1>5 DEF FilmIs, ShownIs

LEMMA ToldOther ==
  ASSUME NEW t, NEW g, NEW q, NEW h, NEW r, NEW sh, NEW C, NEW A, NEW E, NEW S, NEW O,
         NEW out, NEW in, NEW i,
         FilmIs(t, g, q, h, C, A, E, S, O, out, in), ShownIs(h, sh, r, E, O),
         i \notin C, i \notin E, i \notin S, i \notin O
  PROVE  /\ FilmIs(t, g, q, h, C \ {i}, A, E \ {i}, S \ {i}, O \ {i}, out, in)
         /\ ShownIs(h, sh, r, E \ {i}, O \ {i})
<1>1. C \ {i} = C /\ E \ {i} = E /\ S \ {i} = S /\ O \ {i} = O
  OBVIOUS
<1> QED BY <1>1

LEMMA ToldLast ==
  ASSUME NEW dr, NEW sh, NEW out \in Seq(ConsumerMessage), NEW i \in 1..Len(out),
         LastIs(dr, sh, out, i - 1)
  PROVE  LastIs(dr, IF out[i].type = "Select" THEN out[i].what ELSE sh, out, i)
<1> DEFINE P == At(out, i - 1, AllSelects)
           P2 == At(out, i, AllSelects)
<1>1. /\ P2 = P \ {i} /\ P \subseteq Int /\ \A x \in P : i <= x
      /\ i \in P <=> out[i] \in AllSelects
  <2>1. Len(out) \in Nat
    OBVIOUS
  <2> QED BY <2>1, AtNext
<1>2. out[i].type = "Select" <=> i \in P
  BY <1>1 DEF AllSelects
<1>3. /\ P = {} => sh = dr
      /\ \A x \in P : (\A s \in P : s <= x) => out[x].what = dr
  BY DEF LastIs
<1> HIDE DEF P, P2
<1>4. P2 = {} => (IF out[i].type = "Select" THEN out[i].what ELSE sh) = dr
  BY <1>1, <1>2, <1>3
<1>5. \A x \in P2 : (\A s \in P2 : s <= x) => out[x].what = dr
  BY <1>1, <1>3
<1> QED BY <1>4, <1>5 DEF LastIs, P2

LEMMA ToldFilm ==
  ASSUME NEW b, NEW dr, NEW c \in Consumer, NEW in, NEW k,
         NEW out \in Seq(ConsumerMessage), NEW i \in 1..Len(out),
         FilmAt(b, dr, c, in, k, out, i - 1)
  PROVE  FilmAt(b, dr, Told(c, out[i]), in, k, out, i)
<1> DEFINE m == out[i]
           d == Told(c, m)
<1>1. /\ At(out, i - 1, Cancels) = {} /\ At(in, k, Discards) = {}
      /\ LastIs(dr, c.shown, out, i - 1)
      /\ \A r \in Resource : FilmOf(b, c, in, k, out, i - 1, r)
  BY DEF FilmAt
<1>2. m \in ConsumerMessage /\ Len(out) \in Nat
  OBVIOUS
<1>3. m.type # "Cancel" /\ At(out, i, Cancels) = {}
  BY <1>1, <1>2, AtNext DEF Cancels
<1>4. m.type \in {"Select", "Evict", "Content"}
  BY <1>2, <1>3 DEF ConsumerMessage
<1>5. d.shown = IF m.type = "Select" THEN m.what ELSE c.shown
  BY <1>4 DEF Told, Consumer
<1>6. LastIs(dr, d.shown, out, i)
  BY <1>1, <1>5, ToldLast
<1>7. ASSUME NEW r \in Resource
      PROVE  FilmOf(b, d, in, k, out, i, r)
  <2> DEFINE C == At(out, i - 1, Contents(r))
             A == At(in, k, Acks(r))
             E == At(out, i - 1, Evicts(r))
             S == At(out, i - 1, Selects(r))
             O == At(out, i - 1, Omits(r))
             t == b.transit[r].gen
             g == b.gpu[r].gen
             q == c.queue[r]
             h == c.held[r]
  <2>1. /\ At(out, i, Contents(r)) = C \ {i} /\ At(out, i, Evicts(r)) = E \ {i}
        /\ At(out, i, Selects(r)) = S \ {i} /\ At(out, i, Omits(r)) = O \ {i}
    BY <1>2, AtNext
  <2>2. /\ i \in C <=> m \in Contents(r)
        /\ i \in E <=> m \in Evicts(r)
        /\ i \in S <=> m \in Selects(r)
        /\ i \in O <=> m \in Omits(r)
    BY <1>2, AtNext
  <2>3. /\ C \subseteq Int /\ E \subseteq Int /\ S \subseteq Int /\ O \subseteq Int
        /\ \A x \in C : i <= x
        /\ \A x \in E : i <= x
        /\ \A x \in S : i <= x
        /\ \A x \in O : i <= x
    BY <1>2, AtNext
  <2>4. FilmIs(t, g, q, h, C, A, E, S, O, out, in) /\ ShownIs(h, c.shown, r, E, O)
    BY <1>1 DEF FilmOf
  <2>9. i \in Int
    BY <1>2
  <2> SUFFICES /\ FilmIs(t, g, d.queue[r], d.held[r], C \ {i}, A, E \ {i}, S \ {i}, O \ {i},
                         out, in)
               /\ ShownIs(d.held[r], d.shown, r, E \ {i}, O \ {i})
    BY <2>1 DEF FilmOf
  <2> HIDE DEF C, A, E, S, O, t, g, q, h, d
  <2>5. CASE m.type = "Select"
    <3>1. d.queue[r] = q /\ d.held[r] = h /\ d.shown = m.what
      BY <2>5 DEF d, q, h, Told, Consumer
    <3>2. /\ i \notin C /\ i \notin E
          /\ i \in S <=> r \in m.what
          /\ i \in O <=> r \notin m.what
      BY <1>2, <2>2, <2>5 DEF Contents, Evicts, Selects, Omits
    <3> HIDE DEF m
    <3>3. /\ FilmIs(t, g, q, h, C \ {i}, A, E \ {i}, S \ {i}, O \ {i}, out, in)
          /\ ShownIs(h, m.what, r, E \ {i}, O \ {i})
      BY <2>3, <2>4, <2>9, <3>2, ToldSelect
    <3> QED BY <3>1, <3>3
  <2>6. CASE m.type = "Content" /\ m.r = r
    <3>1. d.queue[r] = m.gen /\ d.held[r] = h /\ d.shown = c.shown
      BY <2>6 DEF d, q, h, Told, Consumer
    <3>2. i \in C /\ i \notin E /\ i \notin S /\ i \notin O
      BY <1>2, <2>2, <2>6 DEF Contents, Evicts, Selects, Omits
    <3>3. /\ FilmIs(t, g, out[i].gen, h, C \ {i}, A, E \ {i}, S \ {i}, O \ {i}, out, in)
          /\ ShownIs(h, c.shown, r, E \ {i}, O \ {i})
      BY <2>3, <2>4, <2>9, <3>2, ToldContent
    <3> QED BY <3>1, <3>3
  <2>7. CASE m.type = "Evict" /\ r \in m.what
    <3>1. d.queue[r] = 0 /\ d.held[r] = 0 /\ d.shown = c.shown
      BY <2>7 DEF d, Told, Consumer
    <3>2. i \in E /\ i \notin C /\ i \notin S /\ i \notin O
      BY <1>2, <2>2, <2>7 DEF Contents, Evicts, Selects, Omits
    <3>3. /\ FilmIs(t, g, 0, 0, C \ {i}, A, E \ {i}, S \ {i}, O \ {i}, out, in)
          /\ ShownIs(0, c.shown, r, E \ {i}, O \ {i})
      BY <2>3, <2>4, <2>9, <3>2, ToldEvict
    <3> QED BY <3>1, <3>3
  <2>8. CASE \/ m.type = "Content" /\ m.r # r
             \/ m.type = "Evict" /\ r \notin m.what
    <3>1. d.queue[r] = q /\ d.held[r] = h /\ d.shown = c.shown
      BY <2>8 DEF d, q, h, Told, Consumer
    <3>2. i \notin E /\ i \notin C /\ i \notin S /\ i \notin O
      BY <1>2, <2>2, <2>8 DEF Contents, Evicts, Selects, Omits
    <3> QED BY <2>3, <2>4, <3>1, <3>2, ToldOther
  <2> QED BY <1>4, <2>5, <2>6, <2>7, <2>8
<1> QED BY <1>1, <1>3, <1>6, <1>7 DEF FilmAt

LEMMA FilmReads ==
  ASSUME NEW b, NEW dr, NEW c \in Consumer, NEW in, NEW k,
         NEW out \in Seq(ConsumerMessage), NEW n \in 0..Len(out),
         FilmAt(b, dr, c, in, k, out, 0)
  PROVE  FilmAt(b, dr, Reads(c, SubSeq(out, 1, n)), in, k, out, n)
<1> DEFINE P == [i \in 0..n |-> {d \in Consumer : FilmAt(b, dr, d, in, k, out, i)}]
           news == SubSeq(out, 1, n)
<1>1. n \in Nat /\ Len(news) = n /\ \A i \in 1..n : news[i] = out[i] /\ i \in 1..Len(out)
  OBVIOUS
<1>2. \A i \in 0..n : \A d : d \in P[i] <=> d \in Consumer /\ FilmAt(b, dr, d, in, k, out, i)
  OBVIOUS
<1>3. P[0] = {d \in Consumer : FilmAt(b, dr, d, in, k, out, 0)}
  BY <1>1
<1> HIDE DEF P, news
<1>4. ASSUME NEW i \in 1..n, NEW d \in P[i - 1]
      PROVE  Told(d, news[i]) \in P[i]
  <2>1. i - 1 \in 0..n /\ i \in 0..n /\ i \in 1..Len(out)
    BY <1>1
  <2>2. d \in Consumer /\ FilmAt(b, dr, d, in, k, out, i - 1)
    BY <1>2, <2>1
  <2>3. out[i] \in ConsumerMessage
    BY <2>1
  <2>4. Told(d, out[i]) \in Consumer
    BY <2>2, <2>3, ToldIn
  <2>5. FilmAt(b, dr, Told(d, out[i]), in, k, out, i)
    BY <2>1, <2>2, ToldFilm
  <2> QED BY <1>1, <1>2, <2>1, <2>4, <2>5
<1>5. c \in P[0]
  BY <1>3
<1>6. Reads(c, news) \in P[n]
  BY <1>1, <1>4, <1>5, ReadsIn
<1>7. FilmAt(b, dr, Reads(c, news), in, k, out, n)
  BY <1>1, <1>2, <1>6
<1> QED BY <1>7 DEF news

-----------------------------------------------------------------------------
(* The session reads a message.                                             *)

LEMMA AckIs ==
  ASSUME NEW t, NEW g, NEW q, NEW h, NEW C, NEW A, NEW E, NEW S, NEW O,
         NEW out, NEW in, NEW i,
         FilmIs(t, g, q, h, C, A, E, S, O, out, in), i \in A
  PROVE  in[i].gen = t /\ FilmIs(0, t, q, h, C, A \ {i}, E, S, O, out, in)
<1>1. /\ q = 0 /\ C = {} /\ A = {i} /\ E = {} /\ in[i].gen = t /\ h = t
  BY DEF FilmIs
<1> QED BY <1>1 DEF FilmIs

LEMMA AnsweredFilm ==
  ASSUME NEW b, Sound(b), NEW dr, NEW c, NEW in \in Seq(SessionMessage), NEW i \in 1..Len(in),
         NEW out, NEW j, FilmAt(b, dr, c, in, i - 1, out, j)
  PROVE  FilmAt(Answered(b, in[i]), dr, c, in, i, out, j)
<1> DEFINE m == in[i]
           d == Answered(b, m)
<1>1. /\ At(out, j, Cancels) = {} /\ At(in, i - 1, Discards) = {}
      /\ LastIs(dr, c.shown, out, j)
      /\ \A r \in Resource : FilmOf(b, c, in, i - 1, out, j, r)
  BY DEF FilmAt
<1>2. m \in SessionMessage /\ Len(in) \in Nat
  OBVIOUS
<1>3. At(in, i, Discards) = {}
  BY <1>1, <1>2, AtNext
<1>4. b.transit \in Copies /\ b.gpu \in Copies
  BY BudgetFields DEF Sound
<1>5. ASSUME NEW r \in Resource
      PROVE  FilmOf(d, c, in, i, out, j, r)
  <2> DEFINE C == At(out, j, Contents(r))
             A == At(in, i - 1, Acks(r))
             E == At(out, j, Evicts(r))
             S == At(out, j, Selects(r))
             O == At(out, j, Omits(r))
             t == b.transit[r].gen
             g == b.gpu[r].gen
             q == c.queue[r]
             h == c.held[r]
  <2>1. At(in, i, Acks(r)) = A \ {i} /\ (i \in A <=> m \in Acks(r))
    BY <1>2, AtNext
  <2>2. FilmIs(t, g, q, h, C, A, E, S, O, out, in) /\ ShownIs(h, c.shown, r, E, O)
    BY <1>1 DEF FilmOf
  <2> SUFFICES FilmIs(d.transit[r].gen, d.gpu[r].gen, q, h, C, A \ {i}, E, S, O, out, in)
    BY <2>1, <2>2 DEF FilmOf
  <2> HIDE DEF C, A, E, S, O, q, h, d
  <2>3. CASE m.type = "Ack" /\ m.r = r
    <3>1. i \in A /\ m.gen \in Nat \ {0}
      BY <1>2, <2>1, <2>3 DEF Acks, SessionMessage
    <3>2. m.gen = t /\ FilmIs(0, t, q, h, C, A \ {i}, E, S, O, out, in)
      BY <2>2, <3>1, AckIs
    <3>3. d = Drawable(b, m)
      BY <2>3 DEF Answered, d
    <3>4. /\ d.transit = [b.transit EXCEPT ![r] = None]
          /\ d.gpu = [b.gpu EXCEPT ![r] = b.transit[r]]
      BY <2>3, <3>1, <3>2, <3>3, DrawableSound
    <3>5. d.transit[r].gen = 0 /\ d.gpu[r].gen = t
      BY <1>4, <3>4 DEF Copies, None
    <3> QED BY <3>2, <3>5
  <2>4. CASE ~(m.type = "Ack" /\ m.r = r)
    <3>1. A \ {i} = A
      BY <2>1, <2>4 DEF Acks
    <3>2. d.transit[r] = b.transit[r] /\ d.gpu[r] = b.gpu[r]
      <4>1. CASE m.type = "Ack"
        <5>1. m.r \in Resource /\ m.gen \in Nat \ {0} /\ m.r # r
          BY <1>2, <2>4, <4>1 DEF SessionMessage
        <5>2. d = Drawable(b, m)
          BY <4>1 DEF Answered, d
        <5>3. i \in At(in, i - 1, Acks(m.r))
          BY <1>2, <4>1, AtNext DEF Acks
        <5>6. FilmIs(b.transit[m.r].gen, b.gpu[m.r].gen, c.queue[m.r], c.held[m.r],
                     At(out, j, Contents(m.r)), At(in, i - 1, Acks(m.r)),
                     At(out, j, Evicts(m.r)), At(out, j, Selects(m.r)),
                     At(out, j, Omits(m.r)), out, in)
          BY <1>1, <5>1 DEF FilmOf
        <5>4. b.transit[m.r].gen = m.gen
          BY <5>3, <5>6 DEF FilmIs
        <5>5. /\ d.transit = [b.transit EXCEPT ![m.r] = None]
              /\ d.gpu = [b.gpu EXCEPT ![m.r] = b.transit[m.r]]
          BY <5>1, <5>2, <5>4, DrawableSound
        <5> QED BY <1>4, <5>1, <5>5 DEF Copies
      <4>2. CASE m.type # "Ack"
        BY <4>2 DEF Answered, d
      <4> QED BY <4>1, <4>2
    <3> QED BY <2>2, <3>1, <3>2
  <2> QED BY <2>3, <2>4
<1> QED BY <1>1, <1>3, <1>5 DEF FilmAt

LEMMA FilmAcknowledged ==
  ASSUME NEW b, Sound(b), NEW dr, NEW c, NEW in \in Seq(SessionMessage), NEW n \in 0..Len(in),
         NEW out, NEW j, FilmAt(b, dr, c, in, 0, out, j)
  PROVE  FilmAt(Acknowledged(b, SubSeq(in, 1, n)), dr, c, in, n, out, j)
<1> DEFINE P == [i \in 0..n |-> {d \in Budgets : Ledger(d) /\ FilmAt(d, dr, c, in, i, out, j)}]
           news == SubSeq(in, 1, n)
<1>1. n \in Nat /\ Len(news) = n /\ \A i \in 1..n : news[i] = in[i] /\ i \in 1..Len(in)
  OBVIOUS
<1>2. \A i \in 0..n : \A d : d \in P[i] <=> Sound(d) /\ FilmAt(d, dr, c, in, i, out, j)
  BY DEF Sound
<1>3. 0 \in 0..n
  BY <1>1
<1> HIDE DEF P, news
<1>4. ASSUME NEW i \in 1..n, NEW d \in P[i - 1]
      PROVE  Answered(d, news[i]) \in P[i]
  <2>1. i - 1 \in 0..n /\ i \in 0..n /\ i \in 1..Len(in)
    BY <1>1
  <2>2. Sound(d) /\ FilmAt(d, dr, c, in, i - 1, out, j)
    BY <1>2, <2>1
  <2>3. in[i] \in SessionMessage
    BY <2>1
  <2>4. Sound(Answered(d, in[i]))
    <3>1. CASE in[i].type = "Ack"
      <4>1. in[i].r \in Resource /\ in[i].gen \in Nat \ {0}
        BY <2>3, <3>1 DEF SessionMessage
      <4>2. Sound(Drawable(d, in[i]))
        BY <2>2, <4>1, DrawableSound
      <4> QED BY <3>1, <4>2 DEF Answered
    <3>2. CASE in[i].type # "Ack"
      BY <2>2, <3>2 DEF Answered
    <3> QED BY <3>1, <3>2
  <2>5. FilmAt(Answered(d, in[i]), dr, c, in, i, out, j)
    BY <2>1, <2>2, AnsweredFilm
  <2> QED BY <1>1, <1>2, <2>1, <2>4, <2>5
<1>5. b \in P[0]
  BY <1>2, <1>3
<1>6. Acknowledged(b, news) \in P[n]
  BY <1>1, <1>4, <1>5, AcknowledgedIn
<1>7. FilmAt(Acknowledged(b, news), dr, c, in, n, out, j)
  BY <1>1, <1>2, <1>6
<1> QED BY <1>7 DEF news

-----------------------------------------------------------------------------
(* What is left of the messages, and what is added to them.                 *)

LEMMA OutRest ==
  ASSUME NEW b, NEW dr, NEW c, NEW in, NEW k, NEW out \in Seq(ConsumerMessage),
         NEW n \in 0..Len(out), FilmAt(b, dr, c, in, k, out, n)
  PROVE  FilmAt(b, dr, c, in, k, SubSeq(out, n + 1, Len(out)), 0)
<1> DEFINE p == SubSeq(out, n + 1, Len(out))
<1>1. /\ At(out, n, Cancels) = {} /\ At(in, k, Discards) = {}
      /\ LastIs(dr, c.shown, out, n)
      /\ \A r \in Resource : FilmOf(b, c, in, k, out, n, r)
  BY DEF FilmAt
<1>2. n \in Int
  OBVIOUS
<1>3. ASSUME NEW M
      PROVE  /\ \A i \in Int : i \in At(p, 0, M) <=> i + n \in At(out, n, M)
             /\ \A i \in At(p, 0, M) : i \in Int /\ p[i] = out[i + n]
             /\ At(out, n, M) \subseteq Int /\ At(p, 0, M) \subseteq Int
  BY AtRest
<1> HIDE DEF p
<1>4. At(p, 0, Cancels) = {}
  BY <1>1, <1>3
<1>5. LastIs(dr, c.shown, p, 0)
  <2> DEFINE P == At(out, n, AllSelects)
             P2 == At(p, 0, AllSelects)
  <2>1. /\ \A i \in Int : i \in P2 <=> i + n \in P
        /\ \A i \in P2 : i \in Int /\ p[i] = out[i + n]
        /\ P \subseteq Int
    BY <1>3
  <2>2. /\ P = {} => c.shown = dr
        /\ \A i \in P : (\A s \in P : s <= i) => out[i].what = dr
    BY <1>1 DEF LastIs
  <2> HIDE DEF P, P2
  <2>3. \A i \in Int : i \in P => i - n \in P2
    <3> SUFFICES ASSUME NEW i \in Int, i \in P PROVE i - n \in P2
      OBVIOUS
    <3>1. i - n \in Int /\ (i - n) + n = i
      BY <1>2
    <3> QED BY <2>1, <3>1
  <2>4. P2 = {} => P = {}
    BY <2>1, <2>3
  <2>5. ASSUME NEW i \in P2, \A s \in P2 : s <= i
        PROVE  p[i].what = dr
    <3>1. i \in Int /\ i + n \in P /\ p[i] = out[i + n]
      BY <2>1
    <3>2. ASSUME NEW s \in P PROVE s <= i + n
      <4>1. s \in Int /\ s - n \in P2
        BY <2>1, <2>3
      <4>2. s - n <= i
        BY <2>5, <4>1
      <4> QED BY <1>2, <3>1, <4>1, <4>2
    <3> QED BY <2>2, <3>1, <3>2
  <2> QED BY <2>2, <2>4, <2>5 DEF LastIs, P2
<1>6. ASSUME NEW r \in Resource
      PROVE  FilmOf(b, c, in, k, p, 0, r)
  <2> DEFINE C == At(out, n, Contents(r))
             A == At(in, k, Acks(r))
             E == At(out, n, Evicts(r))
             S == At(out, n, Selects(r))
             O == At(out, n, Omits(r))
             C2 == At(p, 0, Contents(r))
             E2 == At(p, 0, Evicts(r))
             S2 == At(p, 0, Selects(r))
             O2 == At(p, 0, Omits(r))
             t == b.transit[r].gen
             g == b.gpu[r].gen
             q == c.queue[r]
             h == c.held[r]
  <2>1. FilmIs(t, g, q, h, C, A, E, S, O, out, in) /\ ShownIs(h, c.shown, r, E, O)
    BY <1>1 DEF FilmOf
  <2>2. \A i \in Int : i \in C2 <=> i + n \in C
    BY <1>3
  <2>3. \A i \in Int : i \in E2 <=> i + n \in E
    BY <1>3
  <2>4. \A i \in Int : i \in S2 <=> i + n \in S
    BY <1>3
  <2>5. \A i \in Int : i \in O2 <=> i + n \in O
    BY <1>3
  <2>6. /\ C \in SUBSET Int /\ E \in SUBSET Int /\ S \in SUBSET Int /\ O \in SUBSET Int
        /\ C2 \in SUBSET Int /\ E2 \in SUBSET Int /\ S2 \in SUBSET Int /\ O2 \in SUBSET Int
    BY <1>3
  <2>7. \A i \in C2 : p[i] = out[i + n]
    BY <1>3
  <2> SUFFICES FilmIs(t, g, q, h, C2, A, E2, S2, O2, p, in) /\ ShownIs(h, c.shown, r, E2, O2)
    BY DEF FilmOf
  <2> HIDE DEF C, A, E, S, O, C2, E2, S2, O2, t, g, q, h
  <2>9. FilmIs(t, g, q, h, C2, A, E2, S2, O2, p, in)
    <3> USE <1>2, <2>1, <2>2, <2>3, <2>4, <2>5, <2>6, <2>7
    <3>1. /\ C = {} <=> C2 = {}
          /\ E = {} <=> E2 = {}
      <4>1. \A i \in Int : /\ i \in C => i - n \in C2
                           /\ i \in E => i - n \in E2
        <5> SUFFICES ASSUME NEW i \in Int PROVE (i \in C => i - n \in C2) /\ (i \in E => i - n \in E2)
          OBVIOUS
        <5>1. i - n \in Int /\ (i - n) + n = i
          OBVIOUS
        <5> QED BY <5>1
      <4> QED BY <4>1
    <3>2. q # 0 => q = t /\ C2 = {} /\ A = {} /\ E2 = {}
      BY <3>1 DEF FilmIs
    <3>3. ASSUME NEW i \in C2
          PROVE  /\ q = 0 /\ A = {} /\ C2 = {i} /\ p[i].gen = t
                 /\ \A e \in E2 : e < i
      <4>1. i + n \in C
        OBVIOUS
      <4>2. /\ q = 0 /\ A = {} /\ C = {i + n} /\ out[i + n].gen = t
            /\ \A e \in E : e < i + n
        BY <4>1 DEF FilmIs
      <4>3. \A x \in C2 : x = i
        <5> SUFFICES ASSUME NEW x \in C2 PROVE x = i
          OBVIOUS
        <5>1. x + n \in C
          OBVIOUS
        <5>2. x + n = i + n
          BY <4>2, <5>1
        <5>3. x \in Int /\ i \in Int
          OBVIOUS
        <5> QED BY <5>2, <5>3
      <4>4. \A e \in E2 : e < i
        <5> SUFFICES ASSUME NEW e \in E2 PROVE e < i
          OBVIOUS
        <5>1. e + n \in E /\ e \in Int /\ i \in Int
          OBVIOUS
        <5>2. e + n < i + n
          BY <4>2, <5>1
        <5> QED BY <5>1, <5>2
      <4> QED BY <4>2, <4>3, <4>4
    <3>4. \A i \in A : /\ q = 0 /\ C2 = {} /\ A = {i} /\ E2 = {}
                       /\ in[i].gen = t /\ h = t
      BY <3>1 DEF FilmIs
    <3>5. /\ t # 0 => q # 0 \/ C2 # {} \/ A # {}
          /\ E2 # {} => g = 0
          /\ E2 = {} /\ A = {} => h = g
      BY <3>1 DEF FilmIs
    <3>6. \A i \in S2 : h # 0 /\ \A e \in E2 : \E s \in O2 : i < s /\ s < e
      <4> SUFFICES ASSUME NEW i \in S2
                   PROVE  h # 0 /\ \A e \in E2 : \E s \in O2 : i < s /\ s < e
        OBVIOUS
      <4>1. i + n \in S
        OBVIOUS
      <4>2. h # 0 /\ \A e \in E : \E s \in O : i + n < s /\ s < e
        BY <4>1 DEF FilmIs
      <4>3. ASSUME NEW e \in E2
            PROVE  \E s \in O2 : i < s /\ s < e
        <5>1. e + n \in E
          OBVIOUS
        <5>2. PICK s \in O : i + n < s /\ s < e + n
          BY <4>2, <5>1
        <5>3. s - n \in O2 /\ i < s - n /\ s - n < e
          <6>1. (s - n) + n \in O /\ s - n \in Int
            BY <5>2
          <6> QED BY <5>2, <6>1
        <5> QED BY <5>3
      <4> QED BY <4>2, <4>3
    <3> QED BY <3>2, <3>3, <3>4, <3>5, <3>6 DEF FilmIs
  <2>10. ShownIs(h, c.shown, r, E2, O2)
    BY <1>2, <2>1, <2>3, <2>5, <2>6, ShownShift
  <2> QED BY <2>9, <2>10
<1> QED BY <1>1, <1>4, <1>5, <1>6 DEF FilmAt, p

LEMMA InRest ==
  ASSUME NEW b, NEW dr, NEW c, NEW in \in Seq(SessionMessage), NEW n \in 0..Len(in),
         NEW out, NEW j, FilmAt(b, dr, c, in, n, out, j)
  PROVE  FilmAt(b, dr, c, SubSeq(in, n + 1, Len(in)), 0, out, j)
<1> DEFINE p == SubSeq(in, n + 1, Len(in))
<1>1. /\ At(out, j, Cancels) = {} /\ At(in, n, Discards) = {}
      /\ LastIs(dr, c.shown, out, j)
      /\ \A r \in Resource : FilmOf(b, c, in, n, out, j, r)
  BY DEF FilmAt
<1>2. n \in Int
  OBVIOUS
<1>3. ASSUME NEW M
      PROVE  /\ \A i \in Int : i \in At(p, 0, M) <=> i + n \in At(in, n, M)
             /\ \A i \in At(p, 0, M) : i \in Int /\ p[i] = in[i + n]
             /\ At(in, n, M) \subseteq Int /\ At(p, 0, M) \subseteq Int
  BY AtRest
<1> HIDE DEF p
<1>4. At(p, 0, Discards) = {}
  BY <1>1, <1>3
<1>5. ASSUME NEW r \in Resource
      PROVE  FilmOf(b, c, p, 0, out, j, r)
  <2> DEFINE C == At(out, j, Contents(r))
             A == At(in, n, Acks(r))
             E == At(out, j, Evicts(r))
             S == At(out, j, Selects(r))
             O == At(out, j, Omits(r))
             A2 == At(p, 0, Acks(r))
             t == b.transit[r].gen
             g == b.gpu[r].gen
             q == c.queue[r]
             h == c.held[r]
  <2>1. FilmIs(t, g, q, h, C, A, E, S, O, out, in) /\ ShownIs(h, c.shown, r, E, O)
    BY <1>1 DEF FilmOf
  <2>2. \A i \in Int : i \in A2 <=> i + n \in A
    BY <1>3
  <2>3. A \subseteq Int /\ A2 \subseteq Int
    BY <1>3
  <2>4. \A i \in A2 : p[i] = in[i + n]
    BY <1>3
  <2> SUFFICES FilmIs(t, g, q, h, C, A2, E, S, O, out, p) /\ ShownIs(h, c.shown, r, E, O)
    BY DEF FilmOf
  <2> HIDE DEF C, A, E, S, O, A2, t, g, q, h
  <2>5. FilmIs(t, g, q, h, C, A2, E, S, O, out, p)
    BY <1>2, <2>1, <2>2, <2>3, <2>4, FilmShiftIn
  <2> QED BY <2>1, <2>5
<1> QED BY <1>1, <1>4, <1>5 DEF FilmAt, p

\* Only what the budget counts matters.
LEMMA FilmSame ==
  ASSUME NEW b, NEW b2, NEW dr, NEW c, NEW in, NEW k, NEW out, NEW j,
         FilmAt(b, dr, c, in, k, out, j),
         \A r \in Resource : b2.transit[r].gen = b.transit[r].gen /\ b2.gpu[r].gen = b.gpu[r].gen
  PROVE  FilmAt(b2, dr, c, in, k, out, j)
<1>1. ASSUME NEW r \in Resource, FilmOf(b, c, in, k, out, j, r)
      PROVE  FilmOf(b2, c, in, k, out, j, r)
  <2>1. b2.transit[r].gen = b.transit[r].gen /\ b2.gpu[r].gen = b.gpu[r].gen
    OBVIOUS
  <2> QED BY <1>1, <2>1 DEF FilmOf
<1> QED BY <1>1 DEF FilmAt

\* What is no longer drawn, a draw set on its way leaves out last.
LEMMA LastOmits ==
  ASSUME NEW dr, NEW sh, NEW out \in Seq(ConsumerMessage), LastIs(dr, sh, out, 0),
         NEW r, r \notin dr
  PROVE  /\ r \in sh => At(out, 0, Omits(r)) # {}
         /\ \A i \in At(out, 0, Selects(r)) : \E s \in At(out, 0, Omits(r)) : i < s
<1> DEFINE P == At(out, 0, AllSelects)
<1>1. /\ P = {} => sh = dr
      /\ \A i \in P : (\A s \in P : s <= i) => out[i].what = dr
  BY DEF LastIs
<1>2. Len(out) \in Nat /\ \A i \in 1..Len(out) : out[i] \in ConsumerMessage
  OBVIOUS
<1>3. P \subseteq 1..Len(out)
  BY <1>2 DEF At
<1>4. /\ \A i \in At(out, 0, Selects(r)) : i \in P /\ r \in out[i].what
      /\ \A i \in P : r \notin out[i].what => i \in At(out, 0, Omits(r))
  BY <1>2 DEF At, Selects, Omits, AllSelects
<1>5. CASE P = {}
  BY <1>1, <1>4, <1>5
<1>6. CASE P # {}
  <2> HIDE DEF P
  <2> DEFINE G == {Len(out) - i : i \in P}
  <2>1. G \in SUBSET Nat /\ G # {}
    <3>1. \A i \in P : Len(out) - i \in Nat
      BY <1>2, <1>3
    <3> QED BY <3>1, <1>6
  <2>2. PICK x \in G : \A y \in G : x <= y
    <3> HIDE DEF G
    <3> QED BY <2>1, LeastElement
  <2>3. PICK s \in P : x = Len(out) - s
    BY <2>2
  <2>4. ASSUME NEW i \in P PROVE i <= s
    <3>1. Len(out) - s <= Len(out) - i
      BY <2>2, <2>3
    <3>2. i \in Int /\ s \in Int
      BY <1>2, <1>3
    <3> QED BY <1>2, <3>1, <3>2
  <2>5. out[s].what = dr
    BY <1>1, <2>4
  <2>6. s \in At(out, 0, Omits(r))
    BY <1>4, <2>5
  <2>7. ASSUME NEW i \in At(out, 0, Selects(r)) PROVE i < s
    <3>1. i \in P /\ r \in out[i].what
      BY <1>4
    <3>2. i <= s /\ i # s
      BY <2>4, <2>5, <3>1
    <3>3. i \in Int /\ s \in Int
      BY <1>2, <1>3, <3>1
    <3> QED BY <3>2, <3>3
  <2> QED BY <2>6, <2>7
<1> QED BY <1>5, <1>6

LEMMA AtOne ==
  ASSUME NEW X, NEW q \in Seq(X), NEW m \in X, NEW M
  PROVE  /\ Len(q) \in Nat
         /\ m \in M => At(Joined(q, <<m>>), 0, M) = At(q, 0, M) \cup {Len(q) + 1}
         /\ m \notin M => At(Joined(q, <<m>>), 0, M) = At(q, 0, M)
         /\ \A i \in At(q, 0, M) : Joined(q, <<m>>)[i] = q[i] /\ i \in Int /\ i < Len(q) + 1
         /\ Joined(q, <<m>>)[Len(q) + 1] = m
<1>1. PICK s : s = <<m>>
  OBVIOUS
<1>2. s \in Seq(X) /\ Len(s) = 1 /\ s[1] = m /\ Len(q) \in Nat
  BY <1>1
<1> DEFINE p == Joined(q, s)
<1>3. /\ At(p, 0, M) = At(q, 0, M) \cup {Len(q) + i : i \in At(s, 0, M)}
      /\ \A i \in At(q, 0, M) : p[i] = q[i] /\ i \in Int /\ i <= Len(q)
  BY <1>2, AtAppend
<1>4. At(s, 0, M) = {i \in 1..1 : m \in M}
  BY <1>2 DEF At
<1>5. m \in M => At(s, 0, M) = {1}
  BY <1>4
<1>6. m \notin M => At(s, 0, M) = {}
  BY <1>4
<1>7. p[Len(q) + 1] = m
  <2>1. \A i \in At(s, 0, {m}) : p[Len(q) + i] = s[i]
    BY <1>2, AtAppend
  <2>2. 1 \in At(s, 0, {m})
    BY <1>2 DEF At
  <2> HIDE DEF p
  <2> QED BY <1>2, <2>1, <2>2
<1> HIDE DEF p
<1>8. \A i \in At(q, 0, M) : i < Len(q) + 1
  BY <1>2, <1>3
<1>9. m \in M => At(p, 0, M) = At(q, 0, M) \cup {Len(q) + 1}
  BY <1>3, <1>5
<1>10. m \notin M => At(p, 0, M) = At(q, 0, M)
  BY <1>3, <1>6
<1> QED BY <1>1, <1>2, <1>3, <1>7, <1>8, <1>9, <1>10 DEF p

\* The messages have generations.
LEMMA GensSent ==
  ASSUME NEW out \in Seq(ConsumerMessage), NEW in \in Seq(SessionMessage), NEW r
  PROVE  /\ \A i \in At(out, 0, Contents(r)) : out[i].gen # 0
         /\ \A i \in At(in, 0, Acks(r)) : in[i].gen # 0
<1>1. \A m \in Contents(r) : m.gen # 0
  BY DEF Contents, ConsumerMessage
<1>2. \A m \in Acks(r) : m.gen # 0
  BY DEF Acks, SessionMessage
<1> QED BY <1>1, <1>2 DEF At

LEMMA FilmEvicts ==
  ASSUME NEW b, NEW b2, Sound(b), NEW dr, NEW c,
         NEW in \in Seq(SessionMessage), NEW out \in Seq(ConsumerMessage),
         NEW gone \in SUBSET Of(b.gpu), gone \cap dr = {}, gone \cap Of(b.transit) = {},
         FilmAt(b, dr, c, in, 0, out, 0),
         b2.transit = b.transit, b2.gpu = Without(b.gpu, gone)
  PROVE  FilmAt(b2, dr, c, in, 0, out \o Message("Evict", gone), 0)
<1>0. /\ At(out, 0, Cancels) = {} /\ At(in, 0, Discards) = {}
      /\ LastIs(dr, c.shown, out, 0)
      /\ \A r \in Resource : FilmOf(b, c, in, 0, out, 0, r)
  BY DEF FilmAt
<1>1. CASE gone = {}
  <2>1. out \o Message("Evict", gone) = out
    BY <1>1 DEF Message
  <2>2. \A r \in Resource : b2.transit[r].gen = b.transit[r].gen /\ b2.gpu[r].gen = b.gpu[r].gen
    BY <1>1 DEF Without
  <2> QED BY <2>1, <2>2, FilmSame
<1>2. CASE gone # {}
  <2> DEFINE m == [type |-> "Evict", what |-> gone]
             e == Len(out) + 1
  <2>6. PICK p : p = Joined(out, <<m>>)
    OBVIOUS
  <2>1. m \in ConsumerMessage /\ out \o Message("Evict", gone) = p
    BY <1>2, <2>6 DEF Joined, Message, ConsumerMessage, Of
  <2>2. m \notin Cancels /\ m \notin AllSelects
    BY DEF Cancels, AllSelects
  <2>3. At(p, 0, Cancels) = {}
    BY <1>0, <2>1, <2>2, <2>6, AtOne
  <2>4. LastIs(dr, c.shown, p, 0)
    <3>1. /\ At(p, 0, AllSelects) = At(out, 0, AllSelects)
          /\ \A i \in At(out, 0, AllSelects) : p[i] = out[i]
      BY <2>1, <2>2, <2>6, AtOne
    <3> QED BY <1>0, <3>1 DEF LastIs
  <2>5. ASSUME NEW r \in Resource
        PROVE  FilmOf(b2, c, in, 0, p, 0, r)
    <3> DEFINE C == At(out, 0, Contents(r))
               A == At(in, 0, Acks(r))
               E == At(out, 0, Evicts(r))
               S == At(out, 0, Selects(r))
               O == At(out, 0, Omits(r))
               t == b.transit[r].gen
               g == b.gpu[r].gen
               q == c.queue[r]
               h == c.held[r]
    <3>1. FilmIs(t, g, q, h, C, A, E, S, O, out, in) /\ ShownIs(h, c.shown, r, E, O)
      BY <1>0 DEF FilmOf
    <3>2. m \notin Contents(r) /\ m \notin Selects(r) /\ m \notin Omits(r)
          /\ (m \in Evicts(r) <=> r \in gone)
      BY <2>1 DEF Contents, Selects, Omits, Evicts
    <3>3. /\ At(p, 0, Contents(r)) = C /\ \A i \in C : p[i] = out[i]
      BY <2>1, <2>6, <3>2, AtOne
    <3>4. At(p, 0, Selects(r)) = S /\ At(p, 0, Omits(r)) = O
      BY <2>1, <2>6, <3>2, AtOne
    <3>5. \A s \in O : s < e
      BY <2>1, <2>6, <3>2, AtOne
    <3>6. CASE r \in gone
      <4>1. At(p, 0, Evicts(r)) = E \cup {e}
        BY <2>1, <2>6, <3>2, <3>6, AtOne
      <4>2. b2.transit[r].gen = t /\ b2.gpu[r].gen = 0
        BY <3>6 DEF Without, None
      <4>3. t = 0 /\ g # 0
        BY <3>6 DEF Of, Holds
      <4>4. /\ c.shown \cap {r} # {} => O # {}
            /\ \A i \in S : \E s \in O : i < s
        <5>1. r \notin dr
          BY <3>6
        <5> QED BY <1>0, <5>1, LastOmits
      <4>5. (\A i \in C : out[i].gen # 0) /\ (\A i \in A : in[i].gen # 0)
        BY GensSent
      <4> HIDE DEF C, A, E, S, O, t, g, q, h, e
      <4>6. q = 0 /\ C = {} /\ A = {} /\ E = {}
        BY <3>1, <4>3, <4>5 DEF FilmIs
      <4>7. FilmIs(t, 0, q, h, C, A, E \cup {e}, S, O, p, in)
        BY <3>1, <3>5, <4>3, <4>4, <4>6 DEF FilmIs
      <4>8. ShownIs(h, c.shown, r, E \cup {e}, O)
        BY <3>1, <3>5, <4>4, <4>6 DEF ShownIs
      <4> QED BY <3>3, <3>4, <4>1, <4>2, <4>7, <4>8 DEF FilmOf, A, q, h
    <3>7. CASE r \notin gone
      <4>1. At(p, 0, Evicts(r)) = E
        BY <2>1, <2>6, <3>2, <3>7, AtOne
      <4>2. b2.transit[r].gen = t /\ b2.gpu[r].gen = g
        BY <3>7 DEF Without
      <4> HIDE DEF C, A, E, S, O, t, g, q, h
      <4>3. FilmIs(t, g, q, h, C, A, E, S, O, p, in)
        BY <3>1, <3>3 DEF FilmIs
      <4> QED BY <3>1, <3>3, <3>4, <4>1, <4>2, <4>3 DEF FilmOf, A, q, h
    <3> QED BY <3>6, <3>7
  <2> QED BY <1>0, <2>1, <2>3, <2>4, <2>5 DEF FilmAt
<1> QED BY <1>1, <1>2

\* What is drawn has a copy, and is held.
LEMMA FilmSelects ==
  ASSUME NEW b, Sound(b), NEW dr, NEW c,
         NEW in \in Seq(SessionMessage), NEW out \in Seq(ConsumerMessage),
         NEW D \in SUBSET Of(b.gpu), FilmAt(b, dr, c, in, 0, out, 0)
  PROVE  FilmAt(b, D, c, in, 0, out \o <<[type |-> "Select", what |-> D]>>, 0)
<1> DEFINE m == [type |-> "Select", what |-> D]
           e == Len(out) + 1
<1>6. PICK p : p = Joined(out, <<m>>)
  OBVIOUS
<1>0. /\ At(out, 0, Cancels) = {} /\ At(in, 0, Discards) = {}
      /\ LastIs(dr, c.shown, out, 0)
      /\ \A r \in Resource : FilmOf(b, c, in, 0, out, 0, r)
  BY DEF FilmAt
<1>1. m \in ConsumerMessage
  BY DEF ConsumerMessage, Of
<1>2. m \notin Cancels /\ m \in AllSelects
  BY <1>1 DEF Cancels, AllSelects
<1>3. At(p, 0, Cancels) = {}
  BY <1>0, <1>1, <1>2, <1>6, AtOne
<1>4. LastIs(D, c.shown, p, 0)
  <2>1. /\ At(p, 0, AllSelects) = At(out, 0, AllSelects) \cup {e}
        /\ \A i \in At(out, 0, AllSelects) : i \in Int /\ i < e
        /\ p[e] = m /\ e \in Int
    BY <1>1, <1>2, <1>6, AtOne
  <2> HIDE DEF e
  <2>2. ASSUME NEW i \in At(out, 0, AllSelects), e <= i
        PROVE  FALSE
    <3>1. i \in Int /\ i < e
      BY <2>1
    <3> QED BY <2>1, <2>2, <3>1
  <2> QED BY <2>1, <2>2 DEF LastIs
<1>5. ASSUME NEW r \in Resource
      PROVE  FilmOf(b, c, in, 0, p, 0, r)
  <2> DEFINE C == At(out, 0, Contents(r))
             A == At(in, 0, Acks(r))
             E == At(out, 0, Evicts(r))
             S == At(out, 0, Selects(r))
             O == At(out, 0, Omits(r))
             t == b.transit[r].gen
             g == b.gpu[r].gen
             q == c.queue[r]
             h == c.held[r]
             S2 == At(p, 0, Selects(r))
             O2 == At(p, 0, Omits(r))
  <2>1. FilmIs(t, g, q, h, C, A, E, S, O, out, in) /\ ShownIs(h, c.shown, r, E, O)
    BY <1>0 DEF FilmOf
  <2>2. m \notin Contents(r) /\ m \notin Evicts(r)
        /\ (m \in Selects(r) <=> r \in D) /\ (m \in Omits(r) <=> r \notin D)
    BY <1>1 DEF Contents, Selects, Omits, Evicts
  <2>3. /\ At(p, 0, Contents(r)) = C /\ \A i \in C : p[i] = out[i]
    BY <1>1, <1>6, <2>2, AtOne
  <2>4. At(p, 0, Evicts(r)) = E
    BY <1>1, <1>6, <2>2, AtOne
  <2>5. O \subseteq O2
    BY <1>1, <1>6, <2>2, AtOne
  <2>6. r \notin D => S2 = S
    BY <1>1, <1>6, <2>2, AtOne
  <2>7. r \in D => S2 = S \cup {e}
    BY <1>1, <1>6, <2>2, AtOne
  <2>8. r \in D => g # 0
    BY DEF Of, Holds
  <2>9. \A i \in A : in[i].gen # 0
    BY GensSent
  <2> SUFFICES /\ FilmIs(t, g, q, h, C, A, E, S2, O2, p, in)
               /\ ShownIs(h, c.shown, r, E, O2)
    BY <2>3, <2>4 DEF FilmOf
  <2> HIDE DEF C, A, E, S, O, S2, O2, t, g, q, h, e
  <2>10. ShownIs(h, c.shown, r, E, O2)
    BY <2>1, <2>5 DEF ShownIs
  <2>11. ASSUME NEW i \in S2
         PROVE  h # 0 /\ \A x \in E : \E s \in O2 : i < s /\ s < x
    <3>1. CASE i \in S
      BY <2>1, <2>5, <3>1 DEF FilmIs
    <3>2. CASE i \notin S
      <4>1. r \in D
        BY <2>6, <3>2, <2>11
      <4>2. g # 0 /\ E = {}
        BY <2>1, <2>8, <4>1 DEF FilmIs
      <4>3. h # 0
        BY <2>1, <2>9, <4>2 DEF FilmIs
      <4> QED BY <4>2, <4>3
    <3> QED BY <3>1, <3>2
  <2>12. FilmIs(t, g, q, h, C, A, E, S2, O2, p, in)
    BY <2>1, <2>3, <2>11 DEF FilmIs
  <2> QED BY <2>10, <2>12
<1> QED BY <1>0, <1>3, <1>4, <1>5, <1>6 DEF FilmAt, Joined

\* What is put on its way was not.
LEMMA FilmDelivers ==
  ASSUME NEW b, Sound(b), NEW n, NEW dr, NEW c, NEW contents \in [Resource -> Nat],
         \A r \in Resource : contents[r] = b.cpu[r].gen,
         NEW in \in Seq(SessionMessage), NEW out \in Seq(ConsumerMessage),
         NEW delivered \in SUBSET Of(b.cpu), delivered \cap Of(b.transit) = {},
         FilmAt(b, dr, c, in, 0, out, 0),
         \A r \in Resource : /\ n.transit[r] = IF r \in delivered THEN b.cpu[r] ELSE b.transit[r]
                             /\ n.gpu[r].gen = b.gpu[r].gen
  PROVE  FilmAt(n, dr, c, in, 0, out \o Content(b, contents, delivered), 0)
<1>0. /\ At(out, 0, Cancels) = {} /\ At(in, 0, Discards) = {}
      /\ LastIs(dr, c.shown, out, 0)
      /\ \A r \in Resource : FilmOf(b, c, in, 0, out, 0, r)
  BY DEF FilmAt
<1>1. PICK m : m = Content(b, contents, delivered)
  OBVIOUS
<1>2. /\ m \in Seq(ConsumerMessage) /\ Len(m) \in Nat
      /\ \A i \in 1..Len(m) : /\ m[i].type = "Content" /\ m[i].r \in delivered
                              /\ m[i].gen = b.cpu[m[i].r].gen
      /\ \A i, j \in 1..Len(m) : m[i].r = m[j].r => i = j
      /\ \A r \in delivered : \E i \in 1..Len(m) : m[i].r = r
  BY <1>1, ContentSent
<1>3. PICK p : p = Joined(out, m)
  OBVIOUS
<1>4. /\ At(m, 0, Cancels) = {} /\ At(m, 0, AllSelects) = {}
      /\ \A r : At(m, 0, Evicts(r)) = {} /\ At(m, 0, Selects(r)) = {} /\ At(m, 0, Omits(r)) = {}
  BY <1>2 DEF At, Cancels, AllSelects, Evicts, Selects, Omits
<1>5. ASSUME NEW M, At(m, 0, M) = {}
      PROVE  At(p, 0, M) = At(out, 0, M)
  <2>1. At(p, 0, M) = At(out, 0, M) \cup {Len(out) + i : i \in At(m, 0, M)}
    BY <1>2, <1>3, AtAppend
  <2> QED BY <1>5, <2>1
<1>6. At(p, 0, Cancels) = {}
  BY <1>0, <1>4, <1>5
<1>7. LastIs(dr, c.shown, p, 0)
  <2>1. /\ At(p, 0, AllSelects) = At(out, 0, AllSelects)
        /\ \A i \in At(out, 0, AllSelects) : p[i] = out[i]
    BY <1>2, <1>3, <1>4, <1>5, AtAppend
  <2> QED BY <1>0, <2>1 DEF LastIs
<1>8. ASSUME NEW r \in Resource
      PROVE  FilmOf(n, c, in, 0, p, 0, r)
  <2> DEFINE C == At(out, 0, Contents(r))
             A == At(in, 0, Acks(r))
             E == At(out, 0, Evicts(r))
             S == At(out, 0, Selects(r))
             O == At(out, 0, Omits(r))
             C2 == At(p, 0, Contents(r))
             t == b.transit[r].gen
             g == b.gpu[r].gen
             q == c.queue[r]
             h == c.held[r]
             u == n.transit[r].gen
  <2>1. FilmIs(t, g, q, h, C, A, E, S, O, out, in) /\ ShownIs(h, c.shown, r, E, O)
    BY <1>0 DEF FilmOf
  <2>2. At(p, 0, Evicts(r)) = E /\ At(p, 0, Selects(r)) = S /\ At(p, 0, Omits(r)) = O
    BY <1>4, <1>5
  <2>3. n.gpu[r].gen = g
    OBVIOUS
  <2>4. /\ C2 = C \cup {Len(out) + i : i \in At(m, 0, Contents(r))}
        /\ \A i \in C : p[i] = out[i]
        /\ \A i \in At(m, 0, Contents(r)) : p[Len(out) + i] = m[i] /\ i \in Int /\ 1 <= i
    BY <1>2, <1>3, AtAppend
  <2>5. \A x \in E : x \in Int /\ x <= Len(out)
    BY <1>2, AtAppend
  <2>6. (\A i \in C : out[i].gen # 0) /\ (\A i \in A : in[i].gen # 0)
    BY GensSent
  <2>7. FilmIs(u, g, q, h, C2, A, E, S, O, p, in)
    <3>1. CASE r \in delivered
      <4>1. PICK x \in 1..Len(m) : m[x].r = r
        BY <1>2, <3>1
      <4>2. At(m, 0, Contents(r)) = {x}
        <5>1. \A i \in 1..Len(m) : m[i] \in Contents(r) <=> m[i].r = r
          BY <1>2 DEF Contents
        <5>2. \A i \in 1..Len(m) : m[i].r = r => i = x
          BY <1>2, <4>1
        <5>3. \A i : i \in At(m, 0, Contents(r)) <=> i \in 1..Len(m) /\ m[i].r = r
          BY <5>1 DEF At
        <5> QED BY <4>1, <5>2, <5>3
      <4>3. u = b.cpu[r].gen /\ u # 0 /\ t = 0 /\ m[x].gen = u
        <5>1. u = b.cpu[r].gen
          BY <3>1
        <5> QED BY <1>2, <3>1, <4>1, <5>1 DEF Of, Holds
      <4>4. Len(out) \in Nat /\ x \in Int /\ 1 <= x
        BY <1>2
      <4>5. PICK y : y = Len(out) + x
        OBVIOUS
      <4>6. \A e \in E : e < y
        BY <2>5, <4>4, <4>5
      <4>7. p[y].gen = u
        BY <2>4, <4>2, <4>3, <4>5
      <4>8. C2 = C \cup {y}
        BY <2>4, <4>2, <4>5
      <4> HIDE DEF C, A, E, S, O, C2, t, g, q, h, u
      <4>9. q = 0 /\ C = {} /\ A = {}
        BY <2>1, <2>6, <4>3 DEF FilmIs
      <4> QED BY <2>1, <4>3, <4>6, <4>7, <4>8, <4>9 DEF FilmIs
    <3>2. CASE r \notin delivered
      <4>1. At(m, 0, Contents(r)) = {}
        BY <1>2, <3>2 DEF At, Contents
      <4>2. C2 = C /\ u = t
        BY <2>4, <3>2, <4>1
      <4> HIDE DEF C, A, E, S, O, C2, t, g, q, h, u
      <4> QED BY <2>1, <2>4, <4>2 DEF FilmIs
    <3> QED BY <3>1, <3>2
  <2> QED BY <2>1, <2>2, <2>3, <2>7 DEF FilmOf
<1> QED BY <1>0, <1>1, <1>3, <1>6, <1>7, <1>8 DEF FilmAt, Joined

LEMMA FilmTold ==
  ASSUME NEW b, NEW dr, NEW c, NEW in \in Seq(SessionMessage), NEW out,
         NEW m \in SessionMessage, m.type \in {"View", "Release"},
         FilmAt(b, dr, c, in, 0, out, 0)
  PROVE  FilmAt(b, dr, c, Append(in, m), 0, out, 0)
<1>0. /\ At(out, 0, Cancels) = {} /\ At(in, 0, Discards) = {}
      /\ LastIs(dr, c.shown, out, 0)
      /\ \A r \in Resource : FilmOf(b, c, in, 0, out, 0, r)
  BY DEF FilmAt
<1>1. PICK p : p = Joined(in, <<m>>)
  OBVIOUS
<1>2. p = Append(in, m)
  BY <1>1 DEF Joined
<1>3. m \notin Discards /\ \A r : m \notin Acks(r)
  BY DEF Discards, Acks
<1>4. At(p, 0, Discards) = {}
  BY <1>0, <1>1, <1>3, AtOne
<1>5. ASSUME NEW r \in Resource
      PROVE  FilmOf(b, c, p, 0, out, 0, r)
  <2> DEFINE C == At(out, 0, Contents(r))
             A == At(in, 0, Acks(r))
             E == At(out, 0, Evicts(r))
             S == At(out, 0, Selects(r))
             O == At(out, 0, Omits(r))
             t == b.transit[r].gen
             g == b.gpu[r].gen
             q == c.queue[r]
             h == c.held[r]
  <2>1. FilmIs(t, g, q, h, C, A, E, S, O, out, in) /\ ShownIs(h, c.shown, r, E, O)
    BY <1>0 DEF FilmOf
  <2>2. At(p, 0, Acks(r)) = A /\ \A i \in A : p[i] = in[i]
    BY <1>1, <1>3, AtOne
  <2> SUFFICES FilmIs(t, g, q, h, C, A, E, S, O, out, p)
    BY <2>1, <2>2 DEF FilmOf
  <2> HIDE DEF C, A, E, S, O, t, g, q, h
  <2> QED BY <2>1, <2>2 DEF FilmIs
<1> QED BY <1>0, <1>2, <1>4, <1>5 DEF FilmAt

\* The uploads of a frame, none refused.
LEMMA FilmUploads ==
  ASSUME NEW b, NEW dr, NEW c \in Consumer, NEW in \in Seq(SessionMessage),
         NEW out \in Seq(ConsumerMessage),
         NEW taken \in SUBSET {r \in Resource : c.queue[r] # 0},
         FilmAt(b, dr, c, in, 0, out, 0),
         NEW d, d.shown = c.shown,
         \A r \in Resource : /\ d.queue[r] = IF r \in taken THEN 0 ELSE c.queue[r]
                             /\ d.held[r] = IF r \in taken THEN c.queue[r] ELSE c.held[r]
  PROVE  FilmAt(b, dr, d, in \o SetToSeq(AnswersOf(c, taken, taken)), 0, out, 0)
<1>0. /\ At(out, 0, Cancels) = {} /\ At(in, 0, Discards) = {}
      /\ LastIs(dr, d.shown, out, 0)
      /\ \A r \in Resource : FilmOf(b, c, in, 0, out, 0, r)
  BY DEF FilmAt
<1>1. PICK m : m = SetToSeq(AnswersOf(c, taken, taken))
  OBVIOUS
<1>2. /\ m \in Seq(SessionMessage) /\ Len(m) \in Nat
      /\ \A i \in 1..Len(m) : m[i].r \in taken /\ m[i] = Answer(c, taken, m[i].r)
      /\ \A i, j \in 1..Len(m) : m[i].r = m[j].r => i = j
      /\ \A r \in taken : \E i \in 1..Len(m) : m[i].r = r
  <2>1. taken \in SUBSET taken
    OBVIOUS
  <2>2. taken \in SUBSET {r \in Resource : c.queue[r] # 0} /\ c \in Consumer
    OBVIOUS
  <2>3. Answering(m, c, taken, taken)
    BY <1>1, <2>1, <2>2, AnswersSent
  <2> QED BY <2>3, Zenon DEF Answering
<1>3. \A i \in 1..Len(m) : /\ m[i].type = "Ack" /\ m[i].r \in taken
                           /\ m[i].gen = c.queue[m[i].r] /\ m[i] \in SessionMessage
  <2> SUFFICES ASSUME NEW i \in 1..Len(m)
               PROVE  /\ m[i].type = "Ack" /\ m[i].r \in taken
                      /\ m[i].gen = c.queue[m[i].r] /\ m[i] \in SessionMessage
    OBVIOUS
  <2>1. PICK r : r = m[i].r
    OBVIOUS
  <2>2. r \in taken /\ m[i] = Answer(c, taken, r)
    BY <1>2, <2>1
  <2>3. m[i].type = "Ack" /\ m[i].gen = c.queue[r]
    BY <2>2 DEF Answer
  <2>4. m[i] \in SessionMessage
    BY <1>2
  <2> QED BY <2>1, <2>2, <2>3, <2>4
<1>4. PICK p : p = Joined(in, m)
  OBVIOUS
<1>5. At(p, 0, Discards) = {}
  <2>1. At(m, 0, Discards) = {}
    BY <1>3 DEF At, Discards
  <2> QED BY <1>0, <1>2, <1>4, <2>1, AtAppend
<1>6. ASSUME NEW r \in Resource
      PROVE  FilmOf(b, d, p, 0, out, 0, r)
  <2> DEFINE C == At(out, 0, Contents(r))
             A == At(in, 0, Acks(r))
             E == At(out, 0, Evicts(r))
             S == At(out, 0, Selects(r))
             O == At(out, 0, Omits(r))
             A2 == At(p, 0, Acks(r))
             t == b.transit[r].gen
             g == b.gpu[r].gen
             q == c.queue[r]
             h == c.held[r]
  <2>1. FilmIs(t, g, q, h, C, A, E, S, O, out, in) /\ ShownIs(h, c.shown, r, E, O)
    BY <1>0 DEF FilmOf
  <2>2. /\ A2 = A \cup {Len(in) + i : i \in At(m, 0, Acks(r))}
        /\ \A i \in A : p[i] = in[i]
        /\ \A i \in At(m, 0, Acks(r)) : p[Len(in) + i] = m[i]
    BY <1>2, <1>4, AtAppend
  <2>3. CASE r \in taken
    <3>1. PICK x \in 1..Len(m) : m[x].r = r
      BY <1>2, <2>3
    <3>2. At(m, 0, Acks(r)) = {x}
      <4>1. \A i \in 1..Len(m) : m[i] \in Acks(r) <=> m[i].r = r
        BY <1>3 DEF Acks
      <4>2. \A i \in 1..Len(m) : m[i].r = r => i = x
        BY <1>2, <3>1
      <4> QED BY <1>2, <3>1, <4>1, <4>2 DEF At
    <3>3. d.queue[r] = 0 /\ d.held[r] = q /\ q # 0
      BY <2>3
    <3>4. PICK y : y = Len(in) + x
      OBVIOUS
    <3>5. p[y].gen = q
      BY <1>3, <2>2, <3>1, <3>2, <3>4
    <3>6. A2 = A \cup {y}
      BY <2>2, <3>2, <3>4
    <3> HIDE DEF C, A, E, S, O, A2, t, g, q, h
    <3>7. q = t /\ C = {} /\ A = {} /\ E = {}
      BY <2>1, <3>3 DEF FilmIs
    <3>8. FilmIs(t, g, 0, q, C, A2, E, S, O, out, p)
      BY <2>1, <3>3, <3>5, <3>6, <3>7 DEF FilmIs
    <3>9. ShownIs(q, c.shown, r, E, O)
      BY <3>3, <3>7 DEF ShownIs
    <3> QED BY <3>3, <3>8, <3>9 DEF FilmOf, C, A2, E, S, O, t, g
  <2>4. CASE r \notin taken
    <3>1. At(m, 0, Acks(r)) = {}
      BY <1>3, <2>4 DEF At, Acks
    <3>2. A2 = A
      BY <2>2, <3>1
    <3>3. d.queue[r] = q /\ d.held[r] = h
      BY <2>4
    <3> HIDE DEF C, A, E, S, O, A2, t, g, q, h
    <3>4. FilmIs(t, g, q, h, C, A2, E, S, O, out, p)
      BY <2>1, <2>2, <3>2 DEF FilmIs
    <3> QED BY <2>1, <3>3, <3>4 DEF FilmOf, C, A2, E, S, O, t, g
  <2> QED BY <2>3, <2>4
<1> QED BY <1>0, <1>1, <1>4, <1>5, <1>6 DEF FilmAt, Joined

-----------------------------------------------------------------------------
(* Every step of a film.                                                    *)

Now == [queue |-> queue, held |-> held, shown |-> shown]

LEMMA StepFilm ==
  ASSUME policy = "Batch", nextGen \in Nat \ {0}, loaderEpoch \in Nat,
         toConsumer \in Seq(ConsumerMessage), NEW t, Ready(t), Step(t),
         NEW c, NEW in \in Seq(SessionMessage),
         FilmAt(t.budget, drawn, c, in, 0, toConsumer \o t.sent, 0)
  PROVE  FilmAt(budget', drawn', c, in, 0, toConsumer', 0)
<1>1. PICK D, unneeded, late, withdrawn, gens, gone, freed :
           /\ Chosen(t, D, unneeded, late, withdrawn, gens, gone, freed)
           /\ Does(t, D, unneeded, late, withdrawn, gens, gone, freed)
  BY StepDoes
<1>2. PICK delivered, starts :
        Outcome(t, D, unneeded, late, withdrawn, gens, gone, freed, delivered, starts)
  BY <1>1, StepBudget, Zenon
<1>3. PICK b : b = t.budget
  OBVIOUS
<1>4. PICK n : n = budget'
  OBVIOUS
<1>5. /\ Becomes(b, n, unneeded, late, withdrawn, gens, delivered, gone, freed)
      /\ D \subseteq Of(b.gpu) /\ delivered \subseteq Of(b.cpu)
      /\ delivered \cap (Of(b.transit) \ withdrawn) = {}
      /\ toConsumer' = toConsumer \o t.sent \o
           Messages(Message("Cancel", {[r |-> r, gen |-> b.transit[r].gen] : r \in withdrawn}),
                    Content(b, t.contents, delivered), D, gone)
      /\ withdrawn = {} /\ gone = {}
  BY <1>2, <1>3, <1>4, Zenon DEF Outcome
<1>6. drawn' = D
  BY <1>1, Zenon DEF Does
<1>7. PICK q : q = Content(b, t.contents, delivered)
  OBVIOUS
<1>8. /\ t.contents \in [Resource -> Nat] /\ t.sent \in Seq(ConsumerMessage) /\ Sound(b)
      /\ \A r \in Resource : t.contents[r] = b.cpu[r].gen
  BY <1>3 DEF Ready
<1>9. delivered \in SUBSET Of(b.cpu) /\ delivered \cap Of(b.transit) = {}
  BY <1>5
<1>10. q \in Seq(ConsumerMessage)
  BY <1>7, <1>8, <1>9, ContentSent
<1>11. PICK out : out = toConsumer \o t.sent
  OBVIOUS
<1>12. out \in Seq(ConsumerMessage)
  BY <1>8, <1>11
<1>13. PICK m : m = [type |-> "Select", what |-> D]
  OBVIOUS
<1>14. m \in ConsumerMessage
  BY <1>5, <1>13 DEF ConsumerMessage, Of
<1>15. toConsumer' = (out \o q) \o <<m>>
  <2>1. Messages(Message("Cancel", {[r |-> r, gen |-> b.transit[r].gen] : r \in withdrawn}),
                 q, D, gone) = <<>> \o q \o <<m>> \o <<>>
    <3>1. {[r |-> r, gen |-> b.transit[r].gen] : r \in withdrawn} = {}
      BY <1>5
    <3> QED BY <1>5, <1>13, <3>1 DEF Messages, Message
  <2>2. <<>> \o q \o <<m>> \o <<>> = q \o <<m>>
    BY <1>10, <1>14
  <2>3. toConsumer' = out \o (q \o <<m>>)
    BY <1>5, <1>7, <1>11, <2>1, <2>2
  <2>4. out \o (q \o <<m>>) = (out \o q) \o <<m>>
    BY <1>10, <1>12, <1>14
  <2> QED BY <2>3, <2>4
<1>16. /\ Sound(n) /\ n.gpu = Without(b.gpu, gone)
       /\ n.transit = [r \in Resource |-> IF r \in delivered THEN b.cpu[r]
                                     ELSE IF r \in withdrawn THEN None ELSE b.transit[r]]
  BY <1>5 DEF Becomes
<1>17. FilmAt(n, drawn, c, in, 0, out \o q, 0)
  <2>1. \A r \in Resource : /\ n.transit[r] = IF r \in delivered THEN b.cpu[r] ELSE b.transit[r]
                            /\ n.gpu[r].gen = b.gpu[r].gen
    BY <1>5, <1>16 DEF Without
  <2>2. FilmAt(b, drawn, c, in, 0, out, 0)
    BY <1>3, <1>11
  <2> QED BY <1>7, <1>8, <1>9, <1>12, <2>1, <2>2, FilmDelivers
<1>18. FilmAt(n, D, c, in, 0, (out \o q) \o <<m>>, 0)
  <2>1. D \in SUBSET Of(n.gpu)
    BY <1>5, <1>16 DEF Without, Of, Holds
  <2>2. out \o q \in Seq(ConsumerMessage)
    BY <1>10, <1>12
  <2> QED BY <1>13, <1>16, <1>17, <2>1, <2>2, FilmSelects
<1> QED BY <1>4, <1>6, <1>15, <1>18

LEMMA FilmNow ==
  ASSUME Film, policy = "Batch"
  PROVE  FilmAt(budget, drawn, Now, toSession, 0, toConsumer, 0)
BY DEF Film, Now

LEMMA Among ==
  ASSUME NEW X, NEW q \in Seq(X), NEW n \in 0..Len(q), NEW i \in 1..n
  PROVE  q[i] \in ToSet(SubSeq(q, 1, n))
<1>1. PICK s : s = SubSeq(q, 1, n)
  OBVIOUS
<1>2. s[i] = q[i] /\ DOMAIN s = 1..n
  BY <1>1, SubSeqProperties
<1>3. s[i] \in ToSet(s)
  BY <1>2 DEF ToSet
<1> QED BY <1>1, <1>2, <1>3

LEMMA ClientFilm ==
  ASSUME Inv, Film, AnswerClient
  PROVE  Film'
<1>1. PICK n, let_go : Answers(n, let_go)
  BY ClientAnswers
<1>2. UNCHANGED <<policy, loaderEpoch, queue, held, shown, looking>>
  BY <1>1, Zenon DEF Answers, consumerVars
<1> SUFFICES ASSUME policy = "Batch"
             PROVE  FilmAt(budget', drawn', Now, toSession', 0, toConsumer', 0)
  BY <1>2 DEF Film, Now
<1>3. FilmAt(budget, drawn, Now, toSession, 0, toConsumer, 0)
  BY FilmNow
<1>4. PICK c : c = Now
  OBVIOUS
<1>5. /\ let_go \in SUBSET Resource /\ let_go \cap drawn = {}
      /\ let_go \cap Of(budget.transit) = {}
      /\ n \in 1..Len(toSession) /\ Len(toSession) \in Nat
      /\ SubSeq(toSession, 1, n) \in Seq(SessionMessage) /\ toSession' \in Seq(SessionMessage)
  BY <1>1, AnswersIn
<1>6. /\ Sound(budget) /\ toSession \in Seq(SessionMessage) /\ toConsumer \in Seq(ConsumerMessage)
      /\ nextGen \in Nat \ {0} /\ loaderEpoch \in Nat
  BY DEF Inv, Typed
<1>7. PICK b0 : b0 = Released(let_go)
  OBVIOUS
<1>8. PICK gone : gone = let_go \cap Of(budget.gpu)
  OBVIOUS
<1>9. /\ Sound(b0) /\ b0.gpu = Without(budget.gpu, gone) /\ b0.transit = budget.transit
      /\ Message("Evict", gone) \in Seq(ConsumerMessage)
  BY <1>5, <1>7, <1>8, ReleasedSound
<1>10. PICK out : out = toConsumer \o Message("Evict", gone)
  OBVIOUS
<1>11. FilmAt(b0, drawn, c, toSession, 0, out, 0)
  <2>1. gone \in SUBSET Of(budget.gpu) /\ gone \cap drawn = {} /\ gone \cap Of(budget.transit) = {}
    BY <1>5, <1>8
  <2> QED BY <1>3, <1>4, <1>6, <1>9, <1>10, <2>1, FilmEvicts
<1>12. toSession' = SubSeq(toSession, n + 1, Len(toSession))
  BY <1>1, Zenon DEF Answers
<1>13. n \in 0..Len(toSession)
  BY <1>5
<1>14. CASE /\ \A m \in ToSet(SubSeq(toSession, 1, n)) : m.type = "Release"
            /\ budget' = Released(let_go) /\ decoded' = Left(let_go)
            /\ toConsumer' = toConsumer \o Message("Evict", let_go \cap Of(budget.gpu))
            /\ UNCHANGED <<nextGen, epoch, inFlight, want, drawn, idle, waits, refused,
                           over, faults, squeezes>>
  <2>1. ASSUME NEW i \in 1..n, FilmAt(b0, drawn, c, toSession, i - 1, out, 0)
        PROVE  FilmAt(b0, drawn, c, toSession, i, out, 0)
    <3>1. i \in 1..Len(toSession)
      BY <1>5
    <3>2. toSession[i] \in ToSet(SubSeq(toSession, 1, n))
      BY <1>6, <1>13, Among
    <3>3. Answered(b0, toSession[i]) = b0
      BY <1>14, <3>2 DEF Answered
    <3> QED BY <1>6, <1>9, <2>1, <3>1, <3>3, AnsweredFilm
  <2> DEFINE X == {i \in 0..n : ~ FilmAt(b0, drawn, c, toSession, i, out, 0)}
  <2>2. X = {}
    <3> SUFFICES ASSUME X # {} PROVE FALSE
      OBVIOUS
    <3>1. X \in SUBSET Nat
      OBVIOUS
    <3>2. PICK k \in X : \A j \in X : k <= j
      <4> HIDE DEF X
      <4> QED BY <3>1, LeastElement
    <3>3. k # 0
      BY <1>11
    <3>4. n \in Nat /\ k \in 0..n
      BY <1>5
    <3>5. k \in 1..n /\ k - 1 \in 0..n /\ ~(k <= k - 1)
      BY <3>3, <3>4
    <3>6. k - 1 \notin X
      <4> HIDE DEF X
      <4> QED BY <3>2, <3>5
    <3>7. FilmAt(b0, drawn, c, toSession, k - 1, out, 0)
      BY <3>5, <3>6
    <3>8. ~ FilmAt(b0, drawn, c, toSession, k, out, 0)
      BY <3>2
    <3> QED BY <2>1, <3>5, <3>7, <3>8
  <2>3. FilmAt(b0, drawn, c, toSession, n, out, 0)
    BY <1>5, <2>2
  <2>4. FilmAt(b0, drawn, c, toSession', 0, out, 0)
    BY <1>6, <1>12, <1>13, <2>3, InRest
  <2> QED BY <1>4, <1>7, <1>8, <1>10, <1>14, <2>4
<1>15. CASE Step(Turn(SubSeq(toSession, 1, n), let_go))
  <2>1. PICK news : news = SubSeq(toSession, 1, n)
    OBVIOUS
  <2>2. PICK t : t = Turn(news, let_go)
    OBVIOUS
  <2>3. Ready(t)
    BY <1>5, <2>1, <2>2, TurnReady
  <2>4. PICK b1 : b1 = Acknowledged(b0, news)
    OBVIOUS
  <2>5. FilmAt(b1, drawn, c, toSession, n, out, 0)
    BY <1>6, <1>9, <1>11, <1>13, <2>1, <2>4, FilmAcknowledged
  <2>6. FilmAt(b1, drawn, c, toSession', 0, out, 0)
    BY <1>6, <1>12, <1>13, <2>5, InRest
  <2>7. Refusals(b1, news) = {}
    <3>1. At(toSession, 0, Discards) = {}
      BY <1>3 DEF FilmAt
    <3>2. \A m \in ToSet(news) : m.type # "Discarded"
      <4> SUFFICES ASSUME NEW m \in ToSet(news), m.type = "Discarded" PROVE FALSE
        OBVIOUS
      <4>1. PICK i \in 1..Len(news) : m = news[i]
        BY DEF ToSet
      <4>2. i \in 1..Len(toSession) /\ m = toSession[i]
        BY <1>5, <1>6, <2>1, <4>1
      <4>3. m \in SessionMessage
        BY <1>6, <4>2
      <4> QED BY <3>1, <4>2, <4>3 DEF At, Discards
    <3> QED BY <3>2 DEF Refusals
  <2>8. /\ t.budget = TakeTransit(b1, {}) /\ t.sent = Message("Evict", gone)
    BY <1>7, <1>8, <2>2, <2>4, <2>7 DEF Turn
  <2>9. \A r \in Resource : /\ t.budget.transit[r].gen = b1.transit[r].gen
                            /\ t.budget.gpu[r].gen = b1.gpu[r].gen
    <3>1. Sound(b1)
      BY <1>5, <1>9, <2>1, <2>4, AcknowledgedSound
    <3>2. /\ t.budget.transit = Without(b1.transit, {}) /\ t.budget.gpu = b1.gpu
      BY <2>8, <3>1, TakeTransitSound
    <3> QED BY <3>2 DEF Without
  <2>10. FilmAt(t.budget, drawn, c, toSession', 0, out, 0)
    BY <2>6, <2>9, FilmSame
  <2>11. out = toConsumer \o t.sent
    BY <1>10, <2>8
  <2>12. PICK in : in = toSession'
    OBVIOUS
  <2>13. Step(t) /\ in \in Seq(SessionMessage)
    BY <1>5, <1>15, <2>1, <2>2, <2>12
  <2>14. FilmAt(t.budget, drawn, c, in, 0, toConsumer \o t.sent, 0)
    BY <2>10, <2>11, <2>12
  <2>15. FilmAt(budget', drawn', c, in, 0, toConsumer', 0)
    BY <1>6, <2>3, <2>13, <2>14, StepFilm
  <2> QED BY <1>4, <2>12, <2>15
<1>16. \/ /\ \A m \in ToSet(SubSeq(toSession, 1, n)) : m.type = "Release"
          /\ budget' = Released(let_go) /\ decoded' = Left(let_go)
          /\ toConsumer' = toConsumer \o Message("Evict", let_go \cap Of(budget.gpu))
          /\ UNCHANGED <<nextGen, epoch, inFlight, want, drawn, idle, waits, refused,
                         over, faults, squeezes>>
       \/ Step(Turn(SubSeq(toSession, 1, n), let_go))
  BY <1>1, Zenon DEF Answers
<1> QED BY <1>14, <1>15, <1>16

LEMMA LoadsFilm ==
  ASSUME Inv, Film, AnswerLoads
  PROVE  Film'
<1>0. PICK ended \in SUBSET Loads : \E good \in SUBSET ended : Step(Landing(ended, good))
  BY Zenon DEF AnswerLoads, Landing
<1>1. PICK good \in SUBSET ended : Step(Landing(ended, good))
  BY <1>0
<1>2. UNCHANGED <<policy, loaderEpoch, toSession, queue, held, shown, looking, looks>>
  BY Zenon DEF AnswerLoads, consumerVars
<1> SUFFICES ASSUME policy = "Batch"
             PROVE  FilmAt(budget', drawn', Now, toSession, 0, toConsumer', 0)
  BY <1>2 DEF Film, Now
<1>3. PICK t : t = Landing(ended, good)
  OBVIOUS
<1>4. Ready(t)
  BY <1>3, LandingReady
<1>5. PICK d : d = Landed(budget, ended, good)
  OBVIOUS
<1>6. d.transit = budget.transit /\ d.gpu = budget.gpu
  <2>1. ended \in SUBSET Of(budget.load)
    BY DEF Loads, Of, Holds, Inv, Agree
  <2>2. Sound(budget)
    BY DEF Inv, Typed
  <2> QED BY <1>5, <2>1, <2>2, LandedSound
<1>7. t.budget = d /\ t.sent = <<>>
  BY <1>3, <1>5 DEF Landing
<1>8. /\ toSession \in Seq(SessionMessage) /\ toConsumer \in Seq(ConsumerMessage)
      /\ nextGen \in Nat \ {0} /\ loaderEpoch \in Nat
  BY DEF Inv, Typed
<1>9. toConsumer \o t.sent = toConsumer
  BY <1>7, <1>8
<1>10. FilmAt(t.budget, drawn, Now, toSession, 0, toConsumer \o t.sent, 0)
  <2>1. FilmAt(budget, drawn, Now, toSession, 0, toConsumer, 0)
    BY FilmNow
  <2>2. FilmAt(d, drawn, Now, toSession, 0, toConsumer, 0)
    BY <1>6, <2>1, FilmSame
  <2> QED BY <1>7, <1>9, <2>2
<1>11. Step(t)
  BY <1>1, <1>3
<1> QED BY <1>4, <1>8, <1>10, <1>11, StepFilm

LEMMA PumpFilm ==
  ASSUME Inv, Film, Pump
  PROVE  Film'
<1>1. PICK n, c, taken, kept : Pumps(n, c, taken, kept)
  BY PumpPumps
<1>2. /\ n \in 0..Len(toConsumer) /\ c = Reading(n)
      /\ taken \in SUBSET {r \in Resource : c.queue[r] # 0} /\ kept \in SUBSET taken
      /\ kept # taken => policy = "Interactive"
      /\ toConsumer' = SubSeq(toConsumer, n + 1, Len(toConsumer))
      /\ toSession' = toSession \o SetToSeq(AnswersOf(c, kept, taken))
      /\ queue' = [r \in Resource |-> IF r \in taken THEN 0 ELSE c.queue[r]]
      /\ held' = [r \in Resource |-> IF r \in kept THEN c.queue[r] ELSE c.held[r]]
      /\ shown' = c.shown
      /\ UNCHANGED sessionVars
  BY <1>1, Zenon DEF Pumps
<1>3. UNCHANGED <<policy, budget, drawn>>
  BY <1>2 DEF sessionVars
<1>4. PICK d : d = [queue |-> queue', held |-> held', shown |-> shown']
  OBVIOUS
<1> SUFFICES ASSUME policy = "Batch"
             PROVE  FilmAt(budget, drawn, d, toSession', 0, toConsumer', 0)
  BY <1>3, <1>4 DEF Film
<1>5. kept = taken
  BY <1>2
<1>6. /\ toSession \in Seq(SessionMessage) /\ toConsumer \in Seq(ConsumerMessage)
      /\ Now \in Consumer /\ c \in Consumer
  BY <1>2, ReadingTyped DEF Inv, Typed, Consumer, Now
<1>7. PICK rest : rest = SubSeq(toConsumer, n + 1, Len(toConsumer))
  OBVIOUS
<1>8. rest \in Seq(ConsumerMessage)
  BY <1>2, <1>6, <1>7
<1>9. c = Reads(Now, SubSeq(toConsumer, 1, n))
  BY <1>2 DEF Reading, Now
<1>10. FilmAt(budget, drawn, c, toSession, 0, toConsumer, n)
  BY <1>2, <1>6, <1>9, FilmNow, FilmReads
<1>11. FilmAt(budget, drawn, c, toSession, 0, rest, 0)
  BY <1>2, <1>6, <1>7, <1>10, OutRest
<1>12. /\ d.shown = c.shown
       /\ \A r \in Resource : /\ d.queue[r] = IF r \in taken THEN 0 ELSE c.queue[r]
                             /\ d.held[r] = IF r \in taken THEN c.queue[r] ELSE c.held[r]
  BY <1>2, <1>4, <1>5
<1>13. FilmAt(budget, drawn, d, toSession \o SetToSeq(AnswersOf(c, taken, taken)), 0, rest, 0)
  BY <1>2, <1>6, <1>8, <1>11, <1>12, FilmUploads
<1> QED BY <1>2, <1>5, <1>7, <1>13

LEMMA FilmStarts == Init => Film
<1> SUFFICES ASSUME Init, policy = "Batch"
             PROVE  FilmAt(budget, drawn, Now, toSession, 0, toConsumer, 0)
  BY DEF Film, Now
<1>1. \A M : At(<<>>, 0, M) = {}
  BY DEF At
<1>2. LastIs(drawn, Now.shown, <<>>, 0)
  BY <1>1 DEF LastIs, Init, Now
<1>3. ASSUME NEW r \in Resource
      PROVE  FilmOf(budget, Now, <<>>, 0, <<>>, 0, r)
  <2>1. /\ budget.transit[r].gen = 0 /\ budget.gpu[r].gen = 0
        /\ Now.queue[r] = 0 /\ Now.held[r] = 0 /\ Now.shown = {}
    BY DEF Init, Empty, NoCopies, None, Now
  <2>2. FilmIs(0, 0, 0, 0, {}, {}, {}, {}, {}, <<>>, <<>>)
    BY DEF FilmIs
  <2>3. ShownIs(0, {}, r, {}, {})
    BY DEF ShownIs
  <2> QED BY <1>1, <2>1, <2>2, <2>3 DEF FilmOf
<1> QED BY <1>1, <1>2, <1>3 DEF FilmAt, Init

LEMMA SaysFilm ==
  ASSUME Inv, Film, NEW m \in SessionMessage, m.type \in {"View", "Release"}, Send(m),
         UNCHANGED <<policy, budget, drawn, queue, held, shown, toConsumer>>
  PROVE  Film'
<1> SUFFICES ASSUME policy = "Batch"
             PROVE  FilmAt(budget, drawn, Now, Append(toSession, m), 0, toConsumer, 0)
  BY DEF Film, Now, Send
<1>1. toSession \in Seq(SessionMessage)
  BY DEF Inv, Typed
<1>2. FilmAt(budget, drawn, Now, toSession, 0, toConsumer, 0)
  BY FilmNow
<1> QED BY <1>1, <1>2, FilmTold

LEMMA FilmSteps ==
  ASSUME Inv, Film, [Next]_vars
  PROVE  Film'
<1>1. CASE AnswerClient
  BY <1>1, ClientFilm
<1>2. CASE AnswerLoads
  BY <1>2, LoadsFilm
<1>3. CASE Pump
  BY <1>3, PumpFilm
<1>4. CASE UNCHANGED <<policy, budget, drawn, queue, held, shown, toSession, toConsumer>>
  BY <1>4 DEF Film
<1>5. ASSUME NEW v \in SUBSET Resource, Look(v)
      PROVE  Film'
  <2>1. [type |-> "View", what |-> v] \in SessionMessage
    BY DEF SessionMessage
  <2>2. UNCHANGED <<policy, budget, drawn, queue, held, shown, toConsumer>>
    BY <1>5 DEF Look, sessionVars
  <2>3. Send([type |-> "View", what |-> v])
    BY <1>5 DEF Look
  <2> QED BY <2>1, <2>2, <2>3, SaysFilm
<1>6. CASE Frame
  <2>1. [type |-> "View", what |-> looking] \in SessionMessage
    BY DEF SessionMessage, Inv, Typed
  <2>2. UNCHANGED <<policy, budget, drawn, queue, held, shown, toConsumer>>
    BY <1>6 DEF Frame, sessionVars, consumerVars
  <2>3. Send([type |-> "View", what |-> looking])
    BY <1>6 DEF Frame
  <2> QED BY <2>1, <2>2, <2>3, SaysFilm
<1>7. CASE Release
  <2>1. [type |-> "Release"] \in SessionMessage
    BY DEF SessionMessage
  <2>2. UNCHANGED <<policy, budget, drawn, queue, held, shown, toConsumer>>
    BY <1>7 DEF Release, sessionVars, consumerVars
  <2>3. Send([type |-> "Release"])
    BY <1>7 DEF Release
  <2> QED BY <2>1, <2>2, <2>3, SaysFilm
<1>8. CASE Redrape
  BY <1>4, <1>8 DEF Redrape, sessionVars, consumerVars
<1>9. ASSUME NEW r \in Resource, Rested(r)
      PROVE  Film'
  BY <1>4, <1>9 DEF Rested, consumerVars
<1>10. CASE UNCHANGED vars
  BY <1>4, <1>10 DEF vars, sessionVars, consumerVars
<1> QED BY <1>1, <1>2, <1>3, <1>5, <1>6, <1>7, <1>8, <1>9, <1>10 DEF Next

LEMMA AlwaysFilm == Spec => [](Inv /\ Film)
<1>1. Init => Inv /\ Film
  BY Starts, FilmStarts
<1>2. Inv /\ Film /\ [Next]_vars => (Inv /\ Film)'
  BY Steps, FilmSteps
<1> QED BY <1>1, <1>2, PTL DEF Spec

\* A film's renderer holds all it is told to draw: the draw set that leaves a
\* resource out is sent before what takes its copy away (pump.rs: new before
\* old), and what is on its way again is never let go.
THEOREM FilmsDraw == Spec => []FilmsDrawWhatIsHeld
<1>1. Inv /\ Film => FilmsDrawWhatIsHeld
  <2> SUFFICES ASSUME Inv, Film, policy = "Batch", NEW r \in shown PROVE held[r] # 0
    BY DEF FilmsDrawWhatIsHeld, DrawnIsHeld
  <2>1. r \in Resource
    BY DEF Inv, Typed
  <2>2. FilmOf(budget, Now, toSession, 0, toConsumer, 0, r)
    BY <2>1, FilmNow DEF FilmAt
  <2>3. ShownIs(held[r], shown, r, At(toConsumer, 0, Evicts(r)), At(toConsumer, 0, Omits(r)))
    BY <2>2 DEF FilmOf, Now
  <2> QED BY <2>3 DEF ShownIs
<1> QED BY <1>1, AlwaysFilm, PTL

\* With every message read, a film's renderer holds what its budget counts on
\* the GPU, to the generation: no upload or eviction on its way is missed, nor
\* counted twice.
THEOREM FilmsCount == Spec => []FilmsCountWhatIsHeld
<1>1. Inv /\ Film => FilmsCountWhatIsHeld
  <2> SUFFICES ASSUME Inv, Film, policy = "Batch", Settled, NEW r \in Resource
               PROVE  held[r] = budget.gpu[r].gen
    BY DEF FilmsCountWhatIsHeld
  <2>1. FilmOf(budget, Now, toSession, 0, toConsumer, 0, r)
    BY FilmNow DEF FilmAt
  <2>2. At(toConsumer, 0, Evicts(r)) = {} /\ At(toSession, 0, Acks(r)) = {}
    BY DEF Settled, At
  <2>3. FilmIs(budget.transit[r].gen, budget.gpu[r].gen, queue[r], held[r],
               At(toConsumer, 0, Contents(r)), At(toSession, 0, Acks(r)),
               At(toConsumer, 0, Evicts(r)), At(toConsumer, 0, Selects(r)),
               At(toConsumer, 0, Omits(r)), toConsumer, toSession)
    BY <2>1 DEF FilmOf, Now
  <2> QED BY <2>2, <2>3 DEF FilmIs
<1> QED BY <1>1, AlwaysFilm, PTL
=============================================================================
