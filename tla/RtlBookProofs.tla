---------------------------- MODULE RtlBookProofs ----------------------------
(***************************************************************************)
(* Proofs about the hardware's book behind an order book with its traffic, *)
(* for every window, every order of the memory's size and every set of     *)
(* prices: the levels in memory are those of the live orders, the best two *)
(* of each side are in the registers whenever no refill is under way, each *)
(* answer shows the book as of its message, and no error is a false one.   *)
(***************************************************************************)
EXTENDS RtlBookFeed, FiniteSetTheorems, WellFoundedInduction, TLAPS

----------------------------------------------------------------------------
(* Finite sets by induction. *)

LEMMA SubsetInduction ==
  ASSUME NEW S, IsFiniteSet(S), NEW G,
         \A T \in SUBSET S : (\A U \in SUBSET T : U # T => U \in G) => T \in G
  PROVE  \A T \in SUBSET S : T \in G
<1> DEFINE Bad == {T \in SUBSET S : T \notin G}
<1> SUFFICES ASSUME Bad # {} PROVE FALSE
  OBVIOUS
<1>1. IsWellFoundedOn(StrictSubsetOrdering(S), FiniteSubsetsOf(S))
  BY FS_StrictSubsetOrderingWellFounded
<1>2. Bad \subseteq FiniteSubsetsOf(S)
  BY FS_FiniteSubsetsOfFinite
<1> HIDE DEF Bad
<1>3. PICK T \in Bad : \A U \in Bad : ~(<<U, T>> \in StrictSubsetOrdering(S))
  BY <1>1, <1>2, WFMin
<1>4. T \in SUBSET S /\ T \notin G
  BY DEF Bad
<1>5. ASSUME NEW U \in SUBSET T, U # T PROVE U \in G
  <2>1. U \in SUBSET S
    BY <1>4
  <2>2. <<U, T>> \in StrictSubsetOrdering(S)
    BY <1>4, <1>5, <2>1 DEF StrictSubsetOrdering
  <2> QED BY <1>3, <2>1, <2>2 DEF Bad
<1> QED BY <1>4, <1>5

(* A family that has the empty set, and with a set every one that has one  *)
(* element more, has every finite set.                                     *)
LEMMA FiniteInduction ==
  ASSUME NEW S, IsFiniteSet(S), NEW G, {} \in G,
         \A T \in SUBSET S : \A x \in S \ T : T \in G => T \cup {x} \in G
  PROVE  S \in G
<1>1. ASSUME NEW T \in SUBSET S, \A U \in SUBSET T : U # T => U \in G
      PROVE  T \in G
  <2>1. CASE T = {}
    BY <2>1
  <2>2. CASE T # {}
    <3>1. PICK x \in T : TRUE
      BY <2>2
    <3>2. T \ {x} \in G
      BY <1>1, <3>1
    <3>3. T \ {x} \in SUBSET S /\ x \in S \ (T \ {x}) /\ (T \ {x}) \cup {x} = T
      BY <3>1
    <3> QED BY <3>2, <3>3
  <2> QED BY <2>1, <2>2
<1> QED BY <1>1, SubsetInduction

----------------------------------------------------------------------------
(* The fold. *)

Total(f, S) == SumFunctionOnSet(f, S)

First(s) == CHOOSE x \in s : TRUE

(* g is the function the fold of f over S recurs by.         *)
Adds(g, f, S) ==
  g = [s \in SUBSET S |-> IF s = {} THEN 0 ELSE f[First(s)] + g[s \ {First(s)}]]

LEMMA SumOfFold ==
  ASSUME NEW f, NEW S
  PROVE  Total(f, S) = (CHOOSE g : Adds(g, f, S))[S]
BY DEF Total, SumFunctionOnSet, FoldFunctionOnSet, MapThenFoldSet, Adds, First

LEMMA FirstIn == ASSUME NEW s, s # {} PROVE First(s) \in s
BY DEF First

(* Two such functions agree where both are defined.                        *)
LEMMA AddsAgree ==
  ASSUME NEW f, NEW S, NEW R, NEW g, NEW h, Adds(g, f, S), Adds(h, f, R),
         NEW T, T \subseteq S, T \subseteq R, IsFiniteSet(T)
  PROVE  g[T] = h[T]
<1> DEFINE G == {U \in SUBSET T : g[U] = h[U]}
<1>1. ASSUME NEW U \in SUBSET T, \A V \in SUBSET U : V # U => V \in G
      PROVE  U \in G
  <2>1. U \in SUBSET S /\ U \in SUBSET R
    OBVIOUS
  <2>2. g[U] = IF U = {} THEN 0 ELSE f[First(U)] + g[U \ {First(U)}]
    BY <2>1 DEF Adds
  <2>3. h[U] = IF U = {} THEN 0 ELSE f[First(U)] + h[U \ {First(U)}]
    BY <2>1 DEF Adds
  <2>4. U # {} => g[U \ {First(U)}] = h[U \ {First(U)}]
    BY <1>1, FirstIn
  <2> QED BY <2>2, <2>3, <2>4
<1>2. \A U \in SUBSET T : U \in G
  <2> HIDE DEF G
  <2> QED BY <1>1, SubsetInduction
<1> QED BY <1>2

Adder(f, S) == CHOOSE g : Adds(g, f, S)

(* What the fold's function says of a set, in terms of smaller sets.       *)
Sum(f, S) == IF S = {} THEN 0
                  ELSE f[First(S)] + Adder(f, S \ {First(S)})[S \ {First(S)}]

LEMMA AdderOfPart ==
  ASSUME NEW f, NEW U, IsFiniteSet(U), Adds(Adder(f, U), f, U),
         NEW V, V \subseteq U, Adds(Adder(f, V), f, V)
  PROVE  Adder(f, U)[V] = Adder(f, V)[V]
BY FS_Subset, AddsAgree

(* On a finite set there is one.                                           *)
LEMMA AddsExists ==
  ASSUME NEW f, NEW S, IsFiniteSet(S)
  PROVE  Adds(Adder(f, S), f, S)
<1> DEFINE G == {T \in SUBSET S : Adds(Adder(f, T), f, T)}
<1>1. ASSUME NEW T \in SUBSET S, \A U \in SUBSET T : U # T => U \in G
      PROVE  T \in G
  <2> DEFINE g == [U \in SUBSET T |-> Sum(f, U)]
  <2>1. ASSUME NEW U \in SUBSET T, U # T PROVE Adds(Adder(f, U), f, U) /\ IsFiniteSet(U)
    BY <1>1, <2>1, FS_Subset
  <2>2. ASSUME NEW U \in SUBSET T, U # T PROVE Adder(f, U)[U] = Sum(f, U)
    <3>1. CASE U = {}
      <4>1. Adder(f, U)[U] = IF U = {} THEN 0 ELSE f[First(U)] + Adder(f, U)[U \ {First(U)}]
        BY <2>1, <2>2 DEF Adds
      <4> QED BY <3>1, <4>1 DEF Sum
    <3>2. CASE U # {}
      <4> DEFINE V == U \ {First(U)}
      <4>1. V \subseteq U /\ V \in SUBSET T /\ V # T
        BY <3>2, FirstIn
      <4>2. Adder(f, U)[U] = f[First(U)] + Adder(f, U)[V]
        BY <2>1, <2>2, <3>2 DEF Adds
      <4>3. Adds(Adder(f, U), f, U) /\ IsFiniteSet(U) /\ Adds(Adder(f, V), f, V)
        BY <2>1, <2>2, <4>1
      <4>4. Adder(f, U)[V] = Adder(f, V)[V]
        <5> HIDE DEF V
        <5> QED BY <4>1, <4>3, AdderOfPart
      <4> QED BY <3>2, <4>2, <4>4 DEF Sum
    <3> QED BY <3>1, <3>2
  <2>3. ASSUME NEW U \in SUBSET T
        PROVE  Sum(f, U) = IF U = {} THEN 0 ELSE f[First(U)] + g[U \ {First(U)}]
    <3>1. CASE U = {}
      BY <3>1 DEF Sum
    <3>2. CASE U # {}
      <4> DEFINE V == U \ {First(U)}
      <4>1. V \in SUBSET T /\ V # T
        BY <3>2, FirstIn
      <4>2. g[V] = Adder(f, V)[V]
        BY <2>2, <4>1
      <4> QED BY <3>2, <4>2 DEF Sum
    <3> QED BY <3>1, <3>2
  <2>4. Adds(g, f, T)
    BY <2>3 DEF Adds
  <2>5. Adds(Adder(f, T), f, T)
    <3> HIDE DEF g
    <3> QED BY <2>4 DEF Adder
  <2> QED BY <2>5
<1>2. \A T \in SUBSET S : T \in G
  <2> HIDE DEF G
  <2> QED BY <1>1, SubsetInduction
<1> QED BY <1>2

----------------------------------------------------------------------------
(* The sum. *)

LEMMA SumEmpty == ASSUME NEW f PROVE Total(f, {}) = 0
<1>1. Adds(Adder(f, {}), f, {})
  BY AddsExists, FS_EmptySet
<1>2. Adder(f, {})[{}] = 0
  BY <1>1 DEF Adds
<1> QED BY <1>2, SumOfFold DEF Adder

LEMMA SumFirst ==
  ASSUME NEW f, NEW S, IsFiniteSet(S), S # {}
  PROVE  Total(f, S) = f[First(S)] + Total(f, S \ {First(S)})
<1> DEFINE rest == S \ {First(S)}
<1>1. Adds(Adder(f, S), f, S)
  BY AddsExists
<1>2. rest \subseteq S /\ IsFiniteSet(rest)
  BY FS_Subset
<1>3. Adds(Adder(f, rest), f, rest)
  <2> HIDE DEF rest
  <2> QED BY <1>2, AddsExists
<1>4. Adder(f, S)[S] = f[First(S)] + Adder(f, S)[rest]
  BY <1>1 DEF Adds
<1>5. Adder(f, S)[rest] = Adder(f, rest)[rest]
  <2> HIDE DEF rest
  <2> QED BY <1>1, <1>2, <1>3, AdderOfPart
<1>6. Total(f, S) = Adder(f, S)[S] /\ Total(f, rest) = Adder(f, rest)[rest]
  <2> HIDE DEF rest
  <2> QED BY SumOfFold DEF Adder
<1> QED BY <1>4, <1>5, <1>6

(* Natural numbers add up to one. *)
LEMMA SumType ==
  ASSUME NEW f, NEW S, IsFiniteSet(S), \A x \in S : f[x] \in Nat
  PROVE  Total(f, S) \in Nat
<1> DEFINE G == {T \in SUBSET S : Total(f, T) \in Nat}
<1>1. ASSUME NEW T \in SUBSET S, \A U \in SUBSET T : U # T => U \in G
      PROVE  T \in G
  <2>1. CASE T = {}
    BY <2>1, SumEmpty
  <2>2. CASE T # {}
    <3>1. First(T) \in T /\ IsFiniteSet(T)
      BY <2>2, FirstIn, FS_Subset
    <3>2. Total(f, T \ {First(T)}) \in Nat
      BY <1>1, <3>1
    <3>3. Total(f, T) = f[First(T)] + Total(f, T \ {First(T)})
      BY <2>2, <3>1, SumFirst
    <3> QED BY <3>1, <3>2, <3>3
  <2> QED BY <2>1, <2>2
<1>2. \A T \in SUBSET S : T \in G
  <2> HIDE DEF G
  <2> QED BY <1>1, SubsetInduction
<1> QED BY <1>2

(* Whichever order is counted last.  *)
LEMMA SumRemove ==
  ASSUME NEW f, NEW S, IsFiniteSet(S), \A x \in S : f[x] \in Nat, NEW y \in S
  PROVE  Total(f, S) = f[y] + Total(f, S \ {y})
<1> DEFINE G == {T \in SUBSET S :
                   \A z \in T : Total(f, T) = f[z] + Total(f, T \ {z})}
<1>1. ASSUME NEW T \in SUBSET S, \A U \in SUBSET T : U # T => U \in G
      PROVE  T \in G
  <2> SUFFICES ASSUME NEW z \in T
               PROVE  Total(f, T) = f[z] + Total(f, T \ {z})
    OBVIOUS
  <2> DEFINE x == First(T)
  <2>1. x \in T /\ IsFiniteSet(T)
    BY FirstIn, FS_Subset
  <2>2. Total(f, T) = f[x] + Total(f, T \ {x})
    BY <2>1, SumFirst
  <2> HIDE DEF x
  <2>3. CASE z = x
    BY <2>2, <2>3
  <2>4. CASE z # x
    <3>1. T \ {x} \in G /\ T \ {z} \in G
      BY <1>1, <2>1
    <3>2. Total(f, T \ {x}) = f[z] + Total(f, (T \ {x}) \ {z})
      BY <2>4, <3>1
    <3>3. Total(f, T \ {z}) = f[x] + Total(f, (T \ {z}) \ {x})
      BY <2>1, <2>4, <3>1
    <3>4. (T \ {x}) \ {z} = (T \ {z}) \ {x}
      OBVIOUS
    <3>5. Total(f, (T \ {z}) \ {x}) \in Nat
      <4> DEFINE R == (T \ {z}) \ {x}
      <4>1. R \subseteq T /\ R \subseteq S
        OBVIOUS
      <4>2. IsFiniteSet(R) /\ \A w \in R : f[w] \in Nat
        <5> HIDE DEF R
        <5> QED BY <2>1, <4>1, FS_Subset
      <4> HIDE DEF R
      <4>3. Total(f, R) \in Nat
        BY <4>2, SumType
      <4> QED BY <4>3 DEF R
    <3>6. f[x] \in Nat /\ f[z] \in Nat
      BY <2>1
    <3>7. Total(f, (T \ {x}) \ {z}) = Total(f, (T \ {z}) \ {x})
      BY <3>4
    <3> QED BY <2>2, <3>2, <3>3, <3>5, <3>6, <3>7
  <2> QED BY <2>3, <2>4
<1>2. \A T \in SUBSET S : T \in G
  <2> HIDE DEF G
  <2> QED BY <1>1, SubsetInduction
<1> QED BY <1>2

(* An order more, an order less. *)
LEMMA SumAdd ==
  ASSUME NEW f, NEW S, IsFiniteSet(S), NEW y, y \notin S,
         \A x \in S \cup {y} : f[x] \in Nat
  PROVE  Total(f, S \cup {y}) = f[y] + Total(f, S)
<1> DEFINE T == S \cup {y}
<1>1. IsFiniteSet(T) /\ y \in T /\ T \ {y} = S
  BY FS_AddElement
<1>2. \A x \in T : f[x] \in Nat
  OBVIOUS
<1> HIDE DEF T
<1>3. Total(f, T) = f[y] + Total(f, T \ {y})
  BY <1>1, <1>2, SumRemove
<1> QED BY <1>1, <1>3 DEF T

(* Only the shares of the orders counted matter. *)
LEMMA SumSame ==
  ASSUME NEW f, NEW h, NEW S, IsFiniteSet(S),
         \A x \in S : f[x] = h[x]
  PROVE  Total(f, S) = Total(h, S)
<1> DEFINE G == {T \in SUBSET S : Total(f, T) = Total(h, T)}
<1>1. ASSUME NEW T \in SUBSET S, \A U \in SUBSET T : U # T => U \in G
      PROVE  T \in G
  <2>1. CASE T = {}
    BY <2>1, SumEmpty
  <2>2. CASE T # {}
    <3>1. First(T) \in T /\ IsFiniteSet(T)
      BY <2>2, FirstIn, FS_Subset
    <3>2. Total(f, T \ {First(T)}) = Total(h, T \ {First(T)})
      BY <1>1, <3>1
    <3>3. /\ Total(f, T) = f[First(T)] + Total(f, T \ {First(T)})
          /\ Total(h, T) = h[First(T)] + Total(h, T \ {First(T)})
      BY <2>2, <3>1, SumFirst
    <3> QED BY <3>1, <3>2, <3>3
  <2> QED BY <2>1, <2>2
<1>2. \A T \in SUBSET S : T \in G
  <2> HIDE DEF G
  <2> QED BY <1>1, SubsetInduction
<1> QED BY <1>2

(* What a part adds up to, and what one element counts. *)
LEMMA SumPart ==
  ASSUME NEW f, NEW S, IsFiniteSet(S), \A x \in S : f[x] \in Nat, NEW T, T \subseteq S
  PROVE  /\ Total(f, T) <= Total(f, S)
         /\ (\A x \in S \ T : f[x] = 0) => Total(f, T) = Total(f, S)
<1> DEFINE R == S \ T
           G == {U \in SUBSET R : /\ Total(f, T) <= Total(f, T \cup U)
                                  /\ (\A x \in U : f[x] = 0) => Total(f, T) = Total(f, T \cup U)}
<1>1. IsFiniteSet(R) /\ IsFiniteSet(T) /\ Total(f, T) \in Nat
  BY FS_Subset, SumType
<1>2. {} \in G
  <2>1. T \cup {} = T
    OBVIOUS
  <2> QED BY <1>1, <2>1
<1>3. ASSUME NEW U \in SUBSET R, NEW x \in R \ U, U \in G
      PROVE  U \cup {x} \in G
  <2> DEFINE V == T \cup U
  <2>1. V \subseteq S /\ x \notin V /\ x \in S
    OBVIOUS
  <2>2. IsFiniteSet(V) /\ (\A y \in V \cup {x} : f[y] \in Nat) /\ f[x] \in Nat /\ \A y \in V : f[y] \in Nat
    BY <2>1, FS_Subset
  <2>3. T \cup (U \cup {x}) = V \cup {x}
    OBVIOUS
  <2> HIDE DEF V
  <2>4. Total(f, V \cup {x}) = f[x] + Total(f, V) /\ Total(f, V) \in Nat
    BY <2>1, <2>2, SumAdd, SumType
  <2>5. /\ Total(f, T) <= Total(f, V)
        /\ (\A y \in U : f[y] = 0) => Total(f, T) = Total(f, V)
    BY <1>3 DEF V
  <2>6. Total(f, T) <= Total(f, V \cup {x})
    BY <1>1, <2>2, <2>4, <2>5
  <2>7. (\A y \in U \cup {x} : f[y] = 0) => Total(f, T) = Total(f, V \cup {x})
    BY <1>1, <2>2, <2>4, <2>5
  <2> QED BY <2>3, <2>6, <2>7
<1>4. R \in G
  <2> HIDE DEF G, R
  <2> QED BY <1>1, <1>2, <1>3, FiniteInduction
<1>5. T \cup R = S
  OBVIOUS
<1> QED BY <1>4, <1>5

LEMMA SumZero ==
  ASSUME NEW f, NEW S, IsFiniteSet(S), \A x \in S : f[x] \in Nat
  PROVE  /\ Total(f, S) = 0 <=> \A x \in S : f[x] = 0
         /\ \A x \in S : f[x] <= Total(f, S)
<1>1. ASSUME NEW x \in S PROVE f[x] <= Total(f, S)
  <2>1. Total(f, S) = f[x] + Total(f, S \ {x})
    BY SumRemove
  <2>2. Total(f, S \ {x}) \in Nat /\ f[x] \in Nat
    BY FS_RemoveElement, SumType
  <2> QED BY <2>1, <2>2
<1>2. Total(f, {}) = 0
  BY SumEmpty
<1>3. ASSUME \A x \in S : f[x] = 0 PROVE Total(f, S) = 0
  <2>1. {} \subseteq S /\ \A x \in S \ {} : f[x] = 0
    BY <1>3
  <2>2. Total(f, {}) = Total(f, S)
    BY <2>1, SumPart
  <2> QED BY <1>2, <2>2
<1>4. Total(f, S) \in Nat
  BY SumType
<1> QED BY <1>1, <1>3, <1>4

(* One element counts another number than before. *)
LEMMA SumChange ==
  ASSUME NEW f, NEW h, NEW S, IsFiniteSet(S), NEW y \in S,
         \A x \in S : f[x] \in Nat /\ h[x] \in Nat, \A x \in S \ {y} : f[x] = h[x]
  PROVE  Total(h, S) = Total(f, S) - f[y] + h[y]
<1>1. Total(f, S) = f[y] + Total(f, S \ {y}) /\ Total(h, S) = h[y] + Total(h, S \ {y})
  BY SumRemove
<1>2. IsFiniteSet(S \ {y})
  BY FS_Subset
<1>3. Total(f, S \ {y}) = Total(h, S \ {y})
  BY <1>2, SumSame
<1>4. Total(f, S \ {y}) \in Nat /\ f[y] \in Nat /\ h[y] \in Nat
  BY <1>2, SumType
<1> QED BY <1>1, <1>3, <1>4

LEMMA SumOfTwo ==
  ASSUME NEW f, f[TRUE] \in Nat, f[FALSE] \in Nat
  PROVE  Total(f, BOOLEAN) = f[TRUE] + f[FALSE]
<1>1. IsFiniteSet({TRUE}) /\ FALSE \notin {TRUE} /\ {TRUE} \cup {FALSE} = BOOLEAN
  BY FS_Singleton
<1>2. Total(f, {TRUE} \cup {FALSE}) = f[FALSE] + Total(f, {TRUE})
  <2>1. \A x \in {TRUE} \cup {FALSE} : f[x] \in Nat
    OBVIOUS
  <2> QED BY <1>1, <2>1, SumAdd
<1>3. Total(f, {} \cup {TRUE}) = f[TRUE] + Total(f, {})
  <2>1. IsFiniteSet({}) /\ TRUE \notin {} /\ \A x \in {} \cup {TRUE} : f[x] \in Nat
    BY FS_EmptySet
  <2> QED BY <2>1, SumAdd
<1>4. {} \cup {TRUE} = {TRUE} /\ Total(f, {}) = 0
  BY SumEmpty
<1>5. Total(f, BOOLEAN) = Total(f, {TRUE} \cup {FALSE}) /\ Total(f, {} \cup {TRUE}) = Total(f, {TRUE})
  BY <1>1, <1>4, Zenon
<1> DEFINE a == f[TRUE]  b == f[FALSE]  t == Total(f, BOOLEAN)  u == Total(f, {TRUE})
<1>6. t = b + u /\ u = a + 0 /\ a \in Nat /\ b \in Nat
  BY <1>2, <1>3, <1>4, <1>5, Zenon
<1>7. t = a + b
  <2> HIDE DEF a, b, t, u
  <2> QED BY <1>6
<1> QED BY <1>7
----------------------------------------------------------------------------
(* Places and prices. *)

LEMMA FiveDivides ==
  ASSUME NEW m \in Nat, m % 5 # 0
  PROVE  \A q, e \in Int : m * q = 5 * e => \E r \in Int : q = 5 * r /\ m * r = e
<1> SUFFICES ASSUME NEW q \in Int, NEW e \in Int, m * q = 5 * e
             PROVE  \E r \in Int : q = 5 * r /\ m * r = e
  OBVIOUS
<1>1. PICK k \in Nat, i \in 1 .. 4 : m = 5 * k + i
  BY Z3
<1>2. i * q = 5 * (e - k * q)
  BY <1>1, Z3
<1> DEFINE z == e - k * q
<1>3. z \in Int /\ i * q = 5 * z
  BY <1>1, <1>2
<1> HIDE DEF z
<1>4. PICK r \in Int : q = 5 * r
  <2>1. CASE i = 1
    BY <1>3, <2>1
  <2>2. CASE i = 2
    <3>1. q = 5 * (q - 2 * z) /\ q - 2 * z \in Int
      BY <1>3, <2>2
    <3> QED BY <3>1
  <2>3. CASE i = 3
    <3>1. q = 5 * (2 * z - q) /\ 2 * z - q \in Int
      BY <1>3, <2>3
    <3> QED BY <3>1
  <2>4. CASE i = 4
    <3>1. q = 5 * (q - z) /\ q - z \in Int
      BY <1>3, <2>4
    <3> QED BY <3>1
  <2> QED BY <1>1, <2>1, <2>2, <2>3, <2>4
<1>5. 5 * (m * r) = 5 * e /\ m * r \in Int
  BY <1>4
<1>6. m * r = e
  BY <1>5
<1> QED BY <1>4, <1>6

LEMMA TwentyFiveDivides ==
  ASSUME NEW m \in Nat, m % 5 # 0
  PROVE  \A q, e \in Int : m * q = 25 * e => \E r \in Int : m * r = e
<1> SUFFICES ASSUME NEW q \in Int, NEW e \in Int, m * q = 25 * e
             PROVE  \E r \in Int : m * r = e
  OBVIOUS
<1>1. \A x, y \in Int : m * x = 5 * y => \E r \in Int : x = 5 * r /\ m * r = y
  BY FiveDivides, Zenon
<1>2. 5 * e \in Int /\ m * q = 5 * (5 * e)
  OBVIOUS
<1>3. PICK r \in Int : q = 5 * r /\ m * r = 5 * e
  BY <1>1, <1>2, Zenon
<1>4. \E t \in Int : r = 5 * t /\ m * t = e
  BY <1>1, <1>3, Zenon
<1> QED BY <1>4, Zenon

LEMMA WindowApart ==
  ASSUME NEW m \in Nat, m % 5 # 0
  PROVE  \A e \in 1 .. m - 1 : \A q \in Int : m * q # 25 * e
<1> SUFFICES ASSUME NEW e \in 1 .. m - 1, NEW q \in Int, m * q = 25 * e
             PROVE  FALSE
  OBVIOUS
<1>1. e \in Int
  OBVIOUS
<1>2. PICK r \in Int : m * r = e
  <2>1. \A x, y \in Int : m * x = 25 * y => \E r \in Int : m * r = y
    BY TwentyFiveDivides, Zenon
  <2> QED BY <1>1, <2>1, Zenon
<1>3. CASE r <= 0
  <2>1. m * r <= 0
    BY <1>3
  <2> QED BY <1>2, <2>1
<1>4. CASE r >= 1
  <2>1. m * r >= m
    BY <1>4
  <2> QED BY <1>2, <2>1
<1> QED BY <1>3, <1>4

LEMMA SizeFacts ==
  /\ L2_MEM_SIZE \in Nat \ {0} /\ L2_MEM_SIZE >= 2 /\ L2_MEM_SIZE % 5 # 0
  /\ PriceBase \in Nat /\ PriceBase % 50 = 0
  /\ IsFiniteSet(Places)
<1>1. /\ L2_MEM_SIZE \in Nat \ {0} /\ L2_MEM_SIZE >= 2 /\ L2_MEM_SIZE % 5 # 0
      /\ PriceBase \in Nat /\ PriceBase % 50 = 0
  BY RtlL2SizesAssumption, QuotesAssumption
<1>2. IsFiniteSet(Places)
  BY <1>1, FS_Interval DEF Places
<1> QED BY <1>1, <1>2

(* A price address is one of the memory's. *)
LEMMA AddrRange == ASSUME NEW p \in Nat PROVE price_addr(p) \in Places
<1> DEFINE c == p \div 2
           m == L2_MEM_SIZE
<1>1. c \in Nat /\ m \in Nat \ {0}
  BY SizeFacts
<1> HIDE DEF c, m
<1>2. c % m \in 0 .. m - 1
  BY <1>1
<1> QED BY <1>2 DEF price_addr, Places, c, m

(* Prices of the window do not share an address. *)
LEMMA AddrApart ==
  ASSUME NEW i \in Places, NEW j \in Places, price_addr(PriceOf(i)) = price_addr(PriceOf(j))
  PROVE  i = j
<1> SUFFICES ASSUME NEW a \in Places, NEW b \in Places,
                    price_addr(PriceOf(a)) = price_addr(PriceOf(b)), a < b
             PROVE  FALSE
  BY SizeFacts DEF Places
<1> DEFINE m == L2_MEM_SIZE
<1>1. m \in Nat \ {0} /\ m % 5 # 0 /\ a \in Nat /\ b \in Nat /\ b - a \in 1 .. m - 1
  BY SizeFacts DEF Places
<1>2. PICK k \in Nat : PriceBase = 50 * k
  BY SizeFacts
<1> DEFINE c == 25 * (k + a)  d == 25 * (k + b)
<1>3. PriceOf(a) = 2 * c /\ PriceOf(b) = 2 * d
  BY <1>1, <1>2 DEF PriceOf
<1>4. c \in Nat /\ d \in Nat /\ d - c = 25 * (b - a)
  BY <1>1, <1>2
<1>5. c % m = d % m
  <2>1. (2 * c) \div 2 = c /\ (2 * d) \div 2 = d
    <3> HIDE DEF c, d
    <3> QED BY <1>4
  <2> HIDE DEF c, d
  <2> QED BY <1>3, <2>1 DEF price_addr
<1> HIDE DEF c, d, m
<1>6. PICK q \in Int : 25 * (b - a) = m * q
  <2>1. /\ c = m * (c \div m) + (c % m) /\ d = m * (d \div m) + (d % m)
        /\ c \div m \in Int /\ d \div m \in Int
    BY <1>1, <1>4
  <2>2. ASSUME NEW x \in Int, NEW y \in Int, NEW r \in Int, NEW n \in Int
        PROVE  (n * y + r) - (n * x + r) = n * (y - x)
    OBVIOUS
  <2>3. d - c = m * (d \div m - c \div m) /\ d \div m - c \div m \in Int
    BY <1>1, <1>4, <1>5, <2>1, <2>2
  <2> QED BY <1>4, <2>3
<1>7. \A e \in 1 .. m - 1 : \A r \in Int : m * r # 25 * e
  <2>1. m \in Nat /\ m % 5 # 0
    BY <1>1
  <2> QED BY <2>1, WindowApart, Zenon
<1> QED BY <1>1, <1>6, <1>7

InTable(price) == PriceBase <= price /\ price <= PriceBase + 50 * (L2_MEM_SIZE - 1)

Place(price) == (price - PriceBase) \div 50

LEMMA PlaceFacts ==
  ASSUME NEW i \in Places
  PROVE  /\ i \in Nat /\ PriceOf(i) \in Nat /\ PriceOf(i) % 50 = 0 /\ InTable(PriceOf(i))
         /\ Place(PriceOf(i)) = i /\ price_addr(PriceOf(i)) \in Places
<1>1. i \in Nat /\ i <= L2_MEM_SIZE - 1 /\ L2_MEM_SIZE \in Nat /\ PriceBase \in Nat /\ PriceBase % 50 = 0
  BY SizeFacts DEF Places
<1>2. PriceOf(i) \in Nat /\ PriceOf(i) % 50 = 0 /\ InTable(PriceOf(i)) /\ Place(PriceOf(i)) = i
  BY <1>1 DEF PriceOf, InTable, Place
<1> QED BY <1>1, <1>2, AddrRange

LEMMA PriceFacts ==
  ASSUME NEW p \in Nat, p % 50 = 0, InTable(p)
  PROVE  Place(p) \in Places /\ PriceOf(Place(p)) = p
BY SizeFacts DEF Places, PriceOf, InTable, Place

LEMMA PlaceOrder ==
  ASSUME NEW i \in Places, NEW j \in Places
  PROVE  /\ (PriceOf(i) < PriceOf(j)) <=> i < j
         /\ (PriceOf(i) = PriceOf(j)) <=> i = j
BY SizeFacts DEF Places, PriceOf

LEMMA QuoteFacts ==
  ASSUME NEW is_buy \in BOOLEAN
  PROVE  /\ IsFiniteSet(Quotes(is_buy)) /\ Quotes(is_buy) \subseteq Nat
         /\ \A p \in Quotes(is_buy) :
              /\ p % 50 = 0
              /\ IF is_buy THEN p <= PriceBase + 50 * (L2_MEM_SIZE - 1) ELSE p >= PriceBase
BY QuotesAssumption DEF Quotes

(* The best place of some places. *)
LEMMA BestIn ==
  ASSUME NEW is_buy \in BOOLEAN, NEW T \in SUBSET Places, T # {}
  PROVE  /\ BestPlace(is_buy, T) \in T
         /\ \A y \in T : IF is_buy THEN BestPlace(is_buy, T) >= y ELSE BestPlace(is_buy, T) <= y
<1> DEFINE Ahead(x, y) == IF is_buy THEN x >= y ELSE x <= y
           G == {S \in SUBSET Places : S # {} => \E x \in S : \A y \in S : Ahead(x, y)}
<1>0. \A x \in Places : x \in Int
  BY DEF Places
<1>1. {} \in G
  OBVIOUS
<1>2. ASSUME NEW S \in SUBSET Places, NEW z \in Places \ S, S \in G
      PROVE  S \cup {z} \in G
  <2>1. CASE S = {}
    BY <1>0, <2>1
  <2>2. CASE S # {}
    <3>1. PICK x \in S : \A y \in S : Ahead(x, y)
      BY <1>2, <2>2
    <3>2. x \in Int /\ z \in Int /\ \A y \in S : y \in Int
      BY <1>0
    <3>3. CASE Ahead(x, z)
      BY <3>1, <3>3
    <3>4. CASE ~Ahead(x, z)
      <4>1. \A y \in S : Ahead(z, y)
        BY <3>1, <3>2, <3>4
      <4>2. Ahead(z, z)
        BY <3>2
      <4> QED BY <4>1, <4>2
    <3> QED BY <3>3, <3>4
  <2> QED BY <2>1, <2>2
<1>3. \A S \in SUBSET Places : S \in G
  <2> SUFFICES ASSUME NEW S \in SUBSET Places PROVE S \in G
    OBVIOUS
  <2>1. IsFiniteSet(S)
    BY SizeFacts, FS_Subset
  <2> DEFINE H == {U \in SUBSET S : U \in G}
  <2>2. {} \in H /\ \A U \in SUBSET S : \A x \in S \ U : U \in H => U \cup {x} \in H
    <3> HIDE DEF G
    <3> QED BY <1>1, <1>2
  <2>3. S \in H
    <3> HIDE DEF H
    <3> QED BY <2>1, <2>2, FiniteInduction
  <2> QED BY <2>3
<1>4. \E x \in T : \A y \in T : Ahead(x, y)
  BY <1>3
<1>5. CASE is_buy
  BY <1>4, <1>5 DEF BestPlace, Max
<1>6. CASE ~is_buy
  BY <1>4, <1>6 DEF BestPlace, Min
<1> QED BY <1>5, <1>6

LEMMA BestIs ==
  ASSUME NEW is_buy \in BOOLEAN, NEW T \in SUBSET Places, NEW x \in T,
         \A y \in T : IF is_buy THEN x >= y ELSE x <= y
  PROVE  BestPlace(is_buy, T) = x
<1>1. /\ BestPlace(is_buy, T) \in T
      /\ \A y \in T : IF is_buy THEN BestPlace(is_buy, T) >= y ELSE BestPlace(is_buy, T) <= y
  BY BestIn
<1>2. x \in Int /\ BestPlace(is_buy, T) \in Int
  <2>1. \A y \in T : y \in Int
    BY SizeFacts DEF Places
  <2> QED BY <1>1, <2>1
<1> QED BY <1>1, <1>2

(* The best of the bests of the blocks is the best of all. *)
LEMMA BlocksFacts ==
  ASSUME NEW is_buy \in BOOLEAN, NEW T \in SUBSET Places
  PROVE  /\ BlockBests(is_buy, T) \subseteq T
         /\ BestPlace(is_buy, BlockBests(is_buy, T)) = BestPlace(is_buy, T)
<1> DEFINE B == BlockBests(is_buy, T)
           Of(b) == {i \in T : i \div L2_BLOCK_W = b}
           bs == {i \div L2_BLOCK_W : i \in T}
<1>1. B = {BestPlace(is_buy, Of(b)) : b \in bs}
  BY DEF BlockBests
<1>2. \A b \in bs : /\ BestPlace(is_buy, Of(b)) \in Of(b)
                    /\ \A y \in Of(b) : IF is_buy THEN BestPlace(is_buy, Of(b)) >= y
                                        ELSE BestPlace(is_buy, Of(b)) <= y
  <2> TAKE b \in bs
  <2> DEFINE S == Of(b)
  <2>1. S \in SUBSET Places /\ S # {}
    OBVIOUS
  <2> HIDE DEF S
  <2> QED BY <2>1, BestIn DEF S
<1>3. B \subseteq T
  BY <1>1, <1>2
<1>4. CASE T = {}
  <2>1. B = {}
    BY <1>3, <1>4
  <2> QED BY <1>4, <2>1
<1>5. CASE T # {}
  <2> DEFINE x == BestPlace(is_buy, T)
  <2>1. x \in T /\ \A y \in T : IF is_buy THEN x >= y ELSE x <= y
    BY <1>5, BestIn
  <2> HIDE DEF x
  <2>2. x \in B
    <3> DEFINE b == x \div L2_BLOCK_W
    <3>1. b \in bs /\ x \in Of(b) /\ Of(b) \in SUBSET Places
      BY <2>1
    <3>2. BestPlace(is_buy, Of(b)) = x
      <4> DEFINE S == Of(b)
      <4>1. \A y \in S : IF is_buy THEN x >= y ELSE x <= y
        BY <2>1
      <4>2. S \in SUBSET Places /\ x \in S
        BY <3>1
      <4> HIDE DEF S
      <4> QED BY <4>1, <4>2, BestIs DEF S
    <3> QED BY <1>1, <3>1, <3>2
  <2>3. B \in SUBSET Places /\ \A y \in B : IF is_buy THEN x >= y ELSE x <= y
    BY <1>3, <2>1
  <2>4. BestPlace(is_buy, B) = x
    <3> HIDE DEF B
    <3> QED BY <2>2, <2>3, BestIs
  <2> QED BY <1>3, <2>4 DEF x
<1> QED BY <1>3, <1>4, <1>5
----------------------------------------------------------------------------
(* One half of the registers: two words, and the shares elsewhere.         *)

Word == [valid : BOOLEAN, price : Nat, shares : Nat]

HalfType == [arr : Word \X Word, out_size : Nat, out_size_in_range : Nat,
             updt_able : BOOLEAN, updt_able_in_range : BOOLEAN,
             updt_ing : BOOLEAN, updt_req : BOOLEAN]

(* The prices that are shown, all that are near enough for the table, and  *)
(* what levels not shown add up to.                                        *)
Shown(a, b) == {w.price : w \in {v \in {a, b} : v.valid}}

Near(is_buy) == {p \in Quotes(is_buy) : InTable(p)}

(* All levels but those shown are worse than the word. *)
Behind(is_buy, a, b, word, f) ==
  \A p \in Quotes(is_buy) \ Shown(a, b) : f[p] > 0 => Better(is_buy, word.price, p)

(* What the prices outside S add up to, of those in T. *)
Beyond(f, T, S) == Total(f, T \ S)

(* A word shows a level of f. *)
Right(is_buy, a, f) ==
  /\ a.valid => a.price \in Quotes(is_buy) /\ f[a.price] > 0 /\ a.shares = f[a.price]
  /\ ~a.valid => a.shares = 0

(* The words a and b show levels of f, none of those not shown is better,  *)
(* and o and n count the shares of these.                                  *)
Kept(is_buy, a, b, o, n, f) ==
  /\ a \in Word /\ b \in Word
  /\ Right(is_buy, a, f) /\ Right(is_buy, b, f)
  /\ b.valid => a.valid /\ Better(is_buy, a.price, b.price) /\ Behind(is_buy, a, b, b, f)
  /\ a.valid => Behind(is_buy, a, b, a, f)
  /\ ~a.valid => \A p \in Quotes(is_buy) : f[p] = 0
  /\ o = Beyond(f, Quotes(is_buy), Shown(a, b))
  /\ n = Beyond(f, Near(is_buy), Shown(a, b))

(* No level is missing, or the second is. *)
Full(is_buy, a, b, o, n, f) ==
  /\ Kept(is_buy, a, b, o, n, f)
  /\ ~b.valid => \A p \in Quotes(is_buy) \ Shown(a, b) : f[p] = 0

Short(is_buy, a, b, o, n, f) ==
  /\ Kept(is_buy, a, b, o, n, f)
  /\ ~b.valid /\ Behind(is_buy, a, b, b, f)

(* Sums of the levels outside S, when one level changes or S does. *)
LEMMA OutsideSums ==
  ASSUME NEW Q, IsFiniteSet(Q), NEW f \in [Q -> Nat], NEW g \in [Q -> Nat], NEW p \in Q,
         \A x \in Q : x # p => g[x] = f[x], NEW T \in SUBSET Q, NEW S
  PROVE  /\ p \in S => Beyond(g, T, S) = Beyond(f, T, S)
         /\ p \notin S => Beyond(g, T, S) = Beyond(f, T, S) + (IF p \in T THEN g[p] - f[p] ELSE 0)
<1>1. IsFiniteSet(T \ S) /\ \A x \in T \ S : f[x] \in Nat /\ g[x] \in Nat
  BY FS_Subset
<1> DEFINE R == T \ S
<1>2. CASE p \notin R
  <2>1. \A x \in R : f[x] = g[x]
    BY <1>2
  <2> HIDE DEF R
  <2>2. IsFiniteSet(R)
    BY <1>1 DEF R
  <2>3. Total(f, R) = Total(g, R)
    BY <2>1, <2>2, SumSame
  <2>4. Total(f, R) \in Nat
    BY <2>2, <1>1, SumType DEF R
  <2> QED BY <1>2, <2>3, <2>4 DEF R, Beyond
<1>3. CASE p \in R
  <2>1. \A x \in R \ {p} : f[x] = g[x]
    OBVIOUS
  <2> HIDE DEF R
  <2>2. IsFiniteSet(R) /\ \A x \in R : f[x] \in Nat /\ g[x] \in Nat
    BY <1>1 DEF R
  <2>3. Total(g, R) = Total(f, R) - f[p] + g[p]
    BY <1>3, <2>1, <2>2, SumChange
  <2>4. Total(f, R) \in Nat /\ f[p] \in Nat /\ g[p] \in Nat
    BY <2>2, SumType
  <2>5. p \in T /\ p \notin S
    BY <1>3 DEF R
  <2>6. Total(g, R) = Total(f, R) + (g[p] - f[p])
    BY <2>3, <2>4
  <2> QED BY <2>5, <2>6 DEF R, Beyond
<1> QED BY <1>2, <1>3

LEMMA FewerOutside ==
  ASSUME NEW Q, IsFiniteSet(Q), NEW f \in [Q -> Nat], NEW T \in SUBSET Q,
         NEW S, NEW q, q \notin S, NEW U, \A x : x \in U <=> x \in S \/ x = q
  PROVE  /\ q \in T => Beyond(f, T, S) = Beyond(f, T, U) + f[q]
         /\ q \notin T => Beyond(f, T, S) = Beyond(f, T, U)
         /\ Beyond(f, T, S) \in Nat /\ Beyond(f, T, U) \in Nat
<1> DEFINE R == T \ S
<1>1. IsFiniteSet(R) /\ \A x \in R : f[x] \in Nat
  BY FS_Subset
<1>2. T \ U = R \ {q}
  OBVIOUS
<1>3. IsFiniteSet(R \ {q}) /\ \A x \in R \ {q} : f[x] \in Nat
  BY <1>1, FS_Subset
<1>4. Total(f, R) \in Nat /\ Total(f, R \ {q}) \in Nat
  <2> HIDE DEF R
  <2> QED BY <1>1, <1>3, SumType
<1>5. CASE q \in T
  <2>1. q \in R /\ f[q] \in Nat
    BY <1>5
  <2> HIDE DEF R
  <2>2. Total(f, R) = f[q] + Total(f, R \ {q})
    BY <1>1, <2>1, SumRemove
  <2>3. Total(f, R) = Total(f, R \ {q}) + f[q]
    BY <1>4, <2>1, <2>2
  <2> QED BY <1>2, <1>4, <1>5, <2>3 DEF R, Beyond
<1>6. CASE q \notin T
  <2>1. R \ {q} = R
    BY <1>6
  <2> QED BY <1>2, <1>4, <1>6, <2>1 DEF Beyond
<1> QED BY <1>5, <1>6

LEMMA ShownHas ==
  ASSUME NEW a, NEW b
  PROVE  \A p : p \in Shown(a, b) <=> (a.valid /\ p = a.price) \/ (b.valid /\ p = b.price)
BY DEF Shown

NewWord(p, s) == [valid |-> TRUE, price |-> p, shares |-> s]

IsLevels(is_buy, f) == f \in [Quotes(is_buy) -> Nat]

(* f with shares more, or fewer, at a price. *)
Changed(is_buy, f, g, p) ==
  /\ IsLevels(is_buy, f) /\ IsLevels(is_buy, g) /\ p \in Quotes(is_buy)
  /\ \A q \in Quotes(is_buy) \ {p} : g[q] = f[q]

LEMMA WordFacts ==
  ASSUME NEW is_buy \in BOOLEAN, NEW a, NEW b, NEW o, NEW n, NEW f, IsLevels(is_buy, f),
         Kept(is_buy, a, b, o, n, f)
  PROVE  /\ a \in Word /\ b \in Word /\ o \in Nat /\ n \in Nat /\ n <= o
         /\ a.valid \in BOOLEAN /\ b.valid \in BOOLEAN
         /\ a.price \in Nat /\ b.price \in Nat /\ a.shares \in Nat /\ b.shares \in Nat
         /\ IsFiniteSet(Quotes(is_buy)) /\ Quotes(is_buy) \subseteq Nat
         /\ Near(is_buy) \subseteq Quotes(is_buy)
         /\ a.shares = 0 \/ (a.valid /\ a.shares = f[a.price])
         /\ b.shares = 0 \/ (b.valid /\ b.shares = f[b.price])
<1>1. IsFiniteSet(Quotes(is_buy)) /\ Quotes(is_buy) \subseteq Nat /\ Near(is_buy) \subseteq Quotes(is_buy)
  BY QuoteFacts DEF Near
<1>2. /\ a \in Word /\ b \in Word
      /\ a.shares = 0 \/ (a.valid /\ a.shares = f[a.price])
      /\ b.shares = 0 \/ (b.valid /\ b.shares = f[b.price])
  BY DEF Kept, Right
<1>3. /\ a.valid \in BOOLEAN /\ b.valid \in BOOLEAN
      /\ a.price \in Nat /\ b.price \in Nat /\ a.shares \in Nat /\ b.shares \in Nat
  BY <1>2 DEF Word
<1> DEFINE S == Quotes(is_buy) \ Shown(a, b)
           T == Near(is_buy) \ Shown(a, b)
<1>4. IsFiniteSet(S) /\ T \subseteq S /\ \A x \in S : f[x] \in Nat
  BY <1>1, FS_Subset DEF IsLevels
<1>5. o = Total(f, S) /\ n = Total(f, T)
  BY DEF Kept, Beyond
<1>6. IsFiniteSet(T) /\ \A x \in T : f[x] \in Nat
  <2> HIDE DEF S, T
  <2> QED BY <1>4, FS_Subset
<1>7. o \in Nat /\ n \in Nat /\ n <= o
  <2> HIDE DEF S, T
  <2> QED BY <1>4, <1>5, <1>6, SumType, SumPart
<1> QED BY <1>1, <1>2, <1>3, <1>7

NearPart(p, shares) == IF InTable(p) THEN shares ELSE 0

LEMMA ChangedSums ==
  ASSUME NEW is_buy \in BOOLEAN, NEW a, NEW b, NEW o, NEW n, NEW f, NEW g, NEW p,
         Kept(is_buy, a, b, o, n, f), Changed(is_buy, f, g, p)
  PROVE  /\ p \in Shown(a, b) => /\ Beyond(g, Quotes(is_buy), Shown(a, b)) = o
                                 /\ Beyond(g, Near(is_buy), Shown(a, b)) = n
         /\ p \notin Shown(a, b) =>
              /\ Beyond(g, Quotes(is_buy), Shown(a, b)) = o + (g[p] - f[p])
              /\ Beyond(g, Near(is_buy), Shown(a, b)) =
                   n + NearPart(p, g[p] - f[p])
<1> DEFINE Q == Quotes(is_buy)  N == Near(is_buy)  S == Shown(a, b)
<1>1. IsFiniteSet(Q) /\ Q \in SUBSET Q /\ N \in SUBSET Q /\ p \in Q /\ (p \in N <=> InTable(p))
  BY QuoteFacts DEF Near, Changed
<1>2. f \in [Q -> Nat] /\ g \in [Q -> Nat] /\ \A x \in Q : x # p => g[x] = f[x]
  BY DEF Changed, IsLevels
<1>3. o = Beyond(f, Q, S) /\ n = Beyond(f, N, S)
  BY DEF Kept
<1> HIDE DEF Q, N, S
<1>4. /\ p \in S => Beyond(g, Q, S) = Beyond(f, Q, S)
      /\ p \notin S => Beyond(g, Q, S) = Beyond(f, Q, S) + (IF p \in Q THEN g[p] - f[p] ELSE 0)
  BY <1>1, <1>2, OutsideSums
<1>5. /\ p \in S => Beyond(g, N, S) = Beyond(f, N, S)
      /\ p \notin S => Beyond(g, N, S) = Beyond(f, N, S) + (IF p \in N THEN g[p] - f[p] ELSE 0)
  BY <1>1, <1>2, OutsideSums
<1> QED BY <1>1, <1>3, <1>4, <1>5 DEF Q, N, S, NearPart

LEMMA ShownSums ==
  ASSUME NEW is_buy \in BOOLEAN, NEW a, NEW b, NEW o, NEW n, NEW f, NEW g, NEW p,
         Kept(is_buy, a, b, o, n, f), Changed(is_buy, f, g, p), p \in Shown(a, b)
  PROVE  /\ Beyond(g, Quotes(is_buy), Shown(a, b)) = o
         /\ Beyond(g, Near(is_buy), Shown(a, b)) = n
BY ChangedSums

LEMMA UnshownSums ==
  ASSUME NEW is_buy \in BOOLEAN, NEW a, NEW b, NEW o, NEW n, NEW f, NEW g, NEW p,
         Kept(is_buy, a, b, o, n, f), Changed(is_buy, f, g, p), p \notin Shown(a, b)
  PROVE  /\ Beyond(g, Quotes(is_buy), Shown(a, b)) = o + (g[p] - f[p])
         /\ Beyond(g, Near(is_buy), Shown(a, b)) = n + NearPart(p, g[p] - f[p])
BY ChangedSums

LEMMA SameShown ==
  ASSUME NEW a, NEW b, NEW c, NEW d, a.valid = c.valid, b.valid = d.valid,
         a.price = c.price, b.price = d.price
  PROVE  Shown(a, b) = Shown(c, d)
<1>1. \A x : x \in Shown(a, b) <=> (a.valid /\ x = a.price) \/ (b.valid /\ x = b.price)
  BY ShownHas
<1>2. \A x : x \in Shown(c, d) <=> (c.valid /\ x = c.price) \/ (d.valid /\ x = d.price)
  BY ShownHas
<1>3. \A x : x \in Shown(a, b) <=> x \in Shown(c, d)
  <2> TAKE x
  <2> QED BY <1>1, <1>2
<1> QED BY <1>3, Zenon

(* A level shown has other shares, but some. *)
LEMMA FirstModified ==
  ASSUME NEW is_buy \in BOOLEAN, NEW a, NEW b, NEW o, NEW n, NEW f, NEW g, NEW p,
         Full(is_buy, a, b, o, n, f), Changed(is_buy, f, g, p), a.valid, p = a.price, g[p] > 0
  PROVE  Full(is_buy, [a EXCEPT !.shares = g[p]], b, o, n, g)
<1> DEFINE a2 == [a EXCEPT !.shares = g[p]]
<1>1. Kept(is_buy, a, b, o, n, f) /\ IsLevels(is_buy, f) /\ IsLevels(is_buy, g)
  BY DEF Full, Changed
<1>2. /\ a2 \in Word /\ a2.valid /\ a2.price = p /\ a2.shares = g[p]
      /\ Shown(a2, b) = Shown(a, b) /\ p \in Shown(a, b) /\ p \in Quotes(is_buy)
  <2>1. a \in Word /\ g[p] \in Nat
    BY <1>1, WordFacts DEF Changed, IsLevels
  <2>2. a2 \in Word /\ a2.valid /\ a2.price = p /\ a2.shares = g[p]
    BY <2>1 DEF Word
  <2>3. a2.valid = a.valid /\ a2.price = a.price
    BY <2>1 DEF a2, Word
  <2> HIDE DEF a2
  <2>4. p \in Shown(a, b) /\ p \in Quotes(is_buy)
    BY ShownHas DEF Changed
  <2>5. Shown(a2, b) = Shown(a, b)
    BY ONLY <2>3, SameShown
  <2> QED BY <2>2, <2>4, <2>5
<1> HIDE DEF a2
<1>3. /\ Beyond(g, Quotes(is_buy), Shown(a, b)) = o
      /\ Beyond(g, Near(is_buy), Shown(a, b)) = n
  BY ONLY <1>1, <1>2, is_buy \in BOOLEAN, Changed(is_buy, f, g, p), ShownSums
<1>4. b.valid => b.price # p /\ b.price \in Quotes(is_buy)
  BY <1>1, WordFacts DEF Kept, Right, Better
<1>5. \A q \in Quotes(is_buy) \ Shown(a, b) : g[q] = f[q]
  BY <1>2 DEF Changed
<1>6. Kept(is_buy, a2, b, o, n, g)
  BY <1>1, <1>2, <1>3, <1>4, <1>5 DEF Kept, Right, Behind, Changed
<1> QED BY <1>2, <1>5, <1>6 DEF Full, a2

LEMMA SecondModified ==
  ASSUME NEW is_buy \in BOOLEAN, NEW a, NEW b, NEW o, NEW n, NEW f, NEW g, NEW p,
         Full(is_buy, a, b, o, n, f), Changed(is_buy, f, g, p), b.valid, p = b.price, g[p] > 0
  PROVE  Full(is_buy, a, [b EXCEPT !.shares = g[p]], o, n, g)
<1> DEFINE b2 == [b EXCEPT !.shares = g[p]]
<1>1. Kept(is_buy, a, b, o, n, f) /\ IsLevels(is_buy, f) /\ IsLevels(is_buy, g)
  BY DEF Full, Changed
<1>2. /\ b2 \in Word /\ b2.valid /\ b2.price = p /\ b2.shares = g[p]
      /\ Shown(a, b2) = Shown(a, b) /\ p \in Shown(a, b) /\ p \in Quotes(is_buy)
  <2>1. b \in Word /\ g[p] \in Nat
    BY <1>1, WordFacts DEF Changed, IsLevels
  <2>2. b2 \in Word /\ b2.valid /\ b2.price = p /\ b2.shares = g[p]
    BY <2>1 DEF Word
  <2>3. b2.valid = b.valid /\ b2.price = b.price
    BY <2>1 DEF b2, Word
  <2> HIDE DEF b2
  <2>4. p \in Shown(a, b) /\ p \in Quotes(is_buy)
    BY ShownHas DEF Changed
  <2>5. Shown(a, b2) = Shown(a, b)
    BY ONLY <2>3, SameShown
  <2> QED BY <2>2, <2>4, <2>5
<1> HIDE DEF b2
<1>3. /\ Beyond(g, Quotes(is_buy), Shown(a, b)) = o
      /\ Beyond(g, Near(is_buy), Shown(a, b)) = n
  BY ONLY <1>1, <1>2, is_buy \in BOOLEAN, Changed(is_buy, f, g, p), ShownSums
<1>4. a.valid /\ a.price # p /\ a.price \in Quotes(is_buy)
  BY <1>1, WordFacts DEF Kept, Right, Better
<1>5. \A q \in Quotes(is_buy) \ Shown(a, b) : g[q] = f[q]
  BY <1>2 DEF Changed
<1>6. Kept(is_buy, a, b2, o, n, g)
  BY <1>1, <1>2, <1>3, <1>4, <1>5 DEF Kept, Right, Behind, Changed
<1> QED BY <1>2, <1>6 DEF Full, b2

(* A level not shown, worse than both words, has other shares. *)
LEMMA OutsideModified ==
  ASSUME NEW is_buy \in BOOLEAN, NEW a, NEW b, NEW o, NEW n, NEW f, NEW g, NEW p,
         Full(is_buy, a, b, o, n, f), Changed(is_buy, f, g, p), a.valid, b.valid,
         Better(is_buy, b.price, p)
  PROVE  Full(is_buy, a, b, o + (g[p] - f[p]), n + NearPart(p, g[p] - f[p]), g)
<1>1. Kept(is_buy, a, b, o, n, f) /\ IsLevels(is_buy, f) /\ IsLevels(is_buy, g)
  BY DEF Full, Changed
<1>2. /\ a.price \in Nat /\ b.price \in Nat /\ p \in Nat /\ p \in Quotes(is_buy)
      /\ Better(is_buy, a.price, b.price)
      /\ \A x : x \in Shown(a, b) <=> x \in {a.price, b.price}
  <2>1. a.price \in Nat /\ b.price \in Nat /\ Quotes(is_buy) \subseteq Nat
    BY <1>1, WordFacts
  <2>2. \A x : x \in Shown(a, b) <=> (a.valid /\ x = a.price) \/ (b.valid /\ x = b.price)
    BY ShownHas
  <2> QED BY <1>1, <2>1, <2>2 DEF Kept, Changed
<1>3. Better(is_buy, a.price, p) /\ p \notin Shown(a, b) /\ p # a.price /\ p # b.price
  BY <1>2 DEF Better
<1>4. /\ Beyond(g, Quotes(is_buy), Shown(a, b)) = o + (g[p] - f[p])
      /\ Beyond(g, Near(is_buy), Shown(a, b)) = n + NearPart(p, g[p] - f[p])
  BY ONLY <1>1, <1>3, is_buy \in BOOLEAN, Changed(is_buy, f, g, p), UnshownSums
<1>6. \A q \in Quotes(is_buy) : q # p => g[q] = f[q]
  BY DEF Changed
<1>7. Kept(is_buy, a, b, o + (g[p] - f[p]), n + NearPart(p, g[p] - f[p]), g)
  BY <1>1, <1>2, <1>3, <1>4, <1>6 DEF Kept, Right, Behind
<1> QED BY <1>7 DEF Full

(* A level that was none is shown, and one shown till then perhaps not. *)
LEMMA HereSums ==
  ASSUME NEW Q, IsFiniteSet(Q), NEW f \in [Q -> Nat], NEW g \in [Q -> Nat], NEW p \in Q,
         \A x \in Q : x # p => g[x] = f[x], NEW T \in SUBSET Q, NEW S, p \in S
  PROVE  Beyond(g, T, S) = Beyond(f, T, S)
BY OutsideSums

LEMMA GrowSums ==
  ASSUME NEW is_buy \in BOOLEAN, NEW f, NEW g, NEW p, Changed(is_buy, f, g, p), f[p] = 0,
         NEW T \in SUBSET Quotes(is_buy), NEW S, p \notin S, NEW U, \A x : x \in U <=> x \in S \/ x = p
  PROVE  Beyond(g, T, U) = Beyond(f, T, S) /\ Beyond(g, T, U) \in Nat
<1> DEFINE Q == Quotes(is_buy)
<1>1. /\ IsFiniteSet(Q) /\ T \in SUBSET Q /\ p \in Q /\ p \in U
      /\ f \in [Q -> Nat] /\ g \in [Q -> Nat] /\ \A x \in Q : x # p => g[x] = f[x]
  BY QuoteFacts DEF Changed, IsLevels
<1> HIDE DEF Q
<1>2. Beyond(g, T, U) = Beyond(f, T, U)
  BY ONLY <1>1, HereSums
<1>3. /\ p \in T => Beyond(f, T, S) = Beyond(f, T, U) + f[p]
      /\ p \notin T => Beyond(f, T, S) = Beyond(f, T, U)
      /\ Beyond(f, T, S) \in Nat /\ Beyond(f, T, U) \in Nat
  BY ONLY <1>1, p \notin S, \A x : x \in U <=> x \in S \/ x = p, FewerOutside
<1> QED BY <1>2, <1>3

LEMMA SwapSums ==
  ASSUME NEW is_buy \in BOOLEAN, NEW f, NEW g, NEW p, Changed(is_buy, f, g, p), f[p] = 0,
         NEW T \in SUBSET Quotes(is_buy), NEW S, p \notin S, NEW R,
         NEW q \in Quotes(is_buy), q \notin R, q # p,
         \A x : x \in R \/ x = q <=> x \in S \/ x = p
  PROVE  Beyond(g, T, R) = Beyond(f, T, S) + (IF q \in T THEN f[q] ELSE 0)
<1> DEFINE Q == Quotes(is_buy)
           U == S \cup {p}
<1>1. IsFiniteSet(Q) /\ T \in SUBSET Q /\ g \in [Q -> Nat]
  BY QuoteFacts DEF Changed, IsLevels
<1>2. (\A x : x \in U <=> x \in S \/ x = p) /\ \A x : x \in U <=> x \in R \/ x = q
  OBVIOUS
<1> HIDE DEF Q, U
<1>3. Beyond(g, T, U) = Beyond(f, T, S) /\ Beyond(g, T, U) \in Nat
  BY <1>2, GrowSums
<1>4. /\ q \in T => Beyond(g, T, R) = Beyond(g, T, U) + g[q]
      /\ q \notin T => Beyond(g, T, R) = Beyond(g, T, U)
      /\ Beyond(g, T, R) \in Nat /\ Beyond(g, T, U) \in Nat
  BY ONLY <1>1, <1>2, q \notin R, FewerOutside
<1>5. g[q] = f[q]
  BY DEF Changed
<1> QED BY <1>3, <1>4, <1>5

(* The level of a new price is better than the second word's, if it has    *)
(* one: it takes a place, and the second word's joins those not shown.     *)
LEMMA Joins ==
  ASSUME NEW is_buy \in BOOLEAN, NEW a, NEW b, NEW o, NEW n, NEW f, NEW g, NEW p,
         Full(is_buy, a, b, o, n, f), Changed(is_buy, f, g, p), g[p] > 0,
         ~b.valid \/ Better(is_buy, p, b.price), a.valid => p # a.price,
         NEW c, NEW d, \/ c = NewWord(p, g[p]) /\ d = a
                       \/ c = a /\ d = NewWord(p, g[p])
  PROVE  /\ f[p] = 0 /\ p \notin Shown(a, b)
         /\ Beyond(g, Quotes(is_buy), Shown(c, d)) = o + b.shares
         /\ Beyond(g, Near(is_buy), Shown(c, d)) = n + NearPart(b.price, b.shares)
<1> DEFINE S == Shown(a, b)
           R == Shown(c, d)
<1>1. Kept(is_buy, a, b, o, n, f)
  BY DEF Full
<1>2. /\ a.valid \in BOOLEAN /\ b.valid \in BOOLEAN /\ o \in Nat /\ n \in Nat
      /\ a.price \in Nat /\ b.price \in Nat /\ b.shares \in Nat
      /\ p \in Nat /\ p \in Quotes(is_buy) /\ IsFiniteSet(Quotes(is_buy))
      /\ f[p] \in Nat /\ Near(is_buy) \subseteq Quotes(is_buy)
  BY <1>1, WordFacts DEF Changed, IsLevels
<1>3. \A x : x \in S <=> (a.valid /\ x = a.price) \/ (b.valid /\ x = b.price)
  BY ShownHas
<1>4. \A x : x \in R <=> x = p \/ (a.valid /\ x = a.price)
  <2>1. \A x : x \in R <=> (c.valid /\ x = c.price) \/ (d.valid /\ x = d.price)
    BY ShownHas
  <2>2. NewWord(p, g[p]).valid /\ NewWord(p, g[p]).price = p
    BY DEF NewWord
  <2> HIDE DEF R
  <2> QED BY <2>1, <2>2
<1>5. p \notin S
  BY <1>2, <1>3 DEF Better
<1>6. f[p] = 0
  <2>1. CASE b.valid
    <3>1. Behind(is_buy, a, b, b, f)
      BY <1>1, <2>1 DEF Kept
    <3> QED BY <1>2, <1>5, <2>1, <3>1 DEF Behind, Better
  <2>2. CASE ~b.valid
    BY <1>2, <1>5, <2>2 DEF Full
  <2> QED BY <2>1, <2>2
<1> HIDE DEF S, R
<1>7. ASSUME NEW T \in SUBSET Quotes(is_buy)
      PROVE  Beyond(g, T, R) = Beyond(f, T, S) + (IF b.price \in T THEN b.shares ELSE 0)
  <2>1. CASE b.valid
    <3>1. /\ b.price \in Quotes(is_buy) /\ b.shares = f[b.price] /\ b.price # p
          /\ a.valid => b.price # a.price
      BY <1>1, <1>2, <2>1 DEF Kept, Right, Better
    <3>2. b.price \notin R
      BY <1>4, <3>1
    <3>3. \A x : x \in R \/ x = b.price <=> x \in S \/ x = p
      BY <1>3, <1>4, <2>1
    <3> DEFINE q == b.price
    <3>4. q \in Quotes(is_buy) /\ q # p /\ q \notin R /\ \A x : x \in R \/ x = q <=> x \in S \/ x = p
      BY <3>1, <3>2, <3>3
    <3> HIDE DEF q
    <3>5. Beyond(g, T, R) = Beyond(f, T, S) + (IF q \in T THEN f[q] ELSE 0)
      BY ONLY <1>5, <1>6, <3>4, is_buy \in BOOLEAN, Changed(is_buy, f, g, p),
              T \in SUBSET Quotes(is_buy), SwapSums
    <3> QED BY <3>1, <3>5 DEF q
  <2>2. CASE ~b.valid
    <3>1. b.shares = 0
      BY <1>1, <2>2 DEF Kept, Right
    <3>2. \A x : x \in R <=> x \in S \/ x = p
      BY <1>3, <1>4, <2>2
    <3>3. Beyond(g, T, R) = Beyond(f, T, S)
      BY ONLY <1>5, <1>6, <3>2, is_buy \in BOOLEAN, Changed(is_buy, f, g, p),
          T \in SUBSET Quotes(is_buy), GrowSums
    <3>4. Beyond(f, T, S) \in Nat
      <4>1. IsFiniteSet(T \ S) /\ \A x \in T \ S : f[x] \in Nat
        BY <1>2, FS_Subset DEF Changed, IsLevels
      <4> QED BY <4>1, SumType DEF Beyond
    <3> QED BY <3>1, <3>3, <3>4
  <2> QED BY <1>2, <2>1, <2>2
<1>8. Beyond(g, Quotes(is_buy), R) = o + b.shares
  <2>1. Beyond(g, Quotes(is_buy), R) =
          Beyond(f, Quotes(is_buy), S) + (IF b.price \in Quotes(is_buy) THEN b.shares ELSE 0)
    BY <1>7
  <2>2. b.price \in Quotes(is_buy) \/ b.shares = 0
    BY <1>1, <1>2 DEF Kept, Right
  <2>3. o = Beyond(f, Quotes(is_buy), S)
    BY <1>1 DEF Kept, S
  <2> QED BY <1>2, <2>1, <2>2, <2>3
<1>9. Beyond(g, Near(is_buy), R) = n + NearPart(b.price, b.shares)
  <2>1. Beyond(g, Near(is_buy), R) =
          Beyond(f, Near(is_buy), S) + (IF b.price \in Near(is_buy) THEN b.shares ELSE 0)
    BY <1>2, <1>7
  <2>2. b.price \in Quotes(is_buy) \/ b.shares = 0
    BY <1>1, <1>2 DEF Kept, Right
  <2>3. n = Beyond(f, Near(is_buy), S)
    BY <1>1 DEF Kept, S
  <2>4. (IF b.price \in Near(is_buy) THEN b.shares ELSE 0) = NearPart(b.price, b.shares)
    BY <1>2, <2>2 DEF Near, NearPart
  <2> QED BY <2>1, <2>3, <2>4
<1> QED BY <1>5, <1>6, <1>8, <1>9 DEF S, R

LEMMA FirstInserted ==
  ASSUME NEW is_buy \in BOOLEAN, NEW a, NEW b, NEW o, NEW n, NEW f, NEW g, NEW p,
         Full(is_buy, a, b, o, n, f), Changed(is_buy, f, g, p), g[p] > 0,
         ~a.valid \/ Better(is_buy, p, a.price)
  PROVE  /\ f[p] = 0
         /\ Full(is_buy, NewWord(p, g[p]), a, o + b.shares, n + NearPart(b.price, b.shares), g)
<1> DEFINE w == NewWord(p, g[p])
<1>1. Kept(is_buy, a, b, o, n, f)
  BY DEF Full
<1>2. /\ a \in Word /\ a.valid \in BOOLEAN /\ b.valid \in BOOLEAN /\ p \in Nat /\ g[p] \in Nat
      /\ a.price \in Nat /\ b.price \in Nat /\ p \in Quotes(is_buy) /\ Quotes(is_buy) \subseteq Nat
      /\ \A q \in Quotes(is_buy) : f[q] \in Nat /\ g[q] \in Nat
  BY <1>1, WordFacts DEF Changed, IsLevels
<1>3. (~b.valid \/ Better(is_buy, p, b.price)) /\ (a.valid => p # a.price)
  BY <1>1, <1>2 DEF Kept, Better
<1>4. w \in Word /\ w.valid /\ w.price = p /\ w.shares = g[p]
  BY <1>2 DEF NewWord, Word
<1>5. /\ f[p] = 0 /\ p \notin Shown(a, b)
      /\ Beyond(g, Quotes(is_buy), Shown(w, a)) = o + b.shares
      /\ Beyond(g, Near(is_buy), Shown(w, a)) = n + NearPart(b.price, b.shares)
  <2>1. \/ w = NewWord(p, g[p]) /\ a = a
        \/ w = a /\ a = NewWord(p, g[p])
    OBVIOUS
  <2> HIDE DEF w
  <2> QED BY <1>3, <2>1, Joins
<1> HIDE DEF w
<1>6. \A q \in Quotes(is_buy) : q # p => g[q] = f[q]
  BY DEF Changed
<1>7. \A x : /\ x \in Shown(w, a) <=> x = p \/ (a.valid /\ x = a.price)
             /\ x \in Shown(a, b) <=> (a.valid /\ x = a.price) \/ (b.valid /\ x = b.price)
  <2>1. \A x : x \in Shown(w, a) <=> (w.valid /\ x = w.price) \/ (a.valid /\ x = a.price)
    BY ShownHas
  <2>2. \A x : x \in Shown(a, b) <=> (a.valid /\ x = a.price) \/ (b.valid /\ x = b.price)
    BY ShownHas
  <2> QED BY <1>4, <2>1, <2>2
(* What is not shown now is worse than the first word was. *)
<1>8. a.valid => \A q \in Quotes(is_buy) \ Shown(w, a) : g[q] > 0 => Better(is_buy, a.price, q)
  <2> SUFFICES ASSUME a.valid, NEW q \in Quotes(is_buy) \ Shown(w, a), g[q] > 0
               PROVE  Better(is_buy, a.price, q)
    OBVIOUS
  <2>1. q # p /\ q # a.price /\ f[q] > 0
    BY <1>6, <1>7
  <2>2. CASE q \in Shown(a, b)
    BY <1>1, <1>7, <2>1, <2>2 DEF Kept
  <2>3. CASE q \notin Shown(a, b)
    BY <1>1, <2>1, <2>3 DEF Kept, Behind
  <2> QED BY <2>2, <2>3
<1>9. ~a.valid => \A q \in Quotes(is_buy) \ Shown(w, a) : g[q] = 0
  BY <1>1, <1>6, <1>7 DEF Kept
<1>10. Behind(is_buy, w, a, w, g)
  <2> SUFFICES ASSUME NEW q \in Quotes(is_buy) \ Shown(w, a), g[q] > 0 PROVE Better(is_buy, p, q)
    BY <1>4 DEF Behind
  <2>1. a.valid /\ Better(is_buy, a.price, q) /\ q \in Nat
    BY <1>2, <1>8, <1>9
  <2> QED BY <1>2, <2>1 DEF Better
<1>11. Right(is_buy, w, g) /\ Right(is_buy, a, g)
  BY <1>1, <1>2, <1>3, <1>4, <1>6 DEF Kept, Right
<1>12. Kept(is_buy, w, a, o + b.shares, n + NearPart(b.price, b.shares), g)
  <2>1. a.valid => Better(is_buy, w.price, a.price) /\ Behind(is_buy, w, a, a, g)
    BY <1>4, <1>8 DEF Behind
  <2> QED BY <1>2, <1>4, <1>5, <1>10, <1>11, <2>1 DEF Kept
<1> QED BY <1>5, <1>9, <1>12 DEF Full, w

LEMMA SecondInserted ==
  ASSUME NEW is_buy \in BOOLEAN, NEW a, NEW b, NEW o, NEW n, NEW f, NEW g, NEW p,
         Full(is_buy, a, b, o, n, f), Changed(is_buy, f, g, p), g[p] > 0,
         a.valid, p # a.price, ~Better(is_buy, p, a.price), ~b.valid \/ Better(is_buy, p, b.price)
  PROVE  /\ f[p] = 0
         /\ Full(is_buy, a, NewWord(p, g[p]), o + b.shares, n + NearPart(b.price, b.shares), g)
<1> DEFINE w == NewWord(p, g[p])
<1>1. Kept(is_buy, a, b, o, n, f)
  BY DEF Full
<1>2. /\ a \in Word /\ a.valid \in BOOLEAN /\ b.valid \in BOOLEAN /\ p \in Nat /\ g[p] \in Nat
      /\ a.price \in Nat /\ b.price \in Nat /\ p \in Quotes(is_buy) /\ Quotes(is_buy) \subseteq Nat
      /\ \A q \in Quotes(is_buy) : f[q] \in Nat /\ g[q] \in Nat
  BY <1>1, WordFacts DEF Changed, IsLevels
<1>4. w \in Word /\ w.valid /\ w.price = p /\ w.shares = g[p]
  BY <1>2 DEF NewWord, Word
<1>5. /\ f[p] = 0 /\ p \notin Shown(a, b)
      /\ Beyond(g, Quotes(is_buy), Shown(a, w)) = o + b.shares
      /\ Beyond(g, Near(is_buy), Shown(a, w)) = n + NearPart(b.price, b.shares)
  <2>1. \/ a = NewWord(p, g[p]) /\ w = a
        \/ a = a /\ w = NewWord(p, g[p])
    OBVIOUS
  <2> HIDE DEF w
  <2> QED BY <2>1, Joins
<1> HIDE DEF w
<1>6. \A q \in Quotes(is_buy) : q # p => g[q] = f[q]
  BY DEF Changed
<1>7. \A x : /\ x \in Shown(a, w) <=> x = p \/ x = a.price
             /\ x \in Shown(a, b) <=> x = a.price \/ (b.valid /\ x = b.price)
  <2>1. \A x : x \in Shown(a, w) <=> (a.valid /\ x = a.price) \/ (w.valid /\ x = w.price)
    BY ShownHas
  <2>2. \A x : x \in Shown(a, b) <=> (a.valid /\ x = a.price) \/ (b.valid /\ x = b.price)
    BY ShownHas
  <2> QED BY <1>4, <2>1, <2>2
<1>8. ASSUME NEW q \in Quotes(is_buy) \ Shown(a, w), g[q] > 0
      PROVE  Better(is_buy, a.price, q) /\ Better(is_buy, p, q)
  <2>1. q # p /\ q # a.price /\ f[q] > 0 /\ q \in Nat
    BY <1>2, <1>6, <1>7, <1>8
  <2>2. CASE q \in Shown(a, b)
    BY <1>1, <1>7, <2>1, <2>2 DEF Kept
  <2>3. CASE q \notin Shown(a, b)
    <3>1. b.valid
      BY <2>1, <2>3 DEF Full
    <3>2. Better(is_buy, a.price, q) /\ Better(is_buy, b.price, q) /\ Better(is_buy, p, b.price)
      BY <1>1, <2>1, <2>3, <3>1 DEF Kept, Behind
    <3> QED BY <1>2, <2>1, <3>2 DEF Better
  <2> QED BY <2>2, <2>3
<1>9. Behind(is_buy, a, w, a, g) /\ Behind(is_buy, a, w, w, g)
  BY <1>4, <1>8 DEF Behind
<1>10. Right(is_buy, w, g) /\ Right(is_buy, a, g)
  BY <1>1, <1>2, <1>4, <1>6 DEF Kept, Right
<1>11. Better(is_buy, a.price, w.price)
  BY <1>2, <1>4 DEF Better
<1>12. Kept(is_buy, a, w, o + b.shares, n + NearPart(b.price, b.shares), g)
  BY <1>2, <1>4, <1>5, <1>9, <1>10, <1>11 DEF Kept
<1> QED BY <1>4, <1>5, <1>12 DEF Full, w

(* A level shown is gone. *)
LEMMA DropSums ==
  ASSUME NEW is_buy \in BOOLEAN, NEW f, NEW g, NEW p, Changed(is_buy, f, g, p), g[p] = 0,
         NEW T \in SUBSET Quotes(is_buy), NEW S, NEW R, p \notin R, \A x : x \in S <=> x \in R \/ x = p
  PROVE  Beyond(g, T, R) = Beyond(f, T, S)
<1> DEFINE Q == Quotes(is_buy)
<1>1. /\ IsFiniteSet(Q) /\ T \in SUBSET Q /\ p \in Q /\ p \in S
      /\ f \in [Q -> Nat] /\ g \in [Q -> Nat] /\ \A x \in Q : x # p => g[x] = f[x]
  BY QuoteFacts DEF Changed, IsLevels
<1> HIDE DEF Q
<1>2. Beyond(g, T, S) = Beyond(f, T, S)
  BY ONLY <1>1, HereSums
<1>3. /\ p \in T => Beyond(g, T, R) = Beyond(g, T, S) + g[p]
      /\ p \notin T => Beyond(g, T, R) = Beyond(g, T, S)
      /\ Beyond(g, T, R) \in Nat /\ Beyond(g, T, S) \in Nat
  BY ONLY <1>1, p \notin R, \A x : x \in S <=> x \in R \/ x = p, FewerOutside
<1> QED BY <1>2, <1>3

LEMMA ClearedFacts ==
  ASSUME NEW b \in Word
  PROVE  /\ Cleared(b) \in Word /\ ~Cleared(b).valid
         /\ Cleared(b).price = b.price /\ Cleared(b).shares = 0
BY DEF Cleared, Word

LEMMA FirstDeleted ==
  ASSUME NEW is_buy \in BOOLEAN, NEW a, NEW b, NEW o, NEW n, NEW f, NEW g, NEW p,
         Full(is_buy, a, b, o, n, f), Changed(is_buy, f, g, p), a.valid, p = a.price, g[p] = 0
  PROVE  Short(is_buy, b, Cleared(b), o, n, g)
<1> DEFINE c == Cleared(b)
<1>1. Kept(is_buy, a, b, o, n, f)
  BY DEF Full
<1>2. /\ b \in Word /\ a.valid \in BOOLEAN /\ b.valid \in BOOLEAN /\ p \in Nat
      /\ a.price \in Nat /\ b.price \in Nat /\ p \in Quotes(is_buy) /\ Quotes(is_buy) \subseteq Nat
      /\ Near(is_buy) \subseteq Quotes(is_buy)
      /\ \A q \in Quotes(is_buy) : f[q] \in Nat /\ g[q] \in Nat
  BY <1>1, WordFacts DEF Changed, IsLevels
<1>3. c \in Word /\ ~c.valid /\ c.price = b.price /\ c.shares = 0
  BY <1>2, ClearedFacts
<1> HIDE DEF c
<1>4. \A x : x \in Shown(b, c) <=> b.valid /\ x = b.price
  <2>1. \A x : x \in Shown(b, c) <=> (b.valid /\ x = b.price) \/ (c.valid /\ x = c.price)
    BY ShownHas
  <2> QED BY <1>3, <2>1
<1>5. \A x : x \in Shown(a, b) <=> x = p \/ (b.valid /\ x = b.price)
  <2>1. \A x : x \in Shown(a, b) <=> (a.valid /\ x = a.price) \/ (b.valid /\ x = b.price)
    BY ShownHas
  <2> QED BY <2>1
<1>6. b.valid => b.price # p
  BY <1>1, <1>2 DEF Kept, Better
<1>7. p \notin Shown(b, c) /\ \A x : x \in Shown(a, b) <=> x \in Shown(b, c) \/ x = p
  BY <1>4, <1>5, <1>6
<1>8. ASSUME NEW T \in SUBSET Quotes(is_buy)
      PROVE  Beyond(g, T, Shown(b, c)) = Beyond(f, T, Shown(a, b))
  BY ONLY <1>7, <1>8, is_buy \in BOOLEAN, Changed(is_buy, f, g, p), g[p] = 0, DropSums
<1>9. /\ Beyond(g, Quotes(is_buy), Shown(b, c)) = o
      /\ Beyond(g, Near(is_buy), Shown(b, c)) = n
  BY <1>1, <1>2, <1>8 DEF Kept
<1>10. \A q \in Quotes(is_buy) : q # p => g[q] = f[q]
  BY DEF Changed
<1>11. ASSUME NEW q \in Quotes(is_buy) \ Shown(b, c), g[q] > 0
       PROVE  b.valid /\ Better(is_buy, b.price, q)
  <2>1. q # p /\ f[q] > 0 /\ q \in Quotes(is_buy) \ Shown(a, b)
    BY <1>2, <1>7, <1>10, <1>11
  <2>2. b.valid
    BY <2>1 DEF Full
  <2> QED BY <1>1, <2>1, <2>2 DEF Kept, Behind
<1>12. ~b.valid => \A q \in Quotes(is_buy) : g[q] = 0
  BY <1>2, <1>4, <1>11
<1>13. Behind(is_buy, b, c, b, g) /\ Behind(is_buy, b, c, c, g)
  BY <1>3, <1>11 DEF Behind
<1>14. Right(is_buy, b, g) /\ Right(is_buy, c, g)
  BY <1>1, <1>3, <1>6, <1>10 DEF Kept, Right
<1>15. Kept(is_buy, b, c, o, n, g)
  BY <1>2, <1>3, <1>9, <1>12, <1>13, <1>14 DEF Kept
<1> QED BY <1>3, <1>13, <1>15 DEF Short, c

LEMMA SecondDeleted ==
  ASSUME NEW is_buy \in BOOLEAN, NEW a, NEW b, NEW o, NEW n, NEW f, NEW g, NEW p,
         Full(is_buy, a, b, o, n, f), Changed(is_buy, f, g, p), b.valid, p = b.price, g[p] = 0
  PROVE  Short(is_buy, a, Cleared(b), o, n, g)
<1> DEFINE c == Cleared(b)
<1>1. Kept(is_buy, a, b, o, n, f) /\ a.valid
  BY DEF Full, Kept
<1>2. /\ a \in Word /\ b \in Word /\ p \in Nat
      /\ a.price \in Nat /\ b.price \in Nat /\ p \in Quotes(is_buy) /\ Quotes(is_buy) \subseteq Nat
      /\ Near(is_buy) \subseteq Quotes(is_buy)
      /\ \A q \in Quotes(is_buy) : f[q] \in Nat /\ g[q] \in Nat
  BY <1>1, WordFacts DEF Changed, IsLevels
<1>3. c \in Word /\ ~c.valid /\ c.price = b.price /\ c.shares = 0
  BY <1>2, ClearedFacts
<1> HIDE DEF c
<1>4. \A x : x \in Shown(a, c) <=> x = a.price
  <2>1. \A x : x \in Shown(a, c) <=> (a.valid /\ x = a.price) \/ (c.valid /\ x = c.price)
    BY ShownHas
  <2> QED BY <1>1, <1>3, <2>1
<1>5. \A x : x \in Shown(a, b) <=> x = a.price \/ x = p
  <2>1. \A x : x \in Shown(a, b) <=> (a.valid /\ x = a.price) \/ (b.valid /\ x = b.price)
    BY ShownHas
  <2> QED BY <1>1, <2>1
<1>6. a.price # p
  BY <1>1, <1>2 DEF Kept, Better
<1>7. p \notin Shown(a, c) /\ \A x : x \in Shown(a, b) <=> x \in Shown(a, c) \/ x = p
  BY <1>4, <1>5, <1>6
<1>8. ASSUME NEW T \in SUBSET Quotes(is_buy)
      PROVE  Beyond(g, T, Shown(a, c)) = Beyond(f, T, Shown(a, b))
  BY ONLY <1>7, <1>8, is_buy \in BOOLEAN, Changed(is_buy, f, g, p), g[p] = 0, DropSums
<1>9. /\ Beyond(g, Quotes(is_buy), Shown(a, c)) = o
      /\ Beyond(g, Near(is_buy), Shown(a, c)) = n
  BY <1>1, <1>2, <1>8 DEF Kept
<1>10. \A q \in Quotes(is_buy) : q # p => g[q] = f[q]
  BY DEF Changed
<1>11. ASSUME NEW q \in Quotes(is_buy) \ Shown(a, c), g[q] > 0
       PROVE  Better(is_buy, a.price, q) /\ Better(is_buy, b.price, q)
  <2>1. q # p /\ f[q] > 0 /\ q \in Quotes(is_buy) \ Shown(a, b)
    BY <1>2, <1>7, <1>10, <1>11
  <2> QED BY <1>1, <2>1 DEF Kept, Behind
<1>12. Behind(is_buy, a, c, a, g) /\ Behind(is_buy, a, c, c, g)
  BY <1>3, <1>11 DEF Behind
<1>13. Right(is_buy, a, g) /\ Right(is_buy, c, g)
  BY <1>1, <1>3, <1>6, <1>10 DEF Kept, Right
<1>14. Kept(is_buy, a, c, o, n, g)
  BY <1>1, <1>2, <1>3, <1>9, <1>12, <1>13 DEF Kept
<1> QED BY <1>3, <1>12, <1>14 DEF Short, c

(* Nothing is missing if nothing is left. *)
LEMMA NothingLeft ==
  ASSUME NEW is_buy \in BOOLEAN, NEW a, NEW b, NEW o, NEW n, NEW f, IsLevels(is_buy, f),
         Short(is_buy, a, b, o, n, f)
  PROVE  /\ o = 0 => Full(is_buy, a, b, o, n, f)
         /\ o # 0 => \E q \in Quotes(is_buy) \ Shown(a, b) : f[q] > 0
         /\ n = 0 => \A q \in Near(is_buy) \ Shown(a, b) : f[q] = 0
         /\ n # 0 => \E q \in Near(is_buy) \ Shown(a, b) : f[q] > 0
<1>1. ASSUME NEW T \in SUBSET Quotes(is_buy)
      PROVE  Beyond(f, T, Shown(a, b)) = 0 <=> \A q \in T \ Shown(a, b) : f[q] = 0
  <2> DEFINE S == T \ Shown(a, b)
  <2>1. IsFiniteSet(S) /\ \A x \in S : f[x] \in Nat
    BY QuoteFacts, FS_Subset DEF IsLevels
  <2> HIDE DEF S
  <2>2. Total(f, S) = 0 <=> \A x \in S : f[x] = 0
    BY <2>1, SumZero
  <2> QED BY <2>2 DEF Beyond, S
<1>2. Kept(is_buy, a, b, o, n, f) /\ Near(is_buy) \in SUBSET Quotes(is_buy)
  BY DEF Short, Near
<1>3. \A q \in Quotes(is_buy) : f[q] \in Nat
  BY DEF IsLevels
<1>4. o = 0 <=> \A q \in Quotes(is_buy) \ Shown(a, b) : f[q] = 0
  BY <1>1, <1>2 DEF Kept
<1>5. n = 0 <=> \A q \in Near(is_buy) \ Shown(a, b) : f[q] = 0
  BY <1>1, <1>2 DEF Kept
<1> QED BY <1>2, <1>3, <1>4, <1>5 DEF Full

(* The level missing is supplied. *)
LEMMA Refilled ==
  ASSUME NEW is_buy \in BOOLEAN, NEW a, NEW b, NEW o, NEW n, NEW f, IsLevels(is_buy, f),
         Short(is_buy, a, b, o, n, f), NEW q \in Near(is_buy) \ Shown(a, b), f[q] > 0,
         \A x \in Quotes(is_buy) \ Shown(a, b) : f[x] > 0 => x = q \/ Better(is_buy, q, x)
  PROVE  Full(is_buy, a, NewWord(q, f[q]), o - f[q], n - f[q], f)
<1> DEFINE w == NewWord(q, f[q])
           Q == Quotes(is_buy)
<1>1. Kept(is_buy, a, b, o, n, f) /\ ~b.valid
  BY DEF Short
<1>2. /\ a \in Word /\ q \in Nat /\ q \in Quotes(is_buy) /\ Quotes(is_buy) \subseteq Nat
      /\ IsFiniteSet(Quotes(is_buy)) /\ Near(is_buy) \subseteq Quotes(is_buy) /\ f[q] \in Nat
  BY <1>1, WordFacts DEF IsLevels
<1>3. w \in Word /\ w.valid /\ w.price = q /\ w.shares = f[q]
  BY <1>2 DEF NewWord, Word
<1> HIDE DEF w
<1>4. a.valid /\ Better(is_buy, a.price, q)
  BY <1>1, <1>2 DEF Kept, Behind
<1>5. \A x : x \in Shown(a, b) <=> x = a.price
  <2>1. \A x : x \in Shown(a, b) <=> (a.valid /\ x = a.price) \/ (b.valid /\ x = b.price)
    BY ShownHas
  <2> QED BY <1>1, <1>4, <2>1
<1>6. \A x : x \in Shown(a, w) <=> x = a.price \/ x = q
  <2>1. \A x : x \in Shown(a, w) <=> (a.valid /\ x = a.price) \/ (w.valid /\ x = w.price)
    BY ShownHas
  <2> QED BY <1>3, <1>4, <2>1
<1>7. q \notin Shown(a, b) /\ \A x : x \in Shown(a, w) <=> x \in Shown(a, b) \/ x = q
  BY <1>5, <1>6
<1>8. ASSUME NEW T \in SUBSET Q, q \in T
      PROVE  Beyond(f, T, Shown(a, w)) = Beyond(f, T, Shown(a, b)) - f[q]
  <2>1. IsFiniteSet(Q) /\ f \in [Q -> Nat]
    BY <1>2 DEF IsLevels
  <2> HIDE DEF Q
  <2>2. /\ q \in T => Beyond(f, T, Shown(a, b)) = Beyond(f, T, Shown(a, w)) + f[q]
        /\ Beyond(f, T, Shown(a, b)) \in Nat /\ Beyond(f, T, Shown(a, w)) \in Nat
    BY ONLY <1>7, <1>8, <2>1, FewerOutside
  <2> QED BY <1>2, <1>8, <2>2
<1>9. /\ Beyond(f, Quotes(is_buy), Shown(a, w)) = o - f[q]
      /\ Beyond(f, Near(is_buy), Shown(a, w)) = n - f[q]
  BY <1>1, <1>2, <1>8 DEF Kept
<1>10. Behind(is_buy, a, w, a, f) /\ Behind(is_buy, a, w, w, f)
  BY <1>1, <1>3, <1>4, <1>7 DEF Kept, Behind
<1>11. Right(is_buy, a, f) /\ Right(is_buy, w, f)
  BY <1>1, <1>2, <1>3 DEF Kept, Right
<1>12. Kept(is_buy, a, w, o - f[q], n - f[q], f)
  BY <1>2, <1>3, <1>4, <1>9, <1>10, <1>11 DEF Kept
<1> QED BY <1>3, <1>12 DEF Full, w

LEMMA PairFacts ==
  ASSUME NEW r \in Word \X Word
  PROVE  /\ r[1] \in Word /\ r[2] \in Word /\ r = <<r[1], r[2]>>
         /\ \A x : [r EXCEPT ![1].shares = x] = <<[r[1] EXCEPT !.shares = x], r[2]>>
         /\ \A x : [r EXCEPT ![2].shares = x] = <<r[1], [r[2] EXCEPT !.shares = x]>>
         /\ \A w : [r EXCEPT ![2] = w] = <<r[1], w>>
<1>1. PICK v \in Word, w \in Word : r = <<v, w>>
  OBVIOUS
<1> QED BY <1>1

LEMMA HalfFields ==
  ASSUME NEW h \in HalfType
  PROVE  /\ h = [arr |-> h.arr, out_size |-> h.out_size, out_size_in_range |-> h.out_size_in_range,
                 updt_able |-> h.updt_able, updt_able_in_range |-> h.updt_able_in_range,
                 updt_ing |-> h.updt_ing, updt_req |-> h.updt_req]
         /\ h.arr \in Word \X Word /\ h.out_size \in Nat /\ h.out_size_in_range \in Nat
         /\ h.updt_able \in BOOLEAN /\ h.updt_able_in_range \in BOOLEAN
         /\ h.updt_ing \in BOOLEAN /\ h.updt_req \in BOOLEAN
BY DEF HalfType

(* The registers of a half after a message, by its effect. *)
LEMMA AfterMsg ==
  ASSUME NEW h \in HalfType, NEW dec, NEW updt, NEW bd, dec.valid
  PROVE  LET h2 == HalfClock(h, dec, updt, bd)
             shares == IF IsAdd(dec) THEN dec.shares ELSE -dec.shares
             Counts(out, near, ing, req) ==
               h2 = [arr |-> ArrAfter(h, dec), out_size |-> out, out_size_in_range |-> near,
                     updt_able |-> h.out_size # 0, updt_able_in_range |-> h.out_size_in_range # 0,
                     updt_ing |-> ing, updt_req |-> req]
         IN  /\ Effect(h, dec) = "mod" =>
                  Counts(h.out_size, h.out_size_in_range, h.updt_ing, FALSE)
             /\ Effect(h, dec) = "del" =>
                  Counts(h.out_size, h.out_size_in_range, AsksUpdt(h), AsksUpdt(h))
             /\ Effect(h, dec) = "ins" =>
                  Counts(h.out_size + h.arr[2].shares,
                         IF InRange(dec.is_buy, h.arr[2].price, bd)
                         THEN h.out_size_in_range + h.arr[2].shares ELSE h.out_size_in_range,
                         h.updt_ing, FALSE)
             /\ Effect(h, dec) = "out" =>
                  Counts(h.out_size + shares,
                         IF InRange(dec.is_buy, dec.price, bd)
                         THEN h.out_size_in_range + shares ELSE h.out_size_in_range,
                         h.updt_ing, FALSE)
<1>0. PICK a, o, n, e, r, i, q :
        h = [arr |-> a, out_size |-> o, out_size_in_range |-> n, updt_able |-> e,
             updt_able_in_range |-> r, updt_ing |-> i, updt_req |-> q]
  BY DEF HalfType
<1>01. /\ h.arr = a /\ h.out_size = o /\ h.out_size_in_range = n /\ h.updt_able = e
      /\ h.updt_able_in_range = r /\ h.updt_ing = i
  BY <1>0
<1>05. PICK e2, r2 : e2 = (o # 0) /\ r2 = (n # 0)
  OBVIOUS
<1>02. PICK asked : asked = [h EXCEPT !.updt_req = FALSE]
  OBVIOUS
<1>03. PICK next : next = WithMsg(asked, dec, bd)
  OBVIOUS
<1>04. PICK h2 : h2 = HalfClock(h, dec, updt, bd)
  OBVIOUS
<1>1. h2 = [next EXCEPT !.updt_able = e2, !.updt_able_in_range = r2]
  BY <1>01, <1>02, <1>03, <1>04, <1>05 DEF HalfClock
<1>2. asked = [arr |-> a, out_size |-> o, out_size_in_range |-> n,
               updt_able |-> e, updt_able_in_range |-> r,
               updt_ing |-> i, updt_req |-> FALSE]
  BY <1>0, <1>02
<1>3. Concerned(asked, dec) = Concerned(h, dec)
  BY <1>01, <1>2 DEF Concerned
<1>4. Effect(asked, dec) = Effect(h, dec)
  BY <1>01, <1>2, <1>3 DEF Effect
<1>5. ArrAfter(asked, dec) = ArrAfter(h, dec) /\ AsksUpdt(asked) = AsksUpdt(h)
  BY <1>01, <1>2, <1>3, <1>4 DEF ArrAfter, AsksUpdt
<1> DEFINE arr == ArrAfter(h, dec)
<1>6. ASSUME Effect(h, dec) = "mod"
      PROVE  next = [arr |-> arr, out_size |-> o, out_size_in_range |-> n,
                     updt_able |-> e, updt_able_in_range |-> r,
                     updt_ing |-> i, updt_req |-> FALSE]
  <2>1. next = [asked EXCEPT !.arr = arr]
    BY <1>03, <1>4, <1>5, <1>6 DEF WithMsg
  <2> QED BY <1>2, <2>1
<1>7. ASSUME Effect(h, dec) = "del"
      PROVE  next = [arr |-> arr, out_size |-> o, out_size_in_range |-> n,
                     updt_able |-> e, updt_able_in_range |-> r,
                     updt_ing |-> AsksUpdt(h), updt_req |-> AsksUpdt(h)]
  <2>1. next = [[asked EXCEPT !.arr = arr] EXCEPT !.updt_req = AsksUpdt(h), !.updt_ing = AsksUpdt(h)]
    BY <1>03, <1>4, <1>5, <1>7 DEF WithMsg
  <2> QED BY <1>2, <2>1
<1>8. ASSUME Effect(h, dec) = "ins"
      PROVE  next = [arr |-> arr, out_size |-> o + a[2].shares,
                     out_size_in_range |-> IF InRange(dec.is_buy, a[2].price, bd)
                                           THEN n + a[2].shares
                                           ELSE n,
                     updt_able |-> e, updt_able_in_range |-> r,
                     updt_ing |-> i, updt_req |-> FALSE]
  <2>1. PICK moved : moved = [asked EXCEPT !.arr = arr]
    OBVIOUS
  <2>2. next = Outside(moved, dec.is_buy, a[2].shares, a[2].price, bd)
    <3>1. asked.arr = a
      BY <1>2
    <3> QED BY <1>03, <1>4, <1>5, <1>8, <2>1, <3>1 DEF WithMsg
  <2> HIDE DEF arr
  <2>3. moved = [arr |-> arr, out_size |-> o, out_size_in_range |-> n,
                 updt_able |-> e, updt_able_in_range |-> r,
                 updt_ing |-> i, updt_req |-> FALSE]
    BY <1>2, <2>1
  <2> QED BY <2>2, <2>3 DEF Outside
<1>9. ASSUME Effect(h, dec) = "out"
      PROVE  LET shares == IF IsAdd(dec) THEN dec.shares ELSE -dec.shares
             IN  next = [arr |-> arr, out_size |-> o + shares,
                         out_size_in_range |-> IF InRange(dec.is_buy, dec.price, bd)
                                               THEN n + shares
                                               ELSE n,
                         updt_able |-> e, updt_able_in_range |-> r,
                         updt_ing |-> i, updt_req |-> FALSE]
  <2> DEFINE shares == IF IsAdd(dec) THEN dec.shares ELSE -dec.shares
  <2>1. next = Outside(asked, dec.is_buy, shares, dec.price, bd)
    BY <1>03, <1>4, <1>9 DEF WithMsg
  <2>2. arr = a
    BY <1>01, <1>9 DEF ArrAfter
  <2> HIDE DEF arr, shares
  <2>3. next = [arr |-> arr, out_size |-> o + shares,
                         out_size_in_range |-> IF InRange(dec.is_buy, dec.price, bd)
                                               THEN n + shares
                                               ELSE n,
                         updt_able |-> e, updt_able_in_range |-> r,
                         updt_ing |-> i, updt_req |-> FALSE]
    BY <1>2, <2>1, <2>2 DEF Outside
  <2> QED BY <2>3 DEF shares
<1> HIDE DEF arr
<1>14. ASSUME NEW x, NEW y, NEW z, NEW f, NEW g,
              next = [arr |-> x, out_size |-> y, out_size_in_range |-> z, updt_able |-> e,
                      updt_able_in_range |-> r, updt_ing |-> f, updt_req |-> g]
       PROVE  h2 = [arr |-> x, out_size |-> y, out_size_in_range |-> z, updt_able |-> e2,
                    updt_able_in_range |-> r2, updt_ing |-> f, updt_req |-> g]
  BY <1>1, <1>14
<1>10. ASSUME Effect(h, dec) = "mod"
       PROVE  h2 = [arr |-> arr, out_size |-> o, out_size_in_range |-> n,
                    updt_able |-> e2, updt_able_in_range |-> r2,
                    updt_ing |-> i, updt_req |-> FALSE]
  BY <1>6, <1>10, <1>14, Zenon
<1>11. ASSUME Effect(h, dec) = "del"
       PROVE  h2 = [arr |-> arr, out_size |-> o, out_size_in_range |-> n,
                    updt_able |-> e2, updt_able_in_range |-> r2,
                    updt_ing |-> AsksUpdt(h), updt_req |-> AsksUpdt(h)]
  BY <1>7, <1>11, <1>14, Zenon
<1>12. ASSUME Effect(h, dec) = "ins"
       PROVE  h2 = [arr |-> arr, out_size |-> o + a[2].shares,
                     out_size_in_range |-> IF InRange(dec.is_buy, a[2].price, bd)
                                           THEN n + a[2].shares
                                           ELSE n,
                    updt_able |-> e2, updt_able_in_range |-> r2,
                    updt_ing |-> i, updt_req |-> FALSE]
  BY <1>8, <1>12, <1>14, Zenon
<1>13. ASSUME Effect(h, dec) = "out"
       PROVE  LET shares == IF IsAdd(dec) THEN dec.shares ELSE -dec.shares
              IN  h2 = [arr |-> arr, out_size |-> o + shares,
                        out_size_in_range |-> IF InRange(dec.is_buy, dec.price, bd)
                                              THEN n + shares
                                              ELSE n,
                        updt_able |-> e2, updt_able_in_range |-> r2,
                        updt_ing |-> i, updt_req |-> FALSE]
  BY <1>9, <1>13, <1>14, Zenon
<1> QED BY <1>01, <1>04, <1>05, <1>10, <1>11, <1>12, <1>13 DEF arr

LEMMA AfterNoMsg ==
  ASSUME NEW h \in HalfType, NEW dec, NEW updt, NEW bd, ~dec.valid
  PROVE  LET h2 == HalfClock(h, dec, updt, bd)
         IN  /\ ~updt.valid =>
                  h2 = [arr |-> h.arr, out_size |-> h.out_size, out_size_in_range |-> h.out_size_in_range,
                        updt_able |-> h.out_size # 0, updt_able_in_range |-> h.out_size_in_range # 0,
                        updt_ing |-> h.updt_ing, updt_req |-> FALSE]
             /\ updt.valid =>
                  h2 = [arr |-> <<h.arr[1], updt>>, out_size |-> h.out_size - updt.shares,
                        out_size_in_range |-> h.out_size_in_range - updt.shares,
                        updt_able |-> h.out_size # 0, updt_able_in_range |-> h.out_size_in_range # 0,
                        updt_ing |-> FALSE, updt_req |-> FALSE]
<1>0. PICK a, o, n, e, r, i, q :
        h = [arr |-> a, out_size |-> o, out_size_in_range |-> n, updt_able |-> e,
             updt_able_in_range |-> r, updt_ing |-> i, updt_req |-> q]
  BY DEF HalfType
<1>01. /\ h.arr = a /\ h.out_size = o /\ h.out_size_in_range = n /\ h.updt_able = e
      /\ h.updt_able_in_range = r /\ h.updt_ing = i
  BY <1>0
<1>05. PICK e2, r2 : e2 = (o # 0) /\ r2 = (n # 0)
  OBVIOUS
<1>02. PICK asked : asked = [h EXCEPT !.updt_req = FALSE]
  OBVIOUS
<1>04. PICK h2 : h2 = HalfClock(h, dec, updt, bd)
  OBVIOUS
<1>1. asked = [arr |-> a, out_size |-> o, out_size_in_range |-> n,
               updt_able |-> e, updt_able_in_range |-> r,
               updt_ing |-> i, updt_req |-> FALSE]
  BY <1>0, <1>02
<1>2. ASSUME updt.valid
      PROVE  h2 = [arr |-> <<a[1], updt>>, out_size |-> o - updt.shares,
                   out_size_in_range |-> n - updt.shares,
                   updt_able |-> e2, updt_able_in_range |-> r2,
                   updt_ing |-> FALSE, updt_req |-> FALSE]
  <2>1. h2 = [WithUpdt(asked, updt)
               EXCEPT !.updt_able = e2, !.updt_able_in_range = r2]
    BY <1>01, <1>02, <1>04, <1>05, <1>2 DEF HalfClock
  <2>2. [a EXCEPT ![2] = updt] = <<a[1], updt>>
    BY <1>01, HalfFields, PairFacts
  <2>4. PICK w : w = WithUpdt(asked, updt)
    OBVIOUS
  <2>3. w =
          [arr |-> <<a[1], updt>>, out_size |-> o - updt.shares,
           out_size_in_range |-> n - updt.shares,
           updt_able |-> e, updt_able_in_range |-> r,
           updt_ing |-> FALSE, updt_req |-> FALSE]
    BY <1>1, <2>2, <2>4 DEF WithUpdt
  <2>5. PICK x, y, z : x = <<a[1], updt>> /\ y = o - updt.shares /\ z = n - updt.shares
    OBVIOUS
  <2>6. w = [arr |-> x, out_size |-> y, out_size_in_range |-> z, updt_able |-> e,
             updt_able_in_range |-> r, updt_ing |-> FALSE, updt_req |-> FALSE]
    BY <2>3, <2>5
  <2>7. h2 = [w EXCEPT !.updt_able = e2, !.updt_able_in_range = r2]
    BY <2>1, <2>4
  <2>8. h2 = [arr |-> x, out_size |-> y, out_size_in_range |-> z, updt_able |-> e2,
              updt_able_in_range |-> r2, updt_ing |-> FALSE, updt_req |-> FALSE]
    BY <2>6, <2>7
  <2> QED BY <2>5, <2>8
<1>3. ASSUME ~updt.valid
      PROVE  h2 = [arr |-> a, out_size |-> o, out_size_in_range |-> n,
                   updt_able |-> e2, updt_able_in_range |-> r2,
                   updt_ing |-> i, updt_req |-> FALSE]
  <2>1. h2 = [asked
               EXCEPT !.updt_able = e2, !.updt_able_in_range = r2]
    BY <1>01, <1>02, <1>04, <1>05, <1>3 DEF HalfClock
  <2> QED BY <1>1, <2>1
<1> QED BY <1>01, <1>04, <1>05, <1>2, <1>3
----------------------------------------------------------------------------
(* The inductive invariant. *)

FullHalf(is_buy, h, f) ==
  h \in HalfType /\ Full(is_buy, h.arr[1], h.arr[2], h.out_size, h.out_size_in_range, f)

ShortHalf(is_buy, h, f) ==
  h \in HalfType /\ Short(is_buy, h.arr[1], h.arr[2], h.out_size, h.out_size_in_range, f)

(* The levels as the registers of a side know them: a message kept has not *)
(* reached them.                                                           *)
View(is_buy) ==
  IF dec_book_updt_q.valid /\ dec_book_updt_q.is_buy = is_buy
  THEN [levels[is_buy] EXCEPT ![dec_book_updt_q.price] = @ - dec_book_updt_q.shares]
  ELSE levels[is_buy]

LevelsInv ==
  /\ levels \in [BOOLEAN -> {levels[TRUE], levels[FALSE]}]
  /\ \A is_buy \in BOOLEAN : IsLevels(is_buy, levels[is_buy])
  /\ Uncrossed
  /\ SharesAt(TRUE, Bids) + SharesAt(FALSE, Offers) <= MaxShares
  /\ owed \subseteq BOOLEAN /\ quiet \in 1 .. LongQuiet /\ delay \in Nat
  /\ phase \in {"reset", "waiting", "running"}

HalvesInv ==
  \A is_buy \in BOOLEAN :
    /\ FullHalf(is_buy, half[is_buy], View(is_buy)) \/ ShortHalf(is_buy, half[is_buy], View(is_buy))
    /\ ~failed /\ ~half[is_buy].updt_ing => FullHalf(is_buy, half[is_buy], View(is_buy))
    /\ half[is_buy].updt_ing => ShortHalf(is_buy, half[is_buy], View(is_buy))
                                /\ half[is_buy].out_size_in_range # 0

(* A refill takes three clocks: the half asks, the place is found, and the *)
(* level read.  A replacement that follows comes in the third at the       *)
(* earliest.                                                               *)
Age(first) == quiet = first \/ (quiet = first + 1 /\ owed = {})

Alone(is_buy) == half[is_buy].updt_ing /\ \A other \in BOOLEAN \ {is_buy} : ~half[other].updt_ing

RefillsInv ==
  /\ \A is_buy \in BOOLEAN :
       /\ half[is_buy].updt_req \in BOOLEAN /\ updt_q[is_buy].req \in BOOLEAN /\ updt_q[is_buy].req2 \in BOOLEAN
       /\ half[is_buy].updt_ing => half[is_buy].updt_req \/ updt_q[is_buy].req \/ updt_q[is_buy].req2
       /\ half[is_buy].updt_req => Alone(is_buy) /\ Age(1) /\ ~updt_q[is_buy].req /\ ~updt_q[is_buy].req2
       /\ updt_q[is_buy].req => Alone(is_buy) /\ Age(2) /\ ~updt_q[is_buy].req2
       /\ updt_q[is_buy].req2 => Alone(is_buy) /\ Age(3)
  /\ updt_ing_q \in BOOLEAN
  /\ updt_ing_q <=> \E is_buy \in BOOLEAN : updt_q[is_buy].req \/ updt_q[is_buy].req2

(* The places of the levels not shown. *)
Lacking(is_buy) ==
  {i \in Places : /\ PriceOf(i) \in Quotes(is_buy) \ Shown(half[is_buy].arr[1], half[is_buy].arr[2])
                  /\ levels[is_buy][PriceOf(i)] > 0}

NextPlace(is_buy) == BestPlace(is_buy, Lacking(is_buy))

FoundInv ==
  \A is_buy \in BOOLEAN :
    /\ half[is_buy].updt_req => updt_q[is_buy].local = BlockBests(is_buy, Lacking(is_buy))
    /\ updt_q[is_buy].req => updt_q[is_buy].enc = NextPlace(is_buy) /\ ~dec_book_q.valid
    /\ updt_q[is_buy].req2 => /\ lut_price_out = PriceOf(NextPlace(is_buy))
                              /\ od_ram_doutb = levels[is_buy][PriceOf(NextPlace(is_buy))]

(* Between refills the pipeline follows the second word. *)
FollowsInv ==
  \A is_buy \in BOOLEAN : ~half[is_buy].updt_ing =>
    LET word == half[is_buy].arr[2]
    IN  /\ word.valid /\ InTable(word.price) =>
             /\ quiet >= 5 => lut_ordering_out[is_buy] = Place(word.price)
             /\ quiet >= 6 => updt_q[is_buy].ordering = Place(word.price)
        /\ quiet >= 6 => /\ half[is_buy].updt_able <=> half[is_buy].out_size # 0
                         /\ half[is_buy].updt_able_in_range <=> half[is_buy].out_size_in_range # 0

(* A message kept is a replacement's, for one clock. *)
KeptInv ==
  /\ dec_book_updt_q.valid =>
       /\ quiet = 1 /\ owed = {} /\ ~failed /\ \A is_buy \in BOOLEAN : ~half[is_buy].updt_ing
       /\ \E is_buy \in BOOLEAN, shares \in ShareCounts : \E price \in Quotes(is_buy) :
            /\ dec_book_updt_q = Dec("REPLACE", is_buy, price, shares)
            /\ levels[is_buy][price] >= shares
  /\ ~dec_book_updt_q.valid => dec_book_updt_q = NoDec

ResultInv ==
  /\ due => \/ bbo_res_v_last_q /\ quiet <= 2
            \/ dec_book_updt_q.valid
  /\ dec_book_updt_q.valid => due
  /\ bbo_res_v_last_q => due /\ ~dec_book_updt_q.valid

MemoryTypes ==
  /\ pa_ram \in [Places -> Nat] /\ od_ram \in [Places -> Nat]
  /\ lut_ordering \in [Places -> Nat] /\ lut_price \in [Places -> Nat]
  /\ exist_arr_q \subseteq Places
  /\ \A is_buy \in BOOLEAN : updt_q[is_buy].local \subseteq Places /\ updt_q[is_buy].enc \in Places

(* Before the book is ready the memories are cleared and the tables filled. *)
BootInv ==
  phase # "running" =>
    /\ \A is_buy \in BOOLEAN : \A price \in Quotes(is_buy) : levels[is_buy][price] = 0
    /\ owed = {} /\ quiet = LongQuiet /\ ~due /\ ~failed
    /\ dec_book_q = NoDec /\ ~exist_q.wen /\ exist_arr_q = {}
    /\ ram_rst.count \in Places /\ ram_rst.in_progress \in BOOLEAN
    /\ ram_rst.in_progress => \A a \in Places : a > ram_rst.count => pa_ram[a] = 0 /\ od_ram[a] = 0
    /\ ~ram_rst.in_progress => ram_rst.count = 0 /\ \A a \in Places : pa_ram[a] = 0 /\ od_ram[a] = 0
    /\ phase = "reset" => /\ ~lut_q.initialized /\ ~lut_q.done
                          /\ lut_q.count \in Nat /\ lut_q.count + delay < L2_MEM_SIZE - 1
    /\ phase = "waiting" =>
         /\ lut_q.initialized /\ initialized_q /\ price_base_q = PriceBase /\ lut_q.done \in BOOLEAN
         /\ ~lut_q.done => lut_q.count \in Places /\ lut_q.price = PriceOf(lut_q.count)
         /\ \A i \in Places : lut_q.done \/ i < lut_q.count =>
              lut_ordering[price_addr(PriceOf(i))] = i /\ lut_price[i] = PriceOf(i)

(* What the place of a message held before it. *)
Before(i) == IF dec_book_q.valid /\ dec_book_q.price = PriceOf(i) THEN pa_ram_doutb
             ELSE SharesFor(PriceOf(i))

Marks == {i \in Places : SharesFor(PriceOf(i)) > 0}

StoredInv ==
  phase = "running" =>
    /\ ~ram_rst.in_progress /\ ram_rst.count = 0 /\ lut_q.done /\ initialized_q /\ price_base_q = PriceBase
    /\ TablesFilled
    /\ \A i \in Places : pa_ram[price_addr(PriceOf(i))] = Before(i) /\ od_ram[i] = Before(i)
    /\ ~exist_q.wen => exist_arr_q = {i \in Places : Before(i) > 0}
    /\ dec_book_q.valid =>
         /\ quiet = 1 \/ (quiet = 2 /\ owed = {})
         /\ ~exist_q.wen
         /\ \E j \in Places : /\ dec_book_q.price = PriceOf(j) /\ lut_ordering_out[TRUE] = j
                              /\ order_new_shares = SharesFor(PriceOf(j))
         /\ dec_book_q.shares \in ShareCounts /\ pa_ram_doutb \in Nat
    /\ exist_q.wen =>
         /\ quiet = 2 \/ (quiet = 3 /\ owed = {})
         /\ exist_q.waddr \in Places
         /\ exist_q.din <=> SharesFor(PriceOf(exist_q.waddr)) > 0
         /\ \A i \in Places \ {exist_q.waddr} : i \in exist_arr_q <=> i \in Marks

BookInv == /\ LevelsInv /\ HalvesInv /\ RefillsInv /\ FoundInv /\ FollowsInv /\ KeptInv
           /\ ResultInv /\ MemoryTypes /\ BootInv /\ StoredInv /\ NoFalseError
----------------------------------------------------------------------------
(* A message at a half. *)
LEMMA EffectCases ==
  ASSUME NEW h, NEW dec, NEW a, NEW b, h.arr[1] = a, h.arr[2] = b
  PROVE  \/ /\ ~a.valid \/ Beats(dec, a.price)
            /\ Effect(h, dec) = "ins" /\ Concerned(h, dec) = 1
         \/ /\ a.valid /\ ~Beats(dec, a.price) /\ a.price # dec.price
            /\ ~b.valid \/ Beats(dec, b.price)
            /\ Effect(h, dec) = "ins" /\ Concerned(h, dec) = 2
         \/ /\ a.valid /\ ~Beats(dec, a.price) /\ a.price = dec.price /\ Concerned(h, dec) = 1
            /\ \/ Effect(h, dec) = "mod" /\ arr_mod(a, dec) # 0
               \/ Effect(h, dec) = "del" /\ arr_mod(a, dec) = 0
         \/ /\ a.valid /\ ~Beats(dec, a.price) /\ a.price # dec.price
            /\ b.valid /\ ~Beats(dec, b.price) /\ b.price = dec.price /\ Concerned(h, dec) = 2
            /\ \/ Effect(h, dec) = "mod" /\ arr_mod(b, dec) # 0
               \/ Effect(h, dec) = "del" /\ arr_mod(b, dec) = 0
         \/ /\ a.valid /\ ~Beats(dec, a.price) /\ a.price # dec.price
            /\ b.valid /\ ~Beats(dec, b.price) /\ b.price # dec.price
            /\ Effect(h, dec) = "out" /\ Concerned(h, dec) = 3
<1> DEFINE Is(w) == Inserts(w, dec) \/ w.price = dec.price
<1>1. Concerned(h, dec) = IF Is(a) THEN 1 ELSE IF Is(b) THEN 2 ELSE 3
  BY DEF Concerned
<1>2. CASE Is(a)
  <2>1. Concerned(h, dec) = 1
    BY <1>1, <1>2
  <2> QED BY <1>2, <2>1 DEF Effect, Inserts
<1>3. CASE ~Is(a) /\ Is(b)
  <2>1. Concerned(h, dec) = 2
    BY <1>1, <1>3
  <2> QED BY <1>3, <2>1 DEF Effect, Inserts
<1>4. CASE ~Is(a) /\ ~Is(b)
  <2>1. Concerned(h, dec) = 3
    BY <1>1, <1>4
  <2> QED BY <1>4, <2>1 DEF Effect, Inserts
<1> QED BY <1>2, <1>3, <1>4

(* What a message of a side does to its levels. *)
Moves(dec, f, g) ==
  /\ dec.shares \in Nat \ {0}
  /\ Changed(dec.is_buy, f, g, dec.price)
  /\ IsAdd(dec) => g[dec.price] = f[dec.price] + dec.shares
  /\ ~IsAdd(dec) => f[dec.price] = g[dec.price] + dec.shares

WindowEnd(is_buy) == IF is_buy THEN PriceBase ELSE PriceBase + 50 * (L2_MEM_SIZE - 1)

LEMMA RangeFacts ==
  ASSUME NEW is_buy \in BOOLEAN, NEW p \in Quotes(is_buy)
  PROVE  InRange(is_buy, p, WindowEnd(is_buy)) <=> InTable(p)
BY QuoteFacts, SizeFacts DEF InRange, WindowEnd, InTable

(* Which words a message finds, in terms of the levels. *)
LEMMA MoveFacts ==
  ASSUME NEW is_buy \in BOOLEAN, NEW a, NEW b, NEW o, NEW n, NEW f, NEW g, NEW dec,
         Full(is_buy, a, b, o, n, f), dec.is_buy = is_buy, Moves(dec, f, g)
  PROVE  LET p == dec.price
         IN  /\ Changed(is_buy, f, g, p) /\ IsLevels(is_buy, f) /\ Kept(is_buy, a, b, o, n, f)
             /\ p \in Quotes(is_buy) /\ p \in Nat /\ f[p] \in Nat /\ g[p] \in Nat
             /\ a.valid /\ p = a.price => arr_mod(a, dec) = g[p]
             /\ b.valid /\ p = b.price => arr_mod(b, dec) = g[p]
             /\ \A q : Beats(dec, q) <=> Better(is_buy, p, q)
             /\ ~a.valid \/ Better(is_buy, p, a.price) => IsAdd(dec)
             /\ a.valid /\ ~Better(is_buy, p, a.price) /\ p # a.price
                  /\ (~b.valid \/ Better(is_buy, p, b.price)) => IsAdd(dec)
             /\ g[p] = 0 => ~IsAdd(dec)
<1> DEFINE p == dec.price
<1>1. /\ Changed(is_buy, f, g, p) /\ IsLevels(is_buy, f) /\ Kept(is_buy, a, b, o, n, f)
      /\ p \in Quotes(is_buy) /\ p \in Nat /\ f[p] \in Nat /\ g[p] \in Nat /\ dec.shares \in Nat \ {0}
  BY QuoteFacts DEF Moves, Changed, IsLevels, Full
<1>2. (a.valid /\ p = a.price => a.shares = f[p]) /\ (b.valid /\ p = b.price => b.shares = f[p])
  BY <1>1 DEF Kept, Right
<1>3. /\ a.valid /\ p = a.price => arr_mod(a, dec) = g[p]
      /\ b.valid /\ p = b.price => arr_mod(b, dec) = g[p]
  BY <1>1, <1>2 DEF Moves, arr_mod
<1>4. \A q : Beats(dec, q) <=> Better(is_buy, p, q)
  BY DEF Beats, Better
<1>5. g[p] = 0 => ~IsAdd(dec)
  BY <1>1 DEF Moves
<1>6. ASSUME ~IsAdd(dec)
      PROVE  /\ a.valid /\ ~Better(is_buy, p, a.price)
             /\ p = a.price \/ (b.valid /\ ~Better(is_buy, p, b.price))
  <2>1. f[p] > 0
    BY <1>1, <1>6 DEF Moves
  <2>2. a.valid /\ a.price \in Nat /\ b.price \in Nat
    BY <1>1, <2>1, WordFacts DEF Kept
  <2>3. \A q : q \in Shown(a, b) <=> q = a.price \/ (b.valid /\ q = b.price)
    BY <2>2, ShownHas
  <2>4. CASE p \in Shown(a, b)
    BY <1>1, <2>2, <2>3, <2>4 DEF Kept, Better
  <2>5. CASE p \notin Shown(a, b)
    <3>1. b.valid
      BY <1>1, <2>1, <2>5 DEF Full
    <3>2. Better(is_buy, a.price, p) /\ Better(is_buy, b.price, p)
      BY <1>1, <2>1, <2>2, <2>5, <3>1 DEF Kept, Behind
    <3> QED BY <1>1, <2>2, <3>1, <3>2 DEF Better
  <2> QED BY <2>4, <2>5
<1> QED BY <1>1, <1>3, <1>4, <1>5, <1>6

LEMMA HalfIs ==
  ASSUME NEW is_buy \in BOOLEAN, NEW x, NEW y, NEW o, NEW n, NEW e \in BOOLEAN, NEW r \in BOOLEAN,
         NEW i \in BOOLEAN, NEW q \in BOOLEAN, NEW f, IsLevels(is_buy, f), NEW h,
         h = [arr |-> <<x, y>>, out_size |-> o, out_size_in_range |-> n, updt_able |-> e,
              updt_able_in_range |-> r, updt_ing |-> i, updt_req |-> q]
  PROVE  /\ Full(is_buy, x, y, o, n, f) => FullHalf(is_buy, h, f)
         /\ Short(is_buy, x, y, o, n, f) => ShortHalf(is_buy, h, f)
         /\ h.arr[1] = x /\ h.arr[2] = y /\ h.out_size = o /\ h.out_size_in_range = n
         /\ h.updt_able = e /\ h.updt_able_in_range = r /\ h.updt_ing = i /\ h.updt_req = q
<1>1. /\ h.arr[1] = x /\ h.arr[2] = y /\ h.arr = <<x, y>> /\ h.out_size = o /\ h.out_size_in_range = n
      /\ h.updt_able = e /\ h.updt_able_in_range = r /\ h.updt_ing = i /\ h.updt_req = q
  OBVIOUS
<1>2. ASSUME Kept(is_buy, x, y, o, n, f) PROVE h \in HalfType
  <2>1. x \in Word /\ y \in Word /\ o \in Nat /\ n \in Nat
    BY <1>2, WordFacts
  <2>2. <<x, y>> \in Word \X Word
    BY <2>1
  <2> HIDE DEF Word
  <2> QED BY <2>1, <2>2 DEF HalfType
<1>3. Full(is_buy, x, y, o, n, f) => Kept(is_buy, x, y, o, n, f)
  BY DEF Full
<1>4. Short(is_buy, x, y, o, n, f) => Kept(is_buy, x, y, o, n, f)
  BY DEF Short
<1> QED BY <1>1, <1>2, <1>3, <1>4 DEF FullHalf, ShortHalf

(* The words and counts of a half after a message that makes its levels g. *)
After(h, h2, dec, g) ==
  /\ Effect(h, dec) # "del" =>
       FullHalf(dec.is_buy, h2, g) /\ h2.updt_ing = h.updt_ing /\ ~h2.updt_req
  /\ Effect(h, dec) = "del" =>
       /\ ShortHalf(dec.is_buy, h2, g)
       /\ (h2.updt_ing <=> AsksUpdt(h)) /\ (h2.updt_req <=> AsksUpdt(h))
       /\ h2.out_size = h.out_size /\ h2.out_size_in_range = h.out_size_in_range
       /\ ~IsAdd(dec)
       /\ Shown(h.arr[1], h.arr[2]) = Shown(h2.arr[1], h2.arr[2]) \cup {dec.price}

LEMMA HalfMsg ==
  ASSUME NEW is_buy \in BOOLEAN, NEW h, NEW f, NEW g, FullHalf(is_buy, h, f),
         NEW dec, dec.valid, dec.is_buy = is_buy, Moves(dec, f, g), NEW updt, NEW h2,
         h2 = HalfClock(h, dec, updt, WindowEnd(is_buy))
  PROVE  After(h, h2, dec, g)
<1> SUFFICES /\ Effect(h, dec) # "del" =>
                 FullHalf(is_buy, h2, g) /\ h2.updt_ing = h.updt_ing /\ ~h2.updt_req
             /\ Effect(h, dec) = "del" =>
                 /\ ShortHalf(is_buy, h2, g)
                 /\ (h2.updt_ing <=> AsksUpdt(h)) /\ (h2.updt_req <=> AsksUpdt(h))
                 /\ h2.out_size = h.out_size /\ h2.out_size_in_range = h.out_size_in_range
                 /\ ~IsAdd(dec)
                 /\ Shown(h.arr[1], h.arr[2]) = Shown(h2.arr[1], h2.arr[2]) \cup {dec.price}
  BY Zenon DEF After
<1>1. PICK a, b, o, n : h.arr[1] = a /\ h.arr[2] = b /\ h.out_size = o /\ h.out_size_in_range = n
  OBVIOUS
<1>2. h \in HalfType /\ Full(is_buy, a, b, o, n, f)
  BY <1>1 DEF FullHalf
<1>3. PICK p : p = dec.price
  OBVIOUS
<1>4. /\ Changed(is_buy, f, g, p) /\ IsLevels(is_buy, f) /\ IsLevels(is_buy, g)
      /\ Kept(is_buy, a, b, o, n, f)
      /\ p \in Quotes(is_buy) /\ p \in Nat /\ f[p] \in Nat /\ g[p] \in Nat
      /\ a.valid /\ p = a.price => arr_mod(a, dec) = g[p]
      /\ b.valid /\ p = b.price => arr_mod(b, dec) = g[p]
      /\ \A q : Beats(dec, q) <=> Better(is_buy, p, q)
      /\ ~a.valid \/ Better(is_buy, p, a.price) => IsAdd(dec)
      /\ a.valid /\ ~Better(is_buy, p, a.price) /\ p # a.price
              /\ (~b.valid \/ Better(is_buy, p, b.price)) => IsAdd(dec)
      /\ g[p] = 0 => ~IsAdd(dec)
  BY <1>2, <1>3, MoveFacts DEF Changed
<1>5. /\ a \in Word /\ b \in Word /\ h.arr = <<a, b>> /\ h.arr \in Word \X Word
      /\ h.updt_ing \in BOOLEAN /\ h.updt_req \in BOOLEAN
      /\ o \in Nat /\ n \in Nat /\ AsksUpdt(h) \in BOOLEAN
      /\ a.price \in Nat /\ b.price \in Nat /\ a.shares \in Nat /\ b.shares \in Nat
      /\ a.valid \in BOOLEAN /\ b.valid \in BOOLEAN
  <2>1. h.arr \in Word \X Word /\ h.updt_ing \in BOOLEAN /\ h.updt_req \in BOOLEAN /\ AsksUpdt(h) \in BOOLEAN
    BY <1>2 DEF HalfType, AsksUpdt
  <2>2. h.arr = <<a, b>>
    BY <1>1, <2>1, PairFacts
  <2> QED BY <1>4, <2>1, <2>2, WordFacts
<1>6. PICK e \in BOOLEAN, r \in BOOLEAN : e = (o # 0) /\ r = (n # 0)
  OBVIOUS
<1>7. PICK w : w = NewWord(p, g[p])
  OBVIOUS
<1>8. (IF InRange(is_buy, b.price, WindowEnd(is_buy)) THEN n + b.shares ELSE n) = n + NearPart(b.price, b.shares)
  <2>1. CASE b.valid
    <3>1. b.price \in Quotes(is_buy)
      BY <1>4, <2>1 DEF Kept, Right
    <3> QED BY <1>5, <3>1, RangeFacts DEF NearPart
  <2>2. CASE ~b.valid
    <3>1. b.shares = 0
      BY <1>4, <2>2 DEF Kept, Right
    <3> QED BY <1>5, <3>1 DEF NearPart
  <2> QED BY <2>1, <2>2
<1>9. ASSUME Effect(h, dec) = "ins", NEW x, NEW y, ArrAfter(h, dec) = <<x, y>>,
             Full(is_buy, x, y, o + b.shares, n + NearPart(b.price, b.shares), g)
      PROVE  FullHalf(is_buy, h2, g) /\ h2.updt_ing = h.updt_ing /\ h2.updt_req = FALSE
  <2>1. PICK o2, n2, i2 : /\ o2 = o + b.shares /\ n2 = n + NearPart(b.price, b.shares)
                          /\ i2 = h.updt_ing
    OBVIOUS
  <2>2. h2 = [arr |-> <<x, y>>, out_size |-> o2, out_size_in_range |-> n2,
              updt_able |-> e, updt_able_in_range |-> r, updt_ing |-> i2, updt_req |-> FALSE]
    BY <1>1, <1>2, <1>6, <1>8, <1>9, <2>1, AfterMsg
  <2>6. x \in Word /\ y \in Word /\ o2 \in Nat /\ n2 \in Nat
    <3>1. Kept(is_buy, x, y, o2, n2, g)
      BY <1>9, <2>1 DEF Full
    <3> QED BY <1>4, <3>1, WordFacts
  <2>7. h2 \in HalfType
    <3>1. <<x, y>> \in Word \X Word
      BY <2>6
    <3> HIDE DEF Word
    <3> QED BY <1>5, <1>6, <2>1, <2>2, <2>6, <3>1 DEF HalfType
  <2>8. h2.arr[1] = x /\ h2.arr[2] = y /\ h2.out_size = o2 /\ h2.out_size_in_range = n2
        /\ h2.updt_ing = i2 /\ h2.updt_req = FALSE
    BY <2>2
  <2> QED BY <1>9, <2>1, <2>7, <2>8 DEF FullHalf
<1>10. ASSUME Effect(h, dec) = "mod", NEW x, NEW y, ArrAfter(h, dec) = <<x, y>>,
              Full(is_buy, x, y, o, n, g)
       PROVE  FullHalf(is_buy, h2, g) /\ h2.updt_ing = h.updt_ing /\ h2.updt_req = FALSE
  <2>1. PICK i2 : i2 = h.updt_ing
    OBVIOUS
  <2>2. h2 = [arr |-> <<x, y>>, out_size |-> o, out_size_in_range |-> n,
              updt_able |-> e, updt_able_in_range |-> r, updt_ing |-> i2, updt_req |-> FALSE]
    BY <1>1, <1>2, <1>6, <1>10, <2>1, AfterMsg
  <2>6. x \in Word /\ y \in Word /\ o \in Nat /\ n \in Nat
    <3>1. Kept(is_buy, x, y, o, n, g)
      BY <1>10, <2>1 DEF Full
    <3> QED BY <1>4, <3>1, WordFacts
  <2>7. h2 \in HalfType
    <3>1. <<x, y>> \in Word \X Word
      BY <2>6
    <3> HIDE DEF Word
    <3> QED BY <1>5, <1>6, <2>1, <2>2, <2>6, <3>1 DEF HalfType
  <2>8. h2.arr[1] = x /\ h2.arr[2] = y /\ h2.out_size = o /\ h2.out_size_in_range = n
        /\ h2.updt_ing = i2 /\ h2.updt_req = FALSE
    BY <2>2
  <2> QED BY <1>10, <2>1, <2>7, <2>8 DEF FullHalf
<1>11. ASSUME Effect(h, dec) = "del", NEW x, NEW y, ArrAfter(h, dec) = <<x, y>>,
              Short(is_buy, x, y, o, n, g), y.price = b.price
       PROVE  /\ ShortHalf(is_buy, h2, g) /\ h2.arr[2].price = h.arr[2].price
              /\ (h2.updt_ing <=> AsksUpdt(h)) /\ (h2.updt_req <=> AsksUpdt(h))
              /\ h2.out_size = h.out_size /\ h2.out_size_in_range = h.out_size_in_range
              /\ h2.arr[1] = x /\ h2.arr[2] = y
  <2>1. PICK i2 : i2 = AsksUpdt(h)
    OBVIOUS
  <2>2. h2 = [arr |-> <<x, y>>, out_size |-> o, out_size_in_range |-> n,
              updt_able |-> e, updt_able_in_range |-> r, updt_ing |-> i2, updt_req |-> i2]
    BY <1>1, <1>2, <1>6, <1>11, <2>1, AfterMsg
  <2>3. is_buy \in BOOLEAN /\ e \in BOOLEAN /\ r \in BOOLEAN /\ i2 \in BOOLEAN /\ IsLevels(is_buy, g)
    BY <1>4, <1>5, <1>6, <2>1, Zenon
  <2>4. /\ ShortHalf(is_buy, h2, g) /\ h2.arr[1] = x /\ h2.arr[2] = y
        /\ h2.out_size = o /\ h2.out_size_in_range = n /\ h2.updt_ing = i2 /\ h2.updt_req = i2
    BY ONLY <1>11, <2>2, <2>3, HalfIs
  <2> QED BY <1>1, <1>11, <2>1, <2>4, Zenon
<1>12. ASSUME Effect(h, dec) = "out", NEW x, NEW y, ArrAfter(h, dec) = <<x, y>>,
              Full(is_buy, x, y, o + (g[p] - f[p]), n + NearPart(p, g[p] - f[p]), g)
       PROVE  FullHalf(is_buy, h2, g) /\ h2.updt_ing = h.updt_ing /\ h2.updt_req = FALSE
  <2>1. PICK o2, n2, i2 : /\ o2 = o + (g[p] - f[p]) /\ n2 = n + NearPart(p, g[p] - f[p])
                          /\ i2 = h.updt_ing
    OBVIOUS
  <2>3. PICK d : d = IF IsAdd(dec) THEN dec.shares ELSE -dec.shares
    OBVIOUS
  <2>4. d = g[p] - f[p] /\ d \in Int
    BY <1>3, <1>4, <2>3 DEF Moves
  <2>5. (IF InRange(dec.is_buy, dec.price, WindowEnd(is_buy)) THEN n + d ELSE n) = n2
    BY <1>3, <1>4, <1>5, <2>1, <2>4, RangeFacts DEF NearPart
  <2>2. h2 = [arr |-> <<x, y>>, out_size |-> o2, out_size_in_range |-> n2,
              updt_able |-> e, updt_able_in_range |-> r, updt_ing |-> i2, updt_req |-> FALSE]
    BY <1>1, <1>2, <1>6, <1>12, <2>1, <2>3, <2>4, <2>5, AfterMsg
  <2>6. x \in Word /\ y \in Word /\ o2 \in Nat /\ n2 \in Nat
    <3>1. Kept(is_buy, x, y, o2, n2, g)
      BY <1>12, <2>1 DEF Full
    <3> QED BY <1>4, <3>1, WordFacts
  <2>7. h2 \in HalfType
    <3>1. <<x, y>> \in Word \X Word
      BY <2>6
    <3> HIDE DEF Word
    <3> QED BY <1>5, <1>6, <2>1, <2>2, <2>6, <3>1 DEF HalfType
  <2>8. h2.arr[1] = x /\ h2.arr[2] = y /\ h2.out_size = o2 /\ h2.out_size_in_range = n2
        /\ h2.updt_ing = i2 /\ h2.updt_req = FALSE
    BY <2>2
  <2> QED BY <1>12, <2>1, <2>7, <2>8 DEF FullHalf
<1>13. CASE /\ ~a.valid \/ Better(is_buy, p, a.price)
            /\ Effect(h, dec) = "ins" /\ Concerned(h, dec) = 1
  <2>1. g[p] > 0
    BY <1>4, <1>13
  <2>2. f[p] = 0 /\ Full(is_buy, w, a, o + b.shares, n + NearPart(b.price, b.shares), g)
    BY <1>2, <1>4, <1>7, <1>13, <2>1, FirstInserted
  <2>3. ArrAfter(h, dec) = <<w, a>>
    <3>1. dec.shares = g[p]
      BY <1>3, <1>4, <1>13, <2>2 DEF Moves
    <3> QED BY <1>1, <1>3, <1>7, <1>13, <3>1 DEF ArrAfter, NewWord
  <2> QED BY <1>9, <1>13, <2>2, <2>3
<1>14. CASE /\ a.valid /\ ~Better(is_buy, p, a.price) /\ a.price # p
            /\ ~b.valid \/ Better(is_buy, p, b.price)
            /\ Effect(h, dec) = "ins" /\ Concerned(h, dec) = 2
  <2>1. g[p] > 0
    BY <1>4, <1>14
  <2>2. f[p] = 0 /\ Full(is_buy, a, w, o + b.shares, n + NearPart(b.price, b.shares), g)
    BY <1>2, <1>4, <1>7, <1>14, <2>1, SecondInserted
  <2>3. ArrAfter(h, dec) = <<a, w>>
    <3>1. dec.shares = g[p]
      BY <1>3, <1>4, <1>14, <2>2 DEF Moves
    <3> QED BY <1>1, <1>3, <1>7, <1>14, <3>1 DEF ArrAfter, NewWord
  <2> QED BY <1>9, <1>14, <2>2, <2>3
<1>15. CASE /\ a.valid /\ a.price = p /\ Concerned(h, dec) = 1
            /\ Effect(h, dec) = "mod" /\ arr_mod(a, dec) # 0
  <2>1. g[p] > 0
    BY <1>4, <1>15
  <2>2. Full(is_buy, [a EXCEPT !.shares = g[p]], b, o, n, g)
    BY <1>2, <1>4, <1>15, <2>1, FirstModified
  <2>3. ArrAfter(h, dec) = <<[a EXCEPT !.shares = g[p]], b>>
    <3>1. ArrAfter(h, dec) = [h.arr EXCEPT ![1].shares = g[p]]
      BY <1>1, <1>4, <1>15 DEF ArrAfter
    <3> QED BY <1>1, <1>5, <3>1, PairFacts
  <2> QED BY <1>10, <1>15, <2>2, <2>3
<1>16. CASE /\ a.valid /\ a.price = p /\ Concerned(h, dec) = 1
            /\ Effect(h, dec) = "del" /\ arr_mod(a, dec) = 0
  <2>1. g[p] = 0 /\ ~IsAdd(dec)
    BY <1>4, <1>16
  <2>2. Short(is_buy, b, Cleared(b), o, n, g) /\ Cleared(b).price = b.price /\ ~Cleared(b).valid
    BY <1>2, <1>4, <1>5, <1>16, <2>1, FirstDeleted, ClearedFacts
  <2>3. ArrAfter(h, dec) = <<b, Cleared(b)>>
    BY <1>1, <1>16 DEF ArrAfter
  <2>4. Shown(a, b) = Shown(b, Cleared(b)) \cup {p}
    BY <1>16, <2>2 DEF Shown
  <2> QED BY <1>1, <1>3, <1>11, <1>16, <2>1, <2>2, <2>3, <2>4
<1>17. CASE /\ a.valid /\ a.price # p /\ b.valid /\ b.price = p /\ Concerned(h, dec) = 2
            /\ Effect(h, dec) = "mod" /\ arr_mod(b, dec) # 0
  <2>1. g[p] > 0
    BY <1>4, <1>17
  <2>2. Full(is_buy, a, [b EXCEPT !.shares = g[p]], o, n, g)
    BY <1>2, <1>4, <1>17, <2>1, SecondModified
  <2>3. ArrAfter(h, dec) = <<a, [b EXCEPT !.shares = g[p]]>>
    <3>1. ArrAfter(h, dec) = [h.arr EXCEPT ![2].shares = g[p]]
      BY <1>1, <1>4, <1>17 DEF ArrAfter
    <3> QED BY <1>1, <1>5, <3>1, PairFacts
  <2> QED BY <1>10, <1>17, <2>2, <2>3
<1>18. CASE /\ a.valid /\ a.price # p /\ b.valid /\ b.price = p /\ Concerned(h, dec) = 2
            /\ Effect(h, dec) = "del" /\ arr_mod(b, dec) = 0
  <2>1. g[p] = 0 /\ ~IsAdd(dec)
    BY <1>4, <1>18
  <2>2. Short(is_buy, a, Cleared(b), o, n, g) /\ Cleared(b).price = b.price /\ ~Cleared(b).valid
    BY <1>2, <1>4, <1>5, <1>18, <2>1, SecondDeleted, ClearedFacts
  <2>3. ArrAfter(h, dec) = <<a, Cleared(b)>>
    BY <1>1, <1>18 DEF ArrAfter
  <2>4. Shown(a, b) = Shown(a, Cleared(b)) \cup {p}
    BY <1>18, <2>2 DEF Shown
  <2> QED BY <1>1, <1>3, <1>11, <1>18, <2>1, <2>2, <2>3, <2>4
<1>19. CASE /\ a.valid /\ ~Better(is_buy, p, a.price) /\ a.price # p
            /\ b.valid /\ ~Better(is_buy, p, b.price) /\ b.price # p
            /\ Effect(h, dec) = "out"
  <2>1. Better(is_buy, b.price, p)
    BY <1>4, <1>5, <1>19 DEF Better
  <2>2. Full(is_buy, a, b, o + (g[p] - f[p]), n + NearPart(p, g[p] - f[p]), g)
    BY <1>2, <1>4, <1>19, <2>1, OutsideModified
  <2>3. ArrAfter(h, dec) = <<a, b>>
    BY <1>5, <1>19 DEF ArrAfter
  <2> QED BY <1>12, <1>19, <2>2, <2>3
<1>20. \/ /\ ~a.valid \/ Better(is_buy, p, a.price)
          /\ Effect(h, dec) = "ins" /\ Concerned(h, dec) = 1
       \/ /\ a.valid /\ ~Better(is_buy, p, a.price) /\ a.price # p
          /\ ~b.valid \/ Better(is_buy, p, b.price)
          /\ Effect(h, dec) = "ins" /\ Concerned(h, dec) = 2
       \/ /\ a.valid /\ a.price = p /\ Concerned(h, dec) = 1
          /\ \/ Effect(h, dec) = "mod" /\ arr_mod(a, dec) # 0
             \/ Effect(h, dec) = "del" /\ arr_mod(a, dec) = 0
       \/ /\ a.valid /\ a.price # p /\ b.valid /\ b.price = p /\ Concerned(h, dec) = 2
          /\ \/ Effect(h, dec) = "mod" /\ arr_mod(b, dec) # 0
             \/ Effect(h, dec) = "del" /\ arr_mod(b, dec) = 0
       \/ /\ a.valid /\ ~Better(is_buy, p, a.price) /\ a.price # p
          /\ b.valid /\ ~Better(is_buy, p, b.price) /\ b.price # p
          /\ Effect(h, dec) = "out"
  <2>1. \A q : Beats(dec, q) <=> Better(is_buy, p, q)
    BY <1>4
  <2>2. h.arr[1] = a /\ h.arr[2] = b
    BY <1>1
  <2> QED BY ONLY <1>3, <2>1, <2>2, EffectCases
<1> QED BY <1>20, <1>13, <1>14, <1>15, <1>16, <1>17, <1>18, <1>19

(* A half no message and no level reaches. *)
LEMMA HalfIdle ==
  ASSUME NEW h \in HalfType, NEW dec, ~dec.valid, NEW updt, ~updt.valid,
         NEW bd, NEW h2, h2 = HalfClock(h, dec, updt, bd)
  PROVE  /\ h2.arr = h.arr /\ h2.out_size = h.out_size /\ h2.out_size_in_range = h.out_size_in_range
         /\ h2.updt_ing = h.updt_ing /\ ~h2.updt_req
         /\ (h2.updt_able <=> h.out_size # 0) /\ (h2.updt_able_in_range <=> h.out_size_in_range # 0)
         /\ h2 \in HalfType
<1>1. PICK e \in BOOLEAN, r \in BOOLEAN : e = (h.out_size # 0) /\ r = (h.out_size_in_range # 0)
  OBVIOUS
<1>2. h2 = [arr |-> h.arr, out_size |-> h.out_size, out_size_in_range |-> h.out_size_in_range,
            updt_able |-> e, updt_able_in_range |-> r, updt_ing |-> h.updt_ing, updt_req |-> FALSE]
  BY <1>1, AfterNoMsg
<1>3. /\ h2.arr = h.arr /\ h2.out_size = h.out_size /\ h2.out_size_in_range = h.out_size_in_range
      /\ h2.updt_ing = h.updt_ing /\ h2.updt_req = FALSE
      /\ h2.updt_able = e /\ h2.updt_able_in_range = r
  BY <1>2
<1>4. h2 \in HalfType
  <2>1. /\ h.arr \in Word \X Word /\ h.out_size \in Nat /\ h.out_size_in_range \in Nat
        /\ h.updt_ing \in BOOLEAN
    BY HalfFields
  <2> HIDE DEF Word
  <2> QED BY <1>1, <1>2, <2>1 DEF HalfType
<1> QED BY <1>1, <1>3, <1>4

(* A half the level it waits for reaches. *)
LEMMA HalfRefilled ==
  ASSUME NEW is_buy \in BOOLEAN, NEW h, NEW f, IsLevels(is_buy, f), ShortHalf(is_buy, h, f),
         NEW q \in Near(is_buy) \ Shown(h.arr[1], h.arr[2]), f[q] > 0,
         \A x \in Quotes(is_buy) \ Shown(h.arr[1], h.arr[2]) : f[x] > 0 => x = q \/ Better(is_buy, q, x),
         NEW dec, ~dec.valid, NEW updt, updt = NewWord(q, f[q]),
         NEW bd, NEW h2, h2 = HalfClock(h, dec, updt, bd)
  PROVE  /\ FullHalf(is_buy, h2, f) /\ ~h2.updt_ing /\ ~h2.updt_req
         /\ h2.arr[2].price = q
<1>1. PICK a, b, o, n : h.arr[1] = a /\ h.arr[2] = b /\ h.out_size = o /\ h.out_size_in_range = n
  OBVIOUS
<1>2. h \in HalfType /\ Short(is_buy, a, b, o, n, f)
  BY <1>1 DEF ShortHalf
<1>3. PICK w : w = NewWord(q, f[q])
  OBVIOUS
<1>4. w.valid /\ w.price = q /\ w.shares = f[q]
  BY <1>3 DEF NewWord
<1>5. Full(is_buy, a, w, o - f[q], n - f[q], f)
  BY <1>1, <1>2, <1>3, Refilled
<1>6. PICK e, r, o2, n2 :
        /\ e \in BOOLEAN /\ r \in BOOLEAN
        /\ e = (h.out_size # 0) /\ r = (h.out_size_in_range # 0)
        /\ o2 = o - f[q] /\ n2 = n - f[q]
  OBVIOUS
<1>7. h2 = [arr |-> <<a, w>>, out_size |-> o2, out_size_in_range |-> n2,
            updt_able |-> e, updt_able_in_range |-> r, updt_ing |-> FALSE, updt_req |-> FALSE]
  <2>1. updt = w /\ updt.valid /\ updt.shares = f[q]
    BY <1>3, <1>4
  <2>2. h2 = [arr |-> <<h.arr[1], updt>>, out_size |-> h.out_size - updt.shares,
              out_size_in_range |-> h.out_size_in_range - updt.shares,
              updt_able |-> h.out_size # 0, updt_able_in_range |-> h.out_size_in_range # 0,
              updt_ing |-> FALSE, updt_req |-> FALSE]
    BY ONLY <1>2, <2>1, ~dec.valid, h2 = HalfClock(h, dec, updt, bd), AfterNoMsg
  <2> QED BY ONLY <1>1, <1>6, <2>1, <2>2
<1>8. a \in Word /\ w \in Word /\ o2 \in Nat /\ n2 \in Nat
  <2>1. Kept(is_buy, a, w, o2, n2, f)
    BY <1>5, <1>6 DEF Full
  <2> QED BY <2>1, WordFacts
<1>9. h2 \in HalfType
  <2>1. <<a, w>> \in Word \X Word
    BY <1>8
  <2> HIDE DEF Word
  <2> QED BY <1>6, <1>7, <1>8, <2>1 DEF HalfType
<1>10. /\ h2.arr[1] = a /\ h2.arr[2] = w /\ h2.out_size = o2 /\ h2.out_size_in_range = n2
       /\ h2.updt_ing = FALSE /\ h2.updt_req = FALSE
  BY <1>7
<1> QED BY <1>4, <1>5, <1>6, <1>9, <1>10 DEF FullHalf
----------------------------------------------------------------------------
(* The steps: a clock without a message, or with one. *)
Passing(init) == Clock(init, NoDec) /\ levels' = levels /\ owed' = owed

Message(dec) ==
  /\ phase = "running" /\ phase' = phase /\ delay' = delay /\ ~failed
  /\ Clock(NoInit, dec)
  /\ dec.valid /\ dec.is_buy \in BOOLEAN /\ dec.has_rep \in BOOLEAN
  /\ dec.price \in Quotes(dec.is_buy) /\ dec.shares \in ShareCounts
  /\ Moves(dec, levels[dec.is_buy], levels'[dec.is_buy])
  /\ \A other \in BOOLEAN \ {dec.is_buy} : levels'[other] = levels[other]
  /\ \/ quiet >= 6 /\ owed = {} /\ dec.msg_type \in {"ADD", "REDUCE", "DELETE"}
     \/ /\ quiet >= 3 /\ owed # {}
        /\ dec = Dec("REPLACE", dec.is_buy, dec.price, dec.shares)
        /\ levels'[dec.is_buy][dec.price] >= dec.shares
  /\ dec.has_rep => dec.msg_type = "DELETE"
  /\ owed' = IF dec.has_rep THEN {dec.is_buy} ELSE {}
  /\ LevelsInv'

LEMMA NoDecFacts == ~NoDec.valid /\ NoDec.is_buy = FALSE /\ NoDec.has_rep = FALSE /\ NoDec.msg_type = "ADD"
BY DEF NoDec

(* What a change of one level does to the bound on all shares. *)
LEMMA AllShares ==
  ASSUME NEW is_buy \in BOOLEAN, NEW f, NEW g, NEW p, Changed(is_buy, f, g, p)
  PROVE  /\ Total(g, Quotes(is_buy)) = Total(f, Quotes(is_buy)) - f[p] + g[p]
         /\ Total(f, Quotes(is_buy)) \in Nat /\ Total(g, Quotes(is_buy)) \in Nat
<1> DEFINE Q == Quotes(is_buy)
<1>1. /\ IsFiniteSet(Q) /\ p \in Q /\ \A x \in Q : f[x] \in Nat /\ g[x] \in Nat
      /\ \A x \in Q \ {p} : f[x] = g[x]
  BY QuoteFacts DEF Changed, IsLevels
<1> HIDE DEF Q
<1>2. Total(g, Q) = Total(f, Q) - f[p] + g[p]
  BY <1>1, SumChange
<1>3. Total(f, Q) \in Nat /\ Total(g, Q) \in Nat
  BY <1>1, SumType
<1> QED BY <1>2, <1>3 DEF Q

LEMMA ChangeOne ==
  ASSUME LevelsInv, NEW s \in BOOLEAN, NEW p \in Quotes(s), NEW c \in Nat,
         levels' = [levels EXCEPT ![s][p] = c]
  PROVE  /\ levels' \in [BOOLEAN -> {levels'[TRUE], levels'[FALSE]}]
         /\ \A is_buy \in BOOLEAN : IsLevels(is_buy, levels'[is_buy])
         /\ (\A r \in BOOLEAN \ {s} : levels'[r] = levels[r]) /\ levels'[s][p] = c
         /\ Changed(s, levels[s], levels'[s], p)
<1>1. /\ levels \in [BOOLEAN -> {levels[TRUE], levels[FALSE]}]
      /\ \A is_buy \in BOOLEAN : levels[is_buy] \in [Quotes(is_buy) -> Nat]
  BY DEF LevelsInv, IsLevels
<1>2. levels' = [is_buy \in BOOLEAN |-> IF is_buy = s THEN [levels[s] EXCEPT ![p] = c] ELSE levels[is_buy]]
  BY <1>1
<1>3. levels'[s] = [levels[s] EXCEPT ![p] = c] /\ \A r \in BOOLEAN \ {s} : levels'[r] = levels[r]
  BY <1>2
<1>4. /\ levels'[s] \in [Quotes(s) -> Nat] /\ levels'[s][p] = c
      /\ \A q \in Quotes(s) \ {p} : levels'[s][q] = levels[s][q]
  BY <1>1, <1>3
<1>5. \A is_buy \in BOOLEAN : IsLevels(is_buy, levels'[is_buy])
  BY <1>1, <1>3, <1>4 DEF IsLevels
<1>6. levels' \in [BOOLEAN -> {levels'[TRUE], levels'[FALSE]}]
  BY <1>2
<1> QED BY <1>1, <1>3, <1>4, <1>5, <1>6 DEF Changed, IsLevels

LEMMA BringIsMessage ==
  ASSUME BookInv, NEW t \in {"ADD", "REPLACE"}, NEW s \in BOOLEAN, NEW c \in ShareCounts, NEW p \in Quotes(s),
         Bring(t, s, p, c), t = "ADD" => owed = {}, t = "REPLACE" => owed # {}
  PROVE  Message(Dec(t, s, p, c))
<1>0. PICK d : d = Dec(t, s, p, c)
  OBVIOUS
<1>1. d.valid /\ d.msg_type = t /\ d.has_rep = FALSE /\ d.is_buy = s /\ d.price = p /\ d.shares = c
  BY <1>0 DEF Dec
<1>2. LevelsInv /\ c \in Nat \ {0}
  BY QuotesAssumption DEF BookInv
<1>3. levels[s][p] \in Nat
  BY <1>2 DEF LevelsInv, IsLevels
<1>4. /\ levels' \in [BOOLEAN -> {levels'[TRUE], levels'[FALSE]}]
      /\ \A is_buy \in BOOLEAN : IsLevels(is_buy, levels'[is_buy])
      /\ (\A r \in BOOLEAN \ {s} : levels'[r] = levels[r]) /\ levels'[s][p] = levels[s][p] + c
      /\ Changed(s, levels[s], levels'[s], p)
  <2>1. levels' = [levels EXCEPT ![s][p] = levels[s][p] + c]
    BY DEF Bring
  <2>2. levels[s][p] + c \in Nat
    BY <1>2, <1>3
  <2> QED BY <1>2, <2>1, <2>2, ChangeOne
<1>5. Moves(d, levels[s], levels'[s])
  BY <1>1, <1>2, <1>3, <1>4 DEF Moves, IsAdd
<1>6. Clock(NoInit, d) /\ phase = "running" /\ ~failed /\ phase' = phase /\ delay' = delay /\ owed' = {}
  BY <1>0 DEF Bring, MayCome
<1>7. LevelsInv'
  <2>1. quiet' \in 1 .. LongQuiet
    BY <1>1, <1>2, <1>6 DEF Clock, QuietAfter, LongQuiet, LevelsInv
  <2>2. Uncrossed' /\ (SharesAt(TRUE, Bids) + SharesAt(FALSE, Offers) <= MaxShares)'
    BY DEF Bring
  <2> QED BY <1>2, <1>4, <1>6, <2>1, <2>2 DEF LevelsInv
<1>8. quiet \in Nat /\ quiet >= (IF t = "ADD" THEN 9 ELSE 3)
  BY <1>2 DEF Bring, MayCome, Needed, LevelsInv, LongQuiet
<1>9. levels'[s][p] >= c
  BY <1>2, <1>3, <1>4
<1>10. \/ quiet >= 6 /\ owed = {} /\ d.msg_type \in {"ADD", "REDUCE", "DELETE"}
       \/ /\ quiet >= 3 /\ owed # {}
          /\ d = Dec("REPLACE", d.is_buy, d.price, d.shares)
          /\ levels'[d.is_buy][d.price] >= d.shares
  <2>1. CASE t = "ADD"
    BY <1>1, <1>8, <2>1
  <2>2. CASE t = "REPLACE"
    BY <1>0, <1>1, <1>8, <1>9, <2>2
  <2> QED BY <2>1, <2>2
<1>11. Message(d)
  BY <1>1, <1>4, <1>5, <1>6, <1>7, <1>10 DEF Message
<1> QED BY <1>0, <1>11

LEMMA TakeIsMessage ==
  ASSUME BookInv, NEW t \in {"REDUCE", "DELETE"}, NEW rep \in BOOLEAN, rep => t = "DELETE", Take(t, rep)
  PROVE  \E d : Message(d)
<1>1. PICK s \in BOOLEAN, c \in ShareCounts : \E p \in Traded(s) :
       /\ levels[s][p] >= c
       /\ levels' = [levels EXCEPT ![s][p] = @ - c]
       /\ owed' = IF rep THEN {s} ELSE {}
       /\ Clock(NoInit, [Dec(t, s, p, c) EXCEPT !.has_rep = rep])
  BY DEF Take
<1>2. PICK p \in Quotes(s) :
       /\ levels[s][p] >= c
       /\ levels' = [levels EXCEPT ![s][p] = @ - c]
       /\ owed' = IF rep THEN {s} ELSE {}
       /\ Clock(NoInit, [Dec(t, s, p, c) EXCEPT !.has_rep = rep])
  BY <1>1 DEF Traded
<1>0. PICK e, d : e = Dec(t, s, p, c) /\ d = [e EXCEPT !.has_rep = rep]
  OBVIOUS
<1>3. d.valid /\ d.msg_type = t /\ d.has_rep = rep /\ d.is_buy = s /\ d.price = p /\ d.shares = c
  BY <1>0 DEF Dec
<1>4. LevelsInv /\ c \in Nat \ {0}
  BY QuotesAssumption DEF BookInv
<1>5. levels[s][p] \in Nat
  BY <1>4 DEF LevelsInv, IsLevels
<1>6. /\ levels' \in [BOOLEAN -> {levels'[TRUE], levels'[FALSE]}]
      /\ \A is_buy \in BOOLEAN : IsLevels(is_buy, levels'[is_buy])
      /\ (\A r \in BOOLEAN \ {s} : levels'[r] = levels[r]) /\ levels'[s][p] = levels[s][p] - c
      /\ Changed(s, levels[s], levels'[s], p)
  <2>1. levels' = [levels EXCEPT ![s][p] = levels[s][p] - c]
    BY <1>2
  <2>2. levels[s][p] - c \in Nat
    BY <1>2, <1>4, <1>5
  <2> QED BY <1>4, <2>1, <2>2, ChangeOne
<1>7. Moves(d, levels[s], levels'[s])
  <2>1. ~IsAdd(d)
    BY <1>3 DEF IsAdd
  <2>2. levels[s][p] = levels'[s][p] + c
    BY <1>4, <1>5, <1>6
  <2> QED BY <1>3, <1>4, <1>6, <2>1, <2>2 DEF Moves
<1>8. Clock(NoInit, d) /\ phase = "running" /\ ~failed /\ phase' = phase /\ delay' = delay /\ owed = {}
  BY <1>0, <1>2 DEF Take, MayCome
<1>9. \A is_buy \in BOOLEAN : \A q \in Quotes(is_buy) :
        levels'[is_buy][q] \in Nat /\ levels[is_buy][q] \in Nat /\ levels'[is_buy][q] <= levels[is_buy][q]
  BY <1>2, <1>4, <1>5, <1>6 DEF Changed, IsLevels, LevelsInv
<1>10. Uncrossed'
  <2>1. \A is_buy \in BOOLEAN : Traded(is_buy)' \subseteq Traded(is_buy)
    BY <1>9 DEF Traded
  <2>2. Uncrossed
    BY <1>4 DEF LevelsInv
  <2> QED BY <2>1, <2>2 DEF Uncrossed
<1>11. (SharesAt(TRUE, Bids) + SharesAt(FALSE, Offers) <= MaxShares)'
  <2>1. /\ Total(levels'[s], Quotes(s)) = Total(levels[s], Quotes(s)) - levels[s][p] + levels'[s][p]
        /\ Total(levels[s], Quotes(s)) \in Nat /\ Total(levels'[s], Quotes(s)) \in Nat
    BY <1>6, AllShares
  <2>2. Total(levels'[s], Quotes(s)) <= Total(levels[s], Quotes(s))
    BY <1>4, <1>5, <1>6, <2>1
  <2>3. ASSUME NEW r \in BOOLEAN \ {s}
        PROVE  Total(levels'[r], Quotes(r)) = Total(levels[r], Quotes(r)) /\ Total(levels[r], Quotes(r)) \in Nat
    <3>1. IsFiniteSet(Quotes(r)) /\ \A x \in Quotes(r) : levels[r][x] \in Nat
      BY <1>9, QuoteFacts
    <3> QED BY <1>6, <3>1, SumType
  <2>4. Total(levels[TRUE], Quotes(TRUE)) + Total(levels[FALSE], Quotes(FALSE)) <= MaxShares /\ MaxShares \in Nat
    BY <1>4, QuotesAssumption DEF LevelsInv, SharesAt, Total, Quotes
  <2>6. ASSUME NEW r \in BOOLEAN
        PROVE  /\ Total(levels'[r], Quotes(r)) <= Total(levels[r], Quotes(r))
               /\ Total(levels'[r], Quotes(r)) \in Nat /\ Total(levels[r], Quotes(r)) \in Nat
    BY <2>1, <2>2, <2>3
  <2>5. Total(levels'[TRUE], Quotes(TRUE)) + Total(levels'[FALSE], Quotes(FALSE)) <= MaxShares
    <3>1. /\ Total(levels'[TRUE], Quotes(TRUE)) <= Total(levels[TRUE], Quotes(TRUE))
          /\ Total(levels'[TRUE], Quotes(TRUE)) \in Nat /\ Total(levels[TRUE], Quotes(TRUE)) \in Nat
      BY <2>6
    <3>2. /\ Total(levels'[FALSE], Quotes(FALSE)) <= Total(levels[FALSE], Quotes(FALSE))
          /\ Total(levels'[FALSE], Quotes(FALSE)) \in Nat /\ Total(levels[FALSE], Quotes(FALSE)) \in Nat
      BY <2>6
    <3>3. ASSUME NEW x \in Nat, NEW y \in Nat, NEW v \in Nat, NEW w \in Nat, v <= x, w <= y, x + y <= MaxShares
          PROVE  v + w <= MaxShares
      BY <2>4, <3>3
    <3>4. PICK x, y, v, w : /\ x = Total(levels[TRUE], Quotes(TRUE)) /\ y = Total(levels[FALSE], Quotes(FALSE))
                            /\ v = Total(levels'[TRUE], Quotes(TRUE)) /\ w = Total(levels'[FALSE], Quotes(FALSE))
      OBVIOUS
    <3>5. x \in Nat /\ y \in Nat /\ v \in Nat /\ w \in Nat /\ v <= x /\ w <= y /\ x + y <= MaxShares
      BY <2>4, <3>1, <3>2, <3>4
    <3>6. v + w <= MaxShares
      BY <3>3, <3>5
    <3> QED BY <3>4, <3>6
  <2> QED BY <2>5 DEF SharesAt, Total, Quotes
<1>12. LevelsInv'
  <2>1. quiet' \in 1 .. LongQuiet
    BY <1>3, <1>4, <1>8 DEF Clock, QuietAfter, LongQuiet, LevelsInv
  <2>2. owed' \subseteq BOOLEAN
    BY <1>2
  <2> QED BY <1>4, <1>6, <1>8, <1>10, <1>11, <2>1, <2>2 DEF LevelsInv
<1>13. quiet \in Nat /\ quiet >= 6
  BY <1>4 DEF Take, MayCome, Needed, LevelsInv, LongQuiet
<1>14. Message(d)
  BY <1>2, <1>3, <1>6, <1>7, <1>8, <1>12, <1>13 DEF Message
<1> QED BY <1>14

LEMMA StepCases ==
  ASSUME BookInv, Next
  PROVE  \/ AfterReset \/ Initialize \/ AwaitReady \/ Idle
         \/ \E d : Message(d)
<1>1. ASSUME AddOrder PROVE \E d : Message(d)
  <2>1. PICK s \in BOOLEAN, c \in ShareCounts : \E p \in Quotes(s) : Bring("ADD", s, p, c)
    BY <1>1 DEF AddOrder
  <2>2. PICK p \in Quotes(s) : Bring("ADD", s, p, c)
    BY <2>1
  <2> QED BY <1>1, <2>2, BringIsMessage DEF AddOrder
<1>2. ASSUME ReplaceOrder PROVE \E d : Message(d)
  <2>1. PICK s \in owed, c \in ShareCounts : \E p \in Quotes(s) : Bring("REPLACE", s, p, c)
    BY <1>2 DEF ReplaceOrder
  <2>3. PICK p \in Quotes(s) : Bring("REPLACE", s, p, c)
    BY <2>1
  <2>2. s \in BOOLEAN
    BY DEF BookInv, LevelsInv
  <2> QED BY <2>2, <2>3, BringIsMessage
<1> QED BY <1>1, <1>2, TakeIsMessage DEF Next, ReduceOrder, DeleteOrder, DeleteReplaced
----------------------------------------------------------------------------
(* What reaches the halves in a step. *)
Resting ==
  /\ ~updt_ing_q
  /\ \A is_buy \in BOOLEAN : /\ ~half[is_buy].updt_ing /\ ~half[is_buy].updt_req
                             /\ ~updt_q[is_buy].req /\ ~updt_q[is_buy].req2

LEMMA RestingIf ==
  ASSUME RefillsInv, \A is_buy \in BOOLEAN : ~half[is_buy].updt_ing
  PROVE  Resting
BY DEF RefillsInv, Alone, Age, Resting

LEMMA AgeFacts ==
  ASSUME quiet \in Nat
  PROVE  /\ Age(1) => quiet \in 1 .. 2 /\ (owed # {} => quiet = 1)
         /\ Age(2) => quiet \in 2 .. 3 /\ (owed # {} => quiet = 2)
         /\ Age(3) => quiet \in 3 .. 4 /\ (owed # {} => quiet = 3)
BY DEF Age

LEMMA RefillAges ==
  ASSUME RefillsInv, NEW is_buy \in BOOLEAN
  PROVE  /\ half[is_buy].updt_ing => \/ half[is_buy].updt_req /\ Age(1)
                                     \/ updt_q[is_buy].req /\ Age(2) /\ updt_ing_q
                                     \/ updt_q[is_buy].req2 /\ Age(3) /\ updt_ing_q
         /\ half[is_buy].updt_req => Age(1)
         /\ updt_q[is_buy].req => Age(2)
         /\ updt_q[is_buy].req2 => Age(3)
BY Zenon DEF RefillsInv

LEMMA RestingLate ==
  ASSUME RefillsInv, quiet \in Nat, quiet >= 5
  PROVE  Resting
<1>1. ~Age(1) /\ ~Age(2) /\ ~Age(3)
  BY AgeFacts
<1>2. ASSUME NEW is_buy \in BOOLEAN PROVE ~half[is_buy].updt_ing
  BY <1>1, RefillAges, Zenon
<1> QED BY <1>2, RestingIf

LEMMA RestingReplaced ==
  ASSUME RefillsInv, quiet \in Nat, quiet >= 3, owed # {}, ~updt_ing_q
  PROVE  Resting
<1>1. ~Age(1)
  BY AgeFacts
<1>2. ASSUME NEW is_buy \in BOOLEAN PROVE ~half[is_buy].updt_ing
  BY <1>1, RefillAges, Zenon
<1> QED BY <1>2, RestingIf

(* Who reads a level reads it in the third clock. *)
LEMMA ReadingReplaced ==
  ASSUME RefillsInv, quiet \in Nat, quiet >= 3, owed # {}, updt_ing_q
  PROVE  /\ \E is_buy \in BOOLEAN : updt_q[is_buy].req2
         /\ quiet = 3 /\ \A is_buy \in BOOLEAN : ~half[is_buy].updt_req /\ ~updt_q[is_buy].req
<1>1. ~Age(1) /\ ~Age(2) /\ (Age(3) => quiet = 3)
  BY AgeFacts
<1>2. \A is_buy \in BOOLEAN : ~half[is_buy].updt_req /\ ~updt_q[is_buy].req
  BY <1>1, RefillAges, Zenon
<1>3. \E is_buy \in BOOLEAN : updt_q[is_buy].req2
  BY <1>2, Zenon DEF RefillsInv
<1>4. Age(3)
  BY <1>3, RefillAges, Zenon
<1> QED BY <1>1, <1>2, <1>3, <1>4

LEMMA NothingKept ==
  ASSUME KeptInv, quiet \in Nat, quiet >= 2 \/ owed # {}
  PROVE  ~dec_book_updt_q.valid
BY DEF KeptInv

LEMMA BoundEnd ==
  ASSUME StoredInv, phase = "running", NEW is_buy \in BOOLEAN
  PROVE  bound(is_buy) = WindowEnd(is_buy)
BY DEF StoredInv, bound, WindowEnd, price_max_q

LEMMA ViewAll ==
  ASSUME NEW is_buy \in BOOLEAN, ~dec_book_updt_q.valid
  PROVE  View(is_buy) = levels[is_buy]
BY DEF View

(* Nobody asks twice, and a level read goes to one half. *)
LEMMA HalvesClock ==
  ASSUME NEW init, NEW dec, Clock(init, dec), NEW is_buy \in BOOLEAN
  PROVE  half'[is_buy] = HalfClock(half[is_buy], half_dec_book(dec, is_buy), updt_o(is_buy), bound(is_buy))
BY DEF Clock, BookClock

(* A message comes to a book at rest, or it is kept. *)
LEMMA MessageCases ==
  ASSUME BookInv, NEW dec, Message(dec)
  PROVE  /\ ~dec_book_updt_q.valid /\ quiet \in Nat
         /\ \/ Resting
            \/ /\ updt_ing_q /\ quiet = 3 /\ owed # {} /\ dec.msg_type = "REPLACE"
               /\ \E is_buy \in BOOLEAN : updt_q[is_buy].req2
               /\ \A is_buy \in BOOLEAN : ~half[is_buy].updt_req /\ ~updt_q[is_buy].req
<1>1. RefillsInv /\ KeptInv /\ quiet \in Nat
  BY DEF BookInv, LevelsInv, LongQuiet
<1>2. CASE quiet >= 6 /\ owed = {}
  BY <1>1, <1>2, RestingLate, NothingKept
<1>3. CASE quiet >= 3 /\ owed # {} /\ dec = Dec("REPLACE", dec.is_buy, dec.price, dec.shares)
  <2>1. dec.msg_type = "REPLACE"
    <3>1. Dec("REPLACE", dec.is_buy, dec.price, dec.shares).msg_type = "REPLACE"
      BY DEF Dec
    <3> QED BY <1>3, <3>1
  <2> QED BY <1>1, <1>3, <2>1, RestingReplaced, ReadingReplaced, NothingKept
<1> QED BY <1>2, <1>3 DEF Message

(* A message at rest goes to the half of its side. *)
LEMMA PassedOn ==
  ASSUME NEW dec, ~dec_book_updt_q.valid, ~updt_ing_q, NEW is_buy \in BOOLEAN
  PROVE  half_dec_book(dec, is_buy) = IF dec.is_buy = is_buy THEN dec ELSE NoDec
BY DEF half_dec_book, bbo_dec_book, Releases

(* A message during a refill does not. *)
LEMMA HeldBack ==
  ASSUME NEW dec, updt_ing_q, NEW is_buy \in BOOLEAN
  PROVE  half_dec_book(dec, is_buy) = NoDec
BY DEF half_dec_book, bbo_dec_book, Releases

LEMMA Released ==
  ASSUME NEW dec, dec_book_updt_q.valid, ~updt_ing_q, NEW is_buy \in BOOLEAN
  PROVE  half_dec_book(dec, is_buy) = IF dec_book_updt_q.is_buy = is_buy THEN dec_book_updt_q ELSE NoDec
BY DEF half_dec_book, bbo_dec_book, Releases
----------------------------------------------------------------------------
(* What a clock does to a half: nothing, a level comes, or a message. *)
Keeps(is_buy) ==
  /\ ~updt_q[is_buy].req2
  /\ half'[is_buy] \in HalfType /\ half'[is_buy].arr = half[is_buy].arr
  /\ half'[is_buy].out_size = half[is_buy].out_size
  /\ half'[is_buy].out_size_in_range = half[is_buy].out_size_in_range
  /\ (half'[is_buy].updt_ing <=> half[is_buy].updt_ing) /\ ~half'[is_buy].updt_req
  /\ half'[is_buy].updt_able <=> half[is_buy].out_size # 0
  /\ half'[is_buy].updt_able_in_range <=> half[is_buy].out_size_in_range # 0

Reads(is_buy) ==
  /\ updt_q[is_buy].req2
  /\ FullHalf(is_buy, half'[is_buy], levels[is_buy])
  /\ ~half'[is_buy].updt_ing /\ ~half'[is_buy].updt_req
  /\ lut_price_out = half'[is_buy].arr[2].price

Takes(dec) ==
  /\ ~updt_q[dec.is_buy].req2
  /\ After(half[dec.is_buy], half'[dec.is_buy], dec, levels'[dec.is_buy])

LEMMA KeepsFull ==
  ASSUME NEW is_buy \in BOOLEAN, Keeps(is_buy), NEW f
  PROVE  /\ FullHalf(is_buy, half[is_buy], f) => FullHalf(is_buy, half'[is_buy], f)
         /\ ShortHalf(is_buy, half[is_buy], f) => ShortHalf(is_buy, half'[is_buy], f)
BY DEF Keeps, FullHalf, ShortHalf

LEMMA HalfTyped ==
  ASSUME HalvesInv, NEW is_buy \in BOOLEAN
  PROVE  half[is_buy] \in HalfType
BY DEF HalvesInv, FullHalf, ShortHalf

LEMMA ItKeeps ==
  ASSUME HalvesInv, NEW is_buy \in BOOLEAN, NEW init, NEW dec, Clock(init, dec),
         ~half_dec_book(dec, is_buy).valid, ~updt_q[is_buy].req2
  PROVE  Keeps(is_buy)
<1>1. half[is_buy] \in HalfType
  BY HalfTyped
<1>2. PICK h, h2, d, u, bd : /\ h = half[is_buy] /\ h2 = half'[is_buy] /\ d = half_dec_book(dec, is_buy)
                            /\ u = updt_o(is_buy) /\ bd = bound(is_buy)
  OBVIOUS
<1>3. ~d.valid /\ ~u.valid /\ h \in HalfType
  BY <1>1, <1>2 DEF updt_o
<1>4. h2 = HalfClock(h, d, u, bd)
  BY <1>2, HalvesClock
<1>5. /\ h2.arr = h.arr /\ h2.out_size = h.out_size /\ h2.out_size_in_range = h.out_size_in_range
      /\ h2.updt_ing = h.updt_ing /\ ~h2.updt_req
      /\ (h2.updt_able <=> h.out_size # 0) /\ (h2.updt_able_in_range <=> h.out_size_in_range # 0)
      /\ h2 \in HalfType
  BY ONLY <1>3, <1>4, HalfIdle
<1> QED BY <1>2, <1>5, Zenon DEF Keeps

(* The level found is the best of those not shown. *)
LEMMA NextFacts ==
  ASSUME NEW is_buy \in BOOLEAN, IsLevels(is_buy, levels[is_buy]),
         ShortHalf(is_buy, half[is_buy], levels[is_buy]), half[is_buy].out_size_in_range # 0
  PROVE  LET q == PriceOf(NextPlace(is_buy))
             shown == Shown(half[is_buy].arr[1], half[is_buy].arr[2])
         IN  /\ NextPlace(is_buy) \in Places /\ q \in Near(is_buy) \ shown /\ levels[is_buy][q] > 0
             /\ \A x \in Quotes(is_buy) \ shown : levels[is_buy][x] > 0 => x = q \/ Better(is_buy, q, x)
<1>1. PICK a, b, o, n, f : /\ half[is_buy].arr[1] = a /\ half[is_buy].arr[2] = b /\ half[is_buy].out_size = o
                           /\ half[is_buy].out_size_in_range = n /\ f = levels[is_buy]
  OBVIOUS
<1>2. Short(is_buy, a, b, o, n, f) /\ n # 0 /\ IsLevels(is_buy, f)
  BY <1>1 DEF ShortHalf
<1>3. PICK p \in Near(is_buy) \ Shown(a, b) : f[p] > 0
  BY <1>2, NothingLeft
<1>4. PICK L : L = Lacking(is_buy)
  OBVIOUS
<1>5. L = {i \in Places : PriceOf(i) \in Quotes(is_buy) \ Shown(a, b) /\ f[PriceOf(i)] > 0}
  BY <1>1, <1>4 DEF Lacking
<1>6. ASSUME NEW x \in Near(is_buy) \ Shown(a, b), f[x] > 0
      PROVE  Place(x) \in L /\ PriceOf(Place(x)) = x
  <2>1. x \in Nat /\ x % 50 = 0 /\ InTable(x) /\ x \in Quotes(is_buy)
    BY QuoteFacts DEF Near
  <2>2. Place(x) \in Places /\ PriceOf(Place(x)) = x
    BY <2>1, PriceFacts
  <2> QED BY <1>5, <1>6, <2>1, <2>2
<1>7. L \in SUBSET Places /\ L # {}
  BY <1>3, <1>5, <1>6
<1>8. PICK i : i = BestPlace(is_buy, L)
  OBVIOUS
<1>9. i \in L /\ \A y \in L : IF is_buy THEN i >= y ELSE i <= y
  BY <1>7, <1>8, BestIn
<1>10. NextPlace(is_buy) = i
  BY <1>4, <1>8 DEF NextPlace
<1>11. PICK q : q = PriceOf(i)
  OBVIOUS
<1>12. i \in Places /\ q \in Quotes(is_buy) \ Shown(a, b) /\ f[q] > 0 /\ InTable(q) /\ q \in Nat
  BY <1>5, <1>9, <1>11, PlaceFacts
<1>13. q \in Near(is_buy) \ Shown(a, b)
  BY <1>12 DEF Near
<1>14. ASSUME NEW x \in Quotes(is_buy) \ Shown(a, b), f[x] > 0
       PROVE  x = q \/ Better(is_buy, q, x)
  <2>1. x \in Nat /\ IF is_buy THEN x <= PriceBase + 50 * (L2_MEM_SIZE - 1) ELSE x >= PriceBase
    BY QuoteFacts
  <2>2. CASE InTable(x)
    <3>1. x \in Near(is_buy) \ Shown(a, b)
      BY <2>2 DEF Near
    <3>2. PICK j : j = Place(x)
      OBVIOUS
    <3>3. j \in L /\ PriceOf(j) = x
      BY <1>6, <1>14, <3>1, <3>2
    <3>4. j \in Places /\ (IF is_buy THEN i >= j ELSE i <= j)
      BY <1>7, <1>9, <3>3
    <3> QED BY <1>11, <1>12, <3>3, <3>4, PlaceOrder DEF Better, Places
  <2>3. CASE ~InTable(x)
    BY <1>12, <2>1, <2>3, SizeFacts DEF InTable, Better
  <2> QED BY <2>2, <2>3
<1> QED BY <1>1, <1>10, <1>11, <1>12, <1>13, <1>14

LEMMA ItReads ==
  ASSUME LevelsInv, HalvesInv, RefillsInv, FoundInv, NEW is_buy \in BOOLEAN, ~dec_book_updt_q.valid,
         NEW init, NEW dec, Clock(init, dec), updt_q[is_buy].req2
  PROVE  Reads(is_buy)
<1>1. ~half_dec_book(dec, is_buy).valid
  <2>1. updt_ing_q
    BY Zenon DEF RefillsInv
  <2> QED BY <2>1, HeldBack, NoDecFacts
<1>2. half[is_buy].updt_ing
  BY Zenon DEF RefillsInv, Alone
<1>3. /\ IsLevels(is_buy, levels[is_buy]) /\ ShortHalf(is_buy, half[is_buy], levels[is_buy])
      /\ half[is_buy].out_size_in_range # 0
  BY <1>2, ViewAll DEF HalvesInv, LevelsInv
<1>4. PICK h, h2, d, u, bd, q, f, sh : /\ h = half[is_buy] /\ h2 = half'[is_buy] /\ d = half_dec_book(dec, is_buy)
                            /\ u = updt_o(is_buy) /\ bd = bound(is_buy) /\ q = PriceOf(NextPlace(is_buy))
                            /\ f = levels[is_buy] /\ sh = Shown(half[is_buy].arr[1], half[is_buy].arr[2])
  OBVIOUS
<1>5. /\ q \in Near(is_buy) \ sh /\ f[q] > 0
      /\ \A x \in Quotes(is_buy) \ sh : f[x] > 0 => x = q \/ Better(is_buy, q, x)
  BY <1>3, <1>4, NextFacts
<1>6. u = NewWord(q, f[q]) /\ lut_price_out = q
  BY <1>4 DEF FoundInv, updt_o, NewWord, RefillsInv
<1>7. h2 = HalfClock(h, d, u, bd)
  BY <1>4, HalvesClock
<1>8. /\ ~d.valid /\ IsLevels(is_buy, f) /\ ShortHalf(is_buy, h, f)
      /\ sh = Shown(h.arr[1], h.arr[2])
  BY <1>1, <1>3, <1>4
<1>9. FullHalf(is_buy, h2, f) /\ ~h2.updt_ing /\ ~h2.updt_req /\ h2.arr[2].price = q
  BY ONLY <1>5, <1>6, <1>7, <1>8, is_buy \in BOOLEAN, HalfRefilled
<1> QED BY <1>4, <1>6, <1>9, Zenon DEF Reads

(* A message reaches a half at rest. *)
LEMMA ItTakes ==
  ASSUME LevelsInv, HalvesInv, StoredInv, phase = "running", NEW d, d.valid, d.is_buy \in BOOLEAN,
         ~half[d.is_buy].updt_ing, ~failed,
         ~updt_q[d.is_buy].req2, Moves(d, View(d.is_buy), levels'[d.is_buy]),
         NEW init, NEW dec, Clock(init, dec), half_dec_book(dec, d.is_buy) = d
  PROVE  Takes(d) /\ FullHalf(d.is_buy, half[d.is_buy], View(d.is_buy))
<1>1. PICK s, h, h2, u, f, g : /\ s = d.is_buy /\ h = half[s] /\ h2 = half'[s] /\ u = updt_o(s)
                               /\ f = View(s) /\ g = levels'[s]
  OBVIOUS
<1>2. h2 = HalfClock(h, d, u, WindowEnd(s))
  BY <1>1, HalvesClock, BoundEnd
<1>3. FullHalf(s, h, f) /\ ~h.updt_ing
  BY <1>1 DEF HalvesInv
<1>4. d.valid /\ d.is_buy = s /\ s \in BOOLEAN /\ Moves(d, f, g)
  BY <1>1
<1>5. After(h, h2, d, g)
  BY ONLY <1>2, <1>3, <1>4, HalfMsg
<1> QED BY <1>1, <1>3, <1>5 DEF Takes

LEMMA PassedClock ==
  ASSUME NEW init, NEW dec, Clock(init, dec)
  PROVE  dec_book_updt_q' = IF updt_ing_q THEN dec ELSE NoDec
BY DEF Clock, BookClock, Stash

(* A message kept is a replacement the half has not seen. *)
LEMMA KeptMessage ==
  ASSUME BookInv, dec_book_updt_q.valid
  PROVE  LET d == dec_book_updt_q
         IN  /\ quiet = 1 /\ owed = {} /\ ~failed /\ phase = "running" /\ Resting
             /\ d.is_buy \in BOOLEAN /\ d.msg_type = "REPLACE" /\ IsAdd(d)
             /\ d.price \in Quotes(d.is_buy) /\ d.shares \in Nat \ {0}
             /\ Moves(d, View(d.is_buy), levels[d.is_buy])
             /\ ~half[d.is_buy].updt_ing
<1> USE DEF BookInv
<1>1. /\ quiet = 1 /\ owed = {} /\ ~failed /\ \A is_buy \in BOOLEAN : ~half[is_buy].updt_ing
      /\ \E s \in BOOLEAN, c \in ShareCounts : \E p \in Quotes(s) :
            /\ dec_book_updt_q = Dec("REPLACE", s, p, c)
            /\ levels[s][p] >= c
  BY DEF KeptInv
<1>2. PICK s \in BOOLEAN, c \in ShareCounts : \E p \in Quotes(s) :
            /\ dec_book_updt_q = Dec("REPLACE", s, p, c)
            /\ levels[s][p] >= c
  BY <1>1
<1>3. PICK p \in Quotes(s) : dec_book_updt_q = Dec("REPLACE", s, p, c) /\ levels[s][p] >= c
  BY <1>2
<1>4. PICK d : d = dec_book_updt_q
  OBVIOUS
<1>5. d.valid /\ d.is_buy = s /\ d.price = p /\ d.shares = c /\ d.msg_type = "REPLACE"
  BY <1>3, <1>4 DEF Dec
<1>6. Resting
  BY <1>1, RestingIf
<1>7. phase = "running"
  BY <1>1 DEF BootInv, LongQuiet
<1>8. c \in Nat \ {0} /\ Moves(d, View(s), levels[s])
  <2>1. PICK f, g : f = levels[s] /\ g = View(s)
    OBVIOUS
  <2>2. c \in Nat \ {0} /\ f \in [Quotes(s) -> Nat]
    BY <2>1, QuotesAssumption DEF LevelsInv, IsLevels
  <2>3. g = [f EXCEPT ![p] = f[p] - c]
    BY <1>4, <1>5, <2>1 DEF View
  <2>4. f[p] >= c /\ f[p] \in Nat
    BY <1>3, <2>1, <2>2
  <2>5. g \in [Quotes(s) -> Nat] /\ f[p] = g[p] + c /\ \A q \in Quotes(s) \ {p} : f[q] = g[q]
    BY <2>2, <2>3, <2>4
  <2> QED BY <1>5, <2>1, <2>2, <2>4, <2>5 DEF Moves, Changed, IsLevels, IsAdd
<1> QED BY <1>1, <1>4, <1>5, <1>6, <1>7, <1>8 DEF IsAdd

(* What reaches the halves in a clock without a message. *)
LEMMA PassingHalves ==
  ASSUME BookInv, NEW init, Passing(init)
  PROVE  /\ ~dec_book_updt_q'.valid
         /\ \/ /\ ~dec_book_updt_q.valid
               /\ \A is_buy \in BOOLEAN : Keeps(is_buy)
            \/ /\ dec_book_updt_q.valid /\ Resting /\ phase = "running" /\ ~failed
               /\ dec_book_updt_q.is_buy \in BOOLEAN /\ IsAdd(dec_book_updt_q)
               /\ dec_book_updt_q.price \in Quotes(dec_book_updt_q.is_buy)
               /\ Takes(dec_book_updt_q)
               /\ \A r \in BOOLEAN \ {dec_book_updt_q.is_buy} : Keeps(r)
            \/ /\ ~dec_book_updt_q.valid
               /\ \E is_buy \in BOOLEAN : Reads(is_buy) /\ \A r \in BOOLEAN \ {is_buy} : Keeps(r)
<1> USE DEF BookInv
<1>1. Clock(init, NoDec) /\ levels' = levels
  BY DEF Passing
<1>2. ~dec_book_updt_q'.valid
  BY <1>1, PassedClock, NoDecFacts
<1>3. CASE dec_book_updt_q.valid
  <2>1. PICK d : d = dec_book_updt_q
    OBVIOUS
  <2>2. /\ ~failed /\ phase = "running" /\ Resting /\ d.valid
        /\ d.is_buy \in BOOLEAN /\ IsAdd(d) /\ d.price \in Quotes(d.is_buy)
        /\ Moves(d, View(d.is_buy), levels'[d.is_buy]) /\ ~half[d.is_buy].updt_ing
    BY <1>1, <1>3, <2>1, KeptMessage
  <2>3. half_dec_book(NoDec, d.is_buy) = d /\ \A r \in BOOLEAN \ {d.is_buy} : half_dec_book(NoDec, r) = NoDec
    BY <1>3, <2>1, <2>2, Released DEF Resting
  <2>4. Takes(d)
    BY <1>1, <2>2, <2>3, ItTakes DEF Resting
  <2>5. ASSUME NEW r \in BOOLEAN \ {d.is_buy} PROVE Keeps(r)
    BY <1>1, <2>2, <2>3, ItKeeps, NoDecFacts DEF Resting
  <2> QED BY <1>2, <1>3, <2>1, <2>2, <2>4, <2>5
<1>4. CASE ~dec_book_updt_q.valid
  <2>1. \A is_buy \in BOOLEAN : half_dec_book(NoDec, is_buy) = NoDec
    BY <1>4 DEF half_dec_book, bbo_dec_book, Releases
  <2>2. CASE \A is_buy \in BOOLEAN : ~updt_q[is_buy].req2
    BY <1>1, <1>2, <1>4, <2>1, <2>2, ItKeeps, NoDecFacts
  <2>3. ASSUME NEW s \in BOOLEAN, updt_q[s].req2
        PROVE  Reads(s) /\ \A r \in BOOLEAN \ {s} : Keeps(r)
    <3>1. Reads(s)
      BY <1>1, <1>4, <2>3, ItReads
    <3>2. \A r \in BOOLEAN \ {s} : ~updt_q[r].req2
      BY <2>3, Zenon DEF RefillsInv, Alone
    <3> QED BY <1>1, <2>1, <3>1, <3>2, ItKeeps, NoDecFacts
  <2> QED BY <1>2, <1>4, <2>2, <2>3
<1> QED BY <1>3, <1>4

(* What reaches the halves in a clock with a message. *)
AtRest(dec) ==
  /\ Resting /\ ~dec_book_updt_q'.valid
  /\ Takes(dec) /\ \A r \in BOOLEAN \ {dec.is_buy} : Keeps(r)

InRefill(dec) ==
  /\ quiet = 3 /\ owed # {} /\ dec.msg_type = "REPLACE" /\ dec_book_updt_q' = dec
  /\ \A is_buy \in BOOLEAN : ~half[is_buy].updt_req /\ ~updt_q[is_buy].req
  /\ \E is_buy \in BOOLEAN : Reads(is_buy) /\ \A r \in BOOLEAN \ {is_buy} : Keeps(r)

LEMMA MessageHalves ==
  ASSUME BookInv, NEW dec, Message(dec)
  PROVE  ~dec_book_updt_q.valid /\ (AtRest(dec) \/ InRefill(dec))
<1> USE DEF BookInv
<1>1. /\ Clock(NoInit, dec) /\ phase = "running" /\ ~failed /\ dec.valid /\ dec.is_buy \in BOOLEAN
      /\ Moves(dec, levels[dec.is_buy], levels'[dec.is_buy])
  BY DEF Message
<1>2. ~dec_book_updt_q.valid
  BY MessageCases
<1>3. CASE Resting
  <2>1. half_dec_book(dec, dec.is_buy) = dec /\ \A r \in BOOLEAN \ {dec.is_buy} : half_dec_book(dec, r) = NoDec
    BY <1>1, <1>2, <1>3, PassedOn DEF Resting
  <2>2. Takes(dec) /\ \A r \in BOOLEAN \ {dec.is_buy} : Keeps(r)
    <3>1. View(dec.is_buy) = levels[dec.is_buy]
      BY <1>1, <1>2, ViewAll
    <3>2. Takes(dec)
      BY <1>1, <1>3, <2>1, <3>1, ItTakes DEF Resting
    <3>3. ASSUME NEW r \in BOOLEAN \ {dec.is_buy} PROVE Keeps(r)
      BY <1>1, <1>3, <2>1, ItKeeps, NoDecFacts DEF Resting
    <3> QED BY <3>2, <3>3
  <2>3. ~dec_book_updt_q'.valid
    BY <1>1, <1>3, PassedClock, NoDecFacts DEF Resting
  <2> QED BY <1>2, <1>3, <2>2, <2>3 DEF AtRest
<1>4. CASE ~Resting
  <2>1. /\ updt_ing_q /\ quiet = 3 /\ owed # {} /\ dec.msg_type = "REPLACE"
        /\ \E is_buy \in BOOLEAN : updt_q[is_buy].req2
        /\ \A is_buy \in BOOLEAN : ~half[is_buy].updt_req /\ ~updt_q[is_buy].req
    BY <1>4, MessageCases
  <2>2. \A is_buy \in BOOLEAN : half_dec_book(dec, is_buy) = NoDec
    BY <2>1, HeldBack
  <2>3. dec_book_updt_q' = dec
    BY <1>1, <2>1, PassedClock
  <2>4. PICK s \in BOOLEAN : updt_q[s].req2
    BY <2>1
  <2>5. Reads(s)
    BY <1>1, <1>2, <2>4, ItReads
  <2>6. \A r \in BOOLEAN \ {s} : ~updt_q[r].req2
    BY <2>4, Zenon DEF RefillsInv, Alone
  <2>7. \A r \in BOOLEAN \ {s} : Keeps(r)
    BY <1>1, <2>2, <2>6, ItKeeps, NoDecFacts
  <2> QED BY <1>2, <2>1, <2>3, <2>5, <2>7 DEF InRefill
<1> QED BY <1>3, <1>4

(* The levels as the registers know them after a clock. *)
LEMMA ViewNext ==
  ASSUME NEW is_buy \in BOOLEAN, ~dec_book_updt_q'.valid
  PROVE  View(is_buy)' = levels'[is_buy]
BY DEF View

LEMMA ViewKept ==
  ASSUME NEW dec, Message(dec), dec_book_updt_q' = dec, dec.msg_type = "REPLACE", NEW is_buy \in BOOLEAN
  PROVE  View(is_buy)' = levels[is_buy]
<1>1. CASE is_buy = dec.is_buy
  <2>1. PICK f, g, p, c : f = levels[is_buy] /\ g = levels'[is_buy] /\ p = dec.price /\ c = dec.shares
    OBVIOUS
  <2>2. Moves(dec, f, g) /\ dec.valid
    BY <1>1, <2>1 DEF Message
  <2>3. /\ c \in Nat /\ p \in Quotes(is_buy) /\ f \in [Quotes(is_buy) -> Nat] /\ g \in [Quotes(is_buy) -> Nat]
        /\ g[p] = f[p] + c /\ \A q \in Quotes(is_buy) \ {p} : f[q] = g[q]
    BY <1>1, <2>1, <2>2 DEF Moves, Changed, IsLevels, IsAdd
  <2>4. View(is_buy)' = [g EXCEPT ![p] = g[p] - c]
    BY <1>1, <2>1, <2>2 DEF View
  <2>5. g[p] - c = f[p]
    BY <2>3
  <2>6. [g EXCEPT ![p] = g[p] - c] = f
    BY <2>3, <2>5
  <2> QED BY <2>1, <2>4, <2>6
<1>2. CASE is_buy # dec.is_buy
  BY <1>2 DEF Message, View
<1> QED BY <1>1, <1>2

(* A level goes only when the flags are up to date. *)
LEMMA DelFlags ==
  ASSUME BookInv, NEW dec, Message(dec), Effect(half[dec.is_buy], dec) = "del", AtRest(dec)
  PROVE  LET h == half[dec.is_buy]
         IN  /\ quiet \in Nat /\ quiet >= 6 /\ h.updt_able \in BOOLEAN /\ h.updt_able_in_range \in BOOLEAN
             /\ h.updt_able <=> h.out_size # 0
             /\ h.updt_able_in_range <=> h.out_size_in_range # 0
<1> DEFINE s == dec.is_buy
<1>1. s \in BOOLEAN /\ ~IsAdd(dec) /\ ~half[s].updt_ing
  BY DEF AtRest, Takes, After, Message, Resting
<1>2. dec.msg_type # "REPLACE"
  BY <1>1 DEF IsAdd
<1>3. Dec("REPLACE", dec.is_buy, dec.price, dec.shares).msg_type = "REPLACE"
  BY DEF Dec
<1>4. quiet >= 6 /\ quiet \in Nat
  <2>1. quiet >= 6
    BY <1>2, <1>3 DEF Message
  <2> QED BY <2>1 DEF BookInv, LevelsInv, LongQuiet
<1>5. half[s] \in HalfType
  BY <1>1, HalfTyped DEF BookInv
<1>6. PICK h : h = half[s]
  OBVIOUS
<1>7. /\ h.updt_able <=> h.out_size # 0
      /\ h.updt_able_in_range <=> h.out_size_in_range # 0
  BY <1>1, <1>4, <1>6 DEF BookInv, FollowsInv
<1>8. h.updt_able \in BOOLEAN /\ h.updt_able_in_range \in BOOLEAN
  BY <1>5, <1>6, HalfFields
<1> QED BY <1>4, <1>6, <1>7, <1>8

LEMMA NoLackUnseen ==
  ASSUME BookInv, NEW dec, Message(dec), Effect(half[dec.is_buy], dec) = "del", AtRest(dec), ~failed'
  PROVE  ~(half[dec.is_buy].updt_able /\ ~half[dec.is_buy].updt_able_in_range)
<1>1. dec.is_buy \in BOOLEAN /\ dec.valid /\ ~updt_ing_q
  BY DEF Message, AtRest, Resting
<1>2. half_dec_book(dec, dec.is_buy) = dec
  BY <1>1, PassedOn, MessageHalves
<1>3. ~book_error(dec)
  BY DEF Message, Clock
<1>4. ~half_error(half[dec.is_buy], half_dec_book(dec, dec.is_buy), updt_o(dec.is_buy))
  BY <1>1, <1>3 DEF book_error
<1> QED BY <1>1, <1>2, <1>4 DEF half_error

(* A half by itself, with what it knows of the levels. *)
HalfOk(is_buy, h, f, bad) ==
  /\ FullHalf(is_buy, h, f) \/ ShortHalf(is_buy, h, f)
  /\ ~bad /\ ~h.updt_ing => FullHalf(is_buy, h, f)
  /\ h.updt_ing => ShortHalf(is_buy, h, f) /\ h.out_size_in_range # 0

LEMMA HalvesAre == HalvesInv <=> \A is_buy \in BOOLEAN : HalfOk(is_buy, half[is_buy], View(is_buy), failed)
BY DEF HalvesInv, HalfOk

LEMMA HalvesAreNext ==
  ASSUME \A is_buy \in BOOLEAN : HalfOk(is_buy, half'[is_buy], View(is_buy)', failed')
  PROVE  HalvesInv'
BY DEF HalvesInv, HalfOk

LEMMA KeepsOk ==
  ASSUME NEW is_buy \in BOOLEAN, Keeps(is_buy), NEW f, NEW bad, NEW worse, bad => worse,
         HalfOk(is_buy, half[is_buy], f, bad)
  PROVE  HalfOk(is_buy, half'[is_buy], f, worse)
BY KeepsFull DEF Keeps, HalfOk

LEMMA ReadsOk ==
  ASSUME NEW is_buy \in BOOLEAN, Reads(is_buy), NEW bad
  PROVE  HalfOk(is_buy, half'[is_buy], levels[is_buy], bad)
BY DEF Reads, HalfOk

(* The flags are up to date, and do not tell of a level out of reach. *)
Flags(h, bad) ==
  /\ h.updt_able \in BOOLEAN /\ h.updt_able_in_range \in BOOLEAN
  /\ h.updt_able <=> h.out_size # 0
  /\ h.updt_able_in_range <=> h.out_size_in_range # 0
  /\ ~bad => ~(h.updt_able /\ ~h.updt_able_in_range)

LEMMA TakesOk ==
  ASSUME NEW d, d.is_buy \in BOOLEAN, Takes(d), ~half[d.is_buy].updt_ing,
         NEW bad, IsLevels(d.is_buy, levels'[d.is_buy]),
         Effect(half[d.is_buy], d) = "del" => Flags(half[d.is_buy], bad)
  PROVE  HalfOk(d.is_buy, half'[d.is_buy], levels'[d.is_buy], bad)
<1>1. PICK s, h, h2, g : s = d.is_buy /\ h = half[s] /\ h2 = half'[s] /\ g = levels'[s]
  OBVIOUS
<1>2. After(h, h2, d, g) /\ ~h.updt_ing /\ s \in BOOLEAN /\ IsLevels(s, g)
  BY <1>1 DEF Takes
<1>3. CASE Effect(h, d) # "del"
  BY <1>1, <1>2, <1>3 DEF After, HalfOk
<1>4. CASE Effect(h, d) = "del"
  <2>1. /\ ShortHalf(s, h2, g) /\ (h2.updt_ing <=> AsksUpdt(h))
        /\ h2.out_size = h.out_size /\ h2.out_size_in_range = h.out_size_in_range
    BY <1>1, <1>2, <1>4 DEF After
  <2>2. /\ h.updt_able <=> h.out_size # 0
        /\ h.updt_able_in_range <=> h.out_size_in_range # 0
        /\ ~bad => ~(h.updt_able /\ ~h.updt_able_in_range)
    BY <1>1, <1>4 DEF Flags
  <2>3. AsksUpdt(h) => h2.out_size_in_range # 0
    BY <2>1, <2>2 DEF AsksUpdt
  <2>4. ~bad /\ ~AsksUpdt(h) => h2.out_size = 0
    BY <2>1, <2>2 DEF AsksUpdt
  <2>5. h2.out_size = 0 => FullHalf(s, h2, g)
    BY <1>2, <2>1, NothingLeft DEF ShortHalf, FullHalf
  <2> QED BY <1>1, <2>1, <2>3, <2>4, <2>5 DEF HalfOk
<1> QED BY <1>3, <1>4

LEMMA StashedOk ==
  ASSUME BookInv, NEW init, Passing(init), dec_book_updt_q.valid, Resting,
         Takes(dec_book_updt_q), IsAdd(dec_book_updt_q), dec_book_updt_q.is_buy \in BOOLEAN, NEW bad
  PROVE  HalfOk(dec_book_updt_q.is_buy, half'[dec_book_updt_q.is_buy], levels'[dec_book_updt_q.is_buy], bad)
<1>1. PICK d : d = dec_book_updt_q
  OBVIOUS
<1>2. Effect(half[d.is_buy], d) # "del" /\ ~half[d.is_buy].updt_ing
  BY <1>1 DEF Takes, After, Resting
<1>3. IsLevels(d.is_buy, levels'[d.is_buy])
  BY <1>1 DEF Passing, BookInv, LevelsInv
<1> QED BY <1>1, <1>2, <1>3, TakesOk

LEMMA PassingHalvesInv ==
  ASSUME BookInv, NEW init, Passing(init)
  PROVE  HalvesInv'
<1>1. (failed => failed') /\ levels' = levels
  BY DEF Passing, Clock
<1>2. \A is_buy \in BOOLEAN : HalfOk(is_buy, half[is_buy], View(is_buy), failed)
  BY HalvesAre DEF BookInv
<1>3. \A is_buy \in BOOLEAN : View(is_buy)' = levels[is_buy]
  BY <1>1, ViewNext, PassingHalves
<1>4. CASE ~dec_book_updt_q.valid
  <2>1. \A is_buy \in BOOLEAN : View(is_buy) = levels[is_buy]
    BY <1>4, ViewAll
  <2>2. \A is_buy \in BOOLEAN : Keeps(is_buy) \/ Reads(is_buy)
    BY <1>4, PassingHalves
  <2>3. \A is_buy \in BOOLEAN : HalfOk(is_buy, half'[is_buy], levels[is_buy], failed')
    <3> SUFFICES ASSUME NEW s \in BOOLEAN
                 PROVE  HalfOk(s, half'[s], levels[s], failed')
      OBVIOUS
    <3>1. HalfOk(s, half[s], levels[s], failed)
      BY <1>2, <2>1, Zenon
    <3>2. CASE Keeps(s)
      BY <1>1, <3>1, <3>2, KeepsOk
    <3>3. CASE Reads(s)
      BY <3>3, ReadsOk
    <3> QED BY <2>2, <3>2, <3>3, Zenon
  <2> QED BY <1>3, <2>3, HalvesAreNext
<1>5. CASE dec_book_updt_q.valid
  <2>1. PICK d : d = dec_book_updt_q
    OBVIOUS
  <2>2. d.is_buy \in BOOLEAN /\ Takes(d) /\ IsAdd(d) /\ Resting /\ \A r \in BOOLEAN \ {d.is_buy} : Keeps(r)
    BY <1>5, <2>1, PassingHalves
  <2>3. \A r \in BOOLEAN \ {d.is_buy} : View(r) = levels[r]
    BY <2>1 DEF View
  <2>4. \A r \in BOOLEAN \ {d.is_buy} : HalfOk(r, half'[r], levels[r], failed')
    BY <1>1, <1>2, <2>2, <2>3, KeepsOk
  <2>5. HalfOk(d.is_buy, half'[d.is_buy], levels[d.is_buy], failed')
    BY <1>1, <1>5, <2>1, <2>2, StashedOk
  <2> QED BY <1>3, <2>4, <2>5, HalvesAreNext
<1> QED BY <1>4, <1>5

LEMMA MessageHalvesInv ==
  ASSUME BookInv, NEW dec, Message(dec)
  PROVE  HalvesInv'
<1>1. /\ (failed => failed') /\ dec.is_buy \in BOOLEAN
      /\ \A r \in BOOLEAN \ {dec.is_buy} : levels'[r] = levels[r]
      /\ IsLevels(dec.is_buy, levels'[dec.is_buy])
  BY DEF Message, Clock, LevelsInv
<1>2. \A is_buy \in BOOLEAN : HalfOk(is_buy, half[is_buy], View(is_buy), failed)
  BY HalvesAre DEF BookInv
<1>3. \A is_buy \in BOOLEAN : View(is_buy) = levels[is_buy]
  BY ViewAll, MessageHalves
<1>4. CASE AtRest(dec)
  <2>1. \A is_buy \in BOOLEAN : View(is_buy)' = levels'[is_buy]
    BY <1>4, ViewNext DEF AtRest
  <2>2. HalfOk(dec.is_buy, half'[dec.is_buy], levels'[dec.is_buy], failed')
    <3>1. Effect(half[dec.is_buy], dec) = "del" => Flags(half[dec.is_buy], failed')
      BY <1>4, DelFlags, NoLackUnseen DEF Flags
    <3>2. Takes(dec) /\ ~half[dec.is_buy].updt_ing
      BY <1>1, <1>4 DEF AtRest, Resting
    <3> QED BY <1>1, <3>1, <3>2, TakesOk
  <2>3. \A r \in BOOLEAN \ {dec.is_buy} : HalfOk(r, half'[r], levels'[r], failed')
    BY <1>1, <1>2, <1>3, <1>4, KeepsOk DEF AtRest
  <2> QED BY <2>1, <2>2, <2>3, HalvesAreNext
<1>5. CASE InRefill(dec)
  <2>1. \A is_buy \in BOOLEAN : View(is_buy)' = levels[is_buy]
    BY <1>5, ViewKept DEF InRefill
  <2>2. \A is_buy \in BOOLEAN : Keeps(is_buy) \/ Reads(is_buy)
    BY <1>5 DEF InRefill
  <2>3. \A is_buy \in BOOLEAN : HalfOk(is_buy, half'[is_buy], levels[is_buy], failed')
    BY <1>1, <1>2, <1>3, <2>2, KeepsOk, ReadsOk
  <2> QED BY <2>1, <2>3, HalvesAreNext
<1> QED BY <1>4, <1>5, MessageHalves

(* The pipeline of a side moves on. *)
LEMMA UpdtFacts ==
  ASSUME NEW init, NEW dec, Clock(init, dec), NEW is_buy \in BOOLEAN
  PROVE  /\ updt_q'[is_buy].req = half[is_buy].updt_req
         /\ updt_q'[is_buy].req2 = updt_q[is_buy].req
         /\ updt_q'[is_buy].ordering = lut_ordering_out[is_buy]
         /\ updt_q'[is_buy].local = BlockBests(is_buy, Worse(is_buy, updt_q[is_buy].ordering))
         /\ updt_q'[is_buy].enc = BestPlace(is_buy, updt_q[is_buy].local)
<1>1. PICK l, e : /\ l = [side \in BOOLEAN |-> BlockBests(side, Worse(side, updt_q[side].ordering))]
                  /\ e = [side \in BOOLEAN |-> BestPlace(side, updt_q[side].local)]
  OBVIOUS
<1>2. updt_q' = [side \in BOOLEAN |->
               [req      |-> half[side].updt_req,
                req2     |-> updt_q[side].req,
                ordering |-> lut_ordering_out[side],
                local    |-> l[side],
                enc      |-> e[side]]]
  BY <1>1 DEF Clock, BookClock, L2Clock, UpdtClock
<1>3. updt_q'[is_buy] = 
               [req      |-> half[is_buy].updt_req,
                req2     |-> updt_q[is_buy].req,
                ordering |-> lut_ordering_out[is_buy],
                local    |-> l[is_buy],
                enc      |-> e[is_buy]]
  BY <1>2
<1> QED BY <1>1, <1>3

LEMMA ReqFacts ==
  ASSUME NEW init, NEW dec, Clock(init, dec), NEW is_buy \in BOOLEAN
  PROVE  /\ updt_q'[is_buy].req <=> half[is_buy].updt_req
         /\ updt_q'[is_buy].req2 <=> updt_q[is_buy].req
BY UpdtFacts

LEMMA WaitFacts ==
  ASSUME NEW init, NEW dec, Clock(init, dec)
  PROVE  /\ updt_ing_q' \in BOOLEAN
         /\ updt_ing_q' <=> /\ \A is_buy \in BOOLEAN : ~updt_q[is_buy].req2
                            /\ updt_ing_q \/ \E is_buy \in BOOLEAN : half[is_buy].updt_req
<1>1. updt_ing_q' = (/\ ~\E is_buy \in BOOLEAN : updt_o(is_buy).valid
                     /\ updt_ing_q \/ \E is_buy \in BOOLEAN : half[is_buy].updt_req)
  BY DEF Clock, BookClock, Stash
<1>2. \A is_buy \in BOOLEAN : updt_o(is_buy).valid = updt_q[is_buy].req2
  BY DEF updt_o
<1> QED BY <1>1, <1>2, Zenon

(* Nothing is refilled. *)
AllRest ==
  /\ ~updt_ing_q /\ updt_ing_q \in BOOLEAN
  /\ \A is_buy \in BOOLEAN :
       /\ ~half[is_buy].updt_ing /\ ~half[is_buy].updt_req
       /\ ~updt_q[is_buy].req /\ ~updt_q[is_buy].req2
       /\ half[is_buy].updt_req \in BOOLEAN /\ updt_q[is_buy].req \in BOOLEAN /\ updt_q[is_buy].req2 \in BOOLEAN

LEMMA RestRefills == AllRest => RefillsInv
BY Zenon DEF AllRest, RefillsInv

LEMMA RestRefillsNext == AllRest' => RefillsInv'
BY Zenon DEF AllRest, RefillsInv

LEMMA RefillTypes ==
  ASSUME HalvesInv', RefillsInv, HalvesInv, NEW init, NEW dec, Clock(init, dec), NEW is_buy \in BOOLEAN
  PROVE  /\ half'[is_buy].updt_req \in BOOLEAN
         /\ updt_q'[is_buy].req \in BOOLEAN /\ updt_q'[is_buy].req2 \in BOOLEAN
         /\ half'[is_buy].updt_ing \in BOOLEAN
<1>1. half'[is_buy] \in HalfType /\ half[is_buy] \in HalfType
  BY DEF HalvesInv, FullHalf, ShortHalf
<1>2. half'[is_buy].updt_req \in BOOLEAN /\ half[is_buy].updt_req \in BOOLEAN /\ half'[is_buy].updt_ing \in BOOLEAN
  BY <1>1, HalfFields
<1>3. updt_q[is_buy].req \in BOOLEAN
  BY Zenon DEF RefillsInv
<1> QED BY <1>2, <1>3, UpdtFacts

LEMMA AgesPass ==
  ASSUME NEW init, Passing(init), quiet \in Nat
  PROVE  (Age(1) => Age(2)') /\ (Age(2) => Age(3)')
<1>1. quiet' = IF quiet < 9 THEN quiet + 1 ELSE 9
  BY NoDecFacts DEF Passing, Clock, QuietAfter, LongQuiet
<1>2. owed' = owed
  BY DEF Passing
<1> QED BY <1>1, <1>2 DEF Age

(* Everything rests after a level is read. *)
LEMMA ReadRests ==
  ASSUME RefillsInv, NEW s \in BOOLEAN, Reads(s), \A r \in BOOLEAN \ {s} : Keeps(r),
         NEW init, NEW dec, Clock(init, dec), HalvesInv, HalvesInv'
  PROVE  AllRest'
<1>1. /\ updt_q[s].req2 /\ ~half'[s].updt_ing
      /\ \A r \in BOOLEAN : ~half'[r].updt_req
  BY Zenon DEF Reads, Keeps
<1>2. \A r \in BOOLEAN : ~half[r].updt_req /\ ~updt_q[r].req
  BY <1>1, Zenon DEF RefillsInv, Alone
<1>3. \A r \in BOOLEAN \ {s} : ~half[r].updt_ing
  BY <1>1, Zenon DEF RefillsInv, Alone
<1>4. \A r \in BOOLEAN : ~half'[r].updt_ing
  BY <1>1, <1>3, Zenon DEF Keeps
<1>5. \A r \in BOOLEAN : ~updt_q'[r].req /\ ~updt_q'[r].req2
  BY <1>2, ReqFacts, Zenon
<1>6. ~updt_ing_q' /\ updt_ing_q' \in BOOLEAN
  BY <1>1, WaitFacts, Zenon
<1> QED BY <1>1, <1>4, <1>5, <1>6, RefillTypes DEF AllRest

LEMMA RestGoesOn ==
  ASSUME Resting, \A r \in BOOLEAN : ~half'[r].updt_ing /\ ~half'[r].updt_req, RefillsInv,
         NEW init, NEW dec, Clock(init, dec), HalvesInv, HalvesInv'
  PROVE  AllRest'
<1>1. \A r \in BOOLEAN : ~half[r].updt_req /\ ~updt_q[r].req
  BY DEF Resting
<1>2. \A r \in BOOLEAN : ~updt_q'[r].req /\ ~updt_q'[r].req2
  BY <1>1, ReqFacts, Zenon
<1>3. ~updt_ing_q' /\ updt_ing_q' \in BOOLEAN
  BY <1>1, WaitFacts, Zenon DEF Resting
<1> QED BY <1>2, <1>3, RefillTypes DEF AllRest

(* A refill is a stage further. *)
LEMMA StagePasses ==
  ASSUME RefillsInv, \A s \in BOOLEAN : Keeps(s), quiet \in Nat, HalvesInv, HalvesInv',
         NEW init, Passing(init)
  PROVE  RefillsInv'
<1>1. /\ Clock(init, NoDec)
      /\ (Age(1) => Age(2)') /\ (Age(2) => Age(3)')
  BY AgesPass DEF Passing
<1>2. \A s \in BOOLEAN : /\ updt_q'[s].req <=> half[s].updt_req
                         /\ updt_q'[s].req2 <=> updt_q[s].req
                         /\ ~half'[s].updt_req /\ ~updt_q[s].req2
                         /\ half'[s].updt_ing <=> half[s].updt_ing
  BY <1>1, ReqFacts, Zenon DEF Keeps
<1>3. \A s \in BOOLEAN : Alone(s) => Alone(s)'
  BY <1>2, Zenon DEF Alone
<1>4. ASSUME NEW s \in BOOLEAN
      PROVE  /\ half'[s].updt_ing => half'[s].updt_req \/ updt_q'[s].req \/ updt_q'[s].req2
             /\ half'[s].updt_req => Alone(s)' /\ Age(1)' /\ ~updt_q'[s].req /\ ~updt_q'[s].req2
             /\ updt_q'[s].req => Alone(s)' /\ Age(2)' /\ ~updt_q'[s].req2
             /\ updt_q'[s].req2 => Alone(s)' /\ Age(3)'
  BY <1>1, <1>2, <1>3, Zenon DEF RefillsInv
<1>5. updt_ing_q' <=> \E s \in BOOLEAN : updt_q'[s].req \/ updt_q'[s].req2
  <2>1. updt_ing_q' <=> updt_ing_q \/ \E s \in BOOLEAN : half[s].updt_req
    BY <1>1, <1>2, WaitFacts, Zenon
  <2>2. updt_ing_q <=> \E s \in BOOLEAN : updt_q[s].req
    BY <1>2, Zenon DEF RefillsInv
  <2> QED BY <1>2, <2>1, <2>2, Zenon
<1>6. updt_ing_q' \in BOOLEAN
  BY <1>1, WaitFacts
<1>7. \A s \in BOOLEAN : half'[s].updt_req \in BOOLEAN /\ updt_q'[s].req \in BOOLEAN /\ updt_q'[s].req2 \in BOOLEAN
  BY <1>1, RefillTypes
<1> QED BY <1>4, <1>5, <1>6, <1>7, Zenon DEF RefillsInv

LEMMA PassingRefills ==
  ASSUME BookInv, NEW init, Passing(init)
  PROVE  RefillsInv'
<1>0. HalvesInv'
  BY PassingHalvesInv
<1>1. /\ Clock(init, NoDec) /\ HalvesInv /\ HalvesInv' /\ RefillsInv /\ quiet \in Nat
  BY <1>0 DEF Passing, BookInv, LevelsInv, LongQuiet
<1>2. CASE \A s \in BOOLEAN : Keeps(s)
  BY <1>1, <1>2, StagePasses
<1>3. CASE \E s \in BOOLEAN : Reads(s) /\ \A r \in BOOLEAN \ {s} : Keeps(r)
  BY <1>1, <1>3, ReadRests, RestRefillsNext
<1>4. CASE /\ dec_book_updt_q.valid /\ Resting /\ dec_book_updt_q.is_buy \in BOOLEAN /\ IsAdd(dec_book_updt_q)
           /\ Takes(dec_book_updt_q)
           /\ \A r \in BOOLEAN \ {dec_book_updt_q.is_buy} : Keeps(r)
  <2>1. PICK d : d = dec_book_updt_q
    OBVIOUS
  <2>2. ~half'[d.is_buy].updt_ing /\ ~half'[d.is_buy].updt_req
    BY <1>4, <2>1 DEF Takes, After, Resting
  <2>3. \A r \in BOOLEAN \ {d.is_buy} : ~half'[r].updt_ing /\ ~half'[r].updt_req
    BY <1>4, <2>1, Zenon DEF Keeps, Resting
  <2>4. \A r \in BOOLEAN : ~half'[r].updt_ing /\ ~half'[r].updt_req
    BY <2>2, <2>3
  <2> QED BY <1>1, <1>4, <2>4, RestGoesOn, RestRefillsNext
<1> QED BY <1>2, <1>3, <1>4, PassingHalves

LEMMA AgeOne ==
  ASSUME NEW dec, Message(dec)
  PROVE  Age(1)'
<1>1. /\ quiet' = QuietAfter(quiet, dec) /\ dec.valid /\ dec.has_rep \in BOOLEAN
      /\ dec.has_rep => dec.msg_type = "DELETE"
      /\ owed' = IF dec.has_rep THEN {dec.is_buy} ELSE {}
  BY DEF Message, Clock
<1>2. CASE dec.msg_type = "DELETE" /\ ~dec.has_rep
  BY <1>1, <1>2 DEF QuietAfter, Age
<1>3. CASE dec.msg_type # "DELETE" \/ dec.has_rep
  BY <1>1, <1>3 DEF QuietAfter, Age
<1> QED BY <1>1, <1>2, <1>3

LEMMA MessageRefills ==
  ASSUME BookInv, NEW dec, Message(dec)
  PROVE  RefillsInv'
<1>1. /\ Clock(NoInit, dec) /\ HalvesInv /\ HalvesInv' /\ RefillsInv
  BY MessageHalvesInv DEF Message, BookInv
<1>2. CASE InRefill(dec)
  <2>1. \E s \in BOOLEAN : Reads(s) /\ \A r \in BOOLEAN \ {s} : Keeps(r)
    BY <1>2 DEF InRefill
  <2> QED BY <1>1, <2>1, ReadRests, RestRefillsNext
<1>3. CASE AtRest(dec)
  <2>1. PICK s : s = dec.is_buy
    OBVIOUS
  <2>2. s \in BOOLEAN /\ Resting /\ \A r \in BOOLEAN \ {s} : Keeps(r)
    BY <1>3, <2>1 DEF AtRest, Message
  <2>3. \A r \in BOOLEAN \ {s} : ~half'[r].updt_ing /\ ~half'[r].updt_req
    BY <2>2, Zenon DEF Keeps, Resting
  <2>4. \/ ~half'[s].updt_ing /\ ~half'[s].updt_req
        \/ half'[s].updt_ing /\ half'[s].updt_req
    BY <1>3, <2>1, <2>2 DEF AtRest, Takes, After, Resting
  <2>5. CASE ~half'[s].updt_ing /\ ~half'[s].updt_req
    <3>1. \A r \in BOOLEAN : ~half'[r].updt_ing /\ ~half'[r].updt_req
      BY <2>3, <2>5
    <3> QED BY <1>1, <2>2, <3>1, RestGoesOn, RestRefillsNext
  <2>6. CASE half'[s].updt_ing /\ half'[s].updt_req
    <3>1. \A r \in BOOLEAN : ~half[r].updt_req /\ ~updt_q[r].req
      BY <2>2 DEF Resting
    <3>2. \A r \in BOOLEAN : ~updt_q'[r].req /\ ~updt_q'[r].req2
      BY <1>1, <3>1, ReqFacts, Zenon
    <3>3. ~updt_ing_q' /\ updt_ing_q' \in BOOLEAN
      BY <1>1, <2>2, <3>1, WaitFacts, Zenon DEF Resting
    <3>4. Alone(s)'
      BY <2>3, <2>6, Zenon DEF Alone
    <3>5. Age(1)'
      BY AgeOne
    <3>6. \A r \in BOOLEAN :
            half'[r].updt_req \in BOOLEAN /\ updt_q'[r].req \in BOOLEAN /\ updt_q'[r].req2 \in BOOLEAN
      BY <1>1, RefillTypes
    <3>7. ASSUME NEW r \in BOOLEAN
          PROVE  /\ half'[r].updt_ing => half'[r].updt_req
                 /\ half'[r].updt_req => Alone(r)' /\ Age(1)'
      BY <2>3, <2>6, <3>4, <3>5, Zenon
    <3> QED BY <3>2, <3>3, <3>6, <3>7, Zenon DEF RefillsInv
  <2> QED BY <2>4, <2>5, <2>6
<1> QED BY <1>2, <1>3, MessageHalves

(* The levels stay as they are. *)
LEMMA PassingLevels ==
  ASSUME BookInv, NEW init, Passing(init), delay' \in Nat, phase' \in {"reset", "waiting", "running"}
  PROVE  LevelsInv'
<1>1. quiet' = IF quiet < 9 THEN quiet + 1 ELSE 9
  BY NoDecFacts DEF Passing, Clock, QuietAfter, LongQuiet
<1>2. levels' = levels /\ owed' = owed /\ LevelsInv
  BY DEF Passing, BookInv
<1>3. quiet' \in 1 .. LongQuiet
  BY <1>1, <1>2 DEF LevelsInv, LongQuiet
<1> QED BY <1>2, <1>3 DEF LevelsInv, SharesAt, Uncrossed, Traded

LEMMA PassingKept ==
  ASSUME BookInv, NEW init, Passing(init)
  PROVE  KeptInv'
<1>1. dec_book_updt_q' = NoDec
  BY PassedClock DEF Passing
<1> QED BY <1>1, NoDecFacts DEF KeptInv

LEMMA MessageErrorFree ==
  ASSUME BookInv, NEW dec, Message(dec), InRefill(dec)
  PROVE  ~failed'
<1> USE DEF BookInv
<1>1. /\ ~failed /\ dec.valid /\ dec.is_buy \in BOOLEAN /\ dec.price \in Quotes(dec.is_buy)
      /\ phase = "running" /\ failed' = (failed \/ book_error(dec)) /\ ~dec_book_updt_q.valid
  BY MessageHalves DEF Message, Clock
<1>2. PICK s \in BOOLEAN : Reads(s)
  BY DEF InRefill
<1>3. updt_ing_q /\ \A r \in BOOLEAN : updt_q[r].req2 => half[r].updt_ing
  <2>1. updt_q[s].req2
    BY <1>2, Zenon DEF Reads
  <2> QED BY <2>1, Zenon DEF RefillsInv, Alone
<1>4. ~l2_error(dec)
  BY <1>1, QuoteFacts DEF l2_error, StoredInv
<1>5. ~error_dec_updt(dec)
  BY <1>1 DEF error_dec_updt, Releases
<1>6. \A r \in BOOLEAN : ~half_error(half[r], half_dec_book(dec, r), updt_o(r))
  <2> TAKE r \in BOOLEAN
  <2>1. half_dec_book(dec, r) = NoDec
    BY <1>3, HeldBack
  <2>2. updt_o(r).valid = updt_q[r].req2
    BY DEF updt_o
  <2> QED BY <1>3, <2>1, <2>2, NoDecFacts DEF half_error
<1>7. ~book_error(dec)
  BY <1>4, <1>5, <1>6, Zenon DEF book_error
<1> QED BY <1>1, <1>7

LEMMA MessageKept ==
  ASSUME BookInv, NEW dec, Message(dec)
  PROVE  KeptInv'
<1>1. CASE AtRest(dec)
  <2>1. ~updt_ing_q
    BY <1>1 DEF AtRest, Resting
  <2>2. dec_book_updt_q' = NoDec
    BY <2>1, PassedClock DEF Message
  <2> QED BY <2>2, NoDecFacts DEF KeptInv
<1>2. CASE InRefill(dec)
  <2>1. /\ quiet' = QuietAfter(quiet, dec) /\ dec.valid /\ dec.msg_type = "REPLACE" /\ dec_book_updt_q' = dec
        /\ dec.has_rep \in BOOLEAN /\ dec.has_rep => dec.msg_type = "DELETE"
        /\ owed' = IF dec.has_rep THEN {dec.is_buy} ELSE {}
        /\ dec.is_buy \in BOOLEAN /\ dec.price \in Quotes(dec.is_buy) /\ dec.shares \in ShareCounts
    BY <1>2 DEF Message, Clock, InRefill
  <2>2. quiet' = 1 /\ owed' = {}
    BY <2>1 DEF QuietAfter
  <2>3. /\ dec = Dec("REPLACE", dec.is_buy, dec.price, dec.shares)
        /\ levels'[dec.is_buy][dec.price] >= dec.shares
    BY <1>2 DEF Message, InRefill
  <2>4. ~failed'
    BY <1>2, MessageErrorFree
  <2>5. \A r \in BOOLEAN : ~half'[r].updt_ing
    <3>1. PICK s \in BOOLEAN : Reads(s) /\ \A r \in BOOLEAN \ {s} : Keeps(r)
      BY <1>2 DEF InRefill
    <3>2. AllRest'
      BY <3>1, ReadRests, MessageHalvesInv DEF Message, BookInv
    <3> QED BY <3>2, Zenon DEF AllRest
  <2>6. \E s \in BOOLEAN, c \in ShareCounts : \E p \in Quotes(s) :
            /\ dec_book_updt_q' = Dec("REPLACE", s, p, c)
            /\ levels'[s][p] >= c
    BY <2>1, <2>3
  <2> QED BY <2>1, <2>2, <2>4, <2>5, <2>6 DEF KeptInv
<1> QED BY <1>1, <1>2, MessageHalves

LEMMA PassingResult ==
  ASSUME BookInv, NEW init, Passing(init)
  PROVE  ResultInv'
<1> USE DEF BookInv
<1>1. /\ due' = CASE NoDec.valid /\ ~NoDec.has_rep -> TRUE
              [] ~NoDec.valid /\ bbo_res_v_last_q -> FALSE
              [] OTHER -> due
      /\ bbo_res_v_last_q' = Reports(bbo_dec_book(NoDec))
      /\ quiet' = QuietAfter(quiet, NoDec)
  BY DEF Passing, Clock, BookClock
<1>2. ~dec_book_updt_q'.valid
  BY PassingHalves
<1>3. CASE dec_book_updt_q.valid
  <2>1. /\ due /\ ~bbo_res_v_last_q /\ quiet = 1
    BY <1>3 DEF ResultInv, KeptInv
  <2>2. quiet' = 2
    BY <1>1, <2>1, NoDecFacts DEF QuietAfter, LongQuiet
  <2>3. ~updt_ing_q
    BY <1>3, PassingHalves DEF Resting
  <2>4. bbo_dec_book(NoDec) = dec_book_updt_q
    BY <1>3, <2>3 DEF bbo_dec_book, Releases
  <2>5. dec_book_updt_q.valid /\ ~dec_book_updt_q.has_rep
    BY <1>3 DEF KeptInv, Dec
  <2>6. bbo_res_v_last_q'
    BY <1>1, <2>4, <2>5 DEF Reports
  <2>7. due'
    BY <1>1, <2>1, NoDecFacts
  <2> QED BY <1>2, <2>2, <2>6, <2>7 DEF ResultInv
<1>4. CASE ~dec_book_updt_q.valid
  <2>1. ~bbo_res_v_last_q'
    <3>1. bbo_dec_book(NoDec) = NoDec
      BY <1>4 DEF bbo_dec_book, Releases
    <3> QED BY <1>1, <3>1, NoDecFacts DEF Reports
  <2>2. ~due'
    BY <1>1, <1>4, NoDecFacts DEF ResultInv
  <2> QED BY <1>2, <2>1, <2>2 DEF ResultInv
<1> QED BY <1>3, <1>4
LEMMA MessageResult ==
  ASSUME BookInv, NEW dec, Message(dec)
  PROVE  ResultInv'
<1> USE DEF BookInv
<1>1. /\ due' = CASE dec.valid /\ ~dec.has_rep -> TRUE
              [] ~dec.valid /\ bbo_res_v_last_q -> FALSE
              [] OTHER -> due
      /\ bbo_res_v_last_q' = Reports(bbo_dec_book(dec))
      /\ quiet' = QuietAfter(quiet, dec)
      /\ dec.valid /\ dec.has_rep \in BOOLEAN
      /\ dec.has_rep => dec.msg_type = "DELETE"
  BY DEF Message, Clock, BookClock
<1>2. quiet' \in 1 .. 2
  BY <1>1 DEF QuietAfter
<1>3. ~dec_book_updt_q.valid /\ quiet \in Nat
  <2>1. ~dec_book_updt_q.valid
    BY MessageHalves
  <2> QED BY <2>1 DEF LevelsInv, LongQuiet
<1>4. ~dec.has_rep => due'
  BY <1>1
<1>5. dec.has_rep => ~due'
  <2>1. dec.has_rep => quiet >= 6
    <3>1. Dec("REPLACE", dec.is_buy, dec.price, dec.shares).msg_type = "REPLACE"
      BY DEF Dec
    <3> QED BY <1>1, <3>1 DEF Message
  <2>2. dec.has_rep => ~due
    BY <1>3, <2>1 DEF ResultInv
  <2> QED BY <1>1, <2>2
<1>6. CASE AtRest(dec)
  <2>1. bbo_dec_book(dec) = dec
    BY <1>3, <1>6 DEF bbo_dec_book, Releases, AtRest, Resting
  <2>2. bbo_res_v_last_q' <=> ~dec.has_rep
    BY <1>1, <2>1 DEF Reports
  <2>3. ~dec_book_updt_q'.valid
    BY <1>6 DEF AtRest
  <2> QED BY <1>2, <1>4, <1>5, <2>2, <2>3 DEF ResultInv
<1>7. CASE InRefill(dec)
  <2>1. updt_ing_q
    <3>1. \E s \in BOOLEAN : updt_q[s].req2
      BY <1>7, Zenon DEF InRefill, Reads
    <3> QED BY <3>1, Zenon DEF RefillsInv
  <2>2. bbo_dec_book(dec) = NoDec
    BY <2>1 DEF bbo_dec_book, Releases
  <2>3. ~bbo_res_v_last_q'
    BY <1>1, <2>2, NoDecFacts DEF Reports
  <2>4. ~dec.has_rep /\ dec_book_updt_q' = dec
    BY <1>1, <1>7 DEF InRefill
  <2> QED BY <1>1, <1>4, <2>3, <2>4 DEF ResultInv
<1> QED BY <1>6, <1>7, MessageHalves

(* The shares of a price, side by side. *)
SharesOf(is_buy, p) == IF p \in Quotes(is_buy) THEN levels[is_buy][p] ELSE 0

LEMMA SharesTwo ==
  ASSUME LevelsInv, NEW p
  PROVE  /\ SharesFor(p) = SharesOf(TRUE, p) + SharesOf(FALSE, p)
         /\ SharesOf(TRUE, p) \in Nat /\ SharesOf(FALSE, p) \in Nat
<1>1. PICK f : f = [is_buy \in BOOLEAN |-> SharesOf(is_buy, p)]
  OBVIOUS
<1>2. \A is_buy \in BOOLEAN : SharesOf(is_buy, p) \in Nat
  BY DEF SharesOf, LevelsInv, IsLevels
<1>3. f[TRUE] = SharesOf(TRUE, p) /\ f[FALSE] = SharesOf(FALSE, p)
  BY <1>1
<1>4. SharesFor(p) = Total(f, BOOLEAN)
  BY <1>1 DEF SharesFor, SharesOf, Total
<1> QED BY <1>2, <1>3, <1>4, SumOfTwo

LEMMA SharesTraded ==
  ASSUME LevelsInv, NEW is_buy \in BOOLEAN, NEW p, SharesOf(is_buy, p) # 0
  PROVE  p \in Traded(is_buy) /\ p \in Quotes(is_buy)
<1>1. PICK f : f = levels[is_buy]
  OBVIOUS
<1>2. f \in [Quotes(is_buy) -> Nat]
  BY <1>1 DEF LevelsInv, IsLevels
<1>3. p \in Quotes(is_buy) /\ f[p] # 0
  BY <1>1 DEF SharesOf
<1>4. f[p] > 0
  BY <1>2, <1>3
<1> QED BY <1>1, <1>3, <1>4 DEF Traded

LEMMA SharesSides ==
  ASSUME LevelsInv, NEW s \in BOOLEAN, NEW r \in BOOLEAN, r # s, NEW p
  PROVE  /\ SharesFor(p) = SharesOf(s, p) + SharesOf(r, p)
         /\ SharesOf(s, p) \in Nat /\ SharesOf(r, p) \in Nat
<1>1. PICK x, y, z : x = SharesOf(TRUE, p) /\ y = SharesOf(FALSE, p) /\ z = SharesFor(p)
  OBVIOUS
<1>2. z = x + y /\ x \in Nat /\ y \in Nat
  BY <1>1, SharesTwo, Zenon
<1>3. z = y + x
  BY ONLY <1>2
<1>4. (s = TRUE /\ r = FALSE) \/ (s = FALSE /\ r = TRUE)
  OBVIOUS
<1> QED BY <1>1, <1>2, <1>3, <1>4, Zenon

LEMMA SidesApart ==
  ASSUME LevelsInv, NEW s \in BOOLEAN, NEW r \in BOOLEAN, r # s,
         NEW b \in Traded(s), NEW p \in Traded(r), Better(s, b, p)
  PROVE  FALSE
<1>1. \A bid \in Traded(TRUE), offer \in Traded(FALSE) : bid < offer
  BY DEF LevelsInv, Uncrossed
<1>2. (s = TRUE /\ r = FALSE) \/ (s = FALSE /\ r = TRUE)
  OBVIOUS
<1>3. b \in Nat /\ p \in Nat
  BY QuoteFacts DEF Traded
<1>4. CASE s = TRUE /\ r = FALSE
  <2>1. b < p
    BY <1>1, <1>4, Zenon
  <2>2. b > p
    BY <1>4, Zenon DEF Better
  <2> QED BY ONLY <1>3, <2>1, <2>2
<1>5. CASE s = FALSE /\ r = TRUE
  <2>1. p < b
    BY <1>1, <1>5, Zenon
  <2>2. b < p
    BY <1>5, Zenon DEF Better
  <2> QED BY ONLY <1>3, <2>1, <2>2
<1> QED BY <1>2, <1>4, <1>5

(* At a price worse than one of a side's there is nothing of the other side. *)
LEMMA OneSide ==
  ASSUME LevelsInv, NEW s \in BOOLEAN, NEW b \in Quotes(s), levels[s][b] > 0, NEW p, Better(s, b, p)
  PROVE  SharesFor(p) = SharesOf(s, p) /\ SharesOf(s, p) \in Nat
<1>1. PICK r \in BOOLEAN : r # s
  OBVIOUS
<1>2. PICK x, y, z : x = SharesOf(s, p) /\ y = SharesOf(r, p) /\ z = SharesFor(p)
  OBVIOUS
<1>3. z = x + y /\ x \in Nat /\ y \in Nat
  BY <1>1, <1>2, SharesSides
<1>4. y = 0
  <2> SUFFICES ASSUME y # 0 PROVE FALSE
    OBVIOUS
  <2>1. p \in Traded(r)
    BY <1>2, SharesTraded
  <2>2. b \in Traded(s)
    BY DEF Traded
  <2> QED BY <1>1, <2>1, <2>2, SidesApart
<1>5. z = x
  BY ONLY <1>3, <1>4
<1> QED BY <1>2, <1>3, <1>5

LEMMA PlacesPriced ==
  ASSUME NEW i \in Places
  PROVE  PriceOf(i) \in Nat /\ InTable(PriceOf(i))
BY PlaceFacts

(* The levels the marks show behind a level are those a side lacks. *)
LEMMA BehindMarks ==
  ASSUME LevelsInv, NEW s \in BOOLEAN, NEW a, NEW b, NEW o, NEW n, NEW f, f = levels[s],
         Kept(s, a, b, o, n, f), b.valid, InTable(b.price), NEW i \in Places
  PROVE  /\ b.price \in Quotes(s) /\ b.price \in Nat /\ Place(b.price) \in Places /\ PriceOf(Place(b.price)) = b.price
         /\ (IF s THEN i < Place(b.price) ELSE i > Place(b.price)) /\ SharesFor(PriceOf(i)) > 0
              <=> PriceOf(i) \in Quotes(s) \ Shown(a, b) /\ f[PriceOf(i)] > 0
<1>1. PICK p, j : p = PriceOf(i) /\ j = Place(b.price)
  OBVIOUS
<1>2. /\ b.price \in Quotes(s) /\ f[b.price] > 0 /\ a.valid /\ Better(s, a.price, b.price)
      /\ Behind(s, a, b, b, f) /\ a.price \in Quotes(s)
  BY DEF Kept, Right
<1>3. b.price \in Nat /\ b.price % 50 = 0 /\ a.price \in Nat
  BY <1>2, QuoteFacts
<1>4. j \in Places /\ PriceOf(j) = b.price /\ p \in Nat
  BY <1>1, <1>3, PriceFacts, PlacesPriced
<1>5. (IF s THEN i < j ELSE i > j) <=> Better(s, b.price, p)
  BY <1>1, <1>4, PlaceOrder DEF Better
<1>6. \A q : q \in Shown(a, b) <=> (a.valid /\ q = a.price) \/ (b.valid /\ q = b.price)
  BY ShownHas
<1>7. ASSUME Better(s, b.price, p), SharesFor(p) > 0
      PROVE  p \in Quotes(s) \ Shown(a, b) /\ f[p] > 0
  <2>1. SharesFor(p) = SharesOf(s, p) /\ SharesOf(s, p) \in Nat
    BY <1>2, <1>7, OneSide
  <2>2. p \in Quotes(s) /\ f[p] > 0
    BY <1>7, <2>1 DEF SharesOf
  <2>3. p # a.price /\ p # b.price
    BY <1>2, <1>3, <1>4, <1>7 DEF Better
  <2> QED BY <1>6, <2>2, <2>3
<1>8. ASSUME p \in Quotes(s) \ Shown(a, b), f[p] > 0
      PROVE  Better(s, b.price, p) /\ SharesFor(p) > 0
  <2>1. Better(s, b.price, p)
    BY <1>2, <1>8 DEF Behind
  <2>2. SharesFor(p) = SharesOf(s, p)
    BY <1>2, <2>1, OneSide
  <2> QED BY <1>8, <2>1, <2>2 DEF SharesOf
<1> QED BY <1>1, <1>2, <1>3, <1>4, <1>5, <1>7, <1>8

(* Whose shares become none was shown, and has none. *)
LEMMA DelZero ==
  ASSUME NEW s \in BOOLEAN, NEW h, NEW f, NEW g, FullHalf(s, h, f), NEW d, d.is_buy = s, Moves(d, f, g),
         Effect(h, d) = "del"
  PROVE  g[d.price] = 0
<1>1. PICK a, b, o, n : h.arr[1] = a /\ h.arr[2] = b /\ o = h.out_size /\ n = h.out_size_in_range
  OBVIOUS
<1>2. Full(s, a, b, o, n, f)
  BY <1>1 DEF FullHalf
<1>3. /\ a.valid /\ d.price = a.price => arr_mod(a, d) = g[d.price]
      /\ b.valid /\ d.price = b.price => arr_mod(b, d) = g[d.price]
  BY <1>2, MoveFacts
<1>4. \/ a.valid /\ a.price = d.price /\ arr_mod(a, d) = 0
      \/ b.valid /\ b.price = d.price /\ arr_mod(b, d) = 0
  BY <1>1, EffectCases
<1> QED BY <1>3, <1>4

(* A refill happens only while the book runs. *)
LEMMA RunningIfRefill ==
  ASSUME BookInv, NEW s \in BOOLEAN, half[s].updt_ing
  PROVE  /\ phase = "running" /\ ~dec_book_updt_q.valid
         /\ ShortHalf(s, half[s], levels[s]) /\ half[s].out_size_in_range # 0 /\ IsLevels(s, levels[s])
<1> USE DEF BookInv
<1>1. quiet \in Nat
  BY DEF LevelsInv, LongQuiet
<1>2. ~dec_book_updt_q.valid
  BY DEF KeptInv
<1>3. \/ Age(1) \/ Age(2) \/ Age(3)
  BY RefillAges, Zenon
<1>4. quiet \in 1 .. 4
  BY <1>1, <1>3, AgeFacts
<1>5. phase = "running"
  BY <1>4 DEF BootInv, LongQuiet
<1> QED BY <1>2, <1>5, ViewAll DEF HalvesInv, LevelsInv

LEMMA DecClock ==
  ASSUME NEW init, NEW dec, Clock(init, dec)
  PROVE  dec_book_q' = IF dec.valid /\ InWindow(dec.price) THEN dec ELSE NoDec
BY DEF Clock, BookClock, L2Clock, OrderClock

(* What is read of the tables. *)
LEMMA ReadFacts ==
  ASSUME NEW init, NEW dec, Clock(init, dec), NEW s \in BOOLEAN, updt_q[s].req,
         \A r \in BOOLEAN \ {s} : ~updt_q[r].req
  PROVE  lut_price_out' = lut_price[updt_q[s].enc] /\ od_ram_doutb' = od_ram[updt_q[s].enc]
<1>1. PICK e : e = IF updt_q[FALSE].req /\ ~updt_q[TRUE].req THEN updt_q[FALSE].enc ELSE updt_q[TRUE].enc
  OBVIOUS
<1>2. lut_price_out' = lut_price[e] /\ od_ram_doutb' = od_ram[e]
  BY <1>1 DEF Clock, BookClock, L2Clock, LutClock
<1>3. e = updt_q[s].enc
  <2>1. CASE s = TRUE
    BY <1>1, <2>1, Zenon
  <2>2. CASE s = FALSE
    <3>1. TRUE \in BOOLEAN \ {s}
      BY <2>2
    <3> QED BY <1>1, <2>2, <3>1, Zenon
  <2> QED BY <2>1, <2>2
<1> QED BY <1>2, <1>3

LEMMA SameNext ==
  ASSUME NEW s \in BOOLEAN, half'[s].arr = half[s].arr, levels'[s] = levels[s]
  PROVE  Lacking(s)' = Lacking(s) /\ NextPlace(s)' = NextPlace(s)
<1>1. Lacking(s)' = Lacking(s)
  BY DEF Lacking
<1> QED BY <1>1 DEF NextPlace

LEMMA EncFound ==
  ASSUME NEW s \in BOOLEAN, updt_q[s].local = BlockBests(s, Lacking(s))
  PROVE  BestPlace(s, updt_q[s].local) = NextPlace(s)
<1>1. Lacking(s) \in SUBSET Places
  BY DEF Lacking
<1> QED BY <1>1, BlocksFacts DEF NextPlace

(* The level to be read has its shares in the memory. *)
LEMMA LevelStored ==
  ASSUME BookInv, NEW s \in BOOLEAN, updt_q[s].req
  PROVE  /\ updt_q[s].enc = NextPlace(s)
         /\ lut_price[NextPlace(s)] = PriceOf(NextPlace(s))
         /\ od_ram[NextPlace(s)] = levels[s][PriceOf(NextPlace(s))]
<1> USE DEF BookInv
<1>1. half[s].updt_ing
  BY Zenon DEF RefillsInv, Alone
<1>2. /\ phase = "running"
      /\ ShortHalf(s, half[s], levels[s]) /\ half[s].out_size_in_range # 0 /\ IsLevels(s, levels[s])
  BY <1>1, RunningIfRefill
<1>3. updt_q[s].enc = NextPlace(s) /\ ~dec_book_q.valid
  BY DEF FoundInv
<1>4. PICK i, q, f, a, b : /\ i = NextPlace(s) /\ q = PriceOf(i) /\ f = levels[s]
                           /\ a = half[s].arr[1] /\ b = half[s].arr[2]
  OBVIOUS
<1>5. i \in Places /\ q \in Near(s) \ Shown(a, b) /\ f[q] > 0
  BY <1>2, <1>4, NextFacts
<1>6. lut_price[i] = q /\ od_ram[i] = Before(i)
  BY <1>2, <1>4, <1>5 DEF StoredInv, TablesFilled
<1>7. Before(i) = SharesFor(q)
  BY <1>3, <1>4 DEF Before
<1>8. /\ q \in Quotes(s) /\ Kept(s, a, b, half[s].out_size, half[s].out_size_in_range, f)
  BY <1>2, <1>4, <1>5 DEF ShortHalf, Short, Near
<1>9. a.valid /\ a.price \in Quotes(s) /\ f[a.price] > 0 /\ Better(s, a.price, q)
  BY <1>2, <1>4, <1>5, <1>8 DEF Kept, Right, Behind, IsLevels
<1>10. SharesFor(q) = SharesOf(s, q)
  BY <1>4, <1>9, OneSide
<1>11. SharesOf(s, q) = f[q]
  BY <1>4, <1>8 DEF SharesOf
<1> QED BY <1>3, <1>4, <1>6, <1>7, <1>10, <1>11

(* FoundInv, of one side. *)
Found(s) ==
  /\ half[s].updt_req => updt_q[s].local = BlockBests(s, Lacking(s))
  /\ updt_q[s].req => updt_q[s].enc = NextPlace(s) /\ ~dec_book_q.valid
  /\ updt_q[s].req2 => /\ lut_price_out = PriceOf(NextPlace(s))
                       /\ od_ram_doutb = levels[s][PriceOf(NextPlace(s))]

LEMMA FoundAreNext == (\A s \in BOOLEAN : Found(s)') => FoundInv'
BY DEF Found, FoundInv

LEMMA PassingFound ==
  ASSUME BookInv, NEW init, Passing(init)
  PROVE  FoundInv'
<1> USE DEF BookInv
<1>1. Clock(init, NoDec) /\ levels' = levels
  BY DEF Passing
<1>2. dec_book_q' = NoDec
  BY <1>1, DecClock, NoDecFacts
<1>3. ASSUME NEW s \in BOOLEAN, ~half'[s].updt_req, ~updt_q[s].req, ~half[s].updt_req
      PROVE  Found(s)'
  BY <1>1, <1>3, ReqFacts DEF Found
<1>4. ASSUME NEW s \in BOOLEAN, Keeps(s)
      PROVE  Found(s)'
  <2>1. /\ ~half'[s].updt_req /\ Lacking(s)' = Lacking(s) /\ NextPlace(s)' = NextPlace(s)
        /\ levels'[s] = levels[s]
    BY <1>1, <1>4, SameNext DEF Keeps
  <2>2. ASSUME half[s].updt_req
        PROVE  updt_q'[s].enc = NextPlace(s) /\ ~dec_book_q'.valid
    <3>1. updt_q[s].local = BlockBests(s, Lacking(s))
      BY <2>2 DEF FoundInv
    <3> QED BY <1>1, <1>2, <3>1, EncFound, UpdtFacts, NoDecFacts
  <2>3. ASSUME updt_q[s].req
        PROVE  /\ lut_price_out' = PriceOf(NextPlace(s))
               /\ od_ram_doutb' = levels[s][PriceOf(NextPlace(s))]
    <3>1. \A r \in BOOLEAN \ {s} : ~updt_q[r].req
      BY <2>3, Zenon DEF RefillsInv, Alone
    <3> QED BY <1>1, <2>3, <3>1, ReadFacts, LevelStored
  <2>4. PICK i, q, e : i = NextPlace(s) /\ q = PriceOf(i) /\ e = updt_q'[s].enc
    OBVIOUS
  <2>5. PriceOf(NextPlace(s))' = PriceOf(NextPlace(s))
    BY <2>1 DEF PriceOf
  <2> QED BY <1>1, <2>1, <2>2, <2>3, <2>5, ReqFacts DEF Found
<1>5. CASE \A s \in BOOLEAN : Keeps(s)
  BY <1>4, <1>5, FoundAreNext
<1>6. ASSUME NEW s \in BOOLEAN, Reads(s), \A r \in BOOLEAN \ {s} : Keeps(r)
      PROVE  FoundInv'
  <2>1. updt_q[s].req2 /\ ~half'[s].updt_req
    BY <1>6, Zenon DEF Reads
  <2>2. ~updt_q[s].req /\ ~half[s].updt_req
    BY <2>1, Zenon DEF RefillsInv
  <2> QED BY <1>3, <1>4, <1>6, <2>1, <2>2, FoundAreNext
<1>7. CASE /\ dec_book_updt_q.valid /\ Resting /\ dec_book_updt_q.is_buy \in BOOLEAN /\ IsAdd(dec_book_updt_q)
           /\ Takes(dec_book_updt_q)
           /\ \A r \in BOOLEAN \ {dec_book_updt_q.is_buy} : Keeps(r)
  <2>1. PICK d : d = dec_book_updt_q
    OBVIOUS
  <2>2. ~half'[d.is_buy].updt_req
    BY <1>7, <2>1 DEF Takes, After
  <2>3. Found(d.is_buy)'
    BY <1>3, <1>7, <2>1, <2>2 DEF Resting
  <2> QED BY <1>4, <1>7, <2>1, <2>3, FoundAreNext
<1> QED BY <1>5, <1>6, <1>7, PassingHalves

(* The marks are right when a message other than a replacement comes. *)
LEMMA MarksRight ==
  ASSUME LevelsInv, MemoryTypes, StoredInv, phase = "running", quiet >= 4
  PROVE  \A i : i \in exist_arr_q <=> i \in Places /\ SharesFor(PriceOf(i)) > 0
<1>1. quiet \in Nat
  BY DEF LevelsInv, LongQuiet
<1>2. ~dec_book_q.valid /\ ~exist_q.wen
  <2>1. /\ dec_book_q.valid => quiet = 1 \/ quiet = 2
        /\ exist_q.wen => quiet = 2 \/ quiet = 3
    BY Zenon DEF StoredInv
  <2> QED BY <1>1, <2>1
<1>3. exist_arr_q = {i \in Places : Before(i) > 0}
  BY <1>2 DEF StoredInv
<1>4. \A i : Before(i) = SharesFor(PriceOf(i))
  BY <1>2 DEF Before
<1> QED BY <1>3, <1>4

(* A level goes: the places worse than the second word's, at hand for some *)
(* time, are those of the levels that are lacking now.                     *)
LEMMA AskedFound ==
  ASSUME BookInv, NEW dec, Message(dec), AtRest(dec), half'[dec.is_buy].updt_req
  PROVE  updt_q'[dec.is_buy].local = BlockBests(dec.is_buy, Lacking(dec.is_buy)')
<1> USE DEF BookInv
<1>1. PICK s, h, h2, f, g, x : /\ s = dec.is_buy /\ h = half[s] /\ h2 = half'[s]
                               /\ f = levels[s] /\ g = levels'[s] /\ x = dec.price
  OBVIOUS
<1>2. s \in BOOLEAN /\ Clock(NoInit, dec) /\ Moves(dec, f, g) /\ phase = "running" /\ LevelsInv /\ ~failed
  BY <1>1 DEF Message
<1>3. After(h, h2, dec, g) /\ ~h.updt_ing /\ h2.updt_req
  BY <1>1, <1>2 DEF AtRest, Takes, Resting
<1>4. Effect(h, dec) = "del"
  BY <1>3 DEF After
<1>5. /\ ShortHalf(s, h2, g) /\ AsksUpdt(h) /\ h2.out_size_in_range = h.out_size_in_range
      /\ Shown(h.arr[1], h.arr[2]) = Shown(h2.arr[1], h2.arr[2]) \cup {x}
  BY <1>1, <1>3, <1>4 DEF After
<1>6. quiet \in Nat /\ quiet >= 6 /\ h2.out_size_in_range # 0
  BY <1>1, <1>4, <1>5, DelFlags DEF AsksUpdt
<1>7. FullHalf(s, h, f)
  <2>1. View(s) = f
    BY <1>1, <1>2, MessageHalves, ViewAll
  <2> QED BY <1>1, <1>2, <1>3, <2>1 DEF HalvesInv
<1>8. g[x] = 0
  BY <1>1, <1>2, <1>4, <1>7, DelZero
<1>9. PICK a, b, a2, b2, o, n, o2, n2 : /\ h.arr[1] = a /\ h.arr[2] = b /\ h2.arr[1] = a2 /\ h2.arr[2] = b2
                         /\ o = h.out_size /\ n = h.out_size_in_range
                         /\ o2 = h2.out_size /\ n2 = h2.out_size_in_range
  OBVIOUS
<1>10. /\ Full(s, a, b, o, n, f) /\ Kept(s, a, b, o, n, f) /\ Short(s, a2, b2, o2, n2, g) /\ n2 # 0
       /\ Shown(a, b) = Shown(a2, b2) \cup {x}
  BY <1>5, <1>6, <1>7, <1>9 DEF FullHalf, ShortHalf, Full
<1>11. /\ IsLevels(s, g) /\ IsLevels(s, f) /\ x \in Quotes(s)
       /\ \A y \in Quotes(s) : y # x => g[y] = f[y]
  BY <1>1, <1>2 DEF Moves, Changed
<1>12. \A y \in Quotes(s) : y \notin Shown(a, b) /\ f[y] > 0 <=> y \notin Shown(a2, b2) /\ g[y] > 0
  BY <1>8, <1>10, <1>11 DEF IsLevels
<1>13. PICK y \in Near(s) \ Shown(a2, b2) : g[y] > 0
  BY <1>2, <1>10, <1>11, NothingLeft
<1>14. y \in Quotes(s) /\ InTable(y) /\ y \notin Shown(a, b) /\ f[y] > 0
  BY <1>12, <1>13 DEF Near
<1>15. b.valid /\ Better(s, b.price, y) /\ b.price \in Quotes(s)
  <2>1. b.valid
    BY <1>10, <1>11, <1>14 DEF Full, IsLevels
  <2> QED BY <1>10, <1>14, <2>1 DEF Kept, Behind, Right
<1>16. InTable(b.price)
  BY <1>2, <1>14, <1>15, QuoteFacts, SizeFacts DEF InTable, Better
<1>17. updt_q[s].ordering = Place(b.price)
  BY <1>1, <1>2, <1>3, <1>6, <1>9, <1>15, <1>16 DEF FollowsInv
<1>18. \A i : i \in exist_arr_q <=> i \in Places /\ SharesFor(PriceOf(i)) > 0
  BY <1>2, <1>6, MarksRight
<1>19. PICK L : L = Lacking(s)'
  OBVIOUS
<1>20. L = {i \in Places : PriceOf(i) \in Quotes(s) \ Shown(a2, b2) /\ g[PriceOf(i)] > 0}
  BY <1>1, <1>9, <1>19 DEF Lacking
<1>21. PICK j : j = Place(b.price)
  OBVIOUS
<1>22. PICK W : W = Worse(s, j)
  OBVIOUS
<1>23. W = {i \in exist_arr_q : IF s THEN i < j ELSE i > j}
  BY <1>22 DEF Worse
<1>24. ASSUME NEW i \in Places PROVE i \in W <=> i \in L
  <2>1. (IF s THEN i < j ELSE i > j) /\ SharesFor(PriceOf(i)) > 0
              <=> PriceOf(i) \in Quotes(s) \ Shown(a, b) /\ f[PriceOf(i)] > 0
    <3>1. s \in BOOLEAN /\ LevelsInv /\ f = levels[s] /\ Kept(s, a, b, o, n, f) /\ b.valid
      BY <1>1, <1>2, <1>10, <1>15, Zenon
    <3>2. (IF s THEN i < Place(b.price) ELSE i > Place(b.price)) /\ SharesFor(PriceOf(i)) > 0
              <=> PriceOf(i) \in Quotes(s) \ Shown(a, b) /\ f[PriceOf(i)] > 0
      BY ONLY <3>1, <1>16, i \in Places, BehindMarks
    <3> QED BY <1>21, <3>2, Zenon
  <2>2. PICK y2 : y2 = PriceOf(i)
    OBVIOUS
  <2>3. i \in W <=> (IF s THEN i < j ELSE i > j) /\ SharesFor(y2) > 0
    BY <1>18, <1>23, <2>2
  <2>4. i \in L <=> y2 \in Quotes(s) \ Shown(a2, b2) /\ g[y2] > 0
    BY <1>20, <2>2
  <2> QED BY <1>12, <2>1, <2>2, <2>3, <2>4
<1>25. W = L
  <2>1. W \subseteq Places /\ L \subseteq Places
    BY <1>18, <1>20, <1>23
  <2> QED BY <1>24, <2>1
<1>26. updt_q'[s].local = BlockBests(s, W)
  BY <1>2, <1>17, <1>21, <1>22, UpdtFacts
<1> QED BY <1>1, <1>19, <1>25, <1>26

LEMMA MessageFound ==
  ASSUME BookInv, NEW dec, Message(dec)
  PROVE  FoundInv'
<1> USE DEF BookInv
<1>1. Clock(NoInit, dec) /\ dec.is_buy \in BOOLEAN
  BY DEF Message
<1>2. ASSUME NEW s \in BOOLEAN, half'[s].updt_req => AtRest(dec) /\ s = dec.is_buy, ~updt_q[s].req, ~half[s].updt_req
      PROVE  Found(s)'
  <2>1. ~updt_q'[s].req /\ ~updt_q'[s].req2
    BY <1>1, <1>2, ReqFacts
  <2>2. half'[s].updt_req => updt_q'[s].local = BlockBests(s, Lacking(s)')
    BY <1>2, AskedFound
  <2>3. BlockBests(s, Lacking(s))' = BlockBests(s, Lacking(s)')
    BY DEF BlockBests
  <2> QED BY <2>1, <2>2, <2>3 DEF Found
<1>3. CASE AtRest(dec)
  <2>1. ASSUME NEW s \in BOOLEAN PROVE Found(s)'
    <3>1. ~updt_q[s].req /\ ~half[s].updt_req
      BY <1>3 DEF AtRest, Resting
    <3>2. s # dec.is_buy => ~half'[s].updt_req
      BY <1>3, Zenon DEF AtRest, Keeps
    <3> QED BY <1>2, <1>3, <3>1, <3>2
  <2> QED BY <2>1, FoundAreNext
<1>4. CASE InRefill(dec)
  <2>1. ASSUME NEW s \in BOOLEAN PROVE Found(s)'
    <3>1. ~updt_q[s].req /\ ~half[s].updt_req
      BY <1>4 DEF InRefill
    <3>2. ~half'[s].updt_req
      BY <1>4, Zenon DEF InRefill, Keeps, Reads
    <3> QED BY <1>2, <3>1, <3>2
  <2> QED BY <2>1, FoundAreNext
<1> QED BY <1>3, <1>4, MessageHalves

(* Once filled the tables are read for the messages and the second words. *)
LEMMA OrderingRead ==
  ASSUME NEW init, Clock(init, NoDec), lut_q.done, NEW s \in BOOLEAN
  PROVE  lut_ordering_out'[s] = lut_ordering[price_addr(updt_price(half[s], updt_o(s)))]
<1>1. PICK addr : addr = [is_buy \in BOOLEAN |-> price_addr(updt_price(half[is_buy], updt_o(is_buy)))]
  OBVIOUS
<1>2. LutClock(init, NoDec, addr)
  BY <1>1 DEF Clock, BookClock, L2Clock
<1>3. ~lut_wea
  BY DEF lut_wea
<1>4. PICK a : a = IF lut_wea THEN price_addr(lut_q.price) ELSE
                   IF NoDec.valid THEN price_addr(NoDec.price) ELSE addr[TRUE]
  OBVIOUS
<1>5. lut_ordering_out' = [side \in BOOLEAN |-> lut_ordering[IF side THEN a ELSE addr[FALSE]]]
  BY <1>2, <1>4 DEF LutClock
<1>6. a = addr[TRUE]
  BY <1>3, <1>4, NoDecFacts
<1>7. lut_ordering_out'[s] = lut_ordering[addr[s]]
  <2>1. CASE s = TRUE
    BY <1>5, <1>6, <2>1
  <2>2. CASE s = FALSE
    BY <1>5, <1>6, <2>2
  <2> QED BY <2>1, <2>2
<1> QED BY <1>1, <1>7

LEMMA TablesHave ==
  ASSUME StoredInv, phase = "running", NEW s \in BOOLEAN, NEW p \in Quotes(s), InTable(p)
  PROVE  lut_ordering[price_addr(p)] = Place(p)
<1>1. p \in Nat /\ p % 50 = 0
  BY QuoteFacts
<1>2. Place(p) \in Places /\ PriceOf(Place(p)) = p
  BY <1>1, PriceFacts
<1> QED BY <1>2 DEF StoredInv, TablesFilled

LEMMA FollowsNext ==
  ASSUME quiet' \in Nat, quiet' < 5
  PROVE  FollowsInv'
<1>1. ~(quiet' >= 5) /\ ~(quiet' >= 6)
  OBVIOUS
<1> QED BY <1>1, Zenon DEF FollowsInv

LEMMA SecondQuotedNext ==
  ASSUME HalvesInv', NEW s \in BOOLEAN, half'[s].arr[2].valid, ~dec_book_updt_q'.valid
  PROVE  half'[s].arr[2].price \in Quotes(s) /\ levels'[s][half'[s].arr[2].price] > 0
<1>1. FullHalf(s, half'[s], levels'[s]) \/ ShortHalf(s, half'[s], levels'[s])
  BY ViewNext DEF HalvesInv
<1> QED BY <1>1 DEF FullHalf, ShortHalf, Full, Short, Kept, Right

(* The second word's place is read while nothing happens. *)
LEMMA SecondRead ==
  ASSUME StoredInv, phase = "running", HalvesInv', NEW init, Passing(init), ~dec_book_updt_q'.valid,
         NEW s \in BOOLEAN, Keeps(s) \/ Reads(s), half'[s].arr[2].valid, InTable(half'[s].arr[2].price)
  PROVE  lut_ordering_out'[s] = Place(half'[s].arr[2].price)
<1>1. PICK p : p = half'[s].arr[2].price
  OBVIOUS
<1>2. p \in Quotes(s) /\ InTable(p)
  BY <1>1, SecondQuotedNext
<1>3. lut_ordering[price_addr(p)] = Place(p)
  BY <1>2, TablesHave
<1>4. Clock(init, NoDec) /\ lut_q.done
  BY DEF Passing, StoredInv
<1>5. updt_price(half[s], updt_o(s)) = p
  <2>1. updt_price(half[s], updt_o(s)) = IF updt_q[s].req2 THEN lut_price_out ELSE half[s].arr[2].price
    BY DEF updt_price, updt_o
  <2> QED BY <1>1, <2>1 DEF Keeps, Reads
<1> QED BY <1>1, <1>3, <1>4, <1>5, OrderingRead

LEMMA PassingFollows ==
  ASSUME BookInv, NEW init, Passing(init)
  PROVE  FollowsInv'
<1> USE DEF BookInv
<1>1. /\ Clock(init, NoDec) /\ levels' = levels
      /\ quiet' = IF quiet < 9 THEN quiet + 1 ELSE 9
      /\ quiet \in Nat
  BY NoDecFacts DEF Passing, Clock, QuietAfter, LongQuiet, LevelsInv
<1>2. CASE quiet < 4
  BY <1>1, <1>2, FollowsNext
<1>3. CASE quiet >= 4
  <2>1. ~dec_book_updt_q.valid
    BY <1>1, <1>3, NothingKept
  <2>2. \A s \in BOOLEAN : Keeps(s) \/ Reads(s)
    BY <2>1, PassingHalves
  <2>3. HalvesInv' /\ ~dec_book_updt_q'.valid
    BY PassingHalvesInv, PassingHalves
  <2>4. quiet >= 5 => \A s \in BOOLEAN : Keeps(s) /\ ~half[s].updt_ing
    BY <1>1, <2>2, RestingLate, Zenon DEF Resting, Reads
  <2>5. (quiet' >= 6 => quiet >= 5) /\ quiet' \in Nat
    BY <1>1
  <2>6. ASSUME NEW s \in BOOLEAN
        PROVE  /\ half'[s].arr[2].valid /\ InTable(half'[s].arr[2].price) =>
                    /\ lut_ordering_out'[s] = Place(half'[s].arr[2].price)
                    /\ quiet' >= 6 => updt_q'[s].ordering = Place(half'[s].arr[2].price)
               /\ quiet' >= 6 => /\ half'[s].updt_able <=> half'[s].out_size # 0
                                 /\ half'[s].updt_able_in_range <=> half'[s].out_size_in_range # 0
    <3>1. ASSUME half'[s].arr[2].valid, InTable(half'[s].arr[2].price)
          PROVE  /\ lut_ordering_out'[s] = Place(half'[s].arr[2].price)
                 /\ quiet' >= 6 => updt_q'[s].ordering = Place(half'[s].arr[2].price)
      <4>1. PICK p : p = half'[s].arr[2].price
        OBVIOUS
      <4>2. p \in Quotes(s) /\ levels[s][p] > 0
        BY <1>1, <2>3, <3>1, <4>1, SecondQuotedNext
      <4>3. phase = "running"
        <5> SUFFICES ASSUME phase # "running" PROVE FALSE
          OBVIOUS
        <5>1. levels[s][p] = 0
          BY <4>2 DEF BootInv
        <5> QED BY <4>2, <5>1
      <4>4. lut_ordering_out'[s] = Place(half'[s].arr[2].price)
        BY <2>2, <2>3, <3>1, <4>3, SecondRead
      <4>5. ASSUME quiet' >= 6
            PROVE  updt_q'[s].ordering = Place(half'[s].arr[2].price)
        <5>1. quiet >= 5 /\ ~half[s].updt_ing /\ half'[s].arr = half[s].arr
          BY <2>4, <2>5, <4>5 DEF Keeps
        <5>2. lut_ordering_out[s] = Place(half'[s].arr[2].price)
          BY <3>1, <5>1 DEF FollowsInv
        <5> QED BY <1>1, <5>2, UpdtFacts
      <4> QED BY <4>4, <4>5
    <3>2. ASSUME quiet' >= 6
          PROVE  /\ half'[s].updt_able <=> half'[s].out_size # 0
                 /\ half'[s].updt_able_in_range <=> half'[s].out_size_in_range # 0
      <4>1. Keeps(s)
        BY <2>4, <2>5, <3>2
      <4> QED BY <4>1 DEF Keeps
    <3> QED BY <3>1, <3>2
  <2> QED BY <2>6, Zenon DEF FollowsInv
<1> QED BY <1>1, <1>2, <1>3

LEMMA MessageFollows ==
  ASSUME BookInv, NEW dec, Message(dec)
  PROVE  FollowsInv'
<1>1. /\ quiet' = QuietAfter(quiet, dec)
      /\ dec.valid /\ dec.has_rep \in BOOLEAN
  BY DEF Message, Clock
<1>2. quiet' \in Nat /\ quiet' < 5
  BY <1>1 DEF QuietAfter
<1> QED BY <1>2, FollowsNext
----------------------------------------------------------------------------
(* The memories in a step. *)
LEMMA MemoryClock ==
  ASSUME NEW init, NEW dec, Clock(init, dec)
  PROVE  /\ pa_ram' = RamWritten(pa_ram, price_addr(dec_book_q.price))
         /\ od_ram' = RamWritten(od_ram, lut_ordering_out[TRUE])
         /\ pa_ram_doutb' = pa_ram[price_addr(dec.price)]
         /\ exist_arr_q' = ExistWritten
         /\ exist_q' = [wen   |-> dec_book_q.valid,
                        waddr |-> IF dec_book_q.valid THEN lut_ordering_out[TRUE] ELSE 0,
                        din   |-> dec_book_q.valid /\ (BringsShares(dec_book_q) \/ order_new_shares # 0)]
         /\ ram_rst' = [in_progress |-> ram_rst.count # 0,
                        count |-> IF ram_rst.in_progress /\ ram_rst.count # 0 THEN ram_rst.count - 1 ELSE 0]
BY DEF Clock, BookClock, L2Clock, OrderClock

LEMMA TableClock ==
  ASSUME NEW init, NEW dec, Clock(init, dec)
  PROVE  /\ LutStep(init)
         /\ lut_wea => /\ lut_ordering' = [lut_ordering EXCEPT ![price_addr(lut_q.price)] = lut_q.count]
                       /\ lut_price' = [lut_price EXCEPT ![lut_q.count] = lut_q.price]
         /\ ~lut_wea => lut_ordering' = lut_ordering /\ lut_price' = lut_price
         /\ ~lut_wea /\ dec.valid => lut_ordering_out'[TRUE] = lut_ordering[price_addr(dec.price)]
         /\ initialized_q' = (initialized_q \/ init.valid)
         /\ price_base_q' = IF init.valid THEN init.price_base ELSE price_base_q
BY DEF Clock, BookClock, L2Clock, LutClock

LEMMA Written ==
  ASSUME NEW ram \in [Places -> Nat], NEW addr,
         ram_rst.in_progress \/ ~dec_book_q.valid \/ order_new_shares \in Nat
  PROVE  /\ RamWritten(ram, addr) \in [Places -> Nat]
         /\ ~ram_rst.in_progress /\ ~dec_book_q.valid => RamWritten(ram, addr) = ram
         /\ ram_rst.in_progress =>
              \A i \in Places : RamWritten(ram, addr)[i] = IF i = ram_rst.count THEN 0 ELSE ram[i]
         /\ ~ram_rst.in_progress /\ dec_book_q.valid =>
              \A i \in Places : RamWritten(ram, addr)[i] = IF i = addr THEN order_new_shares ELSE ram[i]
<1> DEFINE r == RamWritten(ram, addr)
<1>0. ASSUME NEW a, NEW v \in Nat, NEW w, w = [ram EXCEPT ![a] = v]
      PROVE  w \in [Places -> Nat] /\ \A i \in Places : w[i] = IF i = a THEN v ELSE ram[i]
  BY <1>0
<1>1. CASE ram_rst.in_progress
  <2>1. r = [ram EXCEPT ![ram_rst.count] = 0]
    BY <1>1 DEF RamWritten
  <2>2. r \in [Places -> Nat] /\ \A i \in Places : r[i] = IF i = ram_rst.count THEN 0 ELSE ram[i]
    BY <1>0, <2>1
  <2> QED BY <1>1, <2>2, Zenon
<1>2. CASE ~ram_rst.in_progress /\ dec_book_q.valid
  <2>1. r = [ram EXCEPT ![addr] = order_new_shares]
    BY <1>2 DEF RamWritten
  <2>2. r \in [Places -> Nat] /\ \A i \in Places : r[i] = IF i = addr THEN order_new_shares ELSE ram[i]
    <3>1. order_new_shares \in Nat
      BY <1>2, Zenon
    <3> HIDE DEF r
    <3> QED BY ONLY <1>0, <2>1, <3>1
  <2> QED BY <1>2, <2>2, Zenon
<1>3. CASE ~ram_rst.in_progress /\ ~dec_book_q.valid
  <2>1. r = ram
    BY <1>3 DEF RamWritten
  <2> QED BY <1>3, <2>1, Zenon
<1> QED BY <1>1, <1>2, <1>3, Zenon

LEMMA SharesTyped == ASSUME LevelsInv, NEW p PROVE SharesFor(p) \in Nat
<1>1. PICK x, y : x = SharesOf(TRUE, p) /\ y = SharesOf(FALSE, p)
  OBVIOUS
<1>2. SharesFor(p) = x + y /\ x \in Nat /\ y \in Nat
  BY <1>1, SharesTwo
<1> QED BY <1>2

LEMMA Typed ==
  ASSUME BookInv
  PROVE  /\ ram_rst.in_progress \/ ~dec_book_q.valid \/ order_new_shares \in Nat
         /\ lut_wea => phase = "waiting" /\ lut_q.count \in Places /\ lut_q.price = PriceOf(lut_q.count)
         /\ exist_q.wen => exist_q.waddr \in Places
         /\ LevelsInv /\ MemoryTypes /\ BootInv /\ StoredInv
<1>1. LevelsInv /\ MemoryTypes /\ BootInv /\ StoredInv
  BY DEF BookInv
<1>2. phase \in {"reset", "waiting", "running"}
  BY <1>1 DEF LevelsInv
<1>3. CASE phase # "running"
  <2>1. ~dec_book_q.valid /\ ~exist_q.wen
    BY <1>1, <1>3, NoDecFacts DEF BootInv
  <2>2. phase = "reset" => ~lut_q.initialized
    BY <1>1 DEF BootInv
  <2>3. phase = "waiting" /\ ~lut_q.done => lut_q.count \in Places /\ lut_q.price = PriceOf(lut_q.count)
    BY <1>1 DEF BootInv
  <2> QED BY <1>1, <1>2, <1>3, <2>1, <2>2, <2>3 DEF lut_wea
<1>4. CASE phase = "running"
  <2>1. lut_q.done /\ (exist_q.wen => exist_q.waddr \in Places)
    BY <1>1, <1>4 DEF StoredInv
  <2>2. ASSUME dec_book_q.valid PROVE order_new_shares \in Nat
    <3>1. PICK j \in Places : order_new_shares = SharesFor(PriceOf(j))
      BY <1>1, <1>4, <2>2 DEF StoredInv
    <3>2. SharesFor(PriceOf(j)) \in Nat
      BY <1>1, SharesTyped
    <3> QED BY <3>1, <3>2, Zenon
  <2> QED BY <1>1, <2>1, <2>2 DEF lut_wea
<1> QED BY <1>3, <1>4

LEMMA ClockMemories ==
  ASSUME BookInv, NEW init, NEW dec, Clock(init, dec)
  PROVE  MemoryTypes'
<1>1. MemoryTypes
  BY Typed
<1>2. pa_ram' \in [Places -> Nat] /\ od_ram' \in [Places -> Nat]
  <2>1. ram_rst.in_progress \/ ~dec_book_q.valid \/ order_new_shares \in Nat
    BY Typed
  <2>2. /\ RamWritten(pa_ram, price_addr(dec_book_q.price)) \in [Places -> Nat]
        /\ RamWritten(od_ram, lut_ordering_out[TRUE]) \in [Places -> Nat]
    BY <1>1, <2>1, Written DEF MemoryTypes
  <2>3. /\ pa_ram' = RamWritten(pa_ram, price_addr(dec_book_q.price))
        /\ od_ram' = RamWritten(od_ram, lut_ordering_out[TRUE])
    BY MemoryClock
  <2> QED BY <2>2, <2>3
<1>3. lut_ordering' \in [Places -> Nat] /\ lut_price' \in [Places -> Nat]
  <2>1. CASE lut_wea
    <3>1. lut_q.count \in Places /\ lut_q.count \in Nat /\ lut_q.price \in Nat
      BY <2>1, Typed, PlaceFacts
    <3>2. /\ lut_ordering' = [lut_ordering EXCEPT ![price_addr(lut_q.price)] = lut_q.count]
          /\ lut_price' = [lut_price EXCEPT ![lut_q.count] = lut_q.price]
      BY <2>1, TableClock
    <3> QED BY <1>1, <3>1, <3>2 DEF MemoryTypes
  <2>2. CASE ~lut_wea
    BY <1>1, <2>2, TableClock DEF MemoryTypes
  <2> QED BY <2>1, <2>2
<1>4. exist_arr_q' \subseteq Places
  <2>1. exist_arr_q \subseteq Places /\ (exist_q.wen => exist_q.waddr \in Places)
    BY <1>1, Typed DEF MemoryTypes
  <2>2. exist_arr_q' = ExistWritten
    BY MemoryClock
  <2> QED BY <2>1, <2>2 DEF ExistWritten
<1>5. ASSUME NEW s \in BOOLEAN
      PROVE  updt_q'[s].local \subseteq Places /\ updt_q'[s].enc \in Places
  <2>1. updt_q[s].local \subseteq Places /\ exist_arr_q \subseteq Places
    BY <1>1 DEF MemoryTypes
  <2>2. /\ updt_q'[s].local = BlockBests(s, Worse(s, updt_q[s].ordering))
        /\ updt_q'[s].enc = BestPlace(s, updt_q[s].local)
    BY UpdtFacts
  <2>3. Worse(s, updt_q[s].ordering) \in SUBSET Places
    BY <2>1 DEF Worse
  <2>4. BlockBests(s, Worse(s, updt_q[s].ordering)) \subseteq Places
    BY <2>3, BlocksFacts
  <2>5. BestPlace(s, updt_q[s].local) \in Places
    <3>1. CASE updt_q[s].local = {}
      <4>1. BestPlace(s, updt_q[s].local) = 0
        BY <3>1 DEF BestPlace
      <4> QED BY <4>1, SizeFacts DEF Places
    <3>2. CASE updt_q[s].local # {}
      BY <2>1, <3>2, BestIn
    <3> QED BY <3>1, <3>2
  <2> QED BY <2>2, <2>4, <2>5
<1> QED BY <1>2, <1>3, <1>4, <1>5 DEF MemoryTypes
----------------------------------------------------------------------------
(* A clock without a message makes no error. *)
LEMMA PassingErrorFree ==
  ASSUME BookInv, NEW init, Passing(init)
  PROVE  failed' <=> failed
<1> USE DEF BookInv
<1>1. failed' = (failed \/ book_error(NoDec))
  BY DEF Passing, Clock
<1>2. ~l2_error(NoDec)
  BY NoDecFacts DEF l2_error
<1>3. \A r \in BOOLEAN : updt_q[r].req2 => half[r].updt_ing
  BY Zenon DEF RefillsInv, Alone
<1>4. \A r \in BOOLEAN : updt_o(r).valid = updt_q[r].req2
  BY DEF updt_o
<1>5. CASE ~dec_book_updt_q.valid
  <2>1. ~error_dec_updt(NoDec)
    BY <1>5 DEF error_dec_updt, Releases
  <2>2. ASSUME NEW r \in BOOLEAN PROVE ~half_error(half[r], half_dec_book(NoDec, r), updt_o(r))
    <3>1. half_dec_book(NoDec, r) = NoDec
      BY <1>5 DEF half_dec_book, bbo_dec_book, Releases
    <3> QED BY <1>3, <1>4, <3>1, NoDecFacts DEF half_error
  <2> QED BY <1>1, <1>2, <2>1, <2>2, Zenon DEF book_error
<1>6. CASE dec_book_updt_q.valid
  <2>1. PICK d : d = dec_book_updt_q
    OBVIOUS
  <2>2. /\ ~failed /\ Resting /\ d.valid /\ d.is_buy \in BOOLEAN /\ IsAdd(d) /\ d.msg_type = "REPLACE"
        /\ Moves(d, View(d.is_buy), levels[d.is_buy]) /\ ~half[d.is_buy].updt_ing
    BY <1>6, <2>1, KeptMessage
  <2>3. ~error_dec_updt(NoDec)
    BY <2>1, <2>2, NoDecFacts DEF error_dec_updt
  <2>4. half_dec_book(NoDec, d.is_buy) = d /\ \A r \in BOOLEAN \ {d.is_buy} : half_dec_book(NoDec, r) = NoDec
    BY <1>6, <2>1, <2>2, Released DEF Resting
  <2>5. FullHalf(d.is_buy, half[d.is_buy], View(d.is_buy))
    BY <2>2 DEF HalvesInv
  <2>6. Effect(half[d.is_buy], d) # "del"
    <3>1. SUFFICES ASSUME Effect(half[d.is_buy], d) = "del" PROVE FALSE
      OBVIOUS
    <3>2. levels[d.is_buy][d.price] = 0
      BY <2>2, <2>5, <3>1, DelZero
    <3>3. /\ d.shares \in Nat \ {0} /\ levels[d.is_buy][d.price] = View(d.is_buy)[d.price] + d.shares
          /\ View(d.is_buy)[d.price] \in Nat
      BY <2>2 DEF Moves, Changed, IsLevels
    <3> QED BY <3>2, <3>3
  <2>7. ASSUME NEW r \in BOOLEAN PROVE ~half_error(half[r], half_dec_book(NoDec, r), updt_o(r))
    <3>1. ~updt_o(r).valid
      BY <1>4, <2>2, Zenon DEF Resting
    <3>2. CASE r = d.is_buy
      BY <2>2, <2>4, <2>6, <3>1, <3>2 DEF half_error
    <3>3. CASE r # d.is_buy
      BY <2>4, <3>1, <3>3, NoDecFacts DEF half_error
    <3> QED BY <3>2, <3>3
  <2> QED BY <1>1, <1>2, <2>3, <2>7, Zenon DEF book_error
<1> QED BY <1>5, <1>6

LEMMA ExistClock ==
  ASSUME NEW init, NEW dec, Clock(init, dec)
  PROVE  /\ exist_q'.wen = dec_book_q.valid
         /\ exist_q'.waddr = IF dec_book_q.valid THEN lut_ordering_out[TRUE] ELSE 0
         /\ exist_q'.din = (dec_book_q.valid /\ (BringsShares(dec_book_q) \/ order_new_shares # 0))
         /\ exist_arr_q' = ExistWritten
<1>1. PICK w, a, d : /\ w = dec_book_q.valid
                     /\ a = IF dec_book_q.valid THEN lut_ordering_out[TRUE] ELSE 0
                     /\ d = (dec_book_q.valid /\ (BringsShares(dec_book_q) \/ order_new_shares # 0))
  OBVIOUS
<1>2. exist_q' = [wen |-> w, waddr |-> a, din |-> d]
  BY <1>1 DEF Clock, BookClock, L2Clock, OrderClock
<1>3. exist_arr_q' = ExistWritten
  BY DEF Clock, BookClock, L2Clock, OrderClock
<1> QED BY <1>1, <1>2, <1>3

(* Before the book is ready nothing happens in it. *)
StillEmpty ==
  /\ \A is_buy \in BOOLEAN : \A price \in Quotes(is_buy) : levels[is_buy][price] = 0
  /\ owed = {} /\ quiet = LongQuiet /\ ~due /\ ~failed
  /\ dec_book_q = NoDec /\ ~exist_q.wen /\ exist_arr_q = {}

LEMMA BootStillEmpty ==
  ASSUME BookInv, phase # "running", NEW init, Passing(init)
  PROVE  StillEmpty'
<1>1. StillEmpty
  BY DEF BookInv, BootInv, StillEmpty
<1>2. Clock(init, NoDec) /\ levels' = levels /\ owed' = owed
  BY DEF Passing
<1>3. quiet' = LongQuiet
  BY <1>1, <1>2, NoDecFacts DEF Clock, QuietAfter, StillEmpty, LongQuiet
<1>4. ~due'
  <2>1. due' = CASE NoDec.valid /\ ~NoDec.has_rep -> TRUE
              [] ~NoDec.valid /\ bbo_res_v_last_q -> FALSE
              [] OTHER -> due
    BY <1>2 DEF Clock
  <2>2. ~bbo_res_v_last_q
    BY <1>1 DEF BookInv, ResultInv, StillEmpty
  <2> QED BY <1>1, <2>1, <2>2, NoDecFacts DEF StillEmpty
<1>5. ~failed'
  BY <1>1, PassingErrorFree DEF StillEmpty
<1>6. dec_book_q' = NoDec
  BY <1>2, DecClock, NoDecFacts
<1>7. ~exist_q'.wen /\ exist_arr_q' = {}
  <2>1. exist_q'.wen = dec_book_q.valid /\ exist_arr_q' = ExistWritten
    BY <1>2, ExistClock
  <2> QED BY <1>1, <2>1 DEF StillEmpty, NoDec, ExistWritten
<1> QED BY <1>1, <1>2, <1>3, <1>4, <1>5, <1>6, <1>7 DEF StillEmpty

(* The memories are cleared from the top. *)
Clearing ==
  /\ ram_rst.count \in Places /\ ram_rst.in_progress \in BOOLEAN
  /\ ram_rst.in_progress => \A a \in Places : a > ram_rst.count => pa_ram[a] = 0 /\ od_ram[a] = 0
  /\ ~ram_rst.in_progress => ram_rst.count = 0 /\ \A a \in Places : pa_ram[a] = 0 /\ od_ram[a] = 0

LEMMA BootClearing ==
  ASSUME BookInv, phase # "running", NEW init, Passing(init)
  PROVE  Clearing'
<1>1. Clearing /\ MemoryTypes /\ ~dec_book_q.valid
  BY NoDecFacts DEF BookInv, BootInv, Clearing
<1>2. /\ pa_ram' = RamWritten(pa_ram, price_addr(dec_book_q.price))
      /\ od_ram' = RamWritten(od_ram, lut_ordering_out[TRUE])
      /\ ram_rst' = [in_progress |-> ram_rst.count # 0,
                     count |-> IF ram_rst.in_progress /\ ram_rst.count # 0 THEN ram_rst.count - 1 ELSE 0]
  BY MemoryClock DEF Passing
<1>3. /\ ram_rst'.in_progress <=> ram_rst.count # 0
      /\ ram_rst'.in_progress \in BOOLEAN
      /\ ram_rst'.count = IF ram_rst.in_progress /\ ram_rst.count # 0 THEN ram_rst.count - 1 ELSE 0
  BY <1>2
<1>4. CASE ram_rst.in_progress
  <2>1. \A a \in Places : /\ pa_ram'[a] = IF a = ram_rst.count THEN 0 ELSE pa_ram[a]
                          /\ od_ram'[a] = IF a = ram_rst.count THEN 0 ELSE od_ram[a]
    <3>1. pa_ram \in [Places -> Nat] /\ od_ram \in [Places -> Nat]
      BY <1>1 DEF MemoryTypes
    <3>2. ASSUME NEW ram \in [Places -> Nat], NEW addr
          PROVE  \A a \in Places : RamWritten(ram, addr)[a] = IF a = ram_rst.count THEN 0 ELSE ram[a]
      BY <1>4, Written
    <3> QED BY <1>2, <3>1, <3>2
  <2>2. \A a \in Places : a >= ram_rst.count => pa_ram'[a] = 0 /\ od_ram'[a] = 0
    <3> TAKE a \in Places
    <3>1. a \in Nat /\ ram_rst.count \in Nat
      BY <1>1, SizeFacts DEF Clearing, Places
    <3> QED BY <1>1, <1>4, <2>1, <3>1 DEF Clearing
  <2>3. ram_rst.count \in Places
    BY <1>1 DEF Clearing
  <2>4. CASE ram_rst.count # 0
    <3>1. ram_rst'.count = ram_rst.count - 1 /\ ram_rst'.in_progress
      BY <1>3, <1>4, <2>4
    <3>2. ram_rst'.count \in Places
      BY <2>3, <2>4, <3>1, SizeFacts DEF Places
    <3>3. \A a \in Places : a > ram_rst'.count => pa_ram'[a] = 0 /\ od_ram'[a] = 0
      BY <2>2, <2>3, <3>1, SizeFacts DEF Places
    <3> QED BY <1>3, <3>1, <3>2, <3>3 DEF Clearing
  <2>5. CASE ram_rst.count = 0
    <3>1. ram_rst'.count = 0 /\ ~ram_rst'.in_progress
      BY <1>3, <2>5
    <3>2. 0 \in Places
      BY <2>3, <2>5
    <3>3. \A a \in Places : pa_ram'[a] = 0 /\ od_ram'[a] = 0
      BY <2>2, <2>5, SizeFacts DEF Places
    <3> QED BY <1>3, <3>1, <3>2, <3>3 DEF Clearing
  <2> QED BY <2>4, <2>5
<1>5. CASE ~ram_rst.in_progress
  <2>1. ram_rst.count = 0 /\ 0 \in Places /\ \A a \in Places : pa_ram[a] = 0 /\ od_ram[a] = 0
    BY <1>1, <1>5 DEF Clearing
  <2>2. pa_ram' = pa_ram /\ od_ram' = od_ram
    BY <1>1, <1>2, <1>5, Written DEF MemoryTypes
  <2>3. ram_rst'.count = 0 /\ ~ram_rst'.in_progress
    BY <1>3, <2>1
  <2> QED BY <1>3, <2>1, <2>2, <2>3 DEF Clearing
<1> QED BY <1>4, <1>5
----------------------------------------------------------------------------
(* The tables are filled from the first place on. *)
LEMMA LutFacts ==
  ASSUME NEW init, LutStep(init)
  PROVE  /\ lut_q'.initialized <=> lut_q.initialized \/ init.valid
         /\ lut_q'.done <=> lut_q.done \/ lut_q.count = L2_MEM_SIZE - 1
         /\ lut_q'.done \in BOOLEAN
         /\ lut_q'.count = IF init.valid \/ lut_q.done THEN 0 ELSE (lut_q.count + 1) % L2_MEM_SIZE
         /\ init.valid => lut_q'.price = init.price_base
         /\ ~init.valid /\ ~lut_q.done => lut_q'.price = lut_q.price + 50
<1>1. PICK i, d, c, p :
        /\ i = (lut_q.initialized \/ init.valid)
        /\ d = (lut_q.done \/ lut_q.count = L2_MEM_SIZE - 1)
        /\ c = IF init.valid \/ lut_q.done THEN 0 ELSE (lut_q.count + 1) % L2_MEM_SIZE
        /\ p = CASE init.valid -> init.price_base
                 [] ~init.valid /\ lut_q.done -> 0
                 [] OTHER -> lut_q.price + 50
  OBVIOUS
<1>2. lut_q' = [initialized |-> i, done |-> d, count |-> c, price |-> p]
  BY <1>1 DEF LutStep
<1>3. lut_q'.initialized = i /\ lut_q'.done = d /\ lut_q'.count = c /\ lut_q'.price = p
  BY <1>2
<1>4. /\ init.valid => p = init.price_base
      /\ ~init.valid /\ ~lut_q.done => p = lut_q.price + 50
  BY <1>1
<1>5. /\ i <=> lut_q.initialized \/ init.valid
      /\ d <=> lut_q.done \/ lut_q.count = L2_MEM_SIZE - 1
      /\ d \in BOOLEAN
  BY <1>1, Zenon
<1> QED BY <1>1, <1>3, <1>4, <1>5, Zenon

LEMMA NotInit == ~NoInit.valid
BY DEF NoInit

LEMMA CountOn ==
  ASSUME NEW count \in Nat, count < L2_MEM_SIZE
  PROVE  /\ count < L2_MEM_SIZE - 1 => (count + 1) % L2_MEM_SIZE = count + 1
         /\ count \in Places
BY SizeFacts DEF Places

Waits ==
  /\ lut_q.initialized /\ initialized_q /\ price_base_q = PriceBase /\ lut_q.done \in BOOLEAN
  /\ ~lut_q.done => lut_q.count \in Places /\ lut_q.price = PriceOf(lut_q.count)
  /\ \A i \in Places : lut_q.done \/ i < lut_q.count =>
       lut_ordering[price_addr(PriceOf(i))] = i /\ lut_price[i] = PriceOf(i)

Resets == ~lut_q.initialized /\ ~lut_q.done /\ lut_q.count \in Nat /\ lut_q.count + delay < L2_MEM_SIZE - 1

LEMMA ResetsOn ==
  ASSUME BookInv, AfterReset
  PROVE  Resets' /\ delay' \in Nat
<1>1. Resets /\ delay \in Nat
  BY DEF AfterReset, BookInv, BootInv, Resets, LevelsInv
<1>2. LutStep(NoInit) /\ delay > 0 /\ delay' = delay - 1
  BY TableClock DEF AfterReset
<1>3. lut_q.count \in Nat /\ lut_q.count + delay < L2_MEM_SIZE - 1 /\ ~lut_q.initialized /\ ~lut_q.done
  BY <1>1 DEF Resets
<1>4. /\ ~lut_q'.initialized /\ (lut_q'.done <=> lut_q.count = L2_MEM_SIZE - 1)
      /\ lut_q'.count = (lut_q.count + 1) % L2_MEM_SIZE
  BY <1>2, <1>3, LutFacts, NotInit
<1>5. lut_q.count < L2_MEM_SIZE - 1 /\ lut_q.count < L2_MEM_SIZE
  BY <1>1, <1>2, <1>3, SizeFacts
<1>6. (lut_q.count + 1) % L2_MEM_SIZE = lut_q.count + 1
  BY <1>3, <1>5, CountOn
<1>7. lut_q.count # L2_MEM_SIZE - 1 /\ lut_q.count + 1 + (delay - 1) < L2_MEM_SIZE - 1 /\ delay - 1 \in Nat
  BY <1>1, <1>2, <1>3, <1>5, SizeFacts
<1>8. lut_q.count + 1 \in Nat
  BY <1>3
<1> QED BY <1>2, <1>4, <1>6, <1>7, <1>8 DEF Resets

LEMMA FirstPlace == 0 \in Places /\ PriceOf(0) = PriceBase
BY SizeFacts DEF Places, PriceOf

LEMMA WaitsFrom ==
  ASSUME BookInv, Initialize
  PROVE  Waits'
<1>0. PICK init : init = [valid |-> TRUE, price_base |-> PriceBase]
  OBVIOUS
<1>1. Resets /\ delay \in Nat /\ delay = 0
  BY DEF Initialize, BookInv, BootInv, Resets, LevelsInv
<1>2. Clock(init, NoDec) /\ init.valid /\ init.price_base = PriceBase
  BY <1>0 DEF Initialize
<1>3. /\ LutStep(init) /\ initialized_q' = (initialized_q \/ init.valid)
      /\ price_base_q' = IF init.valid THEN init.price_base ELSE price_base_q
  BY <1>2, TableClock
<1>4. lut_q.count \in Nat /\ lut_q.count < L2_MEM_SIZE - 1 /\ ~lut_q.done
  BY <1>1 DEF Resets
<1>5. lut_q.count # L2_MEM_SIZE - 1
  BY <1>4, SizeFacts
<1>6. /\ lut_q'.initialized /\ ~lut_q'.done /\ lut_q'.done \in BOOLEAN /\ lut_q'.count = 0
      /\ lut_q'.price = PriceBase
  BY <1>2, <1>3, <1>4, <1>5, LutFacts
<1>7. \A i \in Places : ~(i < 0)
  BY SizeFacts DEF Places
<1>8. initialized_q' /\ price_base_q' = PriceBase
  BY <1>2, <1>3
<1> QED BY <1>6, <1>7, <1>8, FirstPlace DEF Waits

LEMMA WaitsOn ==
  ASSUME BookInv, AwaitReady
  PROVE  Waits'
<1>1. Waits /\ MemoryTypes
  BY DEF AwaitReady, BookInv, BootInv, Waits, LevelsInv
<1>2. Clock(NoInit, NoDec)
  BY DEF AwaitReady
<1>3. /\ LutStep(NoInit) /\ initialized_q' /\ price_base_q' = PriceBase
      /\ lut_wea => /\ lut_ordering' = [lut_ordering EXCEPT ![price_addr(lut_q.price)] = lut_q.count]
                    /\ lut_price' = [lut_price EXCEPT ![lut_q.count] = lut_q.price]
      /\ ~lut_wea => lut_ordering' = lut_ordering /\ lut_price' = lut_price
  BY <1>1, <1>2, TableClock, NotInit DEF Waits
<1>4. CASE lut_q.done
  <2>1. lut_q'.initialized /\ lut_q'.done /\ lut_q'.done \in BOOLEAN
    BY <1>1, <1>3, <1>4, LutFacts DEF Waits
  <2>2. lut_ordering' = lut_ordering /\ lut_price' = lut_price
    BY <1>3, <1>4 DEF lut_wea
  <2> QED BY <1>1, <1>3, <1>4, <2>1, <2>2 DEF Waits
<1>5. CASE ~lut_q.done
  <2>1. PICK c, p : c = lut_q.count /\ p = lut_q.price
    OBVIOUS
  <2>2. c \in Places /\ p = PriceOf(c) /\ lut_q.initialized /\ lut_wea
    BY <1>1, <1>5, <2>1 DEF Waits, lut_wea
  <2>3. /\ lut_ordering' = [lut_ordering EXCEPT ![price_addr(p)] = c]
        /\ lut_price' = [lut_price EXCEPT ![c] = p]
    BY <1>3, <2>1, <2>2
  <2>4. lut_ordering \in [Places -> Nat] /\ lut_price \in [Places -> Nat]
    BY <1>1 DEF MemoryTypes
  <2>5. lut_ordering'[price_addr(p)] = c /\ lut_price'[c] = p
    BY <2>2, <2>3, <2>4, PlaceFacts
  <2>6. ASSUME NEW i \in Places, i # c
        PROVE  /\ lut_ordering'[price_addr(PriceOf(i))] = lut_ordering[price_addr(PriceOf(i))]
               /\ lut_price'[i] = lut_price[i]
    <3>1. price_addr(PriceOf(i)) # price_addr(p)
      BY <2>2, <2>6, AddrApart
    <3>2. price_addr(PriceOf(i)) \in Places
      BY PlaceFacts
    <3> QED BY <2>3, <2>4, <2>6, <3>1, <3>2
  <2>7. /\ lut_q'.initialized /\ (lut_q'.done <=> c = L2_MEM_SIZE - 1) /\ lut_q'.done \in BOOLEAN
        /\ lut_q'.count = (c + 1) % L2_MEM_SIZE /\ lut_q'.price = p + 50
    BY <1>3, <1>5, <2>1, <2>2, LutFacts, NotInit
  <2>8. c \in Nat /\ c <= L2_MEM_SIZE - 1 /\ c < L2_MEM_SIZE
    BY <2>2, SizeFacts DEF Places
  <2>9. ~lut_q'.done => lut_q'.count = c + 1 /\ lut_q'.count \in Places /\ lut_q'.price = PriceOf(lut_q'.count)
    <3>1. SUFFICES ASSUME ~lut_q'.done PROVE lut_q'.count = c + 1 /\ lut_q'.count \in Places /\ lut_q'.price = PriceOf(lut_q'.count)
      BY Zenon
    <3>2. c < L2_MEM_SIZE - 1
      BY <2>7, <2>8, <3>1, SizeFacts
    <3>3. lut_q'.count = c + 1
      BY <2>7, <2>8, <3>2, CountOn
    <3>4. c + 1 \in Places /\ PriceOf(c + 1) = PriceOf(c) + 50
      BY <2>8, <3>2, SizeFacts DEF Places, PriceOf
    <3> QED BY <2>2, <2>7, <3>3, <3>4
  <2>10. ASSUME NEW i \in Places, lut_q'.done \/ i < lut_q'.count
         PROVE  lut_ordering'[price_addr(PriceOf(i))] = i /\ lut_price'[i] = PriceOf(i)
    <3>1. i <= c
      <4>1. i \in Nat /\ i <= L2_MEM_SIZE - 1
        BY SizeFacts DEF Places
      <4>2. CASE lut_q'.done
        BY <2>7, <4>1, <4>2
      <4>3. CASE ~lut_q'.done
        BY <2>8, <2>9, <2>10, <4>1, <4>3
      <4> QED BY <4>2, <4>3
    <3>2. CASE i = c
      BY <2>2, <2>5, <3>2
    <3>3. CASE i # c
      <4>1. i < lut_q.count
        BY <2>1, <2>8, <3>1, <3>3, SizeFacts DEF Places
      <4>2. lut_ordering[price_addr(PriceOf(i))] = i /\ lut_price[i] = PriceOf(i)
        BY <1>1, <4>1 DEF Waits
      <4> QED BY <2>6, <3>3, <4>2
    <3> QED BY <3>2, <3>3
  <2> QED BY <1>3, <2>7, <2>9, <2>10 DEF Waits
<1> QED BY <1>4, <1>5
----------------------------------------------------------------------------
(* From the reset on. *)
LEMMA BootParts ==
  BootInv <=> (phase # "running" => /\ StillEmpty /\ Clearing
                                    /\ phase = "reset" => Resets
                                    /\ phase = "waiting" => Waits)
BY DEF BootInv, StillEmpty, Clearing, Resets, Waits

LEMMA BootPartsNext ==
  ASSUME phase' # "running" => /\ StillEmpty' /\ Clearing'
                               /\ phase' = "reset" => Resets'
                               /\ phase' = "waiting" => Waits'
  PROVE  BootInv'
BY DEF BootInv, StillEmpty, Clearing, Resets, Waits

LEMMA AfterResetBoot ==
  ASSUME BookInv, AfterReset
  PROVE  BootInv' /\ StoredInv' /\ LevelsInv' /\ Passing(NoInit)
<1>1. Passing(NoInit) /\ phase = "reset" /\ phase' = "reset"
  BY DEF AfterReset, Passing
<1>2. StillEmpty' /\ Clearing' /\ Resets' /\ delay' \in Nat
  BY <1>1, BootStillEmpty, BootClearing, ResetsOn
<1>3. BootInv'
  BY <1>1, <1>2, BootPartsNext
<1>4. StoredInv'
  BY <1>1 DEF StoredInv
<1>5. LevelsInv'
  BY <1>1, <1>2, PassingLevels
<1> QED BY <1>1, <1>3, <1>4, <1>5

LEMMA InitializeBoot ==
  ASSUME BookInv, Initialize
  PROVE  /\ BootInv' /\ StoredInv' /\ LevelsInv'
         /\ \E init : Passing(init)
<1>0. PICK init : init = [valid |-> TRUE, price_base |-> PriceBase]
  OBVIOUS
<1>1. Passing(init) /\ phase = "reset" /\ phase' = "waiting" /\ delay' = delay
  BY <1>0 DEF Initialize, Passing
<1>2. StillEmpty' /\ Clearing' /\ Waits'
  BY <1>1, BootStillEmpty, BootClearing, WaitsFrom
<1>3. BootInv'
  BY <1>1, <1>2, BootPartsNext
<1>4. StoredInv'
  BY <1>1 DEF StoredInv
<1>5. LevelsInv'
  BY <1>1, PassingLevels DEF BookInv, LevelsInv
<1> QED BY <1>1, <1>3, <1>4, <1>5

(* The shares at a price of some levels. *)
SharesIn(l, p) ==
  SumFunctionOnSet([is_buy \in BOOLEAN |-> IF p \in Quotes(is_buy) THEN l[is_buy][p] ELSE 0], BOOLEAN)

LEMMA SharesNow == ASSUME NEW p PROVE SharesFor(p) = SharesIn(levels, p) /\ SharesFor(p)' = SharesIn(levels', p)
BY DEF SharesFor, SharesIn

LEMMA TwoSides == IsFiniteSet(BOOLEAN)
<1>1. IsFiniteSet({TRUE} \cup {FALSE}) /\ {TRUE} \cup {FALSE} = BOOLEAN
  BY FS_Singleton, FS_AddElement
<1> QED BY <1>1

LEMMA SharesNone ==
  ASSUME NEW l, NEW p, \A is_buy \in BOOLEAN : \A price \in Quotes(is_buy) : l[is_buy][price] = 0
  PROVE  SharesIn(l, p) = 0
<1>1. PICK f : f = [is_buy \in BOOLEAN |-> IF p \in Quotes(is_buy) THEN l[is_buy][p] ELSE 0]
  OBVIOUS
<1>2. \A is_buy \in BOOLEAN : f[is_buy] = 0
  BY <1>1
<1>3. Total(f, BOOLEAN) = 0
  BY <1>2, TwoSides, SumZero
<1> QED BY <1>1, <1>3 DEF Total, SharesIn

LEMMA SharesMove ==
  ASSUME NEW l, NEW m, NEW s \in BOOLEAN, NEW p \in Quotes(s), Changed(s, l[s], m[s], p),
         \A r \in BOOLEAN \ {s} : m[r] = l[r] /\ IsLevels(r, l[r]), NEW q
  PROVE  /\ SharesIn(m, q) \in Nat /\ SharesIn(l, q) \in Nat
         /\ q = p => SharesIn(m, q) = SharesIn(l, q) - l[s][p] + m[s][p] /\ l[s][p] <= SharesIn(l, q)
         /\ q # p => SharesIn(m, q) = SharesIn(l, q)
<1>1. PICK f, g : /\ f = [is_buy \in BOOLEAN |-> IF q \in Quotes(is_buy) THEN l[is_buy][q] ELSE 0]
                  /\ g = [is_buy \in BOOLEAN |-> IF q \in Quotes(is_buy) THEN m[is_buy][q] ELSE 0]
  OBVIOUS
<1>2. SharesIn(l, q) = Total(f, BOOLEAN) /\ SharesIn(m, q) = Total(g, BOOLEAN)
  BY <1>1 DEF SharesIn, Total
<1>3. \A r \in BOOLEAN : f[r] \in Nat /\ g[r] \in Nat
  BY <1>1 DEF Changed, IsLevels
<1>4. \A r \in BOOLEAN \ {s} : f[r] = g[r]
  BY <1>1
<1>5. q = p => f[s] = l[s][p] /\ g[s] = m[s][p]
  BY <1>1
<1>6. q # p => f[s] = g[s]
  BY <1>1 DEF Changed
<1>7. Total(g, BOOLEAN) = Total(f, BOOLEAN) - f[s] + g[s]
  BY <1>3, <1>4, TwoSides, SumChange
<1>8. Total(f, BOOLEAN) \in Nat /\ Total(g, BOOLEAN) \in Nat
  BY <1>3, TwoSides, SumType
<1>9. f[s] <= Total(f, BOOLEAN)
  BY <1>3, TwoSides, SumZero
<1> QED BY <1>2, <1>3, <1>5, <1>6, <1>7, <1>8, <1>9

LEMMA AwaitReadyBoot ==
  ASSUME BookInv, AwaitReady
  PROVE  BootInv' /\ StoredInv' /\ LevelsInv' /\ Passing(NoInit)
<1>1. Passing(NoInit) /\ phase = "waiting" /\ phase' \in {"waiting", "running"} /\ delay' = delay
      /\ (phase' = "running" => ~ram_rst.in_progress /\ lut_q.done)
  BY DEF AwaitReady, Passing, l2_ready_o
<1>2. StillEmpty' /\ Clearing' /\ Waits'
  BY <1>1, BootStillEmpty, BootClearing, WaitsOn
<1>3. BootInv'
  BY <1>1, <1>2, BootPartsNext
<1>4. LevelsInv'
  BY <1>1, PassingLevels DEF BookInv, LevelsInv
<1>5. ASSUME phase' = "running" PROVE StoredInv'
  <2>1. ~ram_rst.in_progress /\ lut_q.done /\ Clearing /\ Clock(NoInit, NoDec)
    BY <1>1, <1>5 DEF BookInv, BootInv, Clearing, Passing
  <2>2. ~ram_rst'.in_progress /\ ram_rst'.count = 0
    <3>1. PICK i, c : /\ i = (ram_rst.count # 0)
                      /\ c = IF ram_rst.in_progress /\ ram_rst.count # 0 THEN ram_rst.count - 1 ELSE 0
      OBVIOUS
    <3>2. ram_rst' = [in_progress |-> i, count |-> c]
      BY <2>1, <3>1, MemoryClock
    <3>3. ram_rst.count = 0
      BY <2>1 DEF Clearing
    <3> QED BY <2>1, <3>1, <3>2, <3>3
  <2>3. lut_q'.done
    BY <2>1, TableClock, LutFacts
  <2>4. /\ initialized_q' /\ price_base_q' = PriceBase
        /\ \A i \in Places : lut_ordering'[price_addr(PriceOf(i))] = i /\ lut_price'[i] = PriceOf(i)
    BY <1>2, <2>3 DEF Waits
  <2>5. TablesFilled'
    BY <2>4 DEF TablesFilled
  <2>6. ~dec_book_q'.valid /\ ~exist_q'.wen /\ exist_arr_q' = {}
    BY <1>2, NoDecFacts DEF StillEmpty
  <2>7. \A p : SharesFor(p)' = 0
    <3> TAKE p
    <3>1. SharesIn(levels', p) = 0
      BY <1>2, SharesNone DEF StillEmpty
    <3> QED BY <3>1, SharesNow
  <2>8. \A i : Before(i)' = 0
    BY <2>6, <2>7 DEF Before
  <2>9. \A i \in Places : pa_ram'[price_addr(PriceOf(i))] = 0 /\ od_ram'[i] = 0
    BY <1>2, <2>2, PlaceFacts DEF Clearing
  <2>10. /\ \A i \in Places : pa_ram'[price_addr(PriceOf(i))] = Before(i)' /\ od_ram'[i] = Before(i)'
         /\ exist_arr_q' = {i \in Places : Before(i)' > 0}
    BY <2>6, <2>8, <2>9
  <2> QED BY <2>2, <2>3, <2>4, <2>5, <2>6, <2>10 DEF StoredInv
<1>6. StoredInv'
  BY <1>5 DEF StoredInv
<1> QED BY <1>1, <1>3, <1>4, <1>6
----------------------------------------------------------------------------
(* What stays once the book is ready. *)
Ready ==
  /\ ~ram_rst.in_progress /\ ram_rst.count = 0 /\ lut_q.done /\ initialized_q /\ price_base_q = PriceBase
  /\ TablesFilled

LEMMA ReadyOn ==
  ASSUME BookInv, phase = "running", phase' = "running", NEW dec, Clock(NoInit, dec)
  PROVE  Ready /\ Ready'
<1>1. Ready
  BY DEF BookInv, StoredInv, Ready
<1>2. ~ram_rst'.in_progress /\ ram_rst'.count = 0
  <2>1. PICK i, c : /\ i = (ram_rst.count # 0)
                    /\ c = IF ram_rst.in_progress /\ ram_rst.count # 0 THEN ram_rst.count - 1 ELSE 0
    OBVIOUS
  <2>2. ram_rst' = [in_progress |-> i, count |-> c]
    BY <2>1, MemoryClock
  <2> QED BY <1>1, <2>1, <2>2 DEF Ready
<1>3. lut_q'.done
  BY <1>1, TableClock, LutFacts DEF Ready
<1>4. lut_ordering' = lut_ordering /\ lut_price' = lut_price
  BY <1>1, TableClock DEF lut_wea, Ready
<1>5. initialized_q' /\ price_base_q' = PriceBase
  BY <1>1, TableClock, NotInit DEF Ready
<1>6. TablesFilled'
  BY <1>1, <1>4 DEF Ready, TablesFilled
<1> QED BY <1>1, <1>2, <1>3, <1>5, <1>6 DEF Ready

(* A message written. *)
LEMMA Pending ==
  ASSUME BookInv, phase = "running", dec_book_q.valid
  PROVE  \E j \in Places :
           /\ dec_book_q.price = PriceOf(j) /\ lut_ordering_out[TRUE] = j
           /\ order_new_shares = SharesFor(PriceOf(j)) /\ order_new_shares \in Nat
           /\ \A i \in Places \ {j} : Before(i) = SharesFor(PriceOf(i))
           /\ Before(j) = pa_ram_doutb
           /\ dec_book_q.shares \in Nat \ {0} /\ pa_ram_doutb \in Nat
           /\ ~exist_q.wen
           /\ quiet = 1 \/ (quiet = 2 /\ owed = {})
<1>1. StoredInv /\ LevelsInv
  BY DEF BookInv
<1>2. /\ quiet = 1 \/ (quiet = 2 /\ owed = {})
      /\ ~exist_q.wen
      /\ \E j \in Places : /\ dec_book_q.price = PriceOf(j) /\ lut_ordering_out[TRUE] = j
                           /\ order_new_shares = SharesFor(PriceOf(j))
      /\ dec_book_q.shares \in Nat \ {0} /\ pa_ram_doutb \in Nat
  BY <1>1, QuotesAssumption DEF StoredInv
<1>3. PICK j \in Places : /\ dec_book_q.price = PriceOf(j) /\ lut_ordering_out[TRUE] = j
                          /\ order_new_shares = SharesFor(PriceOf(j))
  BY <1>2
<1>4. order_new_shares \in Nat
  BY <1>1, <1>3, SharesTyped
<1>5. \A i \in Places \ {j} : Before(i) = SharesFor(PriceOf(i))
  BY <1>3, PlaceOrder DEF Before
<1>6. Before(j) = pa_ram_doutb
  BY <1>3 DEF Before
<1> QED BY <1>2, <1>3, <1>4, <1>5, <1>6

(* A place of each memory after a write. *)
LEMMA MemoriesWritten ==
  ASSUME BookInv, phase = "running", NEW dec, Clock(NoInit, dec)
  PROVE  \A i \in Places : /\ pa_ram'[price_addr(PriceOf(i))] = SharesFor(PriceOf(i))
                           /\ od_ram'[i] = SharesFor(PriceOf(i))
<1>1. /\ pa_ram' = RamWritten(pa_ram, price_addr(dec_book_q.price))
      /\ od_ram' = RamWritten(od_ram, lut_ordering_out[TRUE])
  BY MemoryClock
<1>2. pa_ram \in [Places -> Nat] /\ od_ram \in [Places -> Nat]
  BY DEF BookInv, MemoryTypes
<1>3. ~ram_rst.in_progress /\ \A i \in Places : pa_ram[price_addr(PriceOf(i))] = Before(i) /\ od_ram[i] = Before(i)
  BY DEF BookInv, StoredInv
<1>4. CASE dec_book_q.valid
  <2>1. PICK j \in Places :
           /\ dec_book_q.price = PriceOf(j) /\ lut_ordering_out[TRUE] = j
           /\ order_new_shares = SharesFor(PriceOf(j)) /\ order_new_shares \in Nat
           /\ \A i \in Places \ {j} : Before(i) = SharesFor(PriceOf(i))
    BY <1>4, Pending
  <2>2. \A i \in Places :
          /\ pa_ram'[i] = IF i = price_addr(PriceOf(j)) THEN order_new_shares ELSE pa_ram[i]
          /\ od_ram'[i] = IF i = j THEN order_new_shares ELSE od_ram[i]
    <3>1. ASSUME NEW ram \in [Places -> Nat], NEW addr
          PROVE  \A i \in Places : RamWritten(ram, addr)[i] = IF i = addr THEN order_new_shares ELSE ram[i]
      BY <1>3, <1>4, <2>1, Written
    <3> QED BY <1>1, <1>2, <2>1, <3>1
  <2>3. TAKE i \in Places
  <2>4. price_addr(PriceOf(i)) \in Places
    BY PlaceFacts
  <2>5. CASE i = j
    BY <2>1, <2>2, <2>4, <2>5
  <2>6. CASE i # j
    <3>1. price_addr(PriceOf(i)) # price_addr(PriceOf(j))
      BY <2>6, AddrApart
    <3> QED BY <1>3, <2>1, <2>2, <2>4, <2>6, <3>1
  <2> QED BY <2>5, <2>6
<1>5. CASE ~dec_book_q.valid
  <2>1. pa_ram' = pa_ram /\ od_ram' = od_ram
    BY <1>1, <1>2, <1>3, <1>5, Written
  <2> QED BY <1>3, <1>5, <2>1 DEF Before
<1> QED BY <1>4, <1>5

(* The marks a clock later. *)
LEMMA MarksPending ==
  ASSUME BookInv, phase = "running", NEW dec, Clock(NoInit, dec), dec_book_q.valid
  PROVE  /\ exist_q'.wen /\ exist_q'.waddr \in Places
         /\ exist_q'.din <=> SharesFor(PriceOf(exist_q'.waddr)) > 0
         /\ \A i \in Places \ {exist_q'.waddr} : i \in exist_arr_q' <=> i \in Marks
         /\ quiet = 1 \/ (quiet = 2 /\ owed = {})
<1>1. PICK j \in Places :
           /\ dec_book_q.price = PriceOf(j) /\ lut_ordering_out[TRUE] = j
           /\ order_new_shares = SharesFor(PriceOf(j)) /\ order_new_shares \in Nat
           /\ \A i \in Places \ {j} : Before(i) = SharesFor(PriceOf(i))
           /\ dec_book_q.shares \in Nat \ {0} /\ pa_ram_doutb \in Nat
           /\ ~exist_q.wen
           /\ quiet = 1 \/ (quiet = 2 /\ owed = {})
  BY Pending
<1>2. /\ exist_q'.wen = dec_book_q.valid
      /\ exist_q'.waddr = j
      /\ exist_q'.din = (dec_book_q.valid /\ (BringsShares(dec_book_q) \/ order_new_shares # 0))
      /\ exist_arr_q' = ExistWritten
  BY <1>1, ExistClock
<1>3. exist_arr_q' = exist_arr_q
  BY <1>1, <1>2 DEF ExistWritten
<1>4. exist_arr_q = {i \in Places : Before(i) > 0}
  BY <1>1 DEF BookInv, StoredInv
<1>5. BringsShares(dec_book_q) => order_new_shares > 0
  BY <1>1 DEF order_new_shares
<1>6. exist_q'.din <=> order_new_shares > 0
  <2>1. order_new_shares # 0 <=> order_new_shares > 0
    BY <1>1
  <2> QED BY <1>2, <1>5, <2>1, Zenon
<1>7. \A i \in Places \ {j} : i \in exist_arr_q' <=> i \in Marks
  BY <1>1, <1>3, <1>4 DEF Marks
<1> QED BY <1>1, <1>2, <1>6, <1>7

LEMMA MarksWritten ==
  ASSUME BookInv, phase = "running", NEW dec, Clock(NoInit, dec), ~dec_book_q.valid
  PROVE  ~exist_q'.wen /\ exist_arr_q' = Marks
<1>1. ~exist_q'.wen /\ exist_arr_q' = ExistWritten
  BY ExistClock
<1>2. /\ ~exist_q.wen => exist_arr_q = {i \in Places : Before(i) > 0}
      /\ exist_q.wen =>
         /\ exist_q.waddr \in Places
         /\ exist_q.din <=> SharesFor(PriceOf(exist_q.waddr)) > 0
         /\ \A i \in Places \ {exist_q.waddr} : i \in exist_arr_q <=> i \in Marks
      /\ exist_arr_q \subseteq Places
  BY DEF BookInv, StoredInv, MemoryTypes
<1>3. CASE ~exist_q.wen
  BY <1>1, <1>2, <1>3 DEF ExistWritten, Before, Marks
<1>4. CASE exist_q.wen
  <2>1. exist_q.waddr \in Marks <=> exist_q.din
    BY <1>2, <1>4 DEF Marks
  <2>2. \A i \in Places \ {exist_q.waddr} : i \in exist_arr_q <=> i \in Marks
    BY <1>2, <1>4
  <2>3. Marks \subseteq Places
    BY DEF Marks
  <2>4. CASE exist_q.din
    <3>1. exist_arr_q' = exist_arr_q \cup {exist_q.waddr}
      BY <1>1, <1>4, <2>4 DEF ExistWritten
    <3> QED BY <1>1, <1>2, <2>1, <2>2, <2>3, <2>4, <3>1
  <2>5. CASE ~exist_q.din
    <3>1. exist_arr_q' = exist_arr_q \ {exist_q.waddr}
      BY <1>1, <1>4, <2>5 DEF ExistWritten
    <3> QED BY <1>1, <1>2, <2>1, <2>2, <2>3, <2>5, <3>1
  <2> QED BY <2>4, <2>5
<1> QED BY <1>3, <1>4
----------------------------------------------------------------------------
LEMMA IdleStored ==
  ASSUME BookInv, phase = "running", phase' = "running", Passing(NoInit)
  PROVE  StoredInv'
<1>1. Clock(NoInit, NoDec) /\ levels' = levels /\ owed' = owed
  BY DEF Passing
<1>2. Ready'
  BY <1>1, ReadyOn
<1>3. ~dec_book_q'.valid
  BY <1>1, DecClock, NoDecFacts
<1>4. \A p : SharesFor(p)' = SharesFor(p)
  BY <1>1, SharesNow
<1>5. \A i \in Places : Before(i)' = SharesFor(PriceOf(i))
  BY <1>3, <1>4 DEF Before
<1>6. \A i \in Places : pa_ram'[price_addr(PriceOf(i))] = Before(i)' /\ od_ram'[i] = Before(i)'
  BY <1>1, <1>5, MemoriesWritten
<1>7. CASE dec_book_q.valid
  <2>1. /\ exist_q'.wen /\ exist_q'.waddr \in Places
        /\ exist_q'.din <=> SharesFor(PriceOf(exist_q'.waddr)) > 0
        /\ \A i \in Places \ {exist_q'.waddr} : i \in exist_arr_q' <=> i \in Marks
        /\ quiet = 1 \/ (quiet = 2 /\ owed = {})
    BY <1>1, <1>7, MarksPending
  <2>2. quiet' = 2 \/ (quiet' = 3 /\ owed' = {})
    <3>1. quiet' = QuietAfter(quiet, NoDec)
      BY <1>1 DEF Clock
    <3> QED BY <1>1, <2>1, <3>1, NoDecFacts DEF QuietAfter, LongQuiet
  <2>3. (exist_q.din <=> SharesFor(PriceOf(exist_q.waddr)) > 0)'
    <3>1. SharesFor(PriceOf(exist_q.waddr))' = SharesFor(PriceOf(exist_q'.waddr))
      BY <1>1 DEF SharesFor
    <3> QED BY <2>1, <3>1
  <2>4. Marks' = Marks
    BY <1>4 DEF Marks
  <2> QED BY <1>2, <1>3, <1>6, <2>1, <2>2, <2>3, <2>4 DEF Ready, StoredInv
<1>8. CASE ~dec_book_q.valid
  <2>1. ~exist_q'.wen /\ exist_arr_q' = Marks
    BY <1>1, <1>8, MarksWritten
  <2>2. exist_arr_q' = {i \in Places : Before(i)' > 0}
    BY <1>5, <2>1 DEF Marks
  <2> QED BY <1>2, <1>3, <1>6, <2>1, <2>2 DEF Ready, StoredInv
<1> QED BY <1>7, <1>8

(* What a message brings or takes, at its price. *)
LEMMA SharesMessage ==
  ASSUME BookInv, NEW dec, Message(dec)
  PROVE  /\ \A q : q # dec.price => SharesFor(q)' = SharesFor(q)
         /\ SharesFor(dec.price) \in Nat
         /\ IsAdd(dec) => SharesFor(dec.price)' = SharesFor(dec.price) + dec.shares
         /\ ~IsAdd(dec) => SharesFor(dec.price)' = SharesFor(dec.price) - dec.shares
<1>1. PICK s, p, c : s = dec.is_buy /\ p = dec.price /\ c = dec.shares
  OBVIOUS
<1>2. /\ s \in BOOLEAN /\ p \in Quotes(s) /\ c \in Nat \ {0} /\ Changed(s, levels[s], levels'[s], p)
      /\ IsAdd(dec) => levels'[s][p] = levels[s][p] + c
      /\ ~IsAdd(dec) => levels[s][p] = levels'[s][p] + c
      /\ \A r \in BOOLEAN \ {s} : levels'[r] = levels[r]
  BY <1>1 DEF Message, Moves
<1>3. \A r \in BOOLEAN : IsLevels(r, levels[r])
  BY DEF BookInv, LevelsInv
<1>4. \A q : /\ SharesIn(levels', q) \in Nat /\ SharesIn(levels, q) \in Nat
             /\ q = p => SharesIn(levels', q) = SharesIn(levels, q) - levels[s][p] + levels'[s][p]
             /\ q # p => SharesIn(levels', q) = SharesIn(levels, q)
  BY <1>2, <1>3, SharesMove
<1>5. \A q : SharesFor(q) = SharesIn(levels, q) /\ SharesFor(q)' = SharesIn(levels', q)
  BY SharesNow
<1>6. PICK x, y, f, g : x = levels[s][p] /\ y = levels'[s][p] /\ f = SharesFor(p) /\ g = SharesFor(p)'
  OBVIOUS
<1>7. x \in Nat /\ y \in Nat /\ f \in Nat /\ g = f - x + y /\ (IsAdd(dec) => y = x + c) /\ (~IsAdd(dec) => x = y + c)
  BY <1>2, <1>4, <1>5, <1>6 DEF Changed, IsLevels
<1>8. (IsAdd(dec) => g = f + c) /\ (~IsAdd(dec) => g = f - c)
  BY <1>2, <1>7
<1> QED BY <1>1, <1>4, <1>5, <1>6, <1>7, <1>8

LEMMA NothingPending ==
  ASSUME BookInv, NEW dec, Message(dec)
  PROVE  ~dec_book_q.valid /\ ~exist_q.wen
<1>1. /\ dec_book_q.valid => quiet = 1 \/ (quiet = 2 /\ owed = {})
      /\ exist_q.wen => quiet = 2 \/ (quiet = 3 /\ owed = {})
  <2>1. StoredInv /\ phase = "running"
    BY DEF BookInv, Message
  <2> QED BY <2>1, Zenon DEF StoredInv
<1>3. quiet \in Nat
  BY DEF BookInv, LevelsInv, LongQuiet
<1>2. (quiet >= 6 /\ owed = {}) \/ (quiet >= 3 /\ owed # {})
  BY Zenon DEF Message
<1> QED BY <1>1, <1>2, <1>3

LEMMA MessageStored ==
  ASSUME BookInv, NEW dec, Message(dec)
  PROVE  StoredInv'
<1>1. /\ Clock(NoInit, dec) /\ phase = "running" /\ phase' = "running" /\ dec.valid
      /\ dec.is_buy \in BOOLEAN /\ dec.price \in Quotes(dec.is_buy) /\ dec.shares \in ShareCounts
  BY DEF Message
<1>2. Ready /\ Ready'
  BY <1>1, ReadyOn
<1>3. ~exist_q'.wen /\ exist_arr_q' = Marks
  BY <1>1, NothingPending, MarksWritten
<1>4. InWindow(dec.price) <=> InTable(dec.price)
  BY <1>2 DEF Ready, InWindow, InTable, price_max_q
<1>5. dec.price \in Nat /\ dec.price % 50 = 0
  BY <1>1, QuoteFacts
<1>6. pa_ram_doutb' = pa_ram[price_addr(dec.price)] /\ lut_ordering_out'[TRUE] = lut_ordering[price_addr(dec.price)]
  BY <1>1, <1>2, MemoryClock, TableClock DEF Ready, lut_wea
<1>7. (\A i \in Places : Before(i)' = SharesFor(PriceOf(i))) => StoredInv' \/ dec_book_q'.valid
  <2>1. SUFFICES ASSUME \A i \in Places : Before(i)' = SharesFor(PriceOf(i)), ~dec_book_q'.valid PROVE StoredInv'
    OBVIOUS
  <2>2. exist_arr_q' = {i \in Places : Before(i)' > 0}
    BY <1>3, <2>1 DEF Marks
  <2>3. \A i \in Places : pa_ram'[price_addr(PriceOf(i))] = Before(i)' /\ od_ram'[i] = Before(i)'
    BY <1>1, <2>1, MemoriesWritten
  <2> QED BY <1>2, <1>3, <2>1, <2>2, <2>3 DEF Ready, StoredInv
<1>8. CASE ~InTable(dec.price)
  <2>1. ~dec_book_q'.valid
    BY <1>1, <1>4, <1>8, DecClock, NoDecFacts
  <2>2. \A i \in Places : PriceOf(i) # dec.price
    BY <1>8, PlaceFacts
  <2>3. \A i \in Places : Before(i)' = SharesFor(PriceOf(i))
    BY <2>1, <2>2, SharesMessage DEF Before
  <2> QED BY <1>7, <2>1, <2>3
<1>9. CASE InTable(dec.price)
  <2>1. PICK j : j = Place(dec.price)
    OBVIOUS
  <2>2. j \in Places /\ PriceOf(j) = dec.price
    BY <1>5, <1>9, <2>1, PriceFacts
  <2>3. dec_book_q' = dec
    BY <1>1, <1>4, <1>9, DecClock
  <2>4. pa_ram_doutb' = SharesFor(dec.price) /\ lut_ordering_out'[TRUE] = j
    <3>1. pa_ram[price_addr(PriceOf(j))] = Before(j) /\ lut_ordering[price_addr(PriceOf(j))] = j
      BY <1>1, <2>2 DEF BookInv, StoredInv, TablesFilled
    <3>2. Before(j) = SharesFor(PriceOf(j))
      BY NothingPending DEF Before
    <3> QED BY <1>6, <2>2, <3>1, <3>2
  <2>5. order_new_shares' = SharesFor(dec.price)'
    <3>1. order_new_shares' = IF IsAdd(dec) THEN pa_ram_doutb' + dec.shares ELSE pa_ram_doutb' - dec.shares
      BY <2>3 DEF order_new_shares, BringsShares, IsAdd
    <3> QED BY <2>4, <3>1, SharesMessage
  <2>6. \A i \in Places : Before(i)' = SharesFor(PriceOf(i))
    <3> TAKE i \in Places
    <3>1. CASE PriceOf(i) = dec.price
      BY <1>1, <2>3, <2>4, <3>1 DEF Before
    <3>2. CASE PriceOf(i) # dec.price
      BY <2>3, <3>2, SharesMessage DEF Before
    <3> QED BY <3>1, <3>2
  <2>7. exist_arr_q' = {i \in Places : Before(i)' > 0}
    BY <1>3, <2>6 DEF Marks
  <2>8. \A i \in Places : pa_ram'[price_addr(PriceOf(i))] = Before(i)' /\ od_ram'[i] = Before(i)'
    BY <1>1, <2>6, MemoriesWritten
  <2>9. quiet' = 1 \/ (quiet' = 2 /\ owed' = {})
    <3>1. quiet' = QuietAfter(quiet, dec) /\ owed' = (IF dec.has_rep THEN {dec.is_buy} ELSE {}) /\ dec.has_rep \in BOOLEAN
      BY DEF Message, Clock
    <3> QED BY <1>1, <3>1 DEF QuietAfter
  <2>10. /\ dec_book_q'.price = PriceOf(j) /\ order_new_shares' = SharesFor(PriceOf(j))'
         /\ dec_book_q'.shares \in ShareCounts /\ pa_ram_doutb' \in Nat
    <3>1. pa_ram_doutb' \in Nat
      BY <2>4, SharesMessage
    <3> QED BY <1>1, <2>2, <2>3, <2>5, <3>1
  <2> QED BY <1>2, <1>3, <2>2, <2>4, <2>7, <2>8, <2>9, <2>10 DEF Ready, StoredInv
<1> QED BY <1>8, <1>9
----------------------------------------------------------------------------
(* An error means a level out of the window that is to be shown. *)
LEMMA BestOfSome ==
  ASSUME NEW s \in BOOLEAN, NEW S, IsFiniteSet(S), S \subseteq Nat, S # {}
  PROVE  \E x \in S : \A y \in S : ~Better(s, y, x)
<1> DEFINE G == {T \in SUBSET S : T # {} => \E x \in T : \A y \in T : ~Better(s, y, x)}
<1>1. {} \in G
  OBVIOUS
<1>2. ASSUME NEW T \in SUBSET S, NEW z \in S \ T, T \in G
      PROVE  T \cup {z} \in G
  <2>1. CASE T = {}
    <3>1. ~Better(s, z, z)
      BY DEF Better
    <3> QED BY <2>1, <3>1
  <2>2. CASE T # {}
    <3>1. PICK x \in T : \A y \in T : ~Better(s, y, x)
      BY <1>2, <2>2
    <3>2. CASE ~Better(s, z, x)
      BY <3>1, <3>2
    <3>3. CASE Better(s, z, x)
      <4>1. \A y \in T : ~Better(s, y, z)
        BY <3>1, <3>3 DEF Better
      <4>2. ~Better(s, z, z)
        BY DEF Better
      <4> QED BY <4>1, <4>2
    <3> QED BY <3>2, <3>3
  <2> QED BY <2>1, <2>2
<1>3. S \in G
  <2> HIDE DEF G
  <2> QED BY <1>1, <1>2, FiniteInduction
<1> QED BY <1>3

LEMMA FewerThanTwo ==
  ASSUME NEW S, NEW x, S \subseteq {x}
  PROVE  Cardinality(S) < 2
<1>1. S = {} \/ S = {x}
  OBVIOUS
<1>2. Cardinality({}) = 0 /\ Cardinality({x}) = 1
  BY FS_EmptySet, FS_Singleton
<1> QED BY <1>1, <1>2

LEMMA OutOfReach ==
  ASSUME NEW s \in BOOLEAN, NEW a, NEW b, NEW o, NEW n, NEW f, IsLevels(s, f), Short(s, a, b, o, n, f),
         o # 0, n = 0
  PROVE  \E p \in {x \in Quotes(s) : f[x] > 0} :
           ~InTable(p) /\ Cardinality({q \in {x \in Quotes(s) : f[x] > 0} : Better(s, q, p)}) < 2
<1> DEFINE T == {x \in Quotes(s) : f[x] > 0}
           S == T \ Shown(a, b)
<1>1. IsFiniteSet(S) /\ S \subseteq Nat
  BY QuoteFacts, FS_Subset
<1>2. S # {} /\ \A q \in Near(s) \ Shown(a, b) : f[q] = 0
  <2>1. \E q \in Quotes(s) \ Shown(a, b) : f[q] > 0
    BY NothingLeft
  <2>2. \A q \in Near(s) \ Shown(a, b) : f[q] = 0
    BY NothingLeft
  <2> QED BY <2>1, <2>2
<1> HIDE DEF S
<1>3. PICK p \in S : \A y \in S : ~Better(s, y, p)
  BY <1>1, <1>2, BestOfSome
<1>4. p \in T /\ p \notin Shown(a, b) /\ f[p] > 0 /\ p \in Quotes(s)
  BY DEF S
<1>5. ~InTable(p)
  <2>1. SUFFICES ASSUME InTable(p) PROVE FALSE
    OBVIOUS
  <2>2. p \in Near(s) \ Shown(a, b)
    BY <1>4, <2>1 DEF Near
  <2>3. f[p] = 0
    BY <1>2, <2>2
  <2> QED BY <1>4, <2>3
<1>6. {q \in T : Better(s, q, p)} \subseteq {a.price}
  <2>1. ~b.valid
    BY DEF Short
  <2>2. ASSUME NEW q \in T, Better(s, q, p) PROVE q = a.price
    <3>1. q \in Shown(a, b)
      BY <1>3, <2>2 DEF S
    <3> QED BY <2>1, <3>1, ShownHas
  <2> QED BY <2>2
<1>7. Cardinality({q \in T : Better(s, q, p)}) < 2
  BY <1>6, FewerThanTwo
<1> QED BY <1>4, <1>5, <1>7

LEMMA WindowNext ==
  ASSUME NEW p, price_base_q' = PriceBase
  PROVE  InWindow(p)' <=> InTable(p)
BY DEF InWindow, price_max_q, InTable

(* What makes an error of a message. *)
LEMMA ErrorCause ==
  ASSUME BookInv, NEW dec, Message(dec), failed'
  PROVE  /\ AtRest(dec) /\ Effect(half[dec.is_buy], dec) = "del"
         /\ half[dec.is_buy].updt_able /\ ~half[dec.is_buy].updt_able_in_range
<1> USE DEF BookInv
<1>1. /\ ~failed /\ dec.valid /\ dec.is_buy \in BOOLEAN /\ dec.price \in Quotes(dec.is_buy)
      /\ phase = "running" /\ failed' = (failed \/ book_error(dec)) /\ ~dec_book_updt_q.valid
  BY MessageHalves DEF Message, Clock
<1>2. AtRest(dec)
  BY MessageHalves, MessageErrorFree
<1>3. ~l2_error(dec)
  BY <1>1, QuoteFacts DEF l2_error, StoredInv
<1>4. ~error_dec_updt(dec)
  BY <1>1 DEF error_dec_updt, Releases
<1>5. PICK r \in BOOLEAN : half_error(half[r], half_dec_book(dec, r), updt_o(r))
  BY <1>1, <1>3, <1>4, Zenon DEF book_error
<1>6. half_dec_book(dec, r) = IF dec.is_buy = r THEN dec ELSE NoDec
  BY <1>1, <1>2, PassedOn DEF AtRest, Resting
<1>7. ~updt_o(r).valid /\ ~half[r].updt_ing
  BY <1>2 DEF updt_o, AtRest, Resting
<1>8. r = dec.is_buy
  BY <1>5, <1>6, <1>7, NoDecFacts DEF half_error
<1>9. Effect(half[r], dec) = "del" /\ half[r].updt_able /\ ~half[r].updt_able_in_range
  BY <1>1, <1>5, <1>6, <1>7, <1>8 DEF half_error
<1> QED BY <1>2, <1>8, <1>9

LEMMA MessageNoFalse ==
  ASSUME BookInv, NEW dec, Message(dec)
  PROVE  NoFalseError'
<1> SUFFICES ASSUME failed' PROVE NoFalseError'
  BY DEF NoFalseError
<1>1. PICK s, h, h2, f : s = dec.is_buy /\ h = half[s] /\ h2 = half'[s] /\ f = levels'[s]
  OBVIOUS
<1>2. AtRest(dec) /\ Effect(h, dec) = "del" /\ h.updt_able /\ ~h.updt_able_in_range
  BY <1>1, ErrorCause
<1>3. (h.updt_able <=> h.out_size # 0) /\ (h.updt_able_in_range <=> h.out_size_in_range # 0)
  BY <1>1, <1>2, DelFlags
<1>4. h.out_size # 0 /\ h.out_size_in_range = 0
  BY <1>2, <1>3
<1>5. s \in BOOLEAN /\ After(h, h2, dec, f)
  BY <1>1, <1>2 DEF AtRest, Takes, Message
<1>6. ShortHalf(s, h2, f) /\ h2.out_size = h.out_size /\ h2.out_size_in_range = h.out_size_in_range
  BY <1>1, <1>2, <1>5 DEF After
<1>7. IsLevels(s, f)
  BY <1>1, <1>5 DEF Message, LevelsInv
<1>8. PICK p \in {x \in Quotes(s) : f[x] > 0} :
           ~InTable(p) /\ Cardinality({q \in {x \in Quotes(s) : f[x] > 0} : Better(s, q, p)}) < 2
  BY <1>4, <1>5, <1>6, <1>7, OutOfReach DEF ShortHalf
<1>9. Traded(s)' = {x \in Quotes(s) : f[x] > 0}
  BY <1>1 DEF Traded
<1>10. price_base_q' = PriceBase
  BY ReadyOn DEF Message, Ready
<1>11. ~InWindow(p)'
  BY <1>8, <1>10, WindowNext
<1>12. p \in Traded(s)' /\ Cardinality({q \in Traded(s)' : Better(s, q, p)}) < 2
  BY <1>8, <1>9
<1> QED BY <1>5, <1>11, <1>12 DEF NoFalseError

LEMMA IdleNoFalse ==
  ASSUME BookInv, phase = "running", phase' = "running", Passing(NoInit)
  PROVE  NoFalseError'
<1>1. (failed' <=> failed) /\ levels' = levels
  BY PassingErrorFree DEF Passing
<1>2. price_base_q' = PriceBase /\ price_base_q = PriceBase
  BY ReadyOn DEF Passing, Ready
<1>3. \A r \in BOOLEAN : Traded(r)' = Traded(r)
  BY <1>1 DEF Traded
<1>4. NoFalseError
  BY DEF BookInv
<1> QED BY <1>1, <1>2, <1>3, <1>4 DEF NoFalseError, InWindow, price_max_q

LEMMA EmptyNoFalse ==
  ASSUME BookInv, phase # "running", NEW init, Passing(init)
  PROVE  NoFalseError'
BY BootStillEmpty DEF StillEmpty, NoFalseError
----------------------------------------------------------------------------
(* The invariant holds. *)
LEMMA MessageBook ==
  ASSUME BookInv, NEW dec, Message(dec)
  PROVE  BookInv'
<1>1. Clock(NoInit, dec) /\ LevelsInv' /\ phase' = "running"
  BY DEF Message
<1>2. BootInv'
  BY <1>1, BootPartsNext
<1>3. MemoryTypes'
  BY <1>1, ClockMemories
<1> QED BY <1>1, <1>2, <1>3, MessageHalvesInv, MessageRefills, MessageFound, MessageFollows, MessageKept,
           MessageResult, MessageStored, MessageNoFalse DEF BookInv

LEMMA PassingBook ==
  ASSUME BookInv, NEW init, Passing(init), LevelsInv', BootInv', StoredInv', NoFalseError'
  PROVE  BookInv'
<1>1. Clock(init, NoDec)
  BY DEF Passing
<1>2. MemoryTypes'
  BY <1>1, ClockMemories
<1> QED BY <1>2, PassingHalvesInv, PassingRefills, PassingFound, PassingFollows, PassingKept, PassingResult
        DEF BookInv

LEMMA NextBook ==
  ASSUME BookInv, Next
  PROVE  BookInv'
<1>1. CASE AfterReset
  <2>1. phase # "running"
    BY <1>1 DEF AfterReset
  <2> QED BY <1>1, <2>1, AfterResetBoot, EmptyNoFalse, PassingBook
<1>2. CASE Initialize
  <2>1. PICK init : Passing(init)
    BY <1>2, InitializeBoot
  <2>2. BootInv' /\ StoredInv' /\ LevelsInv' /\ phase # "running"
    BY <1>2, InitializeBoot DEF Initialize
  <2> QED BY <2>1, <2>2, EmptyNoFalse, PassingBook
<1>3. CASE AwaitReady
  <2>1. phase # "running"
    BY <1>3 DEF AwaitReady
  <2> QED BY <1>3, <2>1, AwaitReadyBoot, EmptyNoFalse, PassingBook
<1>4. CASE Idle
  <2>1. Passing(NoInit) /\ phase = "running" /\ phase' = "running" /\ delay' = delay
    BY <1>4 DEF Idle, Passing
  <2>2. BootInv'
    BY <2>1, BootPartsNext
  <2>3. LevelsInv'
    BY <2>1, PassingLevels DEF BookInv, LevelsInv
  <2> QED BY <2>1, <2>2, <2>3, IdleStored, IdleNoFalse, PassingBook
<1>5. ASSUME NEW d, Message(d) PROVE BookInv'
  BY <1>5, MessageBook
<1> QED BY <1>1, <1>2, <1>3, <1>4, <1>5, StepCases

LEMMA InitLevels ==
  ASSUME levels = [is_buy \in BOOLEAN |-> [price \in Quotes(is_buy) |-> 0]], NEW is_buy \in BOOLEAN
  PROVE  /\ IsLevels(is_buy, levels[is_buy]) /\ \A price \in Quotes(is_buy) : levels[is_buy][price] = 0
         /\ Traded(is_buy) = {} /\ Total(levels[is_buy], Quotes(is_buy)) = 0
<1>1. levels[is_buy] = [price \in Quotes(is_buy) |-> 0]
  OBVIOUS
<1>2. IsLevels(is_buy, levels[is_buy]) /\ \A price \in Quotes(is_buy) : levels[is_buy][price] = 0
  BY <1>1 DEF IsLevels
<1>3. Traded(is_buy) = {}
  BY <1>2 DEF Traded
<1>4. Total(levels[is_buy], Quotes(is_buy)) = 0
  BY <1>2, QuoteFacts, SumZero DEF IsLevels
<1> QED BY <1>2, <1>3, <1>4

LEMMA ResetFull ==
  ASSUME NEW s \in BOOLEAN, NEW f, IsLevels(s, f), \A p \in Quotes(s) : f[p] = 0
  PROVE  FullHalf(s, ResetHalf, f)
<1>1. PICK a : a = NoBBOWord
  OBVIOUS
<1>2. ~a.valid /\ a.price = 0 /\ a.shares = 0 /\ a \in Word
  BY <1>1 DEF NoBBOWord, Word
<1>3. PICK h : h = ResetHalf
  OBVIOUS
<1>4. h.arr[1] = a /\ h.arr[2] = a /\ h.out_size = 0 /\ h.out_size_in_range = 0
  BY <1>1, <1>3 DEF ResetHalf
<1>5. h \in HalfType
  BY <1>1, <1>2, <1>3 DEF ResetHalf, HalfType
<1>6. ASSUME NEW T \in SUBSET Quotes(s) PROVE Beyond(f, T, Shown(a, a)) = 0
  <2>1. PICK S : S = T \ Shown(a, a)
    OBVIOUS
  <2>2. IsFiniteSet(S) /\ \A x \in S : f[x] \in Nat /\ f[x] = 0
    BY <2>1, QuoteFacts, FS_Subset DEF IsLevels
  <2>3. Total(f, S) = 0
    BY <2>2, SumZero
  <2> QED BY <2>1, <2>3 DEF Beyond
<1>7. Beyond(f, Quotes(s), Shown(a, a)) = 0 /\ Beyond(f, Near(s), Shown(a, a)) = 0
  BY <1>6 DEF Near
<1>8. Full(s, a, a, 0, 0, f)
  BY <1>2, <1>7 DEF Full, Kept, Right
<1> QED BY <1>3, <1>4, <1>5, <1>8 DEF FullHalf
----------------------------------------------------------------------------
LEMMA InitBook == Init => BookInv
<1> SUFFICES ASSUME Init PROVE BookInv
  OBVIOUS
<1>1. PICK old \in OldContents, count \in CountsAtReset :
        InitRtlBook([a \in Places |-> old], [a \in Places |-> old], [a \in Places |-> old], count)
  BY DEF Init
<1>2. /\ levels = [is_buy \in BOOLEAN |-> [price \in Quotes(is_buy) |-> 0]]
      /\ owed = {} /\ quiet = LongQuiet /\ due = FALSE /\ phase = "reset" /\ delay = InitDelay /\ failed = FALSE
  BY DEF Init
<1>3. /\ \A s \in BOOLEAN : half[s] = ResetHalf
      /\ dec_book_updt_q = NoDec /\ updt_ing_q = FALSE /\ bbo_res_v_last_q = FALSE
      /\ dec_book_q = NoDec /\ exist_arr_q = {} /\ ~exist_q.wen
      /\ ram_rst.in_progress = TRUE /\ ram_rst.count = L2_MEM_SIZE - 1
      /\ lut_q.initialized = FALSE /\ lut_q.done = FALSE /\ lut_q.count = count
  BY <1>1 DEF InitRtlBook, InitRtlL2
<1>4. \A s \in BOOLEAN : /\ updt_q[s].req = FALSE /\ updt_q[s].req2 = FALSE
                         /\ updt_q[s].local = {} /\ updt_q[s].enc = 0
  BY <1>1 DEF InitRtlBook, InitRtlL2
<1>5. LevelsInv
  <2>1. \A s \in BOOLEAN : /\ IsLevels(s, levels[s]) /\ \A p \in Quotes(s) : levels[s][p] = 0
                           /\ Traded(s) = {} /\ Total(levels[s], Quotes(s)) = 0
    BY <1>2, InitLevels
  <2>2. levels \in [BOOLEAN -> {levels[TRUE], levels[FALSE]}]
    <3>1. PICK l : l = levels
      OBVIOUS
    <3>2. l \in [BOOLEAN -> {l[s] : s \in BOOLEAN}]
      BY <1>2, <3>1
    <3>3. {l[s] : s \in BOOLEAN} = {l[TRUE], l[FALSE]}
      OBVIOUS
    <3> QED BY <3>1, <3>2, <3>3, Zenon
  <2>3. Uncrossed
    BY <2>1 DEF Uncrossed
  <2>4. SharesAt(TRUE, Bids) + SharesAt(FALSE, Offers) <= MaxShares
    <3>1. PICK x, y : x = SharesAt(TRUE, Bids) /\ y = SharesAt(FALSE, Offers)
      OBVIOUS
    <3>2. Total(levels[TRUE], Quotes(TRUE)) = 0 /\ Total(levels[FALSE], Quotes(FALSE)) = 0
      BY <2>1, Zenon
    <3>3. x = 0 /\ y = 0
      BY <3>1, <3>2, Zenon DEF SharesAt, Total, Quotes
    <3>4. 0 + 0 <= MaxShares
      BY QuotesAssumption
    <3>5. x + y <= MaxShares
      BY ONLY <3>3, <3>4
    <3> QED BY <3>1, <3>5, Zenon
  <2>5. delay \in Nat /\ quiet \in 1 .. LongQuiet
    BY <1>2, ResetAssumption DEF LongQuiet
  <2> QED BY <1>2, <2>1, <2>2, <2>3, <2>4, <2>5 DEF LevelsInv
<1>6. \A s \in BOOLEAN : FullHalf(s, half[s], levels[s])
  BY <1>2, <1>3, InitLevels, ResetFull
<1>7. \A s \in BOOLEAN : /\ ~half[s].updt_ing /\ ~half[s].updt_req /\ half[s].updt_req \in BOOLEAN
                         /\ ~half[s].updt_able /\ ~half[s].updt_able_in_range /\ ~half[s].arr[2].valid
                         /\ half[s].out_size = 0 /\ half[s].out_size_in_range = 0
  <2>1. PICK h : h = ResetHalf
    OBVIOUS
  <2>2. /\ ~h.updt_ing /\ ~h.updt_req /\ h.updt_req \in BOOLEAN
        /\ ~h.updt_able /\ ~h.updt_able_in_range
        /\ h.out_size = 0 /\ h.out_size_in_range = 0 /\ h.arr[2] = NoBBOWord
    BY <2>1 DEF ResetHalf
  <2>3. ~NoBBOWord.valid
    BY DEF NoBBOWord
  <2> QED BY <1>3, <2>1, <2>2, <2>3
<1>8. HalvesInv
  BY <1>3, <1>6, <1>7, NoDecFacts DEF HalvesInv, View
<1>9. RefillsInv
  BY <1>3, <1>4, <1>7, RestRefills DEF AllRest
<1>10. FoundInv
  BY <1>4, <1>7 DEF FoundInv
<1>11. FollowsInv
  BY <1>7 DEF FollowsInv
<1>12. KeptInv /\ ResultInv
  BY <1>2, <1>3, NoDecFacts DEF KeptInv, ResultInv
<1>13. MemoryTypes
  <2>1. old \in Nat
    BY ResetAssumption
  <2>2. /\ pa_ram = [a \in Places |-> old] /\ od_ram = [a \in Places |-> old]
        /\ lut_ordering = [a \in Places |-> old] /\ lut_price = [a \in Places |-> old]
    BY <1>1 DEF InitRtlBook, InitRtlL2
  <2> QED BY <1>3, <1>4, <2>1, <2>2, FirstPlace DEF MemoryTypes
<1>14. BootInv
  <2>1. StillEmpty
    BY <1>2, <1>3, InitLevels DEF StillEmpty
  <2>2. Clearing
    <3>1. ram_rst.in_progress /\ ram_rst.in_progress \in BOOLEAN
      BY <1>3, Zenon
    <3>2. ram_rst.count \in Places /\ \A a \in Places : ~(a > ram_rst.count)
      BY <1>3, SizeFacts DEF Places
    <3> QED BY <3>1, <3>2 DEF Clearing
  <2>3. Resets
    BY <1>2, <1>3, ResetAssumption DEF Resets
  <2> QED BY <1>2, <2>1, <2>2, <2>3, BootParts
<1>15. StoredInv /\ NoFalseError
  BY <1>2 DEF StoredInv, NoFalseError
<1> QED BY <1>5, <1>8, <1>9, <1>10, <1>11, <1>12, <1>13, <1>14, <1>15 DEF BookInv

LEMMA StillBook ==
  ASSUME BookInv, UNCHANGED vars
  PROVE  BookInv'
<1> USE DEF BookInv
<1>1. /\ levels' = levels /\ owed' = owed /\ quiet' = quiet /\ due' = due /\ phase' = phase /\ delay' = delay
      /\ failed' = failed
  BY DEF vars, env_vars
<1>2. /\ half' = half /\ dec_book_updt_q' = dec_book_updt_q /\ updt_ing_q' = updt_ing_q
      /\ bbo_res_v_last_q' = bbo_res_v_last_q
  BY DEF vars, book_regs
<1>3. /\ pa_ram' = pa_ram /\ od_ram' = od_ram /\ pa_ram_doutb' = pa_ram_doutb /\ od_ram_doutb' = od_ram_doutb
      /\ ram_rst' = ram_rst /\ lut_ordering' = lut_ordering /\ lut_price' = lut_price
      /\ lut_ordering_out' = lut_ordering_out /\ lut_price_out' = lut_price_out /\ lut_q' = lut_q
      /\ initialized_q' = initialized_q /\ price_base_q' = price_base_q /\ dec_book_q' = dec_book_q
      /\ exist_arr_q' = exist_arr_q /\ exist_q' = exist_q /\ updt_q' = updt_q
  BY DEF vars, book_regs, l2_vars
<1>4. LevelsInv'
  BY <1>1 DEF LevelsInv, Uncrossed, Traded, SharesAt
<1>5. HalvesInv'
  BY <1>1, <1>2 DEF HalvesInv, View
<1>6. RefillsInv'
  BY <1>1, <1>2, <1>3 DEF RefillsInv, Alone, Age
<1>7. \A s \in BOOLEAN : Lacking(s)' = Lacking(s) /\ NextPlace(s)' = NextPlace(s)
  BY <1>1, <1>2, SameNext
<1>8. FoundInv'
  BY <1>1, <1>2, <1>3, <1>7 DEF FoundInv
<1>9. FollowsInv'
  BY <1>1, <1>2, <1>3 DEF FollowsInv
<1>10. KeptInv' /\ ResultInv'
  BY <1>1, <1>2 DEF KeptInv, ResultInv
<1>11. MemoryTypes'
  BY <1>3 DEF MemoryTypes
<1>12. BootInv'
  BY <1>1, <1>2, <1>3 DEF BootInv
<1>13. NoFalseError'
  BY <1>1, <1>3 DEF NoFalseError, Traded, InWindow, price_max_q
<1>14. \A p : SharesFor(p)' = SharesFor(p)
  BY <1>1, SharesNow
<1>15. order_new_shares' = order_new_shares
  BY <1>3 DEF order_new_shares, BringsShares
<1>16. StoredInv'
  <2>1. StoredInv /\ TablesFilled' = TablesFilled
    BY <1>1, <1>3 DEF TablesFilled
  <2>2. Marks' = Marks /\ \A i : Before(i)' = Before(i)
    BY <1>3, <1>14 DEF Marks, Before
  <2>3. SharesFor(PriceOf(exist_q.waddr))' = SharesFor(PriceOf(exist_q.waddr))
    BY <1>1, <1>3 DEF SharesFor
  <2>4. TablesFilled' <=> TablesFilled
    BY <2>1
  <2> QED BY <1>1, <1>3, <1>14, <1>15, <2>1, <2>2, <2>3, <2>4 DEF StoredInv
<1> QED BY <1>4, <1>5, <1>6, <1>8, <1>9, <1>10, <1>11, <1>12, <1>13, <1>16

(* The inductive invariant holds of every state of the book, under its     *)
(* traffic and from its reset on (book.sv:60-136).                         *)
THEOREM BookTheorem == Spec => []BookInv
<1>1. Init => BookInv
  BY InitBook
<1>2. BookInv /\ [Next]_vars => BookInv'
  BY NextBook, StillBook
<1> QED BY <1>1, <1>2, PTL DEF Spec
----------------------------------------------------------------------------
(* The n-th best level. *)
Rank(s, x) == Cardinality({p \in Traded(s) : Better(s, p, x)})

LEMMA TradedFacts ==
  ASSUME NEW s \in BOOLEAN
  PROVE  IsFiniteSet(Traded(s)) /\ Traded(s) \subseteq Quotes(s) /\ Traded(s) \subseteq Nat
BY QuoteFacts, FS_Subset DEF Traded

LEMMA RanksApart ==
  ASSUME NEW s \in BOOLEAN, NEW x \in Traded(s), NEW y \in Traded(s), Rank(s, x) = Rank(s, y)
  PROVE  x = y
<1> DEFINE B(v) == {p \in Traded(s) : Better(s, p, v)}
<1>1. ASSUME NEW v \in Traded(s), NEW w \in Traded(s), Better(s, v, w)
      PROVE  Cardinality(B(v)) # Cardinality(B(w))
  <2>1. IsFiniteSet(B(v)) /\ IsFiniteSet(B(w))
    BY TradedFacts, FS_Subset
  <2>2. v \notin B(v)
    BY TradedFacts DEF Better
  <2>3. B(v) \cup {v} \subseteq B(w)
    <3>1. v \in Nat /\ w \in Nat /\ \A p \in Traded(s) : p \in Nat
      BY TradedFacts
    <3>2. \A p \in Traded(s) : Better(s, p, v) => Better(s, p, w)
      BY <1>1, <3>1 DEF Better
    <3> QED BY <1>1, <3>2
  <2> HIDE DEF B
  <2>4. IsFiniteSet(B(v) \cup {v}) /\ Cardinality(B(v) \cup {v}) = Cardinality(B(v)) + 1
    BY <2>1, <2>2, FS_AddElement
  <2>5. Cardinality(B(v) \cup {v}) <= Cardinality(B(w))
    BY <2>1, <2>3, FS_Subset
  <2>6. Cardinality(B(v)) \in Nat /\ Cardinality(B(w)) \in Nat
    BY <2>1, FS_CardinalityType
  <2> QED BY <2>4, <2>5, <2>6
<1>2. Better(s, x, y) \/ Better(s, y, x) \/ x = y
  BY TradedFacts DEF Better
<1>3. Cardinality(B(x)) = Cardinality(B(y))
  BY DEF Rank
<1> HIDE DEF B
<1> QED BY <1>1, <1>2, <1>3

LEMMA NthIs ==
  ASSUME NEW s \in BOOLEAN, NEW n, NEW w \in Traded(s), n = 1 + Rank(s, w)
  PROVE  NthBest(s, n) = NewWord(w, levels[s][w])
<1>1. PICK R : R = {price \in Traded(s) : n = 1 + Rank(s, price)}
  OBVIOUS
<1>2. ASSUME NEW v \in R PROVE v = w
  <2>1. v \in Traded(s) /\ 1 + Rank(s, v) = 1 + Rank(s, w)
    BY <1>1, <1>2
  <2>2. Rank(s, v) \in Nat /\ Rank(s, w) \in Nat
    BY TradedFacts, FS_Subset, FS_CardinalityType DEF Rank
  <2>3. Rank(s, v) = Rank(s, w)
    BY <2>1, <2>2
  <2> QED BY <2>1, <2>3, RanksApart
<1>3. R = {w}
  BY <1>1, <1>2
<1>4. (CHOOSE p \in R : TRUE) = w
  BY <1>3
<1>5. NthBest(s, n) = IF R = {} THEN NoBBOWord
                      ELSE LET price == CHOOSE p \in R : TRUE
                           IN  [valid |-> TRUE, price |-> price, shares |-> levels[s][price]]
  BY <1>1 DEF NthBest, Rank
<1> QED BY <1>3, <1>4, <1>5 DEF NewWord

LEMMA NoNth ==
  ASSUME NEW s \in BOOLEAN, NEW n, \A w \in Traded(s) : n # 1 + Rank(s, w)
  PROVE  NthBest(s, n) = NoBBOWord
<1>1. {price \in Traded(s) : n = 1 + Rank(s, price)} = {}
  OBVIOUS
<1> QED BY <1>1 DEF NthBest, Rank

LEMMA ShowsIt ==
  ASSUME NEW w \in Word, NEW p, NEW c, w.valid, w.price = p, w.shares = c
  PROVE  Shows(w, NewWord(p, c))
<1>1. w = NewWord(p, c)
  BY DEF Word, NewWord
<1> QED BY <1>1 DEF Shows

LEMMA ShowsNone ==
  ASSUME NEW w \in Word, ~w.valid
  PROVE  Shows(w, NoBBOWord)
<1>1. w.valid = FALSE /\ NoBBOWord.valid = FALSE
  BY DEF Word, NoBBOWord
<1> QED BY <1>1, Zenon DEF Shows

LEMMA FirstBest ==
  ASSUME NEW s \in BOOLEAN, NEW a, NEW b, NEW o, NEW n, IsLevels(s, levels[s]),
         Kept(s, a, b, o, n, levels[s])
  PROVE  /\ Shows(a, NthBest(s, 1))
         /\ a.valid => Rank(s, a.price) = 0 /\ a.price \in Traded(s)
<1>1. PICK f : f = levels[s]
  OBVIOUS
<1>2. /\ a \in Word /\ b \in Word /\ a.price \in Nat /\ b.price \in Nat
      /\ Right(s, a, f) /\ Right(s, b, f) /\ Kept(s, a, b, o, n, f) /\ IsLevels(s, f)
  BY <1>1, WordFacts DEF Kept
<1>3. \A p : p \in Traded(s) <=> p \in Quotes(s) /\ f[p] > 0
  BY <1>1 DEF Traded
<1>4. CASE a.valid
  <2>1. a.price \in Traded(s) /\ a.shares = f[a.price]
    BY <1>2, <1>3, <1>4 DEF Right
  <2>2. ASSUME NEW p \in Traded(s), Better(s, p, a.price) PROVE FALSE
    <3>1. p \in Nat /\ p \in Quotes(s) /\ f[p] > 0
      BY <1>3, TradedFacts
    <3>2. p \notin Shown(a, b)
      <4>1. p # a.price
        BY <2>2, <3>1 DEF Better
      <4>2. b.valid => p # b.price
        BY <1>2, <2>2, <3>1 DEF Better, Kept
      <4> QED BY <4>1, <4>2, ShownHas
    <3>3. Better(s, a.price, p)
      BY <1>2, <1>4, <3>1, <3>2 DEF Kept, Behind
    <3> QED BY <1>2, <2>2, <3>1, <3>3 DEF Better
  <2>3. {p \in Traded(s) : Better(s, p, a.price)} = {}
    BY <2>2
  <2>4. Rank(s, a.price) = 0
    BY <2>3, FS_EmptySet DEF Rank
  <2>5. NthBest(s, 1) = NewWord(a.price, f[a.price])
    BY <1>1, <2>1, <2>4, NthIs
  <2> QED BY <1>2, <1>4, <2>1, <2>4, <2>5, ShowsIt
<1>5. CASE ~a.valid
  <2>1. \A p \in Quotes(s) : f[p] = 0
    BY <1>2, <1>5 DEF Kept
  <2>2. Traded(s) = {}
    BY <1>3, <2>1
  <2> QED BY <1>2, <1>5, <2>2, NoNth, ShowsNone
<1> QED BY <1>4, <1>5

LEMMA SecondBest ==
  ASSUME NEW s \in BOOLEAN, NEW a, NEW b, NEW o, NEW n, IsLevels(s, levels[s]),
         Full(s, a, b, o, n, levels[s])
  PROVE  Shows(b, NthBest(s, 2))
<1>1. PICK f : f = levels[s]
  OBVIOUS
<1>2. /\ a \in Word /\ b \in Word /\ a.price \in Nat /\ b.price \in Nat
      /\ Right(s, a, f) /\ Right(s, b, f) /\ Kept(s, a, b, o, n, f) /\ IsLevels(s, f)
  BY <1>1, WordFacts DEF Kept, Full
<1>3. \A p : p \in Traded(s) <=> p \in Quotes(s) /\ f[p] > 0
  BY <1>1 DEF Traded
<1>0. a.valid => Rank(s, a.price) = 0 /\ a.price \in Traded(s)
  BY FirstBest DEF Full
<1>4. CASE b.valid
  <2>1. b.price \in Traded(s) /\ b.shares = f[b.price] /\ a.valid /\ Better(s, a.price, b.price)
    BY <1>2, <1>3, <1>4 DEF Right, Kept
  <2>2. ASSUME NEW p \in Traded(s), Better(s, p, b.price) PROVE p = a.price
    <3>1. p \in Nat /\ p \in Quotes(s) /\ f[p] > 0
      BY <1>3, TradedFacts
    <3>2. p \in Shown(a, b)
      <4>1. SUFFICES ASSUME p \notin Shown(a, b) PROVE FALSE
        OBVIOUS
      <4>2. Better(s, b.price, p)
        BY <1>2, <1>4, <3>1, <4>1 DEF Kept, Behind
      <4> QED BY <1>2, <2>2, <3>1, <4>2 DEF Better
    <3>3. p # b.price
      BY <2>2, <3>1 DEF Better
    <3> QED BY <3>2, <3>3, ShownHas
  <2>3. {p \in Traded(s) : Better(s, p, b.price)} = {a.price}
    BY <1>0, <2>1, <2>2
  <2>4. Rank(s, b.price) = 1
    BY <2>3, FS_Singleton DEF Rank
  <2>5. NthBest(s, 2) = NewWord(b.price, f[b.price])
    BY <1>1, <2>1, <2>4, NthIs
  <2> QED BY <1>2, <1>4, <2>1, <2>5, ShowsIt
<1>5. CASE ~b.valid
  <2>1. ASSUME NEW w \in Traded(s) PROVE 2 # 1 + Rank(s, w)
    <3>1. w \in Quotes(s) /\ f[w] > 0
      BY <1>3
    <3>2. w \in Shown(a, b)
      BY <1>1, <1>5, <3>1 DEF Full
    <3>3. a.valid /\ w = a.price
      BY <1>5, <3>2, ShownHas
    <3> QED BY <1>0, <3>3
  <2> QED BY <1>2, <1>5, <2>1, NoNth, ShowsNone
<1> QED BY <1>4, <1>5
----------------------------------------------------------------------------
(* What the invariant says. *)
LEMMA ViewLevels ==
  ASSUME BookInv, NEW s \in BOOLEAN
  PROVE  IsLevels(s, View(s)) /\ \A p \in Quotes(s) : View(s)[p] <= levels[s][p]
<1>1. PICK f, g : f = levels[s] /\ g = View(s)
  OBVIOUS
<1>2. f \in [Quotes(s) -> Nat]
  BY <1>1 DEF BookInv, LevelsInv, IsLevels
<1>3. CASE dec_book_updt_q.valid /\ dec_book_updt_q.is_buy = s
  <2>1. Moves(dec_book_updt_q, g, f) /\ IsAdd(dec_book_updt_q)
    BY <1>1, <1>3, KeptMessage
  <2>2. PICK d : d = dec_book_updt_q
    OBVIOUS
  <2>3. d.shares \in Nat \ {0} /\ Changed(s, g, f, d.price) /\ f[d.price] = g[d.price] + d.shares
    BY <1>3, <2>1, <2>2 DEF Moves
  <2>4. IsLevels(s, g) /\ \A p \in Quotes(s) : g[p] <= f[p]
    BY <2>3 DEF Changed, IsLevels
  <2> QED BY <1>1, <2>4
<1>4. CASE ~(dec_book_updt_q.valid /\ dec_book_updt_q.is_buy = s)
  <2>1. g = f
    BY <1>1, <1>4 DEF View
  <2> QED BY <1>1, <1>2, <2>1 DEF IsLevels
<1> QED BY <1>3, <1>4

LEMMA SumBelow ==
  ASSUME NEW S, IsFiniteSet(S), NEW f, NEW g, \A x \in S : f[x] \in Nat /\ g[x] \in Nat /\ f[x] <= g[x]
  PROVE  Total(f, S) <= Total(g, S)
<1> DEFINE G == {T \in SUBSET S : Total(f, T) <= Total(g, T)}
<1>1. {} \in G
  BY SumEmpty
<1>2. ASSUME NEW T \in SUBSET S, NEW x \in S \ T, T \in G
      PROVE  T \cup {x} \in G
  <2>1. IsFiniteSet(T) /\ (\A y \in T \cup {x} : f[y] \in Nat /\ g[y] \in Nat) /\ x \notin T
    BY <1>2, FS_Subset
  <2>2. Total(f, T \cup {x}) = f[x] + Total(f, T) /\ Total(g, T \cup {x}) = g[x] + Total(g, T)
    BY <2>1, SumAdd
  <2>3. Total(f, T) \in Nat /\ Total(g, T) \in Nat
    BY <2>1, SumType
  <2>4. Total(f, T) <= Total(g, T) /\ f[x] \in Nat /\ g[x] \in Nat /\ f[x] <= g[x]
    BY <1>2
  <2>5. Total(f, T \cup {x}) <= Total(g, T \cup {x})
    BY <2>2, <2>3, <2>4
  <2> QED BY <1>2, <2>5
<1>3. S \in G
  <2> HIDE DEF G
  <2> QED BY <1>1, <1>2, FiniteInduction
<1> QED BY <1>3

LEMMA SideShares ==
  ASSUME BookInv, NEW s \in BOOLEAN
  PROVE  Total(levels[s], Quotes(s)) <= MaxShares /\ MaxShares \in Nat /\ Total(levels[s], Quotes(s)) \in Nat
<1>1. \A r \in BOOLEAN : Total(levels[r], Quotes(r)) \in Nat
  BY QuoteFacts, SumType DEF BookInv, LevelsInv, IsLevels
<1>2. PICK x, y : x = Total(levels[TRUE], Quotes(TRUE)) /\ y = Total(levels[FALSE], Quotes(FALSE))
  OBVIOUS
<1>3. x \in Nat /\ y \in Nat
  BY <1>1, <1>2, Zenon
<1>4. x + y <= MaxShares /\ MaxShares \in Nat
  BY <1>2, QuotesAssumption DEF BookInv, LevelsInv, SharesAt, Total, Quotes
<1>5. x <= MaxShares /\ y <= MaxShares
  BY <1>3, <1>4
<1>6. s = TRUE \/ s = FALSE
  OBVIOUS
<1>7. Total(levels[s], Quotes(s)) <= MaxShares
  BY <1>2, <1>5, <1>6, Zenon
<1> QED BY <1>1, <1>4, <1>7

LEMMA HalfBounded ==
  ASSUME BookInv, NEW s \in BOOLEAN
  PROVE  {half[s].out_size, half[s].out_size_in_range, half[s].arr[1].shares, half[s].arr[2].shares} \subseteq 0 .. MaxShares
<1>1. PICK h, a, b, o, n, f : /\ h = half[s] /\ a = h.arr[1] /\ b = h.arr[2] /\ o = h.out_size
                              /\ n = h.out_size_in_range /\ f = View(s)
  OBVIOUS
<1>2. Kept(s, a, b, o, n, f)
  BY <1>1 DEF BookInv, HalvesInv, FullHalf, ShortHalf, Full, Short
<1>3. IsLevels(s, f) /\ \A p \in Quotes(s) : f[p] <= levels[s][p]
  BY <1>1, ViewLevels
<1>4. /\ o \in Nat /\ n \in Nat /\ n <= o /\ a.shares \in Nat /\ b.shares \in Nat
      /\ a.shares = 0 \/ (a.valid /\ a.shares = f[a.price])
      /\ b.shares = 0 \/ (b.valid /\ b.shares = f[b.price])
      /\ IsFiniteSet(Quotes(s))
  BY <1>2, <1>3, WordFacts
<1>5. \A p \in Quotes(s) : f[p] \in Nat /\ levels[s][p] \in Nat
  BY <1>3 DEF IsLevels, BookInv, LevelsInv
<1>6. PICK t : t = Total(f, Quotes(s))
  OBVIOUS
<1>7. t \in Nat /\ t <= MaxShares /\ MaxShares \in Nat
  <2>1. t \in Nat
    BY <1>4, <1>5, <1>6, SumType
  <2>2. t <= Total(levels[s], Quotes(s))
    BY <1>3, <1>4, <1>5, <1>6, SumBelow
  <2> QED BY <2>1, <2>2, SideShares
<1>8. o <= t
  <2>1. o = Total(f, Quotes(s) \ Shown(a, b))
    BY <1>2 DEF Kept, Beyond
  <2> QED BY <1>4, <1>5, <1>6, <2>1, SumPart
<1>9. \A p \in Quotes(s) : f[p] <= t
  BY <1>4, <1>5, <1>6, SumZero
<1>10. a.shares <= t /\ b.shares <= t
  <2>1. (a.valid => a.price \in Quotes(s)) /\ (b.valid => b.price \in Quotes(s))
    BY <1>2 DEF Kept, Right
  <2> QED BY <1>4, <1>7, <1>9, <2>1
<1>11. o \in 0 .. MaxShares /\ n \in 0 .. MaxShares /\ a.shares \in 0 .. MaxShares /\ b.shares \in 0 .. MaxShares
  BY <1>4, <1>7, <1>8, <1>10
<1> QED BY <1>1, <1>11

LEMMA BookTypes2 == BookInv => TypeOK
BY HalfBounded DEF BookInv, MemoryTypes, LevelsInv, TypeOK

LEMMA BookHolds == BookInv => L2Holds
<1> SUFFICES ASSUME BookInv, phase = "running" PROVE L2Holds
  BY DEF L2Holds
<1>1. StoredInv
  BY DEF BookInv
<1>2. TablesFilled
  BY <1>1 DEF StoredInv
<1>3. ~dec_book_q.valid => \A i : Before(i) = SharesFor(PriceOf(i))
  BY DEF Before
<1>4. /\ \A i \in Places : pa_ram[price_addr(PriceOf(i))] = Before(i) /\ od_ram[i] = Before(i)
      /\ ~exist_q.wen => exist_arr_q = {i \in Places : Before(i) > 0}
  BY <1>1 DEF StoredInv
<1> QED BY <1>2, <1>3, <1>4 DEF L2Holds

LEMMA BookPriceKnown == BookInv => PriceKnown
<1> SUFFICES ASSUME BookInv, dec_book_q.valid, ~BringsShares(dec_book_q)
             PROVE  lut_ordering_out[TRUE] \in exist_arr_q
  BY DEF PriceKnown, PriceExists
<1>1. phase = "running"
  BY NoDecFacts DEF BookInv, BootInv
<1>2. PICK j \in Places :
           /\ lut_ordering_out[TRUE] = j
           /\ order_new_shares \in Nat
           /\ Before(j) = pa_ram_doutb
           /\ dec_book_q.shares \in Nat \ {0} /\ pa_ram_doutb \in Nat
           /\ ~exist_q.wen
  BY <1>1, Pending
<1>3. order_new_shares = pa_ram_doutb - dec_book_q.shares
  BY DEF order_new_shares
<1>4. Before(j) > 0
  BY <1>2, <1>3
<1>5. exist_arr_q = {i \in Places : Before(i) > 0}
  BY <1>1, <1>2 DEF BookInv, StoredInv
<1> QED BY <1>2, <1>4, <1>5

LEMMA BookResult == BookInv => ResultExact
<1> SUFFICES ASSUME BookInv PROVE ResultExact
  OBVIOUS
<1>1. ResultInv /\ KeptInv /\ quiet \in Nat
  BY DEF BookInv, LevelsInv, LongQuiet
<1>2. due => quiet <= 3
  BY <1>1 DEF ResultInv, KeptInv
<1>3. ASSUME bbo_res_v_last_q PROVE due /\ \A s \in BOOLEAN : Shows(bbo_res(s), NthBest(s, 1))
  <2>1. due /\ ~dec_book_updt_q.valid
    BY <1>1, <1>3 DEF ResultInv
  <2>2. ASSUME NEW s \in BOOLEAN PROVE Shows(bbo_res(s), NthBest(s, 1))
    <3>1. View(s) = levels[s]
      BY <2>1, ViewAll
    <3>2. PICK h : h = half[s]
      OBVIOUS
    <3>3. Kept(s, h.arr[1], h.arr[2], h.out_size, h.out_size_in_range, levels[s])
      BY <3>1, <3>2 DEF BookInv, HalvesInv, FullHalf, ShortHalf, Full, Short
    <3>4. IsLevels(s, levels[s])
      BY DEF BookInv, LevelsInv
    <3>5. Shows(h.arr[1], NthBest(s, 1))
      BY <3>3, <3>4, FirstBest
    <3> QED BY <3>2, <3>5 DEF bbo_res
  <2> QED BY <2>1, <2>2
<1> QED BY <1>2, <1>3 DEF ResultExact

LEMMA BookFalse == BookInv => NoFalseError
BY DEF BookInv
----------------------------------------------------------------------------
(* The counts are those of the levels not shown. *)
Present(s, f) == {p \in Quotes(s) : f[p] > 0}

LEMMA OthersSums ==
  ASSUME NEW s \in BOOLEAN, NEW f, IsLevels(s, f), NEW S, \A x \in S : x \in Quotes(s)
  PROVE  Total(f, Present(s, f) \cap S) = Total(f, S)
<1> DEFINE R == Present(s, f) \cap S
<1>1. IsFiniteSet(S) /\ (\A x \in S : f[x] \in Nat) /\ R \subseteq S /\ \A x \in S \ R : f[x] = 0
  BY QuoteFacts, FS_Subset DEF IsLevels, Present
<1> HIDE DEF R
<1>2. Total(f, R) = Total(f, S)
  BY <1>1, SumPart
<1> QED BY <1>2 DEF R

Others(s) ==
  {price \in Traded(s) : \A n \in 1 .. 2 : half[s].arr[n].valid => half[s].arr[n].price # price}

LEMMA OthersAre ==
  ASSUME NEW s \in BOOLEAN
  PROVE  Others(s) = Present(s, levels[s]) \cap (Quotes(s) \ Shown(half[s].arr[1], half[s].arr[2]))
<1>1. PICK a, b : a = half[s].arr[1] /\ b = half[s].arr[2]
  OBVIOUS
<1>2. \A p : (\A n \in 1 .. 2 : half[s].arr[n].valid => half[s].arr[n].price # p)
               <=> (a.valid => a.price # p) /\ (b.valid => b.price # p)
  <2>1. \A n : n \in 1 .. 2 <=> n = 1 \/ n = 2
    OBVIOUS
  <2> QED BY <1>1, <2>1
<1>3. \A p : p \in Shown(a, b) <=> (a.valid /\ p = a.price) \/ (b.valid /\ p = b.price)
  BY ShownHas
<1>4. \A p : p \in Others(s) <=> p \in Traded(s) /\ (a.valid => a.price # p) /\ (b.valid => b.price # p)
  BY <1>2, Zenon DEF Others
<1>5. \A p : p \in Others(s) <=> p \in Present(s, levels[s]) \cap (Quotes(s) \ Shown(a, b))
  BY <1>3, <1>4 DEF Traded, Present
<1>6. Others(s) = Present(s, levels[s]) \cap (Quotes(s) \ Shown(a, b))
  BY <1>5
<1> QED BY <1>1, <1>6

LEMMA CountsExact ==
  ASSUME BookInv, NEW s \in BOOLEAN, FullHalf(s, half[s], levels[s])
  PROVE  /\ half[s].out_size = SharesAt(s, Others(s))
         /\ half[s].out_size_in_range = SharesAt(s, {price \in Others(s) : InWindow(price)})
<1>1. PICK h, f, U : h = half[s] /\ f = levels[s] /\ U = Shown(h.arr[1], h.arr[2])
  OBVIOUS
<1>2. h.out_size = Total(f, Quotes(s) \ U) /\ h.out_size_in_range = Total(f, Near(s) \ U) /\ IsLevels(s, f)
  BY <1>1 DEF FullHalf, Full, Kept, Beyond, BookInv, LevelsInv
<1>3. Others(s) = Present(s, f) \cap (Quotes(s) \ U)
  BY <1>1, OthersAre
<1>4. h.out_size = Total(f, Others(s))
  <2>1. PICK S : S = Quotes(s) \ U
    OBVIOUS
  <2>2. \A x \in S : x \in Quotes(s)
    BY <2>1
  <2>3. Total(f, Present(s, f) \cap S) = Total(f, S)
    BY <1>2, <2>2, OthersSums
  <2> QED BY <1>2, <1>3, <2>1, <2>3, Zenon
<1>5. h.out_size_in_range = Total(f, {price \in Others(s) : InWindow(price)})
  <2>1. PICK S : S = Near(s) \ U
    OBVIOUS
  <2>0. \A x \in S : x \in Quotes(s)
    BY <2>1 DEF Near
  <2>5. Total(f, Present(s, f) \cap S) = Total(f, S)
    BY <1>2, <2>0, OthersSums
  <2>2. h.out_size_in_range = Total(f, Present(s, f) \cap (Near(s) \ U))
    BY <1>2, <2>1, <2>5, Zenon
  <2>3. CASE phase = "running"
    <3>1. \A p : InWindow(p) <=> InTable(p)
      BY <2>3 DEF BookInv, StoredInv, InWindow, InTable, price_max_q
    <3>2. {price \in Others(s) : InWindow(price)} = Present(s, f) \cap (Near(s) \ U)
      BY <1>3, <3>1 DEF Near, Present
    <3> QED BY <2>2, <3>2
  <2>4. CASE phase # "running"
    <3>1. \A p \in Quotes(s) : f[p] = 0
      BY <1>1, <2>4 DEF BookInv, BootInv
    <3>2. {price \in Others(s) : InWindow(price)} = Present(s, f) \cap (Near(s) \ U)
      BY <1>3, <3>1 DEF Present
    <3> QED BY <2>2, <3>2
  <2> QED BY <2>3, <2>4
<1> QED BY <1>1, <1>4, <1>5 DEF SharesAt, Total

LEMMA BookBBO == BookInv => BBOExact
<1> SUFFICES ASSUME BookInv, ~failed, NEW s \in BOOLEAN, ~Refilling(s)
             PROVE  /\ \A n \in 1 .. 2 : Shows(half[s].arr[n], NthBest(s, n))
                    /\ half[s].out_size = SharesAt(s, Others(s))
                    /\ half[s].out_size_in_range = SharesAt(s, {price \in Others(s) : InWindow(price)})
  BY DEF BBOExact, Others
<1>1. ~half[s].updt_ing /\ ~dec_book_updt_q.valid
  BY DEF Refilling
<1>2. View(s) = levels[s]
  BY <1>1, ViewAll
<1>3. FullHalf(s, half[s], levels[s])
  BY <1>1, <1>2 DEF BookInv, HalvesInv
<1>4. PICK h : h = half[s]
  OBVIOUS
<1>5. Full(s, h.arr[1], h.arr[2], h.out_size, h.out_size_in_range, levels[s]) /\ IsLevels(s, levels[s])
  BY <1>3, <1>4 DEF FullHalf, BookInv, LevelsInv
<1>6. Shows(h.arr[1], NthBest(s, 1))
  BY <1>5, FirstBest DEF Full
<1>7. Shows(h.arr[2], NthBest(s, 2))
  BY <1>5, SecondBest
<1>8. \A n \in 1 .. 2 : n = 1 \/ n = 2
  OBVIOUS
<1>9. \A n \in 1 .. 2 : Shows(half[s].arr[n], NthBest(s, n))
  BY <1>4, <1>6, <1>7, <1>8
<1> QED BY <1>3, <1>9, CountsExact

----------------------------------------------------------------------------
(* Every register and memory word keeps its type (l2_price_table.sv,       *)
(* bbo.sv, book.sv).                                                       *)
THEOREM RtlBookTypes == Spec => []TypeOK
BY BookTheorem, BookTypes2, PTL

(* Once ready and every write done, the memories hold the shares of every  *)
(* price, whatever they held before the reset: no message reads shares     *)
(* that the one before has still to write (l2_price_table.sv:185-218).     *)
THEOREM RtlBookLevels == Spec => []L2Holds
BY BookTheorem, BookHolds, PTL

(* Shares are only taken from a level that is marked                       *)
(* (l2_price_table.sv:199).                                                *)
THEOREM RtlBookPrices == Spec => []PriceKnown
BY BookTheorem, BookPriceKnown, PTL

(* When no refill is under way the registers hold the two best levels of   *)
(* each side and the counts of all others: the level prefetched was the    *)
(* right one, with its shares of the moment (bbo.sv:398-515,               *)
(* book.sv:118-133).                                                       *)
THEOREM RtlBookBest == Spec => []BBOExact
BY BookTheorem, BookBBO, PTL

(* Each answer shows the best bid and offer as of its message, though a    *)
(* refill may be under way (book.sv:96, 135-136).                          *)
THEOREM RtlBookResults == Spec => []ResultExact
BY BookTheorem, BookResult, PTL

(* An error means that a level to be shown lies outside the window: never  *)
(* does a message come too early for a refill (bbo.sv:413-417, 480).       *)
THEOREM RtlBookAlarm == Spec => []NoFalseError
BY BookTheorem, BookFalse, PTL
==============================================================================
