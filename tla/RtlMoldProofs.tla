---------------------------- MODULE RtlMoldProofs ----------------------------
(***************************************************************************)
(* Proofs about the hardware packet parser beside the reference model's,   *)
(* for every set of sessions, every width of a sequence number's parts and *)
(* every sequence of packets, whole or damaged.                            *)
(***************************************************************************)
EXTENDS RtlMoldFeed, FiniteSetTheorems, WellFoundedInduction, TLAPS

----------------------------------------------------------------------------
(* The bytes of a packet's messages, first message by message.  The        *)
(* library's fold is a recursive function on the subsets of a sequence's   *)
(* domain; that there is one follows from the well-founded order of finite *)
(* subsets.                                                                *)

LEMMA SubsetInduction ==
  ASSUME NEW S, IsFiniteSet(S), NEW G,
         \A T \in SUBSET S : (\A U \in SUBSET T : U # T => U \in G) => T \in G
  PROVE  \A T \in SUBSET S : T \in G
<1> DEFINE Bad == {T \in SUBSET S : T \notin G}
<1> SUFFICES ASSUME Bad # {} PROVE FALSE
  OBVIOUS
<1>1. IsWellFoundedOn(StrictSubsetOrdering(S), FiniteSubsetsOf(S))
  BY FS_StrictSubsetOrderingWellFounded
<1>2. Bad \subseteq FiniteSubsetsOf(S)
  BY FS_FiniteSubsetsOfFinite
<1> HIDE DEF Bad
<1>3. PICK T \in Bad : \A U \in Bad : ~(<<U, T>> \in StrictSubsetOrdering(S))
  BY <1>1, <1>2, WFMin
<1>4. T \in SUBSET S /\ T \notin G
  BY DEF Bad
<1>5. ASSUME NEW U \in SUBSET T, U # T PROVE U \in G
  <2>1. U \in SUBSET S
    BY <1>4
  <2>2. U \notin G => <<U, T>> \in StrictSubsetOrdering(S) /\ U \in Bad
    BY <1>4, <1>5, <2>1 DEF StrictSubsetOrdering, Bad
  <2> QED BY <1>3, <2>2
<1> QED BY <1>4, <1>5

(* The largest place of a part of a sequence. *)
LEMMA MaxIn ==
  ASSUME NEW n \in Nat, NEW T \in SUBSET (1 .. n), T # {}
  PROVE  Max(T) \in T /\ \A y \in T : Max(T) >= y
<1> DEFINE G == {S \in SUBSET (1 .. n) : S # {} => \E x \in S : \A y \in S : x >= y}
<1>1. ASSUME NEW S \in SUBSET (1 .. n), \A U \in SUBSET S : U # S => U \in G
      PROVE  S \in G
  <2> SUFFICES ASSUME S # {} PROVE \E x \in S : \A y \in S : x >= y
    OBVIOUS
  <2>1. PICK z \in S : TRUE
    OBVIOUS
  <2> DEFINE U == {y \in S : y > z}
  <2>2. U \in SUBSET S /\ U # S /\ z \in Int /\ \A y \in S : y \in Int
    BY <2>1
  <2>3. CASE U = {}
    BY <2>2, <2>3
  <2>4. CASE U # {}
    <3>1. U \in G
      BY <1>1, <2>2
    <3>2. PICK x \in U : \A y \in U : x >= y
      BY <2>4, <3>1
    <3>3. x \in S /\ x > z /\ x \in Int
      BY <2>2, <3>2
    <3>4. ASSUME NEW y \in S PROVE x >= y
      <4>1. y \in Int
        BY <2>2
      <4>2. CASE y > z
        BY <3>2, <4>2
      <4>3. CASE ~(y > z)
        BY ONLY <2>2, <3>3, <4>1, <4>3
      <4> QED BY <4>2, <4>3
    <3> QED BY <3>3, <3>4
  <2> QED BY <2>3, <2>4
<1>2. IsFiniteSet(1 .. n)
  BY FS_Interval
<1>3. \A S \in SUBSET (1 .. n) : S \in G
  <2> HIDE DEF G
  <2>1. PICK D : D = 1 .. n
    OBVIOUS
  <2>2. IsFiniteSet(D)
    BY <1>2, <2>1, Zenon
  <2>3. ASSUME NEW S \in SUBSET D, \A U \in SUBSET S : U # S => U \in G
        PROVE  S \in G
    BY <1>1, <2>1, <2>3, Zenon
  <2>4. \A S \in SUBSET D : S \in G
    BY <2>2, <2>3, SubsetInduction
  <2> QED BY <2>1, <2>4, Zenon
<1> QED BY <1>3 DEF Max

LEMMA UpTo ==
  ASSUME NEW n \in Nat, NEW S, 0 \in S, \A i \in 0 .. n - 1 : i \in S => i + 1 \in S
  PROVE  \A i \in 0 .. n : i \in S
<1> SUFFICES ASSUME NEW i \in 0 .. n, i \notin S PROVE FALSE
  OBVIOUS
<1> DEFINE T == {j \in 1 .. i : j - 1 \in S}
<1>1. i # 0 /\ 1 \in T /\ T \in SUBSET (1 .. i) /\ i \in Nat
  OBVIOUS
<1>2. Max(T) \in T /\ \A y \in T : Max(T) >= y
  <2> HIDE DEF T
  <2> QED BY <1>1, MaxIn
<1> DEFINE m == Max(T)
<1>3. m \in 1 .. i /\ m - 1 \in S /\ \A y \in T : m >= y
  BY <1>2
<1> HIDE DEF m
<1>4. m \in S
  BY <1>3
<1>5. m # i /\ m + 1 \in T
  BY <1>3, <1>4
<1> QED BY <1>3, <1>5

(* E is a part of D, and has no place beyond n. *)
Parts(E, D, n) == n \in Nat /\ E \subseteq D /\ E \subseteq 1 .. n

(* g is the function by which the fold adds up the part D of s. *)
Adds(g, s, D) ==
  g = [T \in SUBSET D |-> IF T = {} THEN 0 ELSE g[T \ {Max(T)}] + s[Max(T)] + 2]

LEMMA MsgBytesFold ==
  ASSUME NEW s
  PROVE  MsgBytes(s) = (CHOOSE g : Adds(g, s, DOMAIN s))[DOMAIN s]
BY DEF MsgBytes, FoldLeft, MapThenFoldSet, Adds

(* Two such functions agree where both are defined. *)
LEMMA AddsAgree ==
  ASSUME NEW n, NEW D, NEW E, Parts(E, D, n),
         NEW s, NEW g, Adds(g, s, D), NEW h, Adds(h, s, E)
  PROVE  g[E] = h[E]
<1> n \in Nat /\ E \subseteq D /\ E \in SUBSET (1 .. n)
  BY DEF Parts
<1> DEFINE G == {U \in SUBSET E : g[U] = h[U]}
<1>1. ASSUME NEW U \in SUBSET E, \A V \in SUBSET U : V # U => V \in G
      PROVE  U \in G
  <2>1. U \in SUBSET D /\ U \in SUBSET (1 .. n)
    OBVIOUS
  <2>2. g[U] = IF U = {} THEN 0 ELSE g[U \ {Max(U)}] + s[Max(U)] + 2
    BY <2>1 DEF Adds
  <2>3. h[U] = IF U = {} THEN 0 ELSE h[U \ {Max(U)}] + s[Max(U)] + 2
    BY DEF Adds
  <2>4. U # {} => Max(U) \in U
    BY <2>1, MaxIn
  <2>5. U # {} => g[U \ {Max(U)}] = h[U \ {Max(U)}]
    BY <1>1, <2>4
  <2> QED BY <2>2, <2>3, <2>4, <2>5
<1>2. IsFiniteSet(E)
  <2>1. IsFiniteSet(1 .. n)
    BY FS_Interval
  <2> QED BY <2>1, FS_Subset
<1>3. \A U \in SUBSET E : U \in G
  <2> HIDE DEF G
  <2> QED BY <1>1, <1>2, SubsetInduction
<1> QED BY <1>3

(* Only what the sequence has at these places counts. *)
LEMMA AddsSame ==
  ASSUME NEW n \in Nat, NEW E \in SUBSET (1 .. n), NEW s, NEW t, NEW h, Adds(h, t, E),
         \A i \in E : t[i] = s[i]
  PROVE  Adds(h, s, E)
<1>1. ASSUME NEW T \in SUBSET E, T # {} PROVE t[Max(T)] = s[Max(T)]
  <2>1. T \in SUBSET (1 .. n)
    OBVIOUS
  <2>2. Max(T) \in T
    BY <1>1, <2>1, MaxIn
  <2> QED BY <2>2
<1> QED BY <1>1 DEF Adds

Adder(s, D) == CHOOSE g : Adds(g, s, D)

(* What the fold's function says of a part, in terms of smaller parts. *)
Sum(s, D) == IF D = {} THEN 0
             ELSE Adder(s, D \ {Max(D)})[D \ {Max(D)}] + s[Max(D)] + 2

LEMMA AddsExists ==
  ASSUME NEW n \in Nat, NEW s
  PROVE  Adds(Adder(s, 1 .. n), s, 1 .. n)
<1> DEFINE S == 1 .. n
           G == {T \in SUBSET S : Adds(Adder(s, T), s, T)}
<1>1. ASSUME NEW T \in SUBSET S, \A U \in SUBSET T : U # T => U \in G
      PROVE  T \in G
  <2> DEFINE g == [U \in SUBSET T |-> Sum(s, U)]
  <2>1. ASSUME NEW U \in SUBSET T, U # T PROVE Adds(Adder(s, U), s, U)
    BY <1>1, <2>1
  <2>2. ASSUME NEW U \in SUBSET T, U # T PROVE Adder(s, U)[U] = Sum(s, U)
    <3>1. CASE U = {}
      <4>1. Adder(s, U)[U] = IF U = {} THEN 0 ELSE Adder(s, U)[U \ {Max(U)}] + s[Max(U)] + 2
        BY <2>1, <2>2 DEF Adds
      <4> QED BY <3>1, <4>1 DEF Sum
    <3>2. CASE U # {}
      <4> DEFINE V == U \ {Max(U)}
      <4>1. V \subseteq U /\ V \in SUBSET T /\ V # T
        <5>1. Max(U) \in U
          BY <3>2, MaxIn
        <5> QED BY <5>1
      <4>2. Adder(s, U)[U] = Adder(s, U)[V] + s[Max(U)] + 2
        BY <2>1, <2>2, <3>2 DEF Adds
      <4>3. Adds(Adder(s, U), s, U) /\ Adds(Adder(s, V), s, V)
        BY <2>1, <2>2, <4>1
      <4>4. Adder(s, U)[V] = Adder(s, V)[V]
        <5>1. V \subseteq U /\ V \in SUBSET (1 .. n)
          BY <4>1
        <5> DEFINE g1 == Adder(s, U)
                   h1 == Adder(s, V)
        <5>2. Adds(g1, s, U) /\ Adds(h1, s, V)
          BY <4>3
        <5> HIDE DEF V, g1, h1
        <5>3. g1[V] = h1[V]
          <6>1. Parts(V, U, n)
            BY <5>1 DEF Parts
          <6> QED BY ONLY <5>2, <6>1, AddsAgree
        <5> QED BY <5>3 DEF g1, h1
      <4> QED BY <3>2, <4>2, <4>4 DEF Sum
    <3> QED BY <3>1, <3>2
  <2>3. ASSUME NEW U \in SUBSET T
        PROVE  Sum(s, U) = IF U = {} THEN 0 ELSE g[U \ {Max(U)}] + s[Max(U)] + 2
    <3>1. CASE U = {}
      BY <3>1 DEF Sum
    <3>2. CASE U # {}
      <4> DEFINE V == U \ {Max(U)}
      <4>1. Max(U) \in U
        BY <3>2, MaxIn
      <4>2. V \in SUBSET T /\ V # T
        BY <4>1
      <4>3. g[V] = Adder(s, V)[V]
        BY <2>2, <4>2
      <4> QED BY <3>2, <4>3 DEF Sum
    <3> QED BY <3>1, <3>2
  <2>4. Adds(g, s, T)
    BY <2>3 DEF Adds
  <2>5. Adds(Adder(s, T), s, T)
    <3> HIDE DEF g
    <3> QED BY <2>4 DEF Adder
  <2> QED BY <2>5
<1>2. IsFiniteSet(S)
  BY FS_Interval
<1>3. \A T \in SUBSET S : T \in G
  <2> HIDE DEF S, G
  <2> QED BY <1>1, <1>2, SubsetInduction
<1> QED BY <1>3

(* The sum over a sequence, from the sum over the sequence but its last.   *)
LEMMA MsgBytesEmpty ==
  ASSUME NEW s, DOMAIN s = {}
  PROVE  MsgBytes(s) = 0
<1>1. 1 .. 0 = {}
  OBVIOUS
<1>2. Adds(Adder(s, {}), s, {})
  BY <1>1, AddsExists
<1>3. Adder(s, {})[{}] = 0
  BY <1>2 DEF Adds
<1> QED BY <1>3, MsgBytesFold DEF Adder

LEMMA MsgBytesLast ==
  ASSUME NEW n \in Nat \ {0}, NEW s, DOMAIN s = 1 .. n,
         NEW t, DOMAIN t = 1 .. n - 1, \A i \in 1 .. n - 1 : t[i] = s[i]
  PROVE  MsgBytes(s) = MsgBytes(t) + s[n] + 2
<1> DEFINE D == 1 .. n
           E == 1 .. n - 1
<1>1. D \in SUBSET (1 .. n) /\ D # {} /\ n \in D
  OBVIOUS
<1>2. Max(D) \in D /\ Max(D) >= n
  BY <1>1, MaxIn
<1>3. Max(D) = n
  <2> HIDE DEF D
  <2>1. Max(D) \in 1 .. n
    BY <1>1, <1>2
  <2> QED BY <1>2, <2>1
<1>4. D \ {n} = E
  OBVIOUS
<1>5. Adds(Adder(s, D), s, D)
  BY AddsExists
<1>6. Adds(Adder(t, E), t, E)
  <2>1. n - 1 \in Nat
    OBVIOUS
  <2> QED BY <2>1, AddsExists
<1>7. Adder(s, D)[D] = Adder(s, D)[E] + s[n] + 2
  <2> HIDE DEF E
  <2>1. Adder(s, D)[D] = IF D = {} THEN 0 ELSE Adder(s, D)[D \ {Max(D)}] + s[Max(D)] + 2
    BY <1>5 DEF Adds
  <2> HIDE DEF D
  <2> QED BY <1>1, <1>3, <1>4, <2>1
<1>8. Adder(s, D)[E] = Adder(t, E)[E]
  <2>1. E \subseteq D /\ E \in SUBSET (1 .. n) /\ \A i \in E : t[i] = s[i]
    OBVIOUS
  <2> DEFINE g1 == Adder(s, D)
             h1 == Adder(t, E)
  <2>2. Adds(g1, s, D) /\ Adds(h1, t, E)
    BY <1>5, <1>6
  <2> HIDE DEF D, E, g1, h1
  <2>3. Adds(h1, s, E)
    BY <2>1, <2>2, AddsSame
  <2>4. g1[E] = h1[E]
    <3>1. Parts(E, D, n)
      BY <2>1 DEF Parts
    <3> QED BY ONLY <2>2, <2>3, <3>1, AddsAgree
  <2> QED BY <2>4 DEF g1, h1
<1>9. MsgBytes(s) = Adder(s, D)[D] /\ MsgBytes(t) = Adder(t, E)[E]
  BY MsgBytesFold DEF Adder
<1> QED BY <1>7, <1>8, <1>9

----------------------------------------------------------------------------
(* Where the messages of a packet begin. *)

(* The bytes of the first m messages, with their length fields. *)
Start(lens, m) == MsgBytes(SubSeq(lens, 1, m))

LEMMA PrefixFacts ==
  ASSUME NEW lens \in Lens, NEW m \in 0 .. Len(lens)
  PROVE  /\ Len(lens) \in 0 .. MaxCount /\ lens \in [1 .. Len(lens) -> Lengths]
         /\ DOMAIN SubSeq(lens, 1, m) = 1 .. m
         /\ \A i \in 1 .. m : SubSeq(lens, 1, m)[i] = lens[i]
<1>1. PICK n \in 0 .. MaxCount : lens \in [1 .. n -> Lengths]
  BY DEF Lens
<1>2. Len(lens) = n /\ lens \in Seq(Lengths)
  BY <1>1, FeedAssumption
<1>3. SubSeq(lens, 1, m) = [i \in 1 .. m |-> lens[i]]
  BY <1>2
<1> QED BY <1>1, <1>2, <1>3

LEMMA StartFacts ==
  ASSUME NEW lens \in Lens
  PROVE  /\ Start(lens, 0) = 0
         /\ Start(lens, Len(lens)) = MsgBytes(lens)
         /\ \A m \in 0 .. Len(lens) - 1 : Start(lens, m + 1) = Start(lens, m) + lens[m + 1] + 2
<1> DEFINE n == Len(lens)
<1>1. n \in Nat /\ lens \in [1 .. n -> Lengths]
  <2>1. PICK n0 \in 0 .. MaxCount : lens \in [1 .. n0 -> Lengths]
    BY DEF Lens
  <2> QED BY <2>1, FeedAssumption
<1>2. Start(lens, 0) = 0
  <2>1. DOMAIN SubSeq(lens, 1, 0) = {}
    BY <1>1, PrefixFacts
  <2> QED BY <2>1, MsgBytesEmpty DEF Start
<1>3. Start(lens, n) = MsgBytes(lens)
  <2>1. SubSeq(lens, 1, n) = lens
    BY <1>1
  <2> QED BY <2>1 DEF Start
<1>4. ASSUME NEW m \in 0 .. n - 1
      PROVE  Start(lens, m + 1) = Start(lens, m) + lens[m + 1] + 2
  <2> DEFINE s == SubSeq(lens, 1, m + 1)
             t == SubSeq(lens, 1, m)
             k == m + 1
  <2>1. m \in 0 .. Len(lens) /\ m + 1 \in 0 .. Len(lens)
    BY <1>1
  <2>2. /\ DOMAIN s = 1 .. k /\ \A i \in 1 .. k : s[i] = lens[i]
        /\ DOMAIN t = 1 .. m /\ \A i \in 1 .. m : t[i] = lens[i]
    <3> HIDE DEF n
    <3> QED BY <2>1, PrefixFacts
  <2>3. k \in Nat \ {0} /\ m = k - 1 /\ k \in 1 .. k /\ \A i \in 1 .. m : i \in 1 .. k
    BY <1>1
  <2> HIDE DEF s, t, k
  <2>4. /\ DOMAIN t = 1 .. k - 1
        /\ \A i \in 1 .. k - 1 : t[i] = s[i]
        /\ s[k] = lens[k]
    BY <2>2, <2>3
  <2>5. MsgBytes(s) = MsgBytes(t) + s[k] + 2
    BY <2>2, <2>3, <2>4, MsgBytesLast
  <2> QED BY <2>4, <2>5 DEF Start, s, t, k
<1> QED BY <1>2, <1>3, <1>4

(* Every message takes six bytes at least. *)
LEMMA StartsApart ==
  ASSUME NEW lens \in Lens, NEW m \in 0 .. Len(lens)
  PROVE  /\ Start(lens, m) \in Nat
         /\ \A j \in 0 .. Len(lens) : m < j => Start(lens, m) + 6 <= Start(lens, j)
<1> DEFINE n == Len(lens)
<1>1. n \in Nat /\ lens \in [1 .. n -> Lengths]
  BY PrefixFacts, FeedAssumption
<1>2. \A i \in 0 .. n - 1 : Start(lens, i + 1) = Start(lens, i) + lens[i + 1] + 2
  BY StartFacts
<1>3. \A i \in 1 .. n : lens[i] \in Nat /\ lens[i] >= 4
  <2> SUFFICES ASSUME NEW i \in 1 .. n PROVE lens[i] \in Nat /\ lens[i] >= 4
    OBVIOUS
  <2>1. lens[i] \in Lengths
    BY <1>1
  <2>2. lens[i] \in 4 .. 254
    BY <2>1, FeedAssumption
  <2>3. \A len \in 4 .. 254 : len \in Nat /\ len >= 4
    OBVIOUS
  <2> QED BY <2>2, <2>3, Zenon
<1> HIDE DEF n
<1> DEFINE NatUpTo == {i \in 0 .. n : Start(lens, i) \in Nat}
<1>4. \A i \in 0 .. n : Start(lens, i) \in Nat
  <2>1. 0 \in NatUpTo
    BY <1>1, StartFacts
  <2>2. ASSUME NEW i \in 0 .. n - 1, i \in NatUpTo PROVE i + 1 \in NatUpTo
    <3>1. i + 1 \in 1 .. n /\ i + 1 \in 0 .. n /\ Start(lens, i) \in Nat
      BY <1>1, <2>2
    <3>2. lens[i + 1] \in Nat
      BY <1>3, <3>1
    <3> QED BY <1>2, <3>1, <3>2
  <2> HIDE DEF NatUpTo
  <2>3. \A i \in 0 .. n : i \in NatUpTo
    BY <1>1, <2>1, <2>2, UpTo
  <2> QED BY <2>3 DEF NatUpTo
<1> DEFINE Above == {j \in 0 .. n : m < j => Start(lens, m) + 6 <= Start(lens, j)}
<1>5. \A j \in 0 .. n : j \in Above
  <2>1. 0 \in Above
    BY <1>1
  <2>2. ASSUME NEW i \in 0 .. n - 1, i \in Above PROVE i + 1 \in Above
    <3>1. i + 1 \in 1 .. n /\ i + 1 \in 0 .. n /\ i \in 0 .. n /\ i \in Nat
      BY <1>1
    <3>2. lens[i + 1] \in Nat /\ lens[i + 1] >= 4 /\ Start(lens, i) \in Nat /\ Start(lens, m) \in Nat
      BY <1>3, <1>4, <3>1 DEF n
    <3>3. Start(lens, i + 1) = Start(lens, i) + lens[i + 1] + 2
      BY <1>2
    <3>4. m < i => Start(lens, m) + 6 <= Start(lens, i)
      BY <2>2
    <3>5. m \in Nat
      BY <1>1
    <3>6. m < i + 1 => Start(lens, m) + 6 <= Start(lens, i + 1)
      <4>1. CASE m < i
        BY <3>2, <3>3, <3>4, <4>1
      <4>2. CASE m = i
        BY <3>2, <3>3, <4>2
      <4> QED BY <3>1, <3>5, <4>1, <4>2
    <3> QED BY <3>1, <3>6
  <2> HIDE DEF Above
  <2> QED BY <1>1, <2>1, <2>2, UpTo
<1> QED BY <1>4, <1>5 DEF n

(* The byte the parser reads is that of the next message's length. *)
LEMMA LengthByte ==
  ASSUME NEW lens \in Lens, NEW m \in 0 .. Len(lens) - 1
  PROVE  LengthAt(lens, Start(lens, m) + 1) = lens[m + 1]
<1> DEFINE n == Len(lens)
           starts == [i \in DOMAIN lens |-> MsgBytes(SubSeq(lens, 1, i - 1))]
           pos == Start(lens, m) + 1
<1>1. n \in Nat /\ DOMAIN lens = 1 .. n
  <2>1. PICK n0 \in 0 .. MaxCount : lens \in [1 .. n0 -> Lengths]
    BY DEF Lens
  <2> QED BY <2>1, FeedAssumption
<1>2. \A i \in DOMAIN lens : starts[i] = Start(lens, i - 1)
  BY DEF Start
<1>3. m + 1 \in DOMAIN lens /\ starts[m + 1] + 1 = pos
  BY <1>1, <1>2
<1>4. ASSUME NEW i \in DOMAIN lens, starts[i] + 1 = pos PROVE i = m + 1
  <2>1. i - 1 \in 0 .. Len(lens) /\ m \in 0 .. Len(lens) /\ i \in Int /\ m \in Int
    BY <1>1
  <2>2. Start(lens, i - 1) \in Nat /\ Start(lens, m) \in Nat
    BY <2>1, StartsApart
  <2>3. Start(lens, i - 1) = Start(lens, m)
    BY <1>2, <1>4, <2>2
  <2>4. ~(i - 1 < m) /\ ~(m < i - 1)
    BY <2>1, <2>2, <2>3, StartsApart
  <2> QED BY <2>1, <2>4
<1>5. LengthAt(lens, pos) = IF \E i \in DOMAIN lens : starts[i] + 1 = pos
                            THEN lens[CHOOSE i \in DOMAIN lens : starts[i] + 1 = pos]
                            ELSE 0
  BY DEF LengthAt
<1> HIDE DEF starts
<1> QED BY <1>3, <1>4, <1>5

----------------------------------------------------------------------------
(* The parts of a sequence number. *)

LEMMA DivMod ==
  ASSUME NEW a \in Nat, NEW d \in Nat \ {0}
  PROVE  a \div d \in Nat /\ (a % d) \in 0 .. d - 1 /\ a = d * (a \div d) + (a % d)
OBVIOUS

LEMMA DivIs ==
  ASSUME NEW a \in Nat, NEW d \in Nat \ {0}, NEW q \in Nat, NEW r \in 0 .. d - 1,
         a = d * q + r
  PROVE  a \div d = q
OBVIOUS

LEMMA TopOf ==
  ASSUME NEW a \in Nat
  PROVE  SeqTop(a) = (a \div SEQ_LOW) \div SEQ_MID
<1> DEFINE mid == a \div SEQ_LOW
           low == a % SEQ_LOW
           top == mid \div SEQ_MID
           rest == mid % SEQ_MID
           r == SEQ_LOW * rest + low
<1>1. SEQ_LOW \in Nat \ {0} /\ SEQ_MID \in Nat \ {0} /\ SEQ_LOW * SEQ_MID \in Nat \ {0}
  BY SeqPartsAssumption
<1>2. mid \in Nat /\ low \in 0 .. SEQ_LOW - 1 /\ a = SEQ_LOW * mid + low
  BY <1>1, DivMod
<1> HIDE DEF mid, low
<1>3. top \in Nat /\ rest \in 0 .. SEQ_MID - 1 /\ mid = SEQ_MID * top + rest
  BY <1>1, <1>2, DivMod
<1> HIDE DEF top, rest
<1>4. a = (SEQ_LOW * SEQ_MID) * top + r
  <2>1. SEQ_LOW * mid = SEQ_LOW * (SEQ_MID * top) + SEQ_LOW * rest
    BY <1>1, <1>3
  <2>2. SEQ_LOW * (SEQ_MID * top) = (SEQ_LOW * SEQ_MID) * top
    BY <1>1, <1>3
  <2> QED BY <1>1, <1>2, <1>3, <2>1, <2>2
<1>5. r \in 0 .. SEQ_LOW * SEQ_MID - 1
  <2>1. SEQ_LOW * rest \in Nat /\ SEQ_LOW * rest <= SEQ_LOW * (SEQ_MID - 1)
    BY <1>1, <1>3
  <2>2. SEQ_LOW * (SEQ_MID - 1) = SEQ_LOW * SEQ_MID - SEQ_LOW
    BY <1>1
  <2> QED BY <1>1, <1>2, <2>1, <2>2
<1> HIDE DEF r
<1>6. a \div (SEQ_LOW * SEQ_MID) = top
  <2> DEFINE d == SEQ_LOW * SEQ_MID
  <2>1. d \in Nat \ {0} /\ a = d * top + r /\ r \in 0 .. d - 1
    BY <1>1, <1>4, <1>5
  <2> HIDE DEF d
  <2>2. a \div d = top
    BY <1>3, <2>1, DivIs
  <2> QED BY <2>2 DEF d
<1> QED BY <1>6 DEF SeqTop, top, mid

LEMMA SameSeq ==
  ASSUME NEW a \in Nat, NEW b \in Nat,
         SeqLow(a) = SeqLow(b), SeqMid(a) = SeqMid(b), SeqTop(a) = SeqTop(b)
  PROVE  a = b
<1> DEFINE x == a \div SEQ_LOW
           y == b \div SEQ_LOW
<1>1. SEQ_LOW \in Nat \ {0} /\ SEQ_MID \in Nat \ {0}
  BY SeqPartsAssumption
<1>2. /\ x \in Nat /\ a = SEQ_LOW * x + (a % SEQ_LOW)
      /\ y \in Nat /\ b = SEQ_LOW * y + (b % SEQ_LOW)
  BY <1>1, DivMod
<1>3. x \div SEQ_MID = y \div SEQ_MID /\ x % SEQ_MID = y % SEQ_MID /\ a % SEQ_LOW = b % SEQ_LOW
  BY TopOf DEF SeqLow, SeqMid
<1> HIDE DEF x, y
<1>4. x = SEQ_MID * (x \div SEQ_MID) + (x % SEQ_MID)
  BY <1>1, <1>2, DivMod
<1>5. y = SEQ_MID * (y \div SEQ_MID) + (y % SEQ_MID)
  BY <1>1, <1>2, DivMod
<1>6. x = y
  BY ONLY <1>3, <1>4, <1>5
<1> QED BY ONLY <1>2, <1>3, <1>6

LEMMA TopOfOne == SeqTop(1) = 0
<1> DEFINE d == SEQ_LOW * SEQ_MID
<1>1. d \in Nat \ {0} /\ 1 \in 0 .. d - 1
  <2>1. SEQ_LOW \in Nat /\ SEQ_MID \in Nat /\ SEQ_LOW >= 2 /\ SEQ_MID >= 1
    BY SeqPartsAssumption
  <2>2. SEQ_LOW * SEQ_MID >= SEQ_LOW
    BY <2>1
  <2> QED BY <2>1, <2>2
<1> HIDE DEF d
<1>2. 1 = d * 0 + 1
  BY <1>1
<1>3. 1 \div d = 0
  BY <1>1, <1>2, DivIs
<1> QED BY <1>3 DEF SeqTop, d

----------------------------------------------------------------------------
(* The words of a packet. *)

LEMMA WordFacts ==
  ASSUME NEW p, NEW k
  PROVE  /\ Word(p, k).tlast = (k = Words(p.total) - 1)
         /\ Word(p, k).tkeep = IF k = Words(p.total) - 1 THEN p.total - 4 * k ELSE 4
BY DEF Word

LEMMA WordBytes ==
  ASSUME NEW p, NEW k, NEW i \in 0 .. 3
  PROVE  Word(p, k).byte[i] = LengthAt(p.lens, 4 * (k - 5) + i)
BY DEF Word

LEMMA HeaderHalves ==
  ASSUME NEW p
  PROVE  /\ Halves(Word(p, 0)) = <<p.session_id[1], p.session_id[2]>>
         /\ Halves(Word(p, 1)) = <<p.session_id[3], p.session_id[4]>>
         /\ Halves(Word(p, 2)) = <<p.session_id[5], SeqTop(p.seq)>>
         /\ Halves(Word(p, 3)) = <<SeqMid(p.seq), 0>>
         /\ Halves(Word(p, 4)) = <<SeqLow(p.seq), Len(p.lens)>>
<1> DEFINE H(k) == CASE k = 0 -> <<p.session_id[1], p.session_id[2]>>
                     [] k = 1 -> <<p.session_id[3], p.session_id[4]>>
                     [] k = 2 -> <<p.session_id[5], SeqTop(p.seq)>>
                     [] k = 3 -> <<SeqMid(p.seq), 0>>
                     [] k = 4 -> <<SeqLow(p.seq), Len(p.lens)>>
                     [] OTHER -> <<0, 0>>
<1>1. \A k : Halves(Word(p, k)) = <<H(k)[1], H(k)[2]>>
  <2> SUFFICES ASSUME NEW k PROVE Halves(Word(p, k)) = <<H(k)[1], H(k)[2]>>
    OBVIOUS
  <2>1. Word(p, k).hi = H(k)[1] /\ Word(p, k).lo = H(k)[2]
    <3> DEFINE h == H(k)
    <3>1. Word(p, k).hi = h[1] /\ Word(p, k).lo = h[2]
      BY DEF Word
    <3> QED BY <3>1
  <2> QED BY <2>1 DEF Halves
<1>2. /\ 0 # 1 /\ 0 # 2 /\ 0 # 3 /\ 0 # 4 /\ 1 # 2 /\ 1 # 3 /\ 1 # 4 /\ 2 # 3 /\ 2 # 4 /\ 3 # 4
  OBVIOUS
<1>3. /\ H(0) = <<p.session_id[1], p.session_id[2]>>
      /\ H(1) = <<p.session_id[3], p.session_id[4]>>
      /\ H(2) = <<p.session_id[5], SeqTop(p.seq)>>
      /\ H(3) = <<SeqMid(p.seq), 0>>
      /\ H(4) = <<SeqLow(p.seq), Len(p.lens)>>
  BY <1>2, Zenon
<1> HIDE DEF H
<1> QED BY <1>1, <1>3

(* Its words are those its length makes up. *)
LEMMA WordsFacts ==
  ASSUME NEW total \in Nat \ {0}, NEW k \in Nat
  PROVE  /\ Words(total) \in Nat
         /\ k < Words(total) <=> 4 * k < total
         /\ k = Words(total) - 1 <=> 4 * k < total /\ total <= 4 * k + 4
BY DEF Words

----------------------------------------------------------------------------
(* The invariant.  While a packet is on its way and no error has been      *)
(* reported, the words seen so far are those the model accepts, and the    *)
(* parser stands where the packet's message borders put it.                *)

Records(p) ==
  /\ p = [session_id |-> p.session_id, seq |-> p.seq, lens |-> p.lens, total |-> p.total]
  /\ p.session_id \in Sessions /\ p.seq \in Nat /\ p.lens \in Lens /\ p.total \in Nat \ {0}
  /\ p.seq + Len(p.lens) <= MaxSeq

Registers ==
  /\ session_id_q \in [1 .. 5 -> Nat]
  /\ at \in Nat /\ passed \in Nat
  /\ failed \/ seq_expect_q \in 1 .. MaxSeq

(* A packet on its way has words left to come. *)
PacketComes == pkt = NoPkt \/ (Records(pkt) /\ at < Words(pkt.total))

Between ==
  /\ AgreesBetweenPackets
  /\ pkt = NoPkt => answer = "ok" /\ (first_pkt_flag_q => seq_expect_q = 1)

(* The state tells the place in the header. *)
Place ==
  \/ at = 0 /\ state_q = "IDLE"
  \/ at = 1 /\ state_q = "SESSION_1"
  \/ at = 2 /\ state_q = "SESSION_2"
  \/ at = 3 /\ state_q = "SEQ_NUM_1"
  \/ at = 4 /\ state_q = "SEQ_NUM_2"

(* The halves of the session id seen so far are those the parser keeps,    *)
(* and the parts of the number seen so far are those it expects.           *)
Seen ==
  /\ \A i \in 1 .. 5 : i <= 2 * at => session_id_q[i] = pkt.session_id[i]
  /\ first_pkt_flag_q => at <= 3 /\ seq_expect_q = 1 /\ SeqTop(pkt.seq) = 0
  /\ at >= 3 => SeqTop(pkt.seq) = SeqTop(seq_expect_q)
  /\ at = 4 => SeqMid(pkt.seq) = SeqMid(seq_expect_q) /\ ~first_pkt_flag_q

(* What the next header word is compared with. *)
Compared ==
  /\ at = 0 => first_pkt_flag_q \/ compare_q = <<session_id_q[1], session_id_q[2]>>
  /\ at = 1 => first_pkt_flag_q \/ compare_q = <<session_id_q[3], session_id_q[4]>>
  /\ at = 2 => first_pkt_flag_q \/ compare_q = <<session_id_q[5], SeqTop(seq_expect_q)>>
  /\ at = 3 => compare_q = <<SeqMid(seq_expect_q), 0>>
  /\ at = 4 => compare_q = <<SeqLow(seq_expect_q), 0>>

(* The model accepts the packet exactly if its length, its number and its  *)
(* session are what the parser has still to find them to be.               *)
AcceptedInHeader ==
  /\ answer = "ok" <=> /\ pkt.total = Whole(pkt.lens)
                       /\ pkt.seq = seq_expect_q
                       /\ first_pkt_flag_q \/ session_id_q = pkt.session_id
  /\ answer = "ok" => seq_expected = seq_expect_q + Len(pkt.lens)

InHeader == passed = 0 /\ Place /\ Seen /\ Compared /\ AcceptedInHeader

(* Behind the header the length of the packet is all that can be wrong.    *)
(* bytes_left_q counts to one byte behind the last message whose length    *)
(* was read.                                                               *)
InPayload ==
  /\ state_q = "MSG" /\ at >= 5 /\ passed = at - 5
  /\ session_id_q = pkt.session_id /\ ~first_pkt_flag_q
  /\ compare_q = <<session_id_q[1], session_id_q[2]>>
  /\ msg_left_q \in 0 .. Len(pkt.lens)
  /\ 4 * (at - 5) + bytes_left_q = Start(pkt.lens, Len(pkt.lens) - msg_left_q) + 1
  /\ msg_left_q = 0 => bytes_left_q >= 2
  /\ answer = "ok" <=> pkt.total = Whole(pkt.lens)
  /\ answer = "ok" => seq_expected = seq_expect_q

Follows == 
  failed \/ pkt = NoPkt \/
  ((InHeader \/ InPayload) /\ (answer = "ok" => first_pkt_received /\ session_id = pkt.session_id))

IInv == TypeOK /\ NoFalseAlarm /\ Registers /\ PacketComes /\ (failed \/ Between) /\ Follows

THEOREM InitHolds == Init => IInv
<1> SUFFICES ASSUME Init PROVE IInv
  OBVIOUS
<1> USE FeedAssumption DEF Init, InitRtlMold, M!InitMold
<1>1. TypeOK
  <2>1. {first_pkt_flag_q, ip_data_v_o, np_error, failed} \subseteq BOOLEAN
    BY Zenon
  <2>2. /\ state_q \in States /\ msg_left_q \in 0 .. MaxCount /\ bytes_left_q \in 0 .. 255
        /\ seq_expect_q \in 1 .. MaxSeq + MaxCount /\ passed <= at
    BY DEF States
  <2> QED BY <2>1, <2>2 DEF TypeOK
<1>2. NoFalseAlarm /\ PacketComes /\ Follows
  BY DEF NoFalseAlarm, PacketComes, Follows
<1>3. Registers
  <2>1. session_id_q \in [1 .. 5 -> Nat]
    OBVIOUS
  <2> QED BY <2>1 DEF Registers
<1>4. Between
  <2>1. first_pkt_flag_q = ~first_pkt_received
    BY Zenon
  <2>2. answer = "ok" /\ seq_expect_q = seq_expected /\ ~first_pkt_received /\ ~(at > 0) /\ state_q = "IDLE"
    OBVIOUS
  <2> QED BY <2>1, <2>2, Zenon DEF Between, AgreesBetweenPackets
<1> QED BY <1>1, <1>2, <1>3, <1>4 DEF IInv

----------------------------------------------------------------------------
(* A packet is sent. *)

LEMMA LensFacts ==
  ASSUME NEW lens \in Lens
  PROVE  /\ Len(lens) \in 0 .. MaxCount
         /\ MsgBytes(lens) \in Nat
         /\ Whole(lens) = 20 + MsgBytes(lens)
         /\ MsgBytes(lens) = Start(lens, Len(lens))
<1>1. Len(lens) \in 0 .. MaxCount
  <2>1. PICK n \in 0 .. MaxCount : lens \in [1 .. n -> Lengths]
    BY DEF Lens
  <2> QED BY <2>1, FeedAssumption
<1>2. Len(lens) \in 0 .. Len(lens)
  BY <1>1
<1> QED BY <1>1, <1>2, StartFacts, StartsApart DEF Whole, HEADER

(* What the model accepts. *)
LEMMA OutcomeIsOk ==
  ASSUME NEW p
  PROVE  M!Outcome(p) = "ok" <=> /\ p.shape # "short" /\ p.shape # "cut"
                                 /\ p.session_id = M!Session(p) /\ p.seq = seq_expected
BY Zenon DEF M!Outcome

LEMMA SendStep ==
  ASSUME IInv, NEW session \in Sessions, NEW seq \in Nat, NEW lens \in Lens, NEW total \in Int,
         Send(session, seq, lens, total)
  PROVE  IInv'
<1> DEFINE p == [session_id |-> session, seq |-> seq, lens |-> lens, total |-> total]
<1>1. /\ ~failed /\ pkt = NoPkt /\ seq + Len(lens) <= MaxSeq /\ total > 0
      /\ (first_pkt_received \/ SeqTop(seq) = 0)
  BY DEF Send
<1>2. /\ pkt' = p /\ at' = 0 /\ passed' = 0
      /\ answer' = M!Outcome(AsModel(p)) /\ M!ProcessPkt(AsModel(p))
  <2>1. pkt' = p
    BY DEF Send
  <2> QED BY <2>1 DEF Send
<1>3. /\ state_q' = state_q /\ session_id_q' = session_id_q /\ compare_q' = compare_q
      /\ seq_expect_q' = seq_expect_q /\ msg_left_q' = msg_left_q /\ bytes_left_q' = bytes_left_q
      /\ first_pkt_flag_q' = first_pkt_flag_q /\ ip_data_v_o' = ip_data_v_o
      /\ np_error' = np_error /\ failed' = failed
  BY DEF Send, mold_regs
<1>4. p.session_id = session /\ p.seq = seq /\ p.lens = lens /\ p.total = total
  OBVIOUS
<1> HIDE DEF p
<1>5. TypeOK /\ Registers /\ Between
  BY <1>1 DEF IInv
<1>6. /\ seq_expect_q = seq_expected /\ first_pkt_flag_q = (~first_pkt_received)
      /\ first_pkt_received => /\ session_id_q = session_id
                               /\ compare_q = <<session_id[1], session_id[2]>>
      /\ state_q = "IDLE" /\ (first_pkt_flag_q => seq_expect_q = 1)
  BY <1>1, <1>5, Zenon DEF Between, AgreesBetweenPackets
<1>7. Records(p) /\ p # NoPkt
  <2>1. p = [session_id |-> p.session_id, seq |-> p.seq, lens |-> p.lens, total |-> p.total]
    BY <1>4 DEF p
  <2>2. total \in Nat \ {0} /\ NoPkt.total = 0
    BY <1>1 DEF NoPkt
  <2> QED BY <1>1, <1>4, <2>1, <2>2 DEF Records
<1>8. 0 < Words(p.total)
  <2>1. total \in Nat \ {0} /\ 0 \in Nat
    BY <1>1
  <2>2. 0 < Words(total) <=> 4 * 0 < total
    BY <2>1, WordsFacts
  <2> QED BY <1>4, <2>1, <2>2
<1>9. answer' = "ok" <=> /\ total = Whole(lens) /\ session = M!Session(AsModel(p))
                         /\ seq = seq_expected
  <2> DEFINE m == AsModel(p)
  <2>1. /\ m.session_id = session /\ m.seq = seq
        /\ m.shape = IF total < 20 THEN "short"
                     ELSE IF total = 20 + MsgBytes(lens) THEN "whole" ELSE "cut"
    BY <1>4 DEF AsModel, HEADER
  <2> HIDE DEF m
  <2>2. M!Outcome(m) = "ok" <=> /\ m.shape # "short" /\ m.shape # "cut"
                                /\ m.session_id = M!Session(m) /\ m.seq = seq_expected
    BY OutcomeIsOk
  <2>3. m.shape # "short" /\ m.shape # "cut" <=> total = Whole(lens)
    <3>1. Whole(lens) = 20 + MsgBytes(lens) /\ MsgBytes(lens) \in Nat
      BY LensFacts
    <3> HIDE DEF Whole, MsgBytes
    <3> QED BY <2>1, <3>1
  <2>4. answer' = M!Outcome(m)
    BY <1>2 DEF m
  <2> QED BY <2>1, <2>2, <2>3, <2>4, Zenon DEF m
<1>10. M!Session(AsModel(p)) = IF first_pkt_received THEN session_id ELSE session
  BY <1>4 DEF M!Session, AsModel
<1>11. answer' = "ok" => /\ session_id' = session /\ first_pkt_received'
                         /\ seq_expected' = seq_expected + Len(lens)
  <2> SUFFICES ASSUME answer' = "ok"
               PROVE  /\ session_id' = session /\ first_pkt_received'
                      /\ seq_expected' = seq_expected + Len(lens)
    OBVIOUS
  <2> DEFINE m == AsModel(p)
  <2>1. M!Outcome(m) = "ok" /\ M!ProcessPkt(m) /\ session = M!Session(m)
    BY <1>2, <1>9
  <2>2. m.msg_count = Len(lens)
    BY <1>4 DEF AsModel
  <2> HIDE DEF m
  <2>3. M!FollowSession(m) /\ seq_expected' = seq_expected + m.msg_count
    BY <2>1, "ok" # "too_short", "ok" # "session_mismatch", "ok" # "seq_mismatch", Zenon
    DEF M!ProcessPkt
  <2> QED BY <2>1, <2>2, <2>3, Zenon DEF M!FollowSession
<1>12. TypeOK'
  BY <1>2, <1>3, <1>5, 0 <= 0, Zenon DEF TypeOK
<1>13. NoFalseAlarm' /\ Between'
  BY <1>1, <1>2, <1>3, <1>7, Zenon DEF NoFalseAlarm, Between, AgreesBetweenPackets
<1>14. Registers'
  BY <1>2, <1>3, <1>5 DEF Registers
<1>15. PacketComes'
  BY <1>2, <1>7, <1>8, Zenon DEF PacketComes, Records
<1>16. InHeader'
  <2>1. passed' = 0 /\ Place'
    BY <1>2, <1>3, <1>6, Zenon DEF Place
  <2>2. Seen'
    <3>1. \A i \in 1 .. 5 : ~(i <= 2 * 0)
      OBVIOUS
    <3>2. 0 <= 3 /\ ~(0 >= 3) /\ 0 # 4
      OBVIOUS
    <3>3. first_pkt_flag_q => seq_expect_q = 1 /\ SeqTop(p.seq) = 0
      BY <1>1, <1>4, <1>6, Zenon
    <3> QED BY <1>2, <1>3, <3>1, <3>2, <3>3, Zenon DEF Seen
  <2>3. Compared'
    <3>1. 0 # 1 /\ 0 # 2 /\ 0 # 3 /\ 0 # 4
      OBVIOUS
    <3>2. first_pkt_flag_q \/ compare_q = <<session_id_q[1], session_id_q[2]>>
      BY <1>6, Zenon
    <3> QED BY <1>2, <1>3, <3>1, <3>2, Zenon DEF Compared
  <2>4. AcceptedInHeader'
    <3>1. session = M!Session(AsModel(p)) <=> first_pkt_flag_q \/ session_id_q = session
      BY <1>6, <1>10, Zenon
    <3>2. answer' = "ok" <=> /\ total = Whole(lens) /\ seq = seq_expect_q
                             /\ first_pkt_flag_q \/ session_id_q = session
      BY <1>6, <1>9, <3>1, Zenon
    <3> QED BY <1>2, <1>3, <1>4, <1>6, <1>11, <3>2, Zenon DEF AcceptedInHeader
  <2> QED BY <2>1, <2>2, <2>3, <2>4 DEF InHeader
<1>17. Follows'
  BY <1>2, <1>4, <1>11, <1>16, Zenon DEF Follows
<1> QED BY <1>12, <1>13, <1>14, <1>15, <1>16, <1>17 DEF IInv

----------------------------------------------------------------------------
(* A word arrives. *)

(* What Arrive does whatever the word. *)
Moves ==
  /\ ~failed /\ pkt # NoPkt
  /\ failed' = np_error'
  /\ passed' = IF ip_data_v_o' THEN passed + 1 ELSE passed
  /\ at' = at + 1
  /\ pkt' = IF at' = Words(pkt.total) THEN NoPkt ELSE pkt
  /\ answer' = answer
  /\ seq_expected' = seq_expected /\ session_id' = session_id
  /\ first_pkt_received' = first_pkt_received

LastOnWire == at = Words(pkt.total) - 1

LEMMA MovedFacts ==
  ASSUME IInv, Moves
  PROVE  /\ Records(pkt) /\ at \in Nat /\ pkt.total \in Nat \ {0}
         /\ 4 * at < pkt.total /\ (LastOnWire <=> pkt.total <= 4 * at + 4)
         /\ IF LastOnWire THEN pkt' = NoPkt ELSE pkt' = pkt
         /\ PacketComes'
         /\ Word(pkt, at).tlast = LastOnWire
         /\ Word(pkt, at).tkeep = IF LastOnWire THEN pkt.total - 4 * at ELSE 4
<1> DEFINE w == Words(pkt.total)
<1>1. Records(pkt) /\ at < w /\ at \in Nat
  BY DEF IInv, Moves, PacketComes, Registers
<1>2. pkt.total \in Nat \ {0}
  BY <1>1 DEF Records
<1>3. w \in Nat /\ (at < w <=> 4 * at < pkt.total)
      /\ (at = w - 1 <=> 4 * at < pkt.total /\ pkt.total <= 4 * at + 4)
  BY <1>1, <1>2, WordsFacts
<1>4. /\ Word(pkt, at).tlast = (at = w - 1)
      /\ Word(pkt, at).tkeep = IF at = w - 1 THEN pkt.total - 4 * at ELSE 4
  BY WordFacts
<1>5. at' = at + 1 /\ pkt' = IF at' = w THEN NoPkt ELSE pkt
  BY DEF Moves
<1> HIDE DEF w
<1>6. at' = w <=> at = w - 1
  BY <1>1, <1>3, <1>5
<1>7. at' # w => at' < w
  BY <1>1, <1>3, <1>5
<1>8. LastOnWire <=> at = w - 1
  BY DEF LastOnWire, w
<1>9. IF LastOnWire THEN pkt' = NoPkt ELSE pkt' = pkt
  BY <1>5, <1>6, <1>8, Zenon
<1>10. PacketComes'
  <2>1. CASE at' = w
    BY <1>5, <2>1 DEF PacketComes
  <2>2. CASE at' # w
    <3>1. pkt' = pkt /\ at' < Words(pkt.total)
      BY <1>5, <1>7, <2>2 DEF w
    <3> QED BY <1>1, <3>1 DEF PacketComes, Records
  <2> QED BY <2>1, <2>2
<1>11. LastOnWire <=> pkt.total <= 4 * at + 4
  BY <1>1, <1>3, <1>8
<1>12. Word(pkt, at).tlast = LastOnWire /\ Word(pkt, at).tkeep = IF LastOnWire THEN pkt.total - 4 * at ELSE 4
  BY <1>4, <1>8, Zenon DEF LastOnWire, w
<1> QED BY <1>1, <1>2, <1>3, <1>9, <1>10, <1>11, <1>12

LEMMA RecordFacts ==
  ASSUME NEW p, Records(p)
  PROVE  /\ p.session_id \in [1 .. 5 -> Nat] /\ p.seq \in Nat /\ p.lens \in Lens
         /\ Len(p.lens) \in 0 .. MaxCount /\ p.seq + Len(p.lens) <= MaxSeq
         /\ MsgBytes(p.lens) \in Nat
         /\ Whole(p.lens) = 20 + MsgBytes(p.lens)
         /\ MsgBytes(p.lens) = Start(p.lens, Len(p.lens))
<1>1. p.session_id \in Sessions /\ p.lens \in Lens /\ p.seq \in Nat /\ p.seq + Len(p.lens) <= MaxSeq
  BY DEF Records
<1> QED BY <1>1, LensFacts, FeedAssumption

(* In the header the state is not MSG, and behind it it is. *)
LEMMA Where ==
  ASSUME IInv, Moves
  PROVE  /\ state_q # "MSG" => InHeader
         /\ state_q = "MSG" => InPayload
<1>1. InHeader \/ InPayload
  BY DEF IInv, Moves, Follows
<1>2. InHeader => state_q # "MSG"
  BY DEF InHeader, Place
<1>3. InPayload => state_q = "MSG"
  BY DEF InPayload
<1> QED BY <1>1, <1>2, <1>3

(* Once an error is reported all that is left to show is that it was due.  *)
LEMMA Reported ==
  ASSUME IInv, Moves, TypeOK', Registers', np_error', answer # "ok"
  PROVE  IInv'
<1>1. failed' /\ answer' # "ok"
  BY DEF Moves
<1>2. PacketComes'
  BY MovedFacts
<1>3. NoFalseAlarm' /\ Follows'
  BY <1>1, Zenon DEF NoFalseAlarm, Follows
<1> QED BY <1>1, <1>2, <1>3 DEF IInv

(* The three words that hold the session are those the parser compares     *)
(* with, when the session and the number are the expected ones.            *)
LEMMA SessionWords ==
  ASSUME IInv, Moves, InSession, ~first_pkt_flag_q,
         session_id_q = pkt.session_id, pkt.seq = seq_expect_q
  PROVE  Expected(Word(pkt, at))
<1> DEFINE w == Word(pkt, at)
<1>1. state_q \in {"IDLE", "SESSION_1", "SESSION_2"} /\ state_q # "MSG" /\ state_q # "SEQ_NUM_2"
  BY DEF InSession
<1>2. InHeader
  BY <1>1, Where
<1>3. at \in 0 .. 2
  BY <1>1, <1>2 DEF InHeader, Place
<1>4. compare_q = Halves(w)
  <2>1. CASE at = 0
    BY <1>2, <2>1, HeaderHalves, Zenon DEF InHeader, Compared
  <2>2. CASE at = 1
    BY <1>2, <2>2, HeaderHalves, Zenon DEF InHeader, Compared
  <2>3. CASE at = 2
    BY <1>2, <2>3, HeaderHalves, Zenon DEF InHeader, Compared
  <2> QED BY <1>3, <2>1, <2>2, <2>3
<1> HIDE DEF w
<1>5. Expected(w)
  BY <1>1, <1>4, Zenon DEF Expected
<1> QED BY <1>5 DEF w

LEMMA GiveUpStep ==
  ASSUME IInv, Moves, GiveUp(Word(pkt, at))
  PROVE  IInv'
<1> DEFINE w == Word(pkt, at)
<1>1. /\ InSession /\ ~Expected(w) /\ state_q' = "IDLE" /\ ip_data_v_o' = FALSE /\ np_error'
      /\ session_id_q' = session_id_q /\ seq_expect_q' = seq_expect_q /\ msg_left_q' = msg_left_q
      /\ bytes_left_q' = bytes_left_q /\ first_pkt_flag_q' = first_pkt_flag_q
  BY Zenon DEF GiveUp, Check
<1>2. ~first_pkt_flag_q
  BY <1>1, Zenon DEF Expected
<1>3. InHeader
  <2>1. state_q # "MSG"
    BY <1>1 DEF InSession
  <2> QED BY <2>1, Where
<1>4. answer # "ok"
  <2> SUFFICES ASSUME answer = "ok" PROVE FALSE
    OBVIOUS
  <2>1. session_id_q = pkt.session_id /\ pkt.seq = seq_expect_q
    BY <1>2, <1>3, Zenon DEF InHeader, AcceptedInHeader
  <2>2. Expected(Word(pkt, at))
    BY <1>1, <1>2, <2>1, SessionWords
  <2> QED BY <1>1, <2>2
<1>5. failed' = np_error' /\ passed' = passed /\ at' = at + 1 /\ failed = FALSE
  BY <1>1, Zenon DEF Moves, IInv, TypeOK
<1>6. TypeOK /\ Registers
  BY DEF IInv
<1>7. np_error' = TRUE
  BY <1>1, Zenon DEF GiveUp, Check
<1> HIDE DEF w
<1>8. TypeOK'
  <2>1. {first_pkt_flag_q', ip_data_v_o', np_error', failed'} \subseteq BOOLEAN
    BY <1>1, <1>5, <1>6, <1>7, Zenon DEF TypeOK
  <2>2. passed' <= at'
    BY <1>5, <1>6 DEF TypeOK, Registers
  <2>3. state_q' \in States
    BY <1>1 DEF States
  <2> QED BY <1>1, <1>6, <2>1, <2>2, <2>3, Zenon DEF TypeOK
<1>9. Registers'
  BY <1>1, <1>5, <1>6 DEF Registers
<1> QED BY <1>1, <1>4, <1>8, <1>9, Reported

(* A header word but the last: the state, the place and the halves the     *)
(* parser learns.                                                          *)
LEMMA HeaderPlaces ==
  ASSUME IInv, Moves, HeaderWord(Word(pkt, at))
  PROVE  /\ InHeader /\ at' = at + 1 /\ passed' = 0 /\ Place'
         /\ \/ at = 0 /\ state_q = "IDLE" /\ InSession
            \/ at = 1 /\ state_q = "SESSION_1" /\ InSession
            \/ at = 2 /\ state_q = "SESSION_2" /\ InSession
            \/ at = 3 /\ state_q = "SEQ_NUM_1" /\ ~InSession
         /\ state_q' \in States
<1>1. state_q \in DOMAIN After /\ state_q' = After[state_q] /\ ip_data_v_o' = FALSE
  BY DEF HeaderWord
<1>2. state_q \in {"IDLE", "SESSION_1", "SESSION_2", "SEQ_NUM_1"}
  BY <1>1 DEF After
<1>3. InHeader
  BY <1>2, Where
<1>4. at' = at + 1 /\ passed' = 0
  BY <1>1, <1>3 DEF Moves, InHeader
<1>5. /\ \/ at = 0 /\ state_q = "IDLE"
         \/ at = 1 /\ state_q = "SESSION_1"
         \/ at = 2 /\ state_q = "SESSION_2"
         \/ at = 3 /\ state_q = "SEQ_NUM_1"
  BY <1>2, <1>3 DEF InHeader, Place
<1>6. After["IDLE"] = "SESSION_1" /\ After["SESSION_1"] = "SESSION_2"
      /\ After["SESSION_2"] = "SEQ_NUM_1" /\ After["SEQ_NUM_1"] = "SEQ_NUM_2"
  BY DEF After
<1>7. Place' /\ state_q' \in States
  BY <1>1, <1>4, <1>5, <1>6 DEF Place, States
<1>8. InSession <=> state_q # "SEQ_NUM_1"
  BY <1>2 DEF InSession
<1> QED BY <1>3, <1>4, <1>5, <1>7, <1>8

(* What the parser learns of the session. *)
LEMMA LearnedFacts ==
  ASSUME NEW w, session_id_q \in [1 .. 5 -> Nat], w.hi \in Nat,
         state_q # "SESSION_2" => w.lo \in Nat
  PROVE  /\ state_q = "IDLE" => Learned(w) = [session_id_q EXCEPT ![1] = w.hi, ![2] = w.lo]
         /\ state_q = "SESSION_1" => Learned(w) = [session_id_q EXCEPT ![3] = w.hi, ![4] = w.lo]
         /\ state_q = "SESSION_2" => Learned(w) = [session_id_q EXCEPT ![5] = w.hi]
         /\ InSession => Learned(w) \in [1 .. 5 -> Nat]
<1>1. "IDLE" # "SESSION_1" /\ "IDLE" # "SESSION_2" /\ "SESSION_1" # "SESSION_2"
  OBVIOUS
<1>2. state_q = "IDLE" => Learned(w) = [session_id_q EXCEPT ![1] = w.hi, ![2] = w.lo]
  BY <1>1, Zenon DEF Learned
<1>3. state_q = "SESSION_1" => Learned(w) = [session_id_q EXCEPT ![3] = w.hi, ![4] = w.lo]
  BY <1>1, Zenon DEF Learned
<1>4. state_q = "SESSION_2" => Learned(w) = [session_id_q EXCEPT ![5] = w.hi]
  BY <1>1, Zenon DEF Learned
<1>5. InSession => Learned(w) \in [1 .. 5 -> Nat]
  <2>1. CASE state_q = "IDLE"
    BY <1>2, <2>1
  <2>2. CASE state_q = "SESSION_1"
    BY <1>3, <2>2
  <2>3. CASE state_q = "SESSION_2"
    BY <1>4, <2>3
  <2> QED BY <2>1, <2>2, <2>3 DEF InSession
<1> QED BY <1>2, <1>3, <1>4, <1>5

LEMMA HeaderTypes ==
  ASSUME IInv, Moves, HeaderWord(Word(pkt, at))
  PROVE  TypeOK' /\ Registers'
<1> DEFINE w == Word(pkt, at)
<1>1. /\ session_id_q' = IF InSession /\ first_pkt_flag_q THEN Learned(w) ELSE session_id_q
      /\ first_pkt_flag_q' = (first_pkt_flag_q /\ state_q # "SEQ_NUM_1")
      /\ ip_data_v_o' = FALSE /\ seq_expect_q' = seq_expect_q /\ msg_left_q' = msg_left_q
      /\ bytes_left_q' = bytes_left_q
      /\ np_error' = ((~Expected(w)) \/ w.tlast # FALSE \/ w.tkeep # 4)
  BY Zenon DEF HeaderWord, Check
<1>2. TypeOK /\ Registers /\ failed = FALSE
  BY Zenon DEF IInv, Moves, TypeOK
<1>3. state_q' \in States /\ passed' = 0 /\ at' = at + 1
  BY HeaderPlaces
<1>4. TypeOK'
  <2>1. first_pkt_flag_q' \in BOOLEAN /\ np_error' \in BOOLEAN
    BY <1>1, Zenon
  <2>2. failed' = np_error'
    BY DEF Moves
  <2>3. {first_pkt_flag_q', ip_data_v_o', np_error', failed'} \subseteq BOOLEAN
    BY <1>1, <2>1, <2>2, Zenon
  <2>4. passed' <= at'
    BY <1>2, <1>3 DEF Registers
  <2> QED BY <1>1, <1>2, <1>3, <2>3, <2>4, Zenon DEF TypeOK
<1>5. session_id_q' \in [1 .. 5 -> Nat]
  <2>1. CASE InSession /\ first_pkt_flag_q
    <3>1. pkt.session_id \in [1 .. 5 -> Nat]
      BY MovedFacts, RecordFacts
    <3>2. at \in 0 .. 2 /\ (at = 2 <=> state_q = "SESSION_2")
      BY <2>1, HeaderPlaces
    <3>3. w.hi = Halves(w)[1] /\ w.lo = Halves(w)[2]
      BY DEF Halves
    <3>4. w.hi \in Nat /\ (at # 2 => w.lo \in Nat)
      <4>1. CASE at = 0
        <5>1. Halves(w) = <<pkt.session_id[1], pkt.session_id[2]>>
          BY <4>1, HeaderHalves
        <5> HIDE DEF w
        <5> QED BY <3>1, <3>3, <5>1
      <4>2. CASE at = 1
        <5>1. Halves(w) = <<pkt.session_id[3], pkt.session_id[4]>>
          BY <4>2, HeaderHalves
        <5> HIDE DEF w
        <5> QED BY <3>1, <3>3, <5>1
      <4>3. CASE at = 2
        <5>1. Halves(w) = <<pkt.session_id[5], SeqTop(pkt.seq)>>
          BY <4>3, HeaderHalves
        <5> HIDE DEF w
        <5> QED BY <3>1, <3>3, <4>3, <5>1
      <4> QED BY <3>2, <4>1, <4>2, <4>3
    <3> HIDE DEF w
    <3>5. session_id_q \in [1 .. 5 -> Nat] /\ (state_q # "SESSION_2" => w.lo \in Nat)
      BY <1>2, <3>2, <3>4 DEF Registers
    <3>6. InSession => Learned(w) \in [1 .. 5 -> Nat]
      BY <3>4, <3>5, LearnedFacts
    <3> QED BY <1>1, <2>1, <3>6
  <2>2. CASE ~(InSession /\ first_pkt_flag_q)
    BY <1>1, <1>2, <2>2, Zenon DEF Registers
  <2> QED BY <2>1, <2>2
<1>6. Registers'
  <2>1. failed' \/ seq_expect_q' \in 1 .. MaxSeq
    BY <1>1, <1>2, Zenon DEF Registers
  <2>2. at' \in Nat /\ passed' \in Nat
    BY <1>2, <1>3 DEF Registers
  <2> QED BY <1>5, <2>1, <2>2 DEF Registers
<1> QED BY <1>4, <1>6

(* No header word of a packet the model accepts is an error. *)
LEMMA HeaderNotDue ==
  ASSUME IInv, Moves, HeaderWord(Word(pkt, at)), answer = "ok"
  PROVE  ~np_error'
<1> DEFINE w == Word(pkt, at)
<1>1. np_error' = ((~Expected(w)) \/ w.tlast # FALSE \/ w.tkeep # 4)
  BY Zenon DEF HeaderWord, Check
<1>2. InHeader /\ at \in 0 .. 3 /\ (at = 3 <=> ~InSession) /\ (at = 3 => state_q = "SEQ_NUM_1")
  BY HeaderPlaces
<1>3. /\ pkt.total = Whole(pkt.lens) /\ pkt.seq = seq_expect_q
      /\ first_pkt_flag_q \/ session_id_q = pkt.session_id
  BY <1>2, Zenon DEF InHeader, AcceptedInHeader
<1>4. w.tlast = FALSE /\ w.tkeep = 4
  <2>1. pkt.total = 20 + MsgBytes(pkt.lens) /\ MsgBytes(pkt.lens) \in Nat
    BY <1>3, MovedFacts, RecordFacts
  <2>2. ~LastOnWire
    <3>1. LastOnWire <=> pkt.total <= 4 * at + 4
      BY MovedFacts
    <3> HIDE DEF LastOnWire
    <3> QED BY <1>2, <2>1, <3>1
  <2> QED BY <2>2, MovedFacts
<1>5. Expected(w)
  <2>1. CASE InSession /\ first_pkt_flag_q
    BY <2>1, Zenon DEF Expected
  <2>2. CASE InSession /\ ~first_pkt_flag_q
    BY <1>3, <2>2, SessionWords
  <2>3. CASE ~InSession
    <3>1. compare_q = <<SeqMid(seq_expect_q), 0>>
      BY <1>2, <2>3, Zenon DEF InHeader, Compared
    <3>2. Halves(w) = <<SeqMid(pkt.seq), 0>>
      BY <1>2, <2>3, HeaderHalves
    <3>3. state_q # "SEQ_NUM_2"
      BY <1>2, <2>3
    <3> QED BY <1>3, <2>3, <3>1, <3>2, <3>3, Zenon DEF Expected
  <2> QED BY <2>1, <2>2, <2>3
<1> HIDE DEF w
<1> QED BY <1>1, <1>4, <1>5, Zenon

(* What the parser has seen and what it compares next. *)
LEMMA HeaderSeen ==
  ASSUME IInv, Moves, HeaderWord(Word(pkt, at)), Expected(Word(pkt, at)), pkt' = pkt
  PROVE  Seen' /\ Compared'
<1> DEFINE w == Word(pkt, at)
           s == pkt.session_id
           q == session_id_q
<1>1. /\ session_id_q' = IF InSession /\ first_pkt_flag_q THEN Learned(w) ELSE q
      /\ compare_q' = IF first_pkt_flag_q /\ state_q \in {"IDLE", "SESSION_1"}
                      THEN compare_q ELSE NextCompare
      /\ first_pkt_flag_q' = (first_pkt_flag_q /\ state_q # "SEQ_NUM_1")
      /\ seq_expect_q' = seq_expect_q
  BY Zenon DEF HeaderWord
<1>2. /\ InHeader /\ at' = at + 1
      /\ \/ at = 0 /\ state_q = "IDLE" /\ InSession
         \/ at = 1 /\ state_q = "SESSION_1" /\ InSession
         \/ at = 2 /\ state_q = "SESSION_2" /\ InSession
         \/ at = 3 /\ state_q = "SEQ_NUM_1" /\ ~InSession
  BY HeaderPlaces
<1>3. /\ \A i \in 1 .. 5 : i <= 2 * at => q[i] = s[i]
      /\ first_pkt_flag_q => at <= 3 /\ seq_expect_q = 1 /\ SeqTop(pkt.seq) = 0
      /\ at >= 3 => SeqTop(pkt.seq) = SeqTop(seq_expect_q)
  BY <1>2 DEF InHeader, Seen
<1>4. q \in [1 .. 5 -> Nat] /\ s \in [1 .. 5 -> Nat]
  BY MovedFacts, RecordFacts DEF IInv, Registers
<1>5. ~(InSession /\ first_pkt_flag_q) => compare_q = Halves(w)
  <2>1. state_q # "SEQ_NUM_2"
    BY <1>2
  <2> QED BY <2>1, Zenon DEF Expected
<1>6. w.hi = Halves(w)[1] /\ w.lo = Halves(w)[2]
  BY DEF Halves
<1>7. CASE at = 0
  <2>1. state_q = "IDLE" /\ InSession /\ at' = 1
    BY <1>2, <1>7
  <2>2. Halves(w) = <<s[1], s[2]>>
    BY <1>7, HeaderHalves
  <2>3. w.hi = s[1] /\ w.lo = s[2]
    BY <1>6, <2>2
  <2> HIDE DEF w
  <2>4. session_id_q'[1] = s[1] /\ session_id_q'[2] = s[2]
    <3>1. CASE first_pkt_flag_q
      <4>1. session_id_q' = [q EXCEPT ![1] = w.hi, ![2] = w.lo]
        BY <1>1, <2>1, <3>1, Zenon DEF Learned
      <4> QED BY <1>4, <2>3, <4>1
    <3>2. CASE ~first_pkt_flag_q
      <4>1. compare_q = <<q[1], q[2]>>
        BY <1>2, <1>7, <3>2, Zenon DEF InHeader, Compared
      <4> QED BY <1>1, <1>5, <2>2, <3>2, <4>1
    <3> QED BY <3>1, <3>2
  <2>5. first_pkt_flag_q' \/ compare_q' = <<session_id_q'[3], session_id_q'[4]>>
    <3>1. ~first_pkt_flag_q => compare_q' = <<q[3], q[4]>>
      BY <1>1, <2>1, Zenon DEF NextCompare
    <3>2. "IDLE" # "SEQ_NUM_1"
      OBVIOUS
    <3> QED BY <1>1, <2>1, <3>1, <3>2, Zenon
  <2>6. Seen'
    <3>1. \A i \in 1 .. 5 : i <= 2 * at' => i = 1 \/ i = 2
      BY <2>1
    <3>2. \A i \in 1 .. 5 : i <= 2 * at' => session_id_q'[i] = s[i]
      BY <2>4, <3>1, Zenon
    <3>3. at' <= 3 /\ ~(at' >= 3) /\ at' # 4
      BY <2>1
    <3>4. first_pkt_flag_q' => seq_expect_q' = 1 /\ SeqTop(pkt.seq) = 0
      BY <1>1, <1>3, Zenon
    <3> QED BY pkt' = pkt, <3>2, <3>3, <3>4, Zenon DEF Seen
  <2>7. Compared'
    <3>1. at' # 0 /\ at' # 2 /\ at' # 3 /\ at' # 4
      BY <2>1
    <3> QED BY <2>5, <3>1, Zenon DEF Compared
  <2> QED BY <2>6, <2>7
<1>8. CASE at = 1
  <2>1. state_q = "SESSION_1" /\ InSession /\ at' = 2
    BY <1>2, <1>8
  <2>2. Halves(w) = <<s[3], s[4]>>
    BY <1>8, HeaderHalves
  <2>3. w.hi = s[3] /\ w.lo = s[4]
    BY <1>6, <2>2
  <2> HIDE DEF w
  <2>4. q[1] = s[1] /\ q[2] = s[2]
    BY <1>3, <1>8
  <2>5. /\ session_id_q'[1] = s[1] /\ session_id_q'[2] = s[2]
        /\ session_id_q'[3] = s[3] /\ session_id_q'[4] = s[4]
    <3>1. CASE first_pkt_flag_q
      <4>1. "SESSION_1" # "IDLE"
        OBVIOUS
      <4>2. session_id_q' = [q EXCEPT ![3] = w.hi, ![4] = w.lo]
        BY <1>1, <2>1, <3>1, <4>1, Zenon DEF Learned
      <4> QED BY <1>4, <2>3, <2>4, <4>2
    <3>2. CASE ~first_pkt_flag_q
      <4>1. compare_q = <<q[3], q[4]>>
        BY <1>2, <1>8, <3>2, Zenon DEF InHeader, Compared
      <4>2. <<q[3], q[4]>> = <<s[3], s[4]>> /\ session_id_q' = q
        BY <1>1, <1>5, <2>2, <3>2, <4>1, Zenon
      <4> QED BY <2>4, <4>2
    <3> QED BY <3>1, <3>2
  <2>6. first_pkt_flag_q' \/ compare_q' = <<session_id_q'[5], SeqTop(seq_expect_q')>>
    <3>1. "SESSION_1" # "SEQ_NUM_1" /\ "SESSION_1" # "IDLE"
      OBVIOUS
    <3>2. ~first_pkt_flag_q => compare_q' = <<q[5], SeqTop(seq_expect_q)>>
      BY <1>1, <2>1, <3>1, Zenon DEF NextCompare
    <3> QED BY <1>1, <2>1, <3>1, <3>2, Zenon
  <2>7. Seen'
    <3>1. \A i \in 1 .. 5 : i <= 2 * at' => i = 1 \/ i = 2 \/ i = 3 \/ i = 4
      BY <2>1
    <3>2. \A i \in 1 .. 5 : i <= 2 * at' => session_id_q'[i] = s[i]
      BY <2>5, <3>1, Zenon
    <3>3. at' <= 3 /\ ~(at' >= 3) /\ at' # 4
      BY <2>1
    <3>4. first_pkt_flag_q' => seq_expect_q' = 1 /\ SeqTop(pkt.seq) = 0
      BY <1>1, <1>3, Zenon
    <3> QED BY pkt' = pkt, <3>2, <3>3, <3>4, Zenon DEF Seen
  <2>8. Compared'
    <3>1. at' # 0 /\ at' # 1 /\ at' # 3 /\ at' # 4
      BY <2>1
    <3>2. first_pkt_flag_q' \/ compare_q' = <<session_id_q'[5], SeqTop(seq_expect_q)'>>
      BY <2>6 DEF SeqTop
    <3> QED BY <3>1, <3>2, Zenon DEF Compared
  <2> QED BY <2>7, <2>8
<1>9. CASE at = 2
  <2>1. state_q = "SESSION_2" /\ InSession /\ at' = 3
    BY <1>2, <1>9
  <2>2. Halves(w) = <<s[5], SeqTop(pkt.seq)>>
    BY <1>9, HeaderHalves
  <2>3. w.hi = s[5]
    BY <1>6, <2>2
  <2> HIDE DEF w
  <2>4. q[1] = s[1] /\ q[2] = s[2] /\ q[3] = s[3] /\ q[4] = s[4]
    BY <1>3, <1>9
  <2>5. /\ session_id_q'[1] = s[1] /\ session_id_q'[2] = s[2]
        /\ session_id_q'[3] = s[3] /\ session_id_q'[4] = s[4] /\ session_id_q'[5] = s[5]
        /\ SeqTop(pkt.seq) = SeqTop(seq_expect_q)
    <3>1. CASE first_pkt_flag_q
      <4>1. "SESSION_2" # "IDLE" /\ "SESSION_2" # "SESSION_1"
        OBVIOUS
      <4>2. session_id_q' = [q EXCEPT ![5] = w.hi]
        BY <1>1, <2>1, <3>1, <4>1, Zenon DEF Learned
      <4>3. SeqTop(pkt.seq) = SeqTop(seq_expect_q)
        BY <1>3, <3>1, TopOfOne
      <4> QED BY <1>4, <2>3, <2>4, <4>2, <4>3
    <3>2. CASE ~first_pkt_flag_q
      <4>1. compare_q = <<q[5], SeqTop(seq_expect_q)>>
        BY <1>2, <1>9, <3>2, Zenon DEF InHeader, Compared
      <4>2. <<q[5], SeqTop(seq_expect_q)>> = <<s[5], SeqTop(pkt.seq)>> /\ session_id_q' = q
        BY <1>1, <1>5, <2>2, <3>2, <4>1, Zenon
      <4> QED BY <2>4, <4>2
    <3> QED BY <3>1, <3>2
  <2>6. compare_q' = <<SeqMid(seq_expect_q)', 0>>
    <3>1. "SESSION_2" # "IDLE" /\ "SESSION_2" # "SESSION_1" /\ "SESSION_2" # "SEQ_NUM_1"
      OBVIOUS
    <3>2. compare_q' = NextCompare
      BY <1>1, <2>1, <3>1, Zenon
    <3>3. NextCompare = <<SeqMid(seq_expect_q), 0>>
      BY <2>1, <3>1, Zenon DEF NextCompare
    <3> QED BY <1>1, <3>2, <3>3 DEF SeqMid
  <2>7. Seen'
    <3>1. \A i \in 1 .. 5 : i = 1 \/ i = 2 \/ i = 3 \/ i = 4 \/ i = 5
      OBVIOUS
    <3>2. \A i \in 1 .. 5 : session_id_q'[i] = s[i]
      BY <2>5, <3>1, Zenon
    <3>3. at' <= 3 /\ at' # 4
      BY <2>1
    <3>4. first_pkt_flag_q' => seq_expect_q' = 1 /\ SeqTop(pkt.seq) = 0
      BY <1>1, <1>3, Zenon
    <3>5. SeqTop(pkt.seq) = SeqTop(seq_expect_q')
      BY <1>1, <2>5, Zenon
    <3> QED BY pkt' = pkt, <3>2, <3>3, <3>4, <3>5, Zenon DEF Seen
  <2>8. Compared'
    <3>1. at' # 0 /\ at' # 1 /\ at' # 2 /\ at' # 4
      BY <2>1
    <3> QED BY <2>6, <3>1, Zenon DEF Compared
  <2> QED BY <2>7, <2>8
<1>10. CASE at = 3
  <2>1. state_q = "SEQ_NUM_1" /\ ~InSession /\ at' = 4
    BY <1>2, <1>10
  <2>2. Halves(w) = <<SeqMid(pkt.seq), 0>>
    BY <1>10, HeaderHalves
  <2> HIDE DEF w
  <2>3. \A i \in 1 .. 5 : q[i] = s[i]
    BY <1>3, <1>10
  <2>4. SeqMid(pkt.seq) = SeqMid(seq_expect_q)
    <3>1. compare_q = <<SeqMid(seq_expect_q), 0>>
      BY <1>2, <1>10, Zenon DEF InHeader, Compared
    <3>2. <<SeqMid(seq_expect_q), 0>> = <<SeqMid(pkt.seq), 0>>
      BY <1>5, <2>1, <2>2, <3>1, Zenon
    <3> QED BY <3>2
  <2>5. SeqTop(pkt.seq) = SeqTop(seq_expect_q)
    BY <1>3, <1>10
  <2>6. session_id_q' = q /\ ~first_pkt_flag_q'
    BY <1>1, <2>1, Zenon
  <2>7. compare_q' = <<SeqLow(seq_expect_q)', 0>>
    <3>1. "SEQ_NUM_1" # "IDLE" /\ "SEQ_NUM_1" # "SESSION_1" /\ "SEQ_NUM_1" # "SESSION_2"
      OBVIOUS
    <3>2. compare_q' = NextCompare
      BY <1>1, <2>1, <3>1, Zenon
    <3>3. NextCompare = <<SeqLow(seq_expect_q), 0>>
      BY <2>1, <3>1, Zenon DEF NextCompare
    <3> QED BY <1>1, <3>2, <3>3 DEF SeqLow
  <2>8. Seen'
    <3>1. SeqTop(pkt.seq) = SeqTop(seq_expect_q') /\ SeqMid(pkt.seq) = SeqMid(seq_expect_q')
      BY <1>1, <2>4, <2>5, Zenon
    <3> QED BY pkt' = pkt, <2>3, <2>6, <3>1, Zenon DEF Seen
  <2>9. Compared'
    <3>1. at' # 0 /\ at' # 1 /\ at' # 2 /\ at' # 3
      BY <2>1
    <3> QED BY <2>7, <3>1, Zenon DEF Compared
  <2> QED BY <2>8, <2>9
<1> QED BY <1>2, <1>7, <1>8, <1>9, <1>10

LEMMA HeaderWordStep ==
  ASSUME IInv, Moves, HeaderWord(Word(pkt, at))
  PROVE  IInv'
<1> DEFINE w == Word(pkt, at)
<1>1. TypeOK' /\ Registers'
  BY HeaderTypes
<1>2. CASE np_error'
  BY <1>1, <1>2, HeaderNotDue, Reported
<1>3. CASE ~np_error'
  <2>1. Expected(w) /\ w.tlast = FALSE
    <3>1. np_error' = ((~Expected(w)) \/ w.tlast # FALSE \/ w.tkeep # 4)
      BY Zenon DEF HeaderWord, Check
    <3> QED BY <1>3, <3>1, Zenon
  <2>2. ~failed' /\ answer' = answer /\ seq_expected' = seq_expected
        /\ session_id' = session_id /\ first_pkt_received' = first_pkt_received
    BY <1>3 DEF Moves
  <2>3. ~LastOnWire /\ pkt' = pkt /\ PacketComes' /\ pkt # NoPkt
    BY <2>1, MovedFacts DEF Moves
  <2>4. Seen' /\ Compared'
    BY <2>1, <2>3, HeaderSeen
  <2>5. InHeader /\ Place' /\ passed' = 0
    BY HeaderPlaces
  <2>6. /\ session_id_q' = IF InSession /\ first_pkt_flag_q THEN Learned(w) ELSE session_id_q
        /\ first_pkt_flag_q' = (first_pkt_flag_q /\ state_q # "SEQ_NUM_1")
        /\ seq_expect_q' = seq_expect_q
    BY Zenon DEF HeaderWord
  <2>7. \/ InSession /\ state_q # "SEQ_NUM_1"
        \/ at = 3 /\ state_q = "SEQ_NUM_1" /\ ~InSession
    BY HeaderPlaces
  <2> HIDE DEF w
  <2>8. first_pkt_flag_q' \/ session_id_q' = pkt.session_id <=>
        first_pkt_flag_q \/ session_id_q = pkt.session_id
    <3>1. CASE InSession /\ state_q # "SEQ_NUM_1"
      BY <2>6, <3>1, Zenon
    <3>2. CASE at = 3 /\ state_q = "SEQ_NUM_1" /\ ~InSession
      <4>1. \A i \in 1 .. 5 : session_id_q[i] = pkt.session_id[i]
        BY <2>5, <3>2 DEF InHeader, Seen
      <4>2. session_id_q \in [1 .. 5 -> Nat] /\ pkt.session_id \in [1 .. 5 -> Nat]
        BY MovedFacts, RecordFacts DEF IInv, Registers
      <4>3. session_id_q = pkt.session_id
        BY <4>1, <4>2
      <4> QED BY <2>6, <3>2, <4>3, Zenon
    <3> QED BY <2>7, <3>1, <3>2
  <2>9. AcceptedInHeader'
    <3>1. AcceptedInHeader
      BY <2>5 DEF InHeader
    <3> QED BY <2>2, <2>3, <2>6, <2>8, <3>1, Zenon DEF AcceptedInHeader
  <2>10. InHeader'
    BY <2>4, <2>5, <2>9, Zenon DEF InHeader
  <2>11. answer = "ok" => first_pkt_received /\ session_id = pkt.session_id
    BY <2>3, Zenon DEF IInv, Follows, Moves
  <2>12. Follows'
    BY <2>2, <2>3, <2>10, <2>11, Zenon DEF Follows
  <2>13. Between' /\ NoFalseAlarm'
    BY <2>2, <2>3, Zenon DEF Between, AgreesBetweenPackets, NoPkt, NoFalseAlarm
  <2> QED BY <1>1, <2>3, <2>12, <2>13 DEF IInv
<1> QED BY <1>2, <1>3

(* The number in a header is the expected one when its parts are. *)
LEMMA CountSeen ==
  ASSUME IInv, Moves, state_q = "SEQ_NUM_2"
  PROVE  /\ InHeader /\ at = 4 /\ ~first_pkt_flag_q /\ session_id_q = pkt.session_id
         /\ Word(pkt, at).lo = Len(pkt.lens)
         /\ Expected(Word(pkt, at)) <=> pkt.seq = seq_expect_q
         /\ answer = "ok" <=> pkt.total = Whole(pkt.lens) /\ pkt.seq = seq_expect_q
<1> DEFINE w == Word(pkt, at)
<1>1. state_q # "MSG" /\ ~InSession
  BY DEF InSession
<1>2. InHeader
  BY <1>1, Where
<1>3. at = 4
  BY <1>2 DEF InHeader, Place
<1>4. ~first_pkt_flag_q
  BY <1>2, <1>3 DEF InHeader, Seen
<1>5. session_id_q = pkt.session_id
  <2>1. \A i \in 1 .. 5 : session_id_q[i] = pkt.session_id[i]
    BY <1>2, <1>3 DEF InHeader, Seen
  <2>2. session_id_q \in [1 .. 5 -> Nat] /\ pkt.session_id \in [1 .. 5 -> Nat]
    BY MovedFacts, RecordFacts DEF IInv, Registers
  <2> QED BY <2>1, <2>2
<1>6. w.hi = SeqLow(pkt.seq) /\ w.lo = Len(pkt.lens)
  <2>1. Halves(w) = <<SeqLow(pkt.seq), Len(pkt.lens)>>
    BY <1>3, HeaderHalves
  <2>2. w.hi = Halves(w)[1] /\ w.lo = Halves(w)[2]
    BY DEF Halves
  <2> HIDE DEF w
  <2> QED BY <2>1, <2>2
<1>7. Expected(w) <=> pkt.seq = seq_expect_q
  <2>1. compare_q[1] = SeqLow(seq_expect_q)
    <3>1. compare_q = <<SeqLow(seq_expect_q), 0>>
      BY <1>2, <1>3, Zenon DEF InHeader, Compared
    <3> QED BY <3>1
  <2>2. Expected(w) <=> SeqLow(seq_expect_q) = SeqLow(pkt.seq)
    BY <1>1, <1>6, <2>1, Zenon DEF Expected
  <2>3. SeqMid(pkt.seq) = SeqMid(seq_expect_q) /\ SeqTop(pkt.seq) = SeqTop(seq_expect_q)
    BY <1>2, <1>3 DEF InHeader, Seen
  <2>4. pkt.seq \in Nat /\ seq_expect_q \in Nat
    <3>1. seq_expect_q \in 1 .. MaxSeq
      BY DEF IInv, Moves, Registers
    <3>2. pkt.seq \in Nat
      BY MovedFacts, RecordFacts
    <3> QED BY <3>1, <3>2, FeedAssumption
  <2>5. SeqLow(seq_expect_q) = SeqLow(pkt.seq) => pkt.seq = seq_expect_q
    BY <2>3, <2>4, SameSeq
  <2> QED BY <2>2, <2>5
<1>8. answer = "ok" <=> pkt.total = Whole(pkt.lens) /\ pkt.seq = seq_expect_q
  BY <1>2, <1>4, <1>5, Zenon DEF InHeader, AcceptedInHeader
<1> HIDE DEF w
<1> QED BY <1>2, <1>3, <1>4, <1>5, <1>6, <1>7, <1>8 DEF w

(* A packet has messages exactly if they take bytes. *)
LEMMA NoMessages ==
  ASSUME NEW lens \in Lens
  PROVE  /\ Len(lens) = 0 <=> MsgBytes(lens) = 0
         /\ Start(lens, 0) = 0
<1>1. Len(lens) \in 0 .. MaxCount /\ MsgBytes(lens) \in Nat /\ MsgBytes(lens) = Start(lens, Len(lens))
  BY LensFacts
<1>2. Start(lens, 0) = 0
  BY StartFacts
<1>3. 0 \in 0 .. Len(lens) /\ Len(lens) \in 0 .. Len(lens) /\ Len(lens) \in Nat
  BY <1>1
<1>4. 0 < Len(lens) => Start(lens, 0) + 6 <= Start(lens, Len(lens))
  BY <1>3, StartsApart
<1> QED BY <1>1, <1>2, <1>3, <1>4

LEMMA CountTypes ==
  ASSUME IInv, Moves, CountWord(Word(pkt, at))
  PROVE  TypeOK' /\ Registers'
<1> DEFINE w == Word(pkt, at)
<1>1. /\ session_id_q' = session_id_q /\ first_pkt_flag_q' = first_pkt_flag_q
      /\ ip_data_v_o' = FALSE /\ seq_expect_q' = seq_expect_q + w.lo /\ msg_left_q' = w.lo
      /\ IF w.lo = 0 THEN state_q' = "IDLE" /\ bytes_left_q' = bytes_left_q
                     ELSE state_q' = "MSG" /\ bytes_left_q' = 1
      /\ np_error' = ((~Expected(w)) \/ w.tlast # (w.lo = 0) \/ w.tkeep # 4)
      /\ state_q = "SEQ_NUM_2"
  BY Zenon DEF CountWord, Check
<1>2. TypeOK /\ Registers /\ failed = FALSE /\ seq_expect_q \in 1 .. MaxSeq
  BY Zenon DEF IInv, Moves, TypeOK, Registers
<1>3. at' = at + 1 /\ passed' = passed /\ failed' = np_error'
  BY <1>1, Zenon DEF Moves
<1>4. /\ w.lo = Len(pkt.lens) /\ (Expected(w) <=> pkt.seq = seq_expect_q)
  BY <1>1, CountSeen
<1>5. Len(pkt.lens) \in 0 .. MaxCount /\ pkt.seq + Len(pkt.lens) <= MaxSeq
  BY MovedFacts, RecordFacts
<1>6. np_error' \in BOOLEAN
  BY <1>1, Zenon
<1>7. np_error' \/ pkt.seq = seq_expect_q
  BY <1>1, <1>4, Zenon
<1> HIDE DEF w
<1>8. TypeOK'
  <2>1. {first_pkt_flag_q', ip_data_v_o', np_error', failed'} \subseteq BOOLEAN
    BY <1>1, <1>2, <1>3, <1>6, Zenon DEF TypeOK
  <2>2. passed' <= at'
    BY <1>2, <1>3 DEF TypeOK, Registers
  <2>3. state_q' \in States /\ bytes_left_q' \in 0 .. 255
    BY <1>1, <1>2 DEF TypeOK, States
  <2>4. seq_expect_q' \in 1 .. MaxSeq + MaxCount /\ msg_left_q' \in 0 .. MaxCount
    BY <1>1, <1>2, <1>4, <1>5, FeedAssumption
  <2> QED BY <2>1, <2>2, <2>3, <2>4 DEF TypeOK
<1>9. Registers'
  <2>1. np_error' \/ seq_expect_q' \in 1 .. MaxSeq
    BY <1>1, <1>2, <1>4, <1>5, <1>7, FeedAssumption
  <2> QED BY <1>1, <1>2, <1>3, <2>1 DEF Registers
<1> QED BY <1>8, <1>9

LEMMA CountNotDue ==
  ASSUME IInv, Moves, CountWord(Word(pkt, at)), answer = "ok"
  PROVE  ~np_error'
<1> DEFINE w == Word(pkt, at)
<1>1. /\ np_error' = ((~Expected(w)) \/ w.tlast # (w.lo = 0) \/ w.tkeep # 4)
      /\ state_q = "SEQ_NUM_2"
  BY Zenon DEF CountWord, Check
<1>2. /\ at = 4 /\ w.lo = Len(pkt.lens) /\ Expected(w) /\ pkt.total = Whole(pkt.lens)
  BY <1>1, CountSeen
<1>3. Whole(pkt.lens) = 20 + MsgBytes(pkt.lens) /\ MsgBytes(pkt.lens) \in Nat /\ pkt.lens \in Lens
  BY MovedFacts, RecordFacts
<1>4. Len(pkt.lens) = 0 <=> MsgBytes(pkt.lens) = 0
  BY <1>3, NoMessages
<1>5. /\ w.tlast = LastOnWire /\ (LastOnWire <=> pkt.total <= 4 * at + 4)
      /\ w.tkeep = IF LastOnWire THEN pkt.total - 4 * at ELSE 4
  BY MovedFacts
<1> HIDE DEF w, LastOnWire, Whole
<1>6. LastOnWire <=> w.lo = 0
  BY <1>2, <1>3, <1>4, <1>5
<1>7. w.tkeep = 4
  BY <1>2, <1>3, <1>4, <1>5, <1>6
<1>8. w.tlast = (w.lo = 0)
  <2>1. LastOnWire \in BOOLEAN
    BY Zenon DEF LastOnWire
  <2> QED BY <1>5, <1>6, <2>1, Zenon
<1> QED BY <1>1, <1>2, <1>7, <1>8, Zenon

LEMMA CountWordStep ==
  ASSUME IInv, Moves, CountWord(Word(pkt, at))
  PROVE  IInv'
<1> DEFINE w == Word(pkt, at)
<1>1. TypeOK' /\ Registers'
  BY CountTypes
<1>2. CASE np_error'
  BY <1>1, <1>2, CountNotDue, Reported
<1>3. CASE ~np_error'
  <2>1. /\ session_id_q' = session_id_q /\ first_pkt_flag_q' = first_pkt_flag_q
        /\ compare_q' = <<session_id_q[1], session_id_q[2]>>
        /\ ip_data_v_o' = FALSE /\ seq_expect_q' = seq_expect_q + w.lo /\ msg_left_q' = w.lo
        /\ IF w.lo = 0 THEN state_q' = "IDLE" /\ bytes_left_q' = bytes_left_q
                       ELSE state_q' = "MSG" /\ bytes_left_q' = 1
        /\ state_q = "SEQ_NUM_2"
        /\ Expected(w) /\ w.tlast = (w.lo = 0) /\ w.tkeep = 4
    <3>1. np_error' = ((~Expected(w)) \/ w.tlast # (w.lo = 0) \/ w.tkeep # 4)
      BY Zenon DEF CountWord, Check
    <3>2. Expected(w) /\ w.tlast = (w.lo = 0) /\ w.tkeep = 4
      BY <1>3, <3>1, Zenon
    <3> QED BY <3>2, Zenon DEF CountWord
  <2>2. /\ ~failed' /\ answer' = answer /\ seq_expected' = seq_expected /\ session_id' = session_id
        /\ first_pkt_received' = first_pkt_received /\ at' = at + 1 /\ passed' = passed
        /\ pkt # NoPkt
    BY <1>3, <2>1, Zenon DEF Moves
  <2>3. /\ InHeader /\ at = 4 /\ ~first_pkt_flag_q /\ session_id_q = pkt.session_id
        /\ w.lo = Len(pkt.lens) /\ pkt.seq = seq_expect_q
        /\ answer = "ok" <=> pkt.total = Whole(pkt.lens)
    BY <2>1, CountSeen
  <2>4. passed = 0 /\ (answer = "ok" => seq_expected = seq_expect_q + Len(pkt.lens))
    BY <2>3, Zenon DEF InHeader, AcceptedInHeader
  <2>5. answer = "ok" => first_pkt_received /\ session_id = pkt.session_id
    BY Zenon DEF IInv, Follows, Moves
  <2>6. /\ w.tlast = LastOnWire
        /\ w.tkeep = IF LastOnWire THEN pkt.total - 4 * at ELSE 4
        /\ IF LastOnWire THEN pkt' = NoPkt ELSE pkt' = pkt
        /\ pkt.total \in Nat /\ PacketComes'
    BY MovedFacts
  <2>7. /\ Len(pkt.lens) \in 0 .. MaxCount /\ pkt.lens \in Lens
        /\ Whole(pkt.lens) = 20 + MsgBytes(pkt.lens)
    BY MovedFacts, RecordFacts
  <2>8. (Len(pkt.lens) = 0 <=> MsgBytes(pkt.lens) = 0) /\ Start(pkt.lens, 0) = 0
    BY <2>7, NoMessages
  <2> HIDE DEF w
  <2>9. CASE w.lo = 0
    <3>1. LastOnWire
      BY <2>1, <2>6, <2>9, Zenon
    <3>2. pkt' = NoPkt /\ pkt.total - 4 * at = 4
      BY <2>1, <2>6, <3>1, Zenon
    <3>3. pkt.total = Whole(pkt.lens)
      <4> HIDE DEF Whole
      <4>1. MsgBytes(pkt.lens) = 0
        BY <2>3, <2>8, <2>9
      <4> QED BY <2>3, <2>6, <2>7, <3>2, <4>1
    <3>4. answer = "ok"
      BY <2>3, <3>3, Zenon
    <3>5. seq_expect_q' = seq_expected'
      BY <2>1, <2>2, <2>3, <2>4, <3>4, Zenon
    <3>6. passed' = at' - 5
      BY <2>2, <2>3, <2>4
    <3>7. AgreesBetweenPackets'
      <4>1. first_pkt_flag_q' = (~first_pkt_received')
        <5>1. first_pkt_flag_q' \in BOOLEAN
          BY <1>1, Zenon DEF TypeOK
        <5> QED BY <2>1, <2>2, <2>3, <2>5, <3>4, <5>1, Zenon
      <4>2. session_id_q' = session_id' /\ compare_q' = <<session_id'[1], session_id'[2]>>
        BY <2>1, <2>2, <2>3, <2>5, <3>4, Zenon
      <4>3. state_q' = "IDLE"
        BY <2>1, <2>9, Zenon
      <4> QED BY <3>5, <3>6, <4>1, <4>2, <4>3, Zenon DEF AgreesBetweenPackets
    <3>8. Between' /\ NoFalseAlarm' /\ Follows'
      BY <2>1, <2>2, <2>3, <3>2, <3>4, <3>7, Zenon DEF Between, NoFalseAlarm, Follows
    <3> QED BY <1>1, <2>6, <3>8 DEF IInv
  <2>10. CASE w.lo # 0
    <3>1. ~LastOnWire /\ pkt' = pkt
      BY <2>1, <2>6, <2>10, Zenon
    <3>2. /\ state_q' = "MSG" /\ at' >= 5 /\ passed' = at' - 5 /\ 4 * (at' - 5) + bytes_left_q' = 1
          /\ msg_left_q' = Len(pkt.lens) /\ msg_left_q' # 0 /\ Len(pkt.lens) - msg_left_q' = 0
          /\ msg_left_q' \in 0 .. Len(pkt.lens)
      BY <2>1, <2>2, <2>3, <2>4, <2>7, <2>10
    <3>3. 4 * (at' - 5) + bytes_left_q' = Start(pkt.lens, Len(pkt.lens) - msg_left_q') + 1
      BY <2>8, <3>2
    <3>4. Start(pkt.lens, Len(pkt.lens) - msg_left_q)'
          = Start(pkt.lens, Len(pkt.lens) - msg_left_q')
      BY <3>1 DEF Start
    <3>5. answer = "ok" => seq_expected' = seq_expect_q'
      BY <2>1, <2>2, <2>3, <2>4, Zenon
    <3>6. Whole(pkt.lens)' = Whole(pkt.lens)
      BY <3>1 DEF Whole
    <3>7. InPayload'
      BY <2>1, <2>2, <2>3, <3>1, <3>2, <3>3, <3>4, <3>5, <3>6, Zenon DEF InPayload
    <3>8. Between' /\ NoFalseAlarm' /\ Follows'
      BY <2>2, <2>5, <3>1, <3>7, Zenon
      DEF Between, AgreesBetweenPackets, NoFalseAlarm, Follows, NoPkt
    <3> QED BY <1>1, <2>6, <3>8 DEF IInv
  <2> QED BY <2>9, <2>10
<1> QED BY <1>2, <1>3

(* The parser's place among the messages of the packet. *)
LEMMA PayloadFacts ==
  ASSUME IInv, Moves, state_q = "MSG"
  PROVE  /\ InPayload /\ at \in Nat /\ at >= 5 /\ bytes_left_q \in 0 .. 255
         /\ Len(pkt.lens) \in Nat /\ msg_left_q \in 0 .. Len(pkt.lens)
         /\ Start(pkt.lens, Len(pkt.lens) - msg_left_q) \in Nat
         /\ 4 * (at - 5) + bytes_left_q = Start(pkt.lens, Len(pkt.lens) - msg_left_q) + 1
         /\ msg_left_q = 0 => bytes_left_q >= 2
         /\ msg_left_q > 0 => /\ Start(pkt.lens, Len(pkt.lens) - msg_left_q) + 6 <= MsgBytes(pkt.lens)
         /\ msg_left_q = 0 => Start(pkt.lens, Len(pkt.lens) - msg_left_q) = MsgBytes(pkt.lens)
         /\ MsgBytes(pkt.lens) \in Nat /\ Whole(pkt.lens) = 20 + MsgBytes(pkt.lens)
<1>1. InPayload /\ TypeOK /\ at \in Nat
  BY Where DEF IInv, Registers
<1>2. /\ at >= 5 /\ bytes_left_q \in 0 .. 255 /\ msg_left_q \in 0 .. Len(pkt.lens)
      /\ 4 * (at - 5) + bytes_left_q = Start(pkt.lens, Len(pkt.lens) - msg_left_q) + 1
      /\ msg_left_q = 0 => bytes_left_q >= 2
  BY <1>1 DEF InPayload, TypeOK
<1>3. /\ Len(pkt.lens) \in Nat /\ pkt.lens \in Lens /\ MsgBytes(pkt.lens) \in Nat
      /\ Whole(pkt.lens) = 20 + MsgBytes(pkt.lens)
      /\ MsgBytes(pkt.lens) = Start(pkt.lens, Len(pkt.lens))
  BY MovedFacts, RecordFacts
<1> DEFINE k == Len(pkt.lens) - msg_left_q
<1>4. k \in 0 .. Len(pkt.lens) /\ Len(pkt.lens) \in 0 .. Len(pkt.lens)
      /\ (msg_left_q > 0 => k < Len(pkt.lens)) /\ (msg_left_q = 0 => k = Len(pkt.lens))
  BY <1>2, <1>3
<1> HIDE DEF k
<1>5. Start(pkt.lens, k) \in Nat
      /\ (k < Len(pkt.lens) => Start(pkt.lens, k) + 6 <= Start(pkt.lens, Len(pkt.lens)))
  BY <1>3, <1>4, StartsApart
<1>6. /\ msg_left_q > 0 => Start(pkt.lens, k) + 6 <= MsgBytes(pkt.lens)
      /\ msg_left_q = 0 => Start(pkt.lens, k) = MsgBytes(pkt.lens)
  BY <1>3, <1>4, <1>5
<1> QED BY <1>1, <1>2, <1>3, <1>5, <1>6 DEF k

(* The byte it reads is the length of the next message, which begins where *)
(* the last one ends.                                                      *)
LEMMA NextLength ==
  ASSUME IInv, Moves, state_q = "MSG", LengthWord
  PROVE  LET k == Len(pkt.lens) - msg_left_q
             len == Word(pkt, at).byte[bytes_left_q % 4]
         IN  len \in 4 .. 254 /\ Start(pkt.lens, k + 1) = Start(pkt.lens, k) + len + 2
<1> DEFINE k == Len(pkt.lens) - msg_left_q
           b == bytes_left_q
           len == Word(pkt, at).byte[b % 4]
<1>1. /\ b \in 0 .. 255 /\ Len(pkt.lens) \in Nat /\ msg_left_q \in 0 .. Len(pkt.lens)
      /\ 4 * (at - 5) + b = Start(pkt.lens, k) + 1 /\ b < 4 /\ msg_left_q > 0
  BY PayloadFacts DEF LengthWord
<1>2. b % 4 = b /\ b \in 0 .. 3 /\ k \in 0 .. Len(pkt.lens) - 1
  BY <1>1
<1>3. len = LengthAt(pkt.lens, 4 * (at - 5) + b)
  <2>1. Word(pkt, at).byte[b] = LengthAt(pkt.lens, 4 * (at - 5) + b)
    BY <1>2, WordBytes
  <2> QED BY <1>2, <2>1, Zenon
<1>4. pkt.lens \in Lens
  BY MovedFacts, RecordFacts
<1> HIDE DEF k, len
<1>5. LengthAt(pkt.lens, Start(pkt.lens, k) + 1) = pkt.lens[k + 1]
  BY <1>2, <1>4, LengthByte
<1>6. Start(pkt.lens, k + 1) = Start(pkt.lens, k) + pkt.lens[k + 1] + 2
  BY <1>2, <1>4, StartFacts
<1>7. pkt.lens[k + 1] \in 4 .. 254
  <2>1. 0 \in 0 .. Len(pkt.lens)
    BY <1>1
  <2>2. pkt.lens \in [1 .. Len(pkt.lens) -> Lengths]
    BY <1>4, <2>1, PrefixFacts
  <2>3. k + 1 \in 1 .. Len(pkt.lens)
    BY <1>1, <1>2
  <2>4. pkt.lens[k + 1] \in Lengths
    BY <2>2, <2>3
  <2> QED BY <2>4, FeedAssumption
<1>8. len = pkt.lens[k + 1]
  BY <1>1, <1>3, <1>5
<1> QED BY <1>6, <1>7, <1>8 DEF k, len

(* bytes_left_q after the word never wraps. *)
LEMMA BytesLeftIs ==
  ASSUME IInv, Moves, state_q = "MSG"
  PROVE  LET w == Word(pkt, at)
         IN  /\ BytesLeft(w) \in 0 .. 255
             /\ LengthWord => BytesLeft(w) = w.byte[bytes_left_q % 4] + bytes_left_q - 2
             /\ ~LastWord /\ ~LengthWord => /\ BytesLeft(w) = bytes_left_q - 4
                                            /\ msg_left_q = 0 => bytes_left_q >= 6
<1> DEFINE w == Word(pkt, at)
           b == bytes_left_q
           len == w.byte[b % 4]
<1>1. b \in 0 .. 255 /\ msg_left_q \in Nat
  <2>1. b \in 0 .. 255 /\ msg_left_q \in 0 .. Len(pkt.lens) /\ Len(pkt.lens) \in Nat
    BY PayloadFacts
  <2> QED BY <2>1
<1>2. LastWord => ~LengthWord
  BY <1>1 DEF LastWord, LengthWord
<1>3. LastWord => BytesLeft(w) = 1
  BY <1>2, Zenon DEF BytesLeft
<1>4. LengthWord => BytesLeft(w) = (len + b - 2) % 256
  BY <1>2, Zenon DEF BytesLeft
<1>5. ~LastWord /\ ~LengthWord => BytesLeft(w) = (b - 4) % 256
  BY Zenon DEF BytesLeft
<1>6. LengthWord => len \in 4 .. 254 /\ b < 4
  BY NextLength DEF LengthWord
<1> HIDE DEF w, len
<1>7. LengthWord => BytesLeft(w) = len + b - 2 /\ BytesLeft(w) \in 0 .. 255
  <2> SUFFICES ASSUME LengthWord PROVE BytesLeft(w) = len + b - 2 /\ BytesLeft(w) \in 0 .. 255
    OBVIOUS
  <2>1. len + b - 2 \in 0 .. 255
    BY <1>1, <1>6
  <2> QED BY <1>4, <2>1
<1>8. ~LastWord /\ ~LengthWord => /\ BytesLeft(w) = b - 4 /\ BytesLeft(w) \in 0 .. 255
                                  /\ msg_left_q = 0 => b >= 6
  <2> SUFFICES ASSUME ~LastWord, ~LengthWord
               PROVE  /\ BytesLeft(w) = b - 4 /\ BytesLeft(w) \in 0 .. 255
                      /\ msg_left_q = 0 => b >= 6
    OBVIOUS
  <2>1. b - 4 \in 0 .. 255 /\ (msg_left_q = 0 => b >= 6)
    BY <1>1 DEF LastWord, LengthWord
  <2> QED BY <1>5, <2>1
<1>9. BytesLeft(w) \in 0 .. 255
  BY <1>3, <1>7, <1>8
<1> QED BY <1>7, <1>8, <1>9 DEF w, len

(* What PayloadWord does, with the number of bytes kept of the last word   *)
(* as the invariant has it.                                                *)
LEMMA PayloadMoves ==
  ASSUME IInv, Moves, PayloadWord(Word(pkt, at))
  PROVE  LET w == Word(pkt, at)
         IN  /\ state_q = "MSG" /\ ip_data_v_o' = TRUE /\ bytes_left_q' = BytesLeft(w)
             /\ msg_left_q' = IF LengthWord THEN msg_left_q - 1 ELSE msg_left_q
             /\ state_q' = IF LastWord THEN "IDLE" ELSE "MSG"
             /\ np_error' = (w.tlast # LastWord
                             \/ w.tkeep # IF LastWord THEN bytes_left_q - 1 ELSE 4)
             /\ session_id_q' = session_id_q /\ compare_q' = compare_q
             /\ seq_expect_q' = seq_expect_q /\ first_pkt_flag_q' = first_pkt_flag_q
             /\ at' = at + 1 /\ passed' = passed + 1 /\ failed' = np_error'
<1> DEFINE w == Word(pkt, at)
<1>1. /\ state_q = "MSG" /\ ip_data_v_o' = TRUE /\ bytes_left_q' = BytesLeft(w)
      /\ msg_left_q' = IF LengthWord THEN msg_left_q - 1 ELSE msg_left_q
      /\ state_q' = IF LastWord THEN "IDLE" ELSE "MSG"
      /\ np_error' = (FALSE \/ w.tlast # LastWord
                      \/ w.tkeep # IF LastWord /\ bytes_left_q > 0 THEN bytes_left_q - 1
                                   ELSE IF LastWord THEN 0 ELSE 4)
      /\ session_id_q' = session_id_q /\ compare_q' = compare_q
      /\ seq_expect_q' = seq_expect_q /\ first_pkt_flag_q' = first_pkt_flag_q
  BY Zenon DEF PayloadWord, Check
<1>2. LastWord => bytes_left_q > 0
  <2>1. bytes_left_q \in 0 .. 255 /\ (msg_left_q = 0 => bytes_left_q >= 2)
    BY <1>1, PayloadFacts
  <2> QED BY <2>1 DEF LastWord
<1>3. np_error' = (w.tlast # LastWord \/ w.tkeep # IF LastWord THEN bytes_left_q - 1 ELSE 4)
  BY <1>1, <1>2, Zenon
<1>4. at' = at + 1 /\ passed' = passed + 1 /\ failed' = np_error'
  BY <1>1, Zenon DEF Moves
<1> HIDE DEF w
<1> QED BY <1>1, <1>3, <1>4 DEF w

LEMMA PayloadTypes ==
  ASSUME IInv, Moves, PayloadWord(Word(pkt, at))
  PROVE  TypeOK' /\ Registers'
<1> DEFINE w == Word(pkt, at)
<1>1. /\ state_q = "MSG" /\ ip_data_v_o' = TRUE /\ bytes_left_q' = BytesLeft(w)
      /\ msg_left_q' = IF LengthWord THEN msg_left_q - 1 ELSE msg_left_q
      /\ state_q' = IF LastWord THEN "IDLE" ELSE "MSG"
      /\ session_id_q' = session_id_q /\ seq_expect_q' = seq_expect_q
      /\ first_pkt_flag_q' = first_pkt_flag_q
      /\ at' = at + 1 /\ passed' = passed + 1 /\ failed' = np_error'
  BY PayloadMoves
<1>2. np_error' \in BOOLEAN
  BY Zenon DEF PayloadWord, Check
<1>3. TypeOK /\ Registers /\ (failed = FALSE)
  BY Zenon DEF IInv, Moves, TypeOK
<1>4. BytesLeft(w) \in 0 .. 255
  BY <1>1, BytesLeftIs
<1> HIDE DEF w
<1>5. TypeOK'
  <2>1. {first_pkt_flag_q', ip_data_v_o', np_error', failed'} \subseteq BOOLEAN
    BY <1>1, <1>2, <1>3, Zenon DEF TypeOK
  <2>2. passed' <= at'
    BY <1>1, <1>3 DEF TypeOK, Registers
  <2>3. state_q' \in States
    BY <1>1 DEF States
  <2>4. msg_left_q' \in 0 .. MaxCount
    BY <1>1, <1>3, FeedAssumption DEF TypeOK, LengthWord
  <2> QED BY <1>1, <1>3, <1>4, <2>1, <2>2, <2>3, <2>4, Zenon DEF TypeOK
<1>6. Registers'
  <2>1. failed' \/ seq_expect_q' \in 1 .. MaxSeq
    BY <1>1, <1>3, Zenon DEF Registers
  <2> QED BY <1>1, <1>3, <2>1 DEF Registers
<1> QED BY <1>5, <1>6

(* The last word of a whole packet is the one the parser takes for it. *)
LEMMA LastIsLast ==
  ASSUME IInv, Moves, state_q = "MSG", pkt.total = Whole(pkt.lens)
  PROVE  /\ LastOnWire <=> LastWord
         /\ LastWord => pkt.total - 4 * at = bytes_left_q - 1
<1> DEFINE k == Len(pkt.lens) - msg_left_q
           b == bytes_left_q
<1>1. /\ at \in Nat /\ at >= 5 /\ b \in 0 .. 255 /\ msg_left_q \in Nat
      /\ Start(pkt.lens, k) \in Nat /\ 4 * (at - 5) + b = Start(pkt.lens, k) + 1
      /\ msg_left_q = 0 => b >= 2
      /\ msg_left_q > 0 => Start(pkt.lens, k) + 6 <= MsgBytes(pkt.lens)
      /\ msg_left_q = 0 => Start(pkt.lens, k) = MsgBytes(pkt.lens)
      /\ MsgBytes(pkt.lens) \in Nat /\ pkt.total = 20 + MsgBytes(pkt.lens)
  <2>1. msg_left_q \in 0 .. Len(pkt.lens) /\ Len(pkt.lens) \in Nat
    BY PayloadFacts
  <2>2. msg_left_q \in Nat
    BY <2>1
  <2> QED BY <2>2, PayloadFacts
<1>2. LastOnWire <=> pkt.total <= 4 * at + 4
  BY MovedFacts
<1> HIDE DEF k, LastOnWire
<1>3. CASE msg_left_q = 0
  BY <1>1, <1>2, <1>3 DEF LastWord
<1>4. CASE msg_left_q > 0
  BY <1>1, <1>2, <1>4 DEF LastWord
<1> QED BY <1>1, <1>3, <1>4

LEMMA PayloadNotDue ==
  ASSUME IInv, Moves, PayloadWord(Word(pkt, at)), answer = "ok"
  PROVE  ~np_error'
<1> DEFINE w == Word(pkt, at)
<1>1. /\ np_error' = (w.tlast # LastWord \/ w.tkeep # IF LastWord THEN bytes_left_q - 1 ELSE 4)
      /\ state_q = "MSG"
  BY PayloadMoves
<1>2. pkt.total = Whole(pkt.lens)
  BY <1>1, Where DEF InPayload
<1>3. (LastOnWire <=> LastWord) /\ (LastWord => pkt.total - 4 * at = bytes_left_q - 1)
  BY <1>1, <1>2, LastIsLast
<1>4. w.tlast = LastOnWire /\ w.tkeep = IF LastOnWire THEN pkt.total - 4 * at ELSE 4
  BY MovedFacts
<1>5. LastOnWire \in BOOLEAN /\ LastWord \in BOOLEAN
  BY Zenon DEF LastOnWire, LastWord
<1> HIDE DEF w, LastOnWire
<1>6. w.tlast = LastWord
  <2>1. LastOnWire = LastWord
    BY ONLY <1>3, <1>5
  <2> QED BY <1>4, <2>1
<1>7. w.tkeep = IF LastWord THEN bytes_left_q - 1 ELSE 4
  <2>1. CASE LastWord
    BY <1>3, <1>4, <2>1
  <2>2. CASE ~LastWord
    BY <1>3, <1>4, <2>2
  <2> QED BY <2>1, <2>2
<1> QED BY <1>1, <1>6, <1>7, Zenon

LEMMA PayloadWordStep ==
  ASSUME IInv, Moves, PayloadWord(Word(pkt, at))
  PROVE  IInv'
<1> DEFINE w == Word(pkt, at)
           k == Len(pkt.lens) - msg_left_q
           b == bytes_left_q
<1>1. TypeOK' /\ Registers'
  BY PayloadTypes
<1>2. CASE np_error'
  BY <1>1, <1>2, PayloadNotDue, Reported
<1>3. CASE ~np_error'
  <2>1. /\ state_q = "MSG" /\ bytes_left_q' = BytesLeft(w)
        /\ msg_left_q' = IF LengthWord THEN msg_left_q - 1 ELSE msg_left_q
        /\ state_q' = IF LastWord THEN "IDLE" ELSE "MSG"
        /\ session_id_q' = session_id_q /\ compare_q' = compare_q
        /\ seq_expect_q' = seq_expect_q /\ first_pkt_flag_q' = first_pkt_flag_q
        /\ at' = at + 1 /\ passed' = passed + 1 /\ ~failed'
    BY <1>3, PayloadMoves
  <2>2. w.tlast = LastWord /\ w.tkeep = IF LastWord THEN b - 1 ELSE 4
    <3>1. np_error' = (w.tlast # LastWord \/ w.tkeep # IF LastWord THEN b - 1 ELSE 4)
      BY PayloadMoves
    <3> QED BY <1>3, <3>1, Zenon
  <2>3. /\ answer' = answer /\ seq_expected' = seq_expected /\ session_id' = session_id
        /\ first_pkt_received' = first_pkt_received /\ pkt # NoPkt
    BY DEF Moves
  <2>4. /\ InPayload /\ session_id_q = pkt.session_id /\ ~first_pkt_flag_q /\ passed = at - 5
        /\ compare_q = <<session_id_q[1], session_id_q[2]>>
        /\ (answer = "ok" <=> pkt.total = Whole(pkt.lens))
        /\ (answer = "ok" => seq_expected = seq_expect_q)
    BY <2>1, Where, Zenon DEF InPayload
  <2>5. answer = "ok" => first_pkt_received /\ session_id = pkt.session_id
    BY Zenon DEF IInv, Follows, Moves
  <2>6. /\ w.tlast = LastOnWire
        /\ w.tkeep = IF LastOnWire THEN pkt.total - 4 * at ELSE 4
        /\ IF LastOnWire THEN pkt' = NoPkt ELSE pkt' = pkt
        /\ pkt.total \in Nat /\ PacketComes'
    BY MovedFacts
  <2>7. /\ at \in Nat /\ at >= 5 /\ b \in 0 .. 255
        /\ Len(pkt.lens) \in Nat /\ msg_left_q \in 0 .. Len(pkt.lens)
        /\ Start(pkt.lens, k) \in Nat /\ 4 * (at - 5) + b = Start(pkt.lens, k) + 1
        /\ msg_left_q = 0 => Start(pkt.lens, k) = MsgBytes(pkt.lens)
        /\ MsgBytes(pkt.lens) \in Nat /\ Whole(pkt.lens) = 20 + MsgBytes(pkt.lens)
    BY <2>1, PayloadFacts
  <2>8. /\ LengthWord => BytesLeft(w) = w.byte[b % 4] + b - 2
        /\ ~LastWord /\ ~LengthWord => /\ BytesLeft(w) = b - 4
                                       /\ msg_left_q = 0 => b >= 6
    BY <2>1, BytesLeftIs
  <2>9. LengthWord => /\ w.byte[b % 4] \in 4 .. 254
                      /\ Start(pkt.lens, k + 1) = Start(pkt.lens, k) + w.byte[b % 4] + 2
    BY <2>1, NextLength
  <2> DEFINE len == w.byte[b % 4]
  <2> HIDE DEF w
  <2>10. at' - 5 = at - 4 /\ passed' = at' - 5 /\ at' >= 5
    BY <2>1, <2>4, <2>7
  <2>11. CASE LastWord
    <3>1. LastOnWire
      BY <2>2, <2>6, <2>11, Zenon
    <3>2. pkt' = NoPkt /\ pkt.total - 4 * at = b - 1
      BY <2>2, <2>6, <2>11, <3>1, Zenon
    <3>3. pkt.total = Whole(pkt.lens)
      <4>1. Start(pkt.lens, k) = MsgBytes(pkt.lens)
        BY <2>7, <2>11 DEF LastWord
      <4> HIDE DEF k, Whole
      <4> QED BY <2>6, <2>7, <3>2, <4>1
    <3>4. answer = "ok"
      BY <2>4, <3>3, Zenon
    <3>5. AgreesBetweenPackets'
      <4>1. first_pkt_flag_q' = (~first_pkt_received')
        <5>1. first_pkt_flag_q' \in BOOLEAN
          BY <1>1, Zenon DEF TypeOK
        <5> QED BY <2>1, <2>3, <2>4, <2>5, <3>4, <5>1, Zenon
      <4>2. session_id_q' = session_id' /\ compare_q' = <<session_id'[1], session_id'[2]>>
        BY <2>1, <2>3, <2>4, <2>5, <3>4, Zenon
      <4>3. state_q' = "IDLE" /\ seq_expect_q' = seq_expected'
        BY <2>1, <2>3, <2>4, <2>11, <3>4, Zenon
      <4> QED BY <2>10, <4>1, <4>2, <4>3, Zenon DEF AgreesBetweenPackets
    <3>6. Between' /\ NoFalseAlarm' /\ Follows'
      BY <2>1, <2>3, <2>4, <3>2, <3>4, <3>5, Zenon DEF Between, NoFalseAlarm, Follows
    <3> QED BY <1>1, <2>6, <3>6 DEF IInv
  <2>12. CASE ~LastWord
    <3>1. ~LastOnWire /\ pkt' = pkt
      BY <2>2, <2>6, <2>12, Zenon
    <3>2. /\ msg_left_q' \in 0 .. Len(pkt.lens)
          /\ 4 * (at' - 5) + bytes_left_q' = Start(pkt.lens, Len(pkt.lens) - msg_left_q') + 1
          /\ msg_left_q' = 0 => bytes_left_q' >= 2
      <4>1. CASE LengthWord
        <5>1. msg_left_q' = msg_left_q - 1 /\ msg_left_q > 0 /\ bytes_left_q' = len + b - 2
          BY <2>1, <2>8, <4>1 DEF LengthWord
        <5>2. Len(pkt.lens) - msg_left_q' = k + 1
          BY <2>7, <5>1
        <5>3. len \in 4 .. 254 /\ Start(pkt.lens, k + 1) = Start(pkt.lens, k) + len + 2
          BY <2>9, <4>1
        <5> HIDE DEF len
        <5>4. bytes_left_q' >= 2 /\ msg_left_q' \in 0 .. Len(pkt.lens)
          <6>1. b \in 0 .. 255 /\ Len(pkt.lens) \in Nat /\ msg_left_q \in 0 .. Len(pkt.lens)
            BY <2>7
          <6>2. bytes_left_q' >= 2
            BY ONLY <5>1, <5>3, <6>1
          <6> QED BY ONLY <5>1, <6>1, <6>2
        <5>5. 4 * (at - 4) + bytes_left_q' = Start(pkt.lens, k + 1) + 1
          <6> HIDE DEF k
          <6> QED BY <2>7, <5>1, <5>3
        <5> QED BY <2>10, <5>2, <5>4, <5>5
      <4>2. CASE ~LengthWord
        <5>1. msg_left_q' = msg_left_q /\ bytes_left_q' = b - 4 /\ (msg_left_q = 0 => b >= 6)
          BY <2>1, <2>8, <2>12, <4>2
        <5>2. 4 * (at - 4) + bytes_left_q' = Start(pkt.lens, k) + 1
          <6> HIDE DEF k
          <6> QED BY <2>7, <5>1
        <5> QED BY <2>7, <2>10, <5>1, <5>2
      <4> QED BY <4>1, <4>2
    <3>3. Start(pkt.lens, Len(pkt.lens) - msg_left_q)'
          = Start(pkt.lens, Len(pkt.lens) - msg_left_q')
      BY <3>1 DEF Start
    <3>4. Whole(pkt.lens)' = Whole(pkt.lens)
      BY <3>1 DEF Whole
    <3>5. state_q' = "MSG"
      BY <2>1, <2>12, Zenon
    <3>6. InPayload'
      BY <2>1, <2>3, <2>4, <2>10, <3>1, <3>2, <3>3, <3>4, <3>5, Zenon DEF InPayload
    <3>7. Between' /\ NoFalseAlarm' /\ Follows'
      BY <2>1, <2>3, <2>5, <3>1, <3>6, Zenon
      DEF Between, AgreesBetweenPackets, NoFalseAlarm, Follows, NoPkt
    <3> QED BY <1>1, <2>6, <3>7 DEF IInv
  <2> QED BY <2>11, <2>12
<1> QED BY <1>2, <1>3

----------------------------------------------------------------------------
(* Every step keeps the invariant. *)

LEMMA ArriveStep == IInv /\ Arrive => IInv'
<1> SUFFICES ASSUME IInv, Arrive PROVE IInv'
  OBVIOUS
<1>1. Moves
  <2>1. /\ ~failed /\ pkt # NoPkt /\ failed' = np_error'
        /\ passed' = IF ip_data_v_o' THEN passed + 1 ELSE passed
        /\ at' = at + 1 /\ pkt' = IF at' = Words(pkt.total) THEN NoPkt ELSE pkt
        /\ UNCHANGED <<answer, model_vars>>
    BY Zenon DEF Arrive
  <2>2. /\ answer' = answer /\ seq_expected' = seq_expected /\ session_id' = session_id
        /\ first_pkt_received' = first_pkt_received
    BY <2>1 DEF model_vars
  <2> QED BY <2>1, <2>2, Zenon DEF Moves
<1>2. TakeWord(Word(pkt, at))
  BY Zenon DEF Arrive
<1>3. CASE GiveUp(Word(pkt, at))
  BY <1>1, <1>3, GiveUpStep
<1>4. CASE HeaderWord(Word(pkt, at))
  BY <1>1, <1>4, HeaderWordStep
<1>5. CASE CountWord(Word(pkt, at))
  BY <1>1, <1>5, CountWordStep
<1>6. CASE PayloadWord(Word(pkt, at))
  BY <1>1, <1>6, PayloadWordStep
<1> QED BY <1>2, <1>3, <1>4, <1>5, <1>6, Zenon DEF TakeWord

(* A packet can be sent only when the two agree on the number, so it is    *)
(* one.                                                                    *)
LEMMA ExpectedIsNat ==
  ASSUME IInv, ~failed, pkt = NoPkt
  PROVE  /\ seq_expected \in Nat
         /\ first_pkt_received => session_id = session_id_q
<1>1. seq_expect_q = seq_expected /\ (first_pkt_received => session_id_q = session_id)
  BY Zenon DEF IInv, Between, AgreesBetweenPackets
<1>2. seq_expect_q \in 1 .. MaxSeq
  BY DEF IInv, Registers
<1>3. seq_expect_q \in Nat
  BY <1>2, FeedAssumption
<1> QED BY <1>1, <1>3

(* The parser follows only sessions a packet had. *)
LEMMA SendInSessionStep ==
  ASSUME IInv, NEW session \in Sessions, SendInSession(session)
  PROVE  IInv'
<1>1. PICK lens \in Lens : Send(session, seq_expected, lens, Whole(lens))
  BY Zenon DEF SendInSession
<1>2. ~failed /\ pkt = NoPkt
  BY <1>1, Zenon DEF Send
<1>3. seq_expected \in Nat
  BY <1>2, ExpectedIsNat
<1>4. Whole(lens) \in Int
  <2>1. Whole(lens) = 20 + MsgBytes(lens) /\ MsgBytes(lens) \in Nat
    BY LensFacts
  <2> HIDE DEF Whole
  <2> QED BY <2>1
<1> QED BY <1>1, <1>3, <1>4, SendStep

(* The model follows a session that some packet had. *)
FollowsSession == first_pkt_received => session_id \in Sessions

LEMMA OurSessions == FollowsSession => OurSession \subseteq Sessions
BY DEF FollowsSession, OurSession

LEMMA FollowsSessionStep ==
  ASSUME FollowsSession, NEW session \in Sessions, NEW seq, NEW lens, NEW total,
         Send(session, seq, lens, total)
  PROVE  FollowsSession'
<1> DEFINE p == [session_id |-> session, seq |-> seq, lens |-> lens, total |-> total]
           m == AsModel(p)
<1>1. M!ProcessPkt(m)
  <2>1. pkt' = p /\ M!ProcessPkt(AsModel(pkt'))
    BY Zenon DEF Send
  <2> QED BY <2>1, Zenon
<1>2. m.session_id = session
  BY DEF AsModel
<1> HIDE DEF m
<1>3. CASE UNCHANGED M!mold_vars
  <2>1. session_id' = session_id /\ first_pkt_received' = first_pkt_received
    BY <1>3 DEF M!mold_vars
  <2> QED BY <2>1, Zenon DEF FollowsSession
<1>4. CASE M!FollowSession(m)
  <2>1. session_id' = IF first_pkt_received THEN session_id ELSE session
    BY <1>2, <1>4, Zenon DEF M!FollowSession, M!Session
  <2> QED BY <2>1, Zenon DEF FollowsSession
<1> QED BY <1>1, <1>3, <1>4, Zenon DEF M!ProcessPkt

LEMMA SendNumberedStep ==
  ASSUME IInv, NEW session \in Sessions, SendNumbered(session)
  PROVE  IInv'
<1>1. PICK lens \in Lens : \E seq \in 0 .. MaxSeq : Send(session, seq, lens, Whole(lens))
  BY Zenon DEF SendNumbered
<1>2. PICK seq \in 0 .. MaxSeq : Send(session, seq, lens, Whole(lens))
  BY <1>1
<1>3. seq \in Nat
  BY FeedAssumption
<1>4. Whole(lens) \in Int
  <2>1. Whole(lens) = 20 + MsgBytes(lens) /\ MsgBytes(lens) \in Nat
    BY LensFacts
  <2> HIDE DEF Whole
  <2> QED BY <2>1
<1> QED BY <1>2, <1>3, <1>4, SendStep

LEMMA SendCutStep ==
  ASSUME IInv, NEW session \in Sessions, SendCut(session)
  PROVE  IInv'
<1>1. PICK lens \in Lens : \E total \in Totals(lens) : Send(session, seq_expected, lens, total)
  BY Zenon DEF SendCut
<1>2. PICK total \in Totals(lens) : Send(session, seq_expected, lens, total)
  BY <1>1
<1>3. ~failed /\ pkt = NoPkt
  BY <1>2, Zenon DEF Send
<1>4. seq_expected \in Nat
  BY <1>3, ExpectedIsNat
<1>5. total \in Int
  <2>1. MsgBytes(lens) \in Nat
    BY LensFacts
  <2> HIDE DEF MsgBytes
  <2> QED BY <2>1, FeedAssumption DEF Totals, HEADER
<1> QED BY <1>2, <1>4, <1>5, SendStep

LEMMA Invariant == Spec => [](IInv /\ FollowsSession)
<1>1. Init => IInv /\ FollowsSession
  BY InitHolds, Zenon DEF Init, M!InitMold, FollowsSession
<1>2. IInv /\ FollowsSession /\ [Next]_vars => (IInv /\ FollowsSession)'
  <2> SUFFICES ASSUME IInv, FollowsSession, [Next]_vars PROVE IInv' /\ FollowsSession'
    OBVIOUS
  <2>1. CASE Arrive
    <3>1. session_id' = session_id /\ first_pkt_received' = first_pkt_received
      BY <2>1 DEF Arrive, model_vars
    <3> QED BY <2>1, <3>1, ArriveStep, Zenon DEF FollowsSession
  <2>2. ASSUME NEW session \in Sessions,
               SendInSession(session) \/ SendNumbered(session) \/ SendCut(session)
        PROVE  IInv' /\ FollowsSession'
    <3>1. IInv'
      BY <2>2, SendInSessionStep, SendNumberedStep, SendCutStep
    <3>2. \A seq, lens, total : Send(session, seq, lens, total) => FollowsSession'
      BY FollowsSessionStep
    <3>3. FollowsSession'
      BY <2>2, <3>2, Zenon DEF SendInSession, SendNumbered, SendCut
    <3> QED BY <3>1, <3>3
  <2>3. CASE UNCHANGED vars
    <3>1. /\ state_q' = state_q /\ session_id_q' = session_id_q /\ compare_q' = compare_q
          /\ seq_expect_q' = seq_expect_q /\ msg_left_q' = msg_left_q
          /\ bytes_left_q' = bytes_left_q /\ first_pkt_flag_q' = first_pkt_flag_q
          /\ ip_data_v_o' = ip_data_v_o /\ np_error' = np_error
      BY <2>3 DEF vars, mold_regs
    <3>2. /\ pkt' = pkt /\ at' = at /\ passed' = passed /\ answer' = answer /\ failed' = failed
      BY <2>3 DEF vars
    <3>3. /\ seq_expected' = seq_expected /\ session_id' = session_id
          /\ first_pkt_received' = first_pkt_received
      BY <2>3 DEF vars, model_vars
    <3> USE <3>1, <3>2, <3>3
    <3>4. TypeOK' /\ NoFalseAlarm' /\ Registers' /\ FollowsSession'
      BY Zenon DEF IInv, TypeOK, NoFalseAlarm, Registers, FollowsSession
    <3>5. PacketComes' /\ (failed \/ Between)'
      BY Zenon DEF IInv, PacketComes, Records, Between, AgreesBetweenPackets
    <3>6. Follows'
      <4>1. Place' = Place /\ Seen' = Seen
        BY DEF Place, Seen
      <4>2. Compared' = Compared
        BY DEF Compared, SeqTop, SeqMid, SeqLow
      <4>3. AcceptedInHeader' = AcceptedInHeader
        BY DEF AcceptedInHeader, Whole
      <4>4. InHeader' = InHeader
        BY <4>1, <4>2, <4>3, Zenon DEF InHeader
      <4>5. InPayload' = InPayload
        BY DEF InPayload, Start, Whole
      <4> QED BY <4>4, <4>5, Zenon DEF IInv, Follows
    <3> QED BY <3>4, <3>5, <3>6, Zenon DEF IInv
  <2>4. CASE Next
    <3>1. OurSession \subseteq Sessions
      BY OurSessions
    <3> QED BY <2>1, <2>2, <2>4, <3>1, Zenon DEF Next
  <2> QED BY <2>3, <2>4
<1> QED BY <1>1, <1>2, PTL DEF Spec

(* Registers keep their types and widths: whatever the packets, the count  *)
(* of bytes left never wraps and the expected number stays in range.       *)
THEOREM TypeInvariant == Spec => []TypeOK
<1>1. IInv /\ FollowsSession => TypeOK
  BY DEF IInv
<1> QED BY <1>1, Invariant, PTL

(* moldudp64_parser.sv reports an error with some word of a packet only if *)
(* the model's process_pkt refuses the packet.                             *)
THEOREM ErrorsAreDue == Spec => []NoFalseAlarm
<1>1. IInv /\ FollowsSession => NoFalseAlarm
  BY DEF IInv
<1> QED BY <1>1, Invariant, PTL

(* A packet process_pkt refuses never reaches its end without an error: a  *)
(* wrong session, a wrong number, or a length its messages do not add up   *)
(* to, is seen on some word of it.                                         *)
THEOREM ErrorsAreReported == Spec => []NoErrorMissed
<1>1. IInv /\ FollowsSession => NoErrorMissed
  BY Zenon DEF IInv, Between, NoErrorMissed
<1> QED BY <1>1, Invariant, PTL

(* Between packets the registers hold what the model holds, and every      *)
(* payload word has been passed on.                                        *)
THEOREM HardwareAgrees == Spec => []AgreesBetweenPackets
<1>1. IInv /\ FollowsSession => AgreesBetweenPackets
  BY Zenon DEF IInv, Between, AgreesBetweenPackets
<1> QED BY <1>1, Invariant, PTL
=============================================================================
