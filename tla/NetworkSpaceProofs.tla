------------------------- MODULE NetworkSpaceProofs -------------------------
(***************************************************************************)
(* Proofs about NetworkSpace, for every address width and any networks.    *)
(*                                                                         *)
(* Every network the loop handles starts at a multiple of its size         *)
(* (Aligned), so two that overlap are nested.  The queue has nothing that  *)
(* comes before the current network but, after a split, the first half of  *)
(* it -- and then the second half is queued as well (QueueIsLater).        *)
(*                                                                         *)
(* For the types of the routes (RouteInv) the networks are told apart by   *)
(* where they come from.  An exception is a collected network inside one   *)
(* of the other type; every other network is Plain: part of a collected    *)
(* network of its own type and within no exception.  Exceptions are never  *)
(* split nor lost, and what covers one is split until it does not.         *)
(***************************************************************************)
EXTENDS NetworkSpace, FiniteSetTheorems, WellFoundedInduction, TLAPS

-----------------------------------------------------------------------------
(* Powers of two. *)

\* A set of naturals that has an element has a least one.
LEMMA LeastNatural ==
    ASSUME NEW T \in SUBSET Nat, T # {}
    PROVE  \E m \in T : \A k \in T : m <= k
<1>1. IsWellFoundedOn(OpToRel(<, Nat), Nat)
  BY NatLessThanWellFounded
<1>2. PICK m \in T : \A k \in T : <<k, m>> \notin OpToRel(<, Nat)
  BY <1>1, WFMin
<1>3. ASSUME NEW k \in T PROVE m <= k
  <2>1. k \in Nat /\ m \in Nat /\ ~(k < m)
    BY <1>2 DEF OpToRel
  <2> QED
    BY <2>1
<1> QED
  BY <1>3

Pow(n) == 2^n

\* A power of two counts the subsets of an interval.
LEMMA PowerIsNatural ==
    ASSUME NEW n \in Nat
    PROVE  /\ Pow(n) \in Nat /\ IsFiniteSet(SUBSET (1..n))
           /\ Cardinality(SUBSET (1..n)) = Pow(n)
<1>1. IsFiniteSet(1..n) /\ Cardinality(1..n) = n
  BY FS_Interval
<1> QED
  BY <1>1, FS_SUBSET, FS_CardinalityType DEF Pow

\* One more number doubles the subsets: those without it and those with it.
LEMMA PowerDoubles ==
    ASSUME NEW n \in Nat
    PROVE  Pow(n + 1) = 2 * Pow(n)
<1> DEFINE A == SUBSET (1..n)
           B == {T \cup {n + 1} : T \in A}
           f == [T \in A |-> T \cup {n + 1}]
<1>1. /\ IsFiniteSet(A) /\ Cardinality(A) = Pow(n) /\ Pow(n) \in Nat
      /\ Cardinality(SUBSET (1..(n + 1))) = Pow(n + 1)
  <2>1. n + 1 \in Nat
    OBVIOUS
  <2> HIDE DEF A
  <2>2. /\ IsFiniteSet(SUBSET (1..n)) /\ Cardinality(SUBSET (1..n)) = Pow(n) /\ Pow(n) \in Nat
        /\ Cardinality(SUBSET (1..(n + 1))) = Pow(n + 1)
    BY <2>1, PowerIsNatural
  <2> QED
    BY <2>2 DEF A
<1>2. SUBSET (1..(n + 1)) = A \cup B
  <2>1. ASSUME NEW U \in SUBSET (1..(n + 1)) PROVE U \in A \cup B
    <3>1. U \ {n + 1} \in A
      OBVIOUS
    <3>2. CASE n + 1 \in U
      <4>1. U = (U \ {n + 1}) \cup {n + 1}
        BY <3>2
      <4> QED
        BY <3>1, <4>1
    <3>3. CASE n + 1 \notin U
      <4>1. U = U \ {n + 1}
        BY <3>3
      <4> QED
        BY <3>1, <4>1
    <3> QED
      BY <3>2, <3>3
  <2>2. ASSUME NEW U \in A \cup B PROVE U \in SUBSET (1..(n + 1))
    OBVIOUS
  <2> QED
    BY <2>1, <2>2
<1>3. A \cap B = {}
  OBVIOUS
<1>4. ExistsBijection(A, B)
  <2>1. f \in [A -> B]
    OBVIOUS
  <2>2. ASSUME NEW T \in A, NEW U \in A, f[T] = f[U] PROVE T = U
    <3>1. T \cup {n + 1} = U \cup {n + 1} /\ n + 1 \notin T /\ n + 1 \notin U
      BY <2>2
    <3> QED
      BY <3>1
  <2>3. \A b \in B : \E T \in A : f[T] = b
    OBVIOUS
  <2> HIDE DEF A, B, f
  <2>4. f \in Bijection(A, B)
    BY <2>1, <2>2, <2>3 DEF Bijection, Injection, Surjection, IsInjective
  <2> QED
    BY <2>4 DEF ExistsBijection
<1>5. IsFiniteSet(B) /\ Cardinality(B) = Pow(n)
  BY <1>1, <1>4, FS_Bijection
<1>6. Cardinality(A \cup B) = Pow(n) + Pow(n) - Cardinality(A \cap B)
  BY <1>1, <1>5, FS_Union
<1>7. Cardinality(A \cap B) = 0
  BY <1>3, FS_EmptySet
<1> HIDE DEF A, B
<1>8. Cardinality(SUBSET (1..(n + 1))) = Pow(n) + Pow(n)
  <2>1. Cardinality(A \cup B) = Pow(n) + Pow(n)
    BY <1>1, <1>6, <1>7
  <2> QED
    BY <1>2, <2>1
<1> QED
  BY <1>1, <1>8

-----------------------------------------------------------------------------
(* Sizes. *)

Net == [first : Nat, mask : Nat, included : BOOLEAN]

\* The number of addresses of a network.
Size(mask) == IF mask > Width THEN 1 ELSE Pow(Width - mask)
Aligned(n) == \E k \in Nat : n.first = k * Size(n.mask)

\* Sizes are positive and halve from one mask to the next, down to 1.
LEMMA SizeIs ==
    ASSUME NEW mask \in Nat
    PROVE  /\ Size(mask) \in Nat \ {0}
           /\ mask < Width => Size(mask) = 2 * Size(mask + 1)
           /\ mask >= Width => Size(mask) = 1
<1>0. Width \in Nat
  BY NetworkSpaceAssumption
<1>1. Pow(0) = 1
  BY DEF Pow
<1>2. mask >= Width => Size(mask) = 1
  BY <1>0, <1>1 DEF Size
<1>3. mask < Width => Size(mask) = 2 * Size(mask + 1)
  <2> SUFFICES ASSUME mask < Width PROVE Size(mask) = 2 * Size(mask + 1)
    OBVIOUS
  <2> DEFINE d == Width - (mask + 1)
  <2>1. d \in Nat /\ Width - mask = d + 1
    BY <1>0
  <2>2. Pow(d + 1) = 2 * Pow(d)
    BY <2>1, PowerDoubles
  <2>3. Size(mask) = Pow(d + 1)
    BY <1>0, <2>1 DEF Size
  <2>4. Size(mask + 1) = Pow(d)
    BY <1>0 DEF Size
  <2> QED
    BY <2>2, <2>3, <2>4
<1>4. Size(mask) \in Nat
  <2>1. CASE mask > Width
    BY <2>1 DEF Size
  <2>2. CASE ~(mask > Width)
    <3>1. Width - mask \in Nat
      BY <1>0, <2>2
    <3> QED
      BY <2>2, <3>1, PowerIsNatural DEF Size
  <2> QED
    BY <2>1, <2>2
<1>5. Size(mask) # 0
  <2>1. \A k \in Nat : Pow(k) # 0
    <3> DEFINE Z == {k \in Nat : Pow(k) = 0}
    <3>1. Z \in SUBSET Nat
      OBVIOUS
    <3>2. ASSUME Z # {} PROVE FALSE
      <4>1. PICK k \in Z : \A j \in Z : k <= j
        <5> HIDE DEF Z
        <5> QED
          BY <3>1, <3>2, LeastNatural
      <4>2. k \in Nat /\ Pow(k) = 0 /\ k # 0
        BY <1>1
      <4>3. k - 1 \in Nat /\ k = (k - 1) + 1
        BY <4>2
      <4>4. Pow(k) = 2 * Pow(k - 1) /\ Pow(k - 1) \in Nat
        BY <4>3, PowerDoubles, PowerIsNatural
      <4>5. k - 1 \in Z
        BY <4>2, <4>3, <4>4
      <4> QED
        BY <4>1, <4>2, <4>5
    <3> QED
      BY <3>2
  <2> QED
    BY <1>0, <2>1 DEF Size
<1> QED
  BY <1>2, <1>3, <1>4, <1>5

\* getLastAddress is the last of Size addresses.
LEMMA LastIs ==
    ASSUME NEW n \in Net
    PROVE  /\ getLastAddress(n) = n.first + Size(n.mask) - 1
           /\ getLastAddress(n) \in Nat /\ n.first <= getLastAddress(n)
<1>1. n.first \in Nat /\ n.mask \in Nat
  BY DEF Net
<1>2. Size(n.mask) \in Nat \ {0}
  BY <1>1, SizeIs
<1>3. getLastAddress(n) = n.first + Size(n.mask) - 1
  BY <1>1, <1>2 DEF getLastAddress, Size, Pow
<1> QED
  BY <1>1, <1>2, <1>3

\* A size is a multiple of every smaller one.
LEMMA SizeDivides ==
    ASSUME NEW a \in Nat, NEW b \in Nat, a <= b
    PROVE  \E q \in Nat \ {0} : Size(a) = q * Size(b)
<1> DEFINE T == {d \in Nat : ~ \E q \in Nat \ {0} : Size(a) = q * Size(a + d)}
<1>1. T \in SUBSET Nat
  OBVIOUS
<1>2. ASSUME T # {} PROVE FALSE
  <2>1. PICK d \in T : \A e \in T : d <= e
    <3> HIDE DEF T
    <3> QED
      BY <1>1, <1>2, LeastNatural
  <2>2. d \in Nat /\ ~ \E q \in Nat \ {0} : Size(a) = q * Size(a + d)
    OBVIOUS
  <2>3. d # 0
    <3>1. Size(a) \in Nat /\ a + 0 = a
      BY SizeIs
    <3>2. Size(a) = 1 * Size(a + 0)
      BY <3>1
    <3> QED
      BY <2>2, <3>2
  <2>4. d - 1 \in Nat /\ d - 1 \notin T
    BY <2>1, <2>2, <2>3
  <2>5. PICK q \in Nat \ {0} : Size(a) = q * Size(a + (d - 1))
    BY <2>4
  <2> DEFINE m == a + (d - 1)
  <2>6. m \in Nat /\ m + 1 = a + d
    BY <2>2, <2>4
  <2>7. Size(m) \in Nat /\ Size(m + 1) \in Nat
    BY <2>6, SizeIs
  <2>8. CASE m < Width
    <3>1. Size(m) = 2 * Size(m + 1)
      BY <2>6, <2>8, SizeIs
    <3> HIDE DEF m
    <3>2. q * (2 * Size(m + 1)) = (2 * q) * Size(m + 1)
      BY <2>7
    <3>3. Size(a) = (2 * q) * Size(m + 1)
      BY <2>5, <3>1, <3>2 DEF m
    <3>4. 2 * q \in Nat \ {0}
      OBVIOUS
    <3> QED
      BY <2>2, <2>6, <3>3, <3>4
  <2>9. CASE ~(m < Width)
    <3>1. m >= Width /\ m + 1 >= Width
      BY <2>6, <2>9, NetworkSpaceAssumption
    <3>2. Size(m) = 1 /\ Size(m + 1) = 1
      BY <2>6, <3>1, SizeIs
    <3>3. Size(a) = q * Size(m + 1)
      BY <2>5, <3>2
    <3> QED
      BY <2>2, <2>6, <3>3
  <2> QED
    BY <2>8, <2>9
<1>3. b - a \in Nat /\ a + (b - a) = b
  OBVIOUS
<1>4. b - a \notin T
  BY <1>2
<1>5. \E q \in Nat \ {0} : Size(a) = q * Size(a + (b - a))
  BY <1>3, <1>4
<1> QED
  BY <1>3, <1>5

-----------------------------------------------------------------------------
(* Aligned networks. *)

ANet == {n \in Net : Aligned(n)}

LEMMA Multiples ==
    ASSUME NEW l \in Nat, NEW m \in Nat, NEW s \in Nat \ {0}
    PROVE  /\ l * s \in Nat
           /\ l <= m => l * s <= m * s
           /\ l * s < m * s => l < m
<1>1. l * s \in Nat
  OBVIOUS
<1>2. l <= m => l * s <= m * s
  OBVIOUS
<1>3. m <= l => m * s <= l * s
  OBVIOUS
<1>4. m * s \in Nat
  OBVIOUS
<1> QED
  BY <1>1, <1>2, <1>3, <1>4

\* A network that starts inside another one is inside it.
LEMMA Nesting ==
    ASSUME NEW a \in ANet, NEW b \in ANet, a.first < b.first, b.first <= getLastAddress(a)
    PROVE  /\ a.mask < b.mask /\ a.mask < Width
           /\ getLastAddress(b) <= getLastAddress(a)
           /\ b.mask = a.mask + 1 => b.first = a.first + Size(a.mask + 1)
<1>0. Width \in Nat
  BY NetworkSpaceAssumption
<1>1. /\ a \in Net /\ b \in Net
      /\ a.first \in Nat /\ a.mask \in Nat /\ b.first \in Nat /\ b.mask \in Nat
  BY DEF ANet, Net
<1> DEFINE s == Size(a.mask)
           t == Size(b.mask)
<1>2. PICK k \in Nat : a.first = k * s
  BY DEF ANet, Aligned
<1>3. PICK l \in Nat : b.first = l * t
  BY DEF ANet, Aligned
<1>4. s \in Nat \ {0} /\ t \in Nat \ {0}
  BY <1>1, SizeIs
<1>5. getLastAddress(a) = a.first + s - 1 /\ getLastAddress(b) = b.first + t - 1
  BY <1>1, LastIs
<1>6. b.first < a.first + s
  BY <1>1, <1>4, <1>5
<1>7. a.mask < Width
  <2>1. s # 1
    BY <1>1, <1>6
  <2> QED
    BY <1>0, <1>1, <2>1, SizeIs
<1>8. (k + 1) * s = a.first + s
  BY <1>2, <1>4
<1>9. a.mask < b.mask
  <2> SUFFICES ASSUME b.mask <= a.mask PROVE FALSE
    BY <1>1
  <2>1. PICK q \in Nat \ {0} : t = q * s
    BY <1>1, SizeDivides
  <2> HIDE DEF s, t
  <2>2. b.first = (l * q) * s /\ l * q \in Nat
    BY <1>3, <1>4, <2>1
  <2>3. k * s < (l * q) * s /\ (l * q) * s < (k + 1) * s
    BY <1>2, <1>6, <1>8, <2>2
  <2>4. k < l * q /\ l * q < k + 1
    BY <1>4, <2>2, <2>3, Multiples
  <2> QED
    BY <2>2, <2>4
<1>10. getLastAddress(b) <= getLastAddress(a)
  <2>1. PICK q \in Nat \ {0} : s = q * t
    BY <1>1, <1>9, SizeDivides
  <2> HIDE DEF s, t
  <2>2. a.first + s = (k * q + q) * t /\ k * q + q \in Nat
    BY <1>2, <1>4, <2>1
  <2>3. l * t < (k * q + q) * t
    BY <1>3, <1>6, <2>2
  <2>4. l < k * q + q
    BY <1>4, <2>2, <2>3, Multiples
  <2>5. (l + 1) * t <= (k * q + q) * t
    BY <1>4, <2>2, <2>4, Multiples
  <2>6. (l + 1) * t = b.first + t
    BY <1>3, <1>4
  <2> QED
    BY <1>1, <1>4, <1>5, <2>2, <2>5, <2>6
<1>11. ASSUME b.mask = a.mask + 1 PROVE b.first = a.first + Size(a.mask + 1)
  <2>1. s = 2 * t
    BY <1>1, <1>7, <1>11, SizeIs
  <2>a. t = Size(a.mask + 1)
    BY <1>11
  <2> HIDE DEF s, t
  <2>2. a.first = (2 * k) * t /\ a.first + s = (2 * k + 2) * t
    BY <1>2, <1>4, <2>1
  <2>3. (2 * k) * t < l * t /\ l * t < (2 * k + 2) * t
    BY <1>3, <1>6, <2>2
  <2>4. 2 * k < l /\ l < 2 * k + 2
    BY <1>4, <2>3, Multiples
  <2>5. l = 2 * k + 1
    BY <2>4
  <2>6. b.first = (2 * k) * t + t
    BY <1>3, <1>4, <2>5
  <2> QED
    BY <2>2, <2>6, <2>a
<1> QED
  BY <1>7, <1>9, <1>10, <1>11

\* Of two networks with one base, the one with the larger mask ends first.
LEMMA SameBase ==
    ASSUME NEW a \in Net, NEW b \in Net, a.first = b.first, a.mask <= b.mask
    PROVE  getLastAddress(b) <= getLastAddress(a)
<1>1. a.mask \in Nat /\ b.mask \in Nat /\ a.first \in Nat
  BY DEF Net
<1>2. PICK q \in Nat \ {0} : Size(a.mask) = q * Size(b.mask)
  BY <1>1, SizeDivides
<1>3. Size(a.mask) \in Nat /\ Size(b.mask) \in Nat \ {0}
  BY <1>1, SizeIs
<1>4. 1 * Size(b.mask) <= q * Size(b.mask)
  BY <1>3, Multiples
<1>5. Size(b.mask) <= Size(a.mask)
  BY <1>2, <1>3, <1>4
<1> QED
  BY <1>1, <1>3, <1>5, LastIs

\* The halves of a network are networks and hold what it holds.
LEMMA Halves ==
    ASSUME NEW n \in ANet
    PROVE  /\ FirstHalf(n) \in ANet /\ SecondHalf(n) \in ANet
           /\ FirstHalf(n).first = n.first /\ FirstHalf(n).mask = n.mask + 1
           /\ SecondHalf(n).first = n.first + Size(n.mask + 1) /\ SecondHalf(n).mask = n.mask + 1
           /\ n.first < SecondHalf(n).first
           /\ \A a \in Nat : Covers(n, a) => Covers(FirstHalf(n), a) \/ Covers(SecondHalf(n), a)
<1>0. Width \in Nat
  BY NetworkSpaceAssumption
<1>1. n \in Net /\ n.first \in Nat /\ n.mask \in Nat /\ n.included \in BOOLEAN
  BY DEF ANet, Net
<1> DEFINE f == FirstHalf(n)
           g == SecondHalf(n)
           s == Size(n.mask)
           t == Size(n.mask + 1)
<1>2. s \in Nat \ {0} /\ t \in Nat \ {0} /\ n.mask + 1 \in Nat
  BY <1>1, SizeIs
<1>3. f \in Net /\ f.first = n.first /\ f.mask = n.mask + 1
  BY <1>1 DEF FirstHalf, Net
<1>4. getLastAddress(f) = n.first + t - 1
  BY <1>3, LastIs
<1>5. g \in Net /\ g.first = n.first + t /\ g.mask = n.mask + 1
  <2>1. getLastAddress(f) + 1 = n.first + t /\ n.first + t \in Nat
    BY <1>1, <1>2, <1>4
  <2>2. g = [f EXCEPT !.first = n.first + t]
    BY <2>1 DEF SecondHalf
  <2> HIDE DEF f, g, t
  <2> QED
    BY <1>3, <2>1, <2>2 DEF Net
<1>6. getLastAddress(g) = n.first + t + t - 1
  BY <1>2, <1>1, <1>5, LastIs
<1>7. getLastAddress(n) = n.first + s - 1
  BY <1>1, LastIs
<1>8. PICK k \in Nat : n.first = k * s
  BY DEF ANet, Aligned
<1>9. s = 2 * t \/ (s = 1 /\ t = 1)
  BY <1>0, <1>1, <1>2, SizeIs
<1>10. \E h \in Nat : n.first = h * t
  <2> HIDE DEF s, t
  <2>1. CASE s = 2 * t
    <3>1. n.first = (2 * k) * t
      BY <1>2, <1>8, <2>1
    <3> QED
      BY <3>1
  <2>2. CASE s = 1 /\ t = 1
    BY <1>8, <2>2
  <2> QED
    BY <1>9, <2>1, <2>2
<1>11. f \in ANet
  BY <1>3, <1>10 DEF ANet, Aligned
<1>12. g \in ANet
  <2>1. PICK h \in Nat : n.first = h * t
    BY <1>10
  <2> HIDE DEF t
  <2>2. n.first + t = (h + 1) * t
    BY <1>2, <2>1
  <2> QED
    BY <1>5, <2>2 DEF ANet, Aligned, t
<1>13. ASSUME NEW a \in Nat, Covers(n, a) PROVE Covers(f, a) \/ Covers(g, a)
  <2> HIDE DEF f, g, s, t
  <2>1. n.first <= a /\ a <= n.first + s - 1
    BY <1>7, <1>13 DEF Covers
  <2>2. a <= n.first + t - 1 \/ (n.first + t <= a /\ a <= n.first + t + t - 1)
    BY <1>1, <1>2, <1>9, <2>1
  <2> QED
    BY <1>3, <1>4, <1>5, <1>6, <2>1, <2>2 DEF Covers
<1> QED
  BY <1>1, <1>2, <1>3, <1>5, <1>11, <1>12, <1>13

\* A network that a caller can pass is one.
LEMMA NetworksAreNets == Networks \subseteq ANet
<1> SUFFICES ASSUME NEW n \in Networks PROVE n \in ANet
  OBVIOUS
<1>1. Width \in Nat /\ Pow(Width) \in Nat
  BY NetworkSpaceAssumption, PowerIsNatural
<1>2. /\ n \in [first : 0..Pow(Width), mask : 0..(Width + 1), included : BOOLEAN]
      /\ n.mask <= Width
      /\ n.first % Pow(Width - n.mask) = 0
  BY DEF Networks, ipAddress, Pow
<1>3. n \in Net /\ n.first \in Nat /\ n.mask \in Nat
  BY <1>1, <1>2 DEF Net
<1>4. Size(n.mask) = Pow(Width - n.mask) /\ Size(n.mask) \in Nat \ {0}
  BY <1>1, <1>2, <1>3, SizeIs DEF Size
<1>5. \E k \in Nat : n.first = k * Size(n.mask)
  <2> DEFINE s == Size(n.mask)
             k == n.first \div s
  <2>1. n.first % s = 0 /\ s \in Nat \ {0}
    BY <1>2, <1>4
  <2> HIDE DEF s
  <2>2. k \in Nat /\ n.first = k * s
    BY <1>3, <2>1
  <2> QED
    BY <2>2 DEF s
<1> QED
  BY <1>3, <1>5 DEF ANet, Aligned

-----------------------------------------------------------------------------
(* The queue. *)

IsQueue(bag) == bag \in [DOMAIN bag -> Nat \ {0}]

LEMMA SetIsQueue ==
    ASSUME NEW S
    PROVE  IsQueue(SetToBag(S)) /\ BagToSet(SetToBag(S)) = S
BY DEF IsQueue, SetToBag, BagToSet

LEMMA EmptyIsQueue == IsQueue(EmptyBag) /\ BagToSet(EmptyBag) = {}
BY SetIsQueue DEF EmptyBag

LEMMA QueuedIs ==
    ASSUME NEW bag, IsQueue(bag), NEW n
    PROVE  IsQueue(Queued(bag, n)) /\ BagToSet(Queued(bag, n)) = BagToSet(bag) \cup {n}
<1> DEFINE one == SetToBag({n})
           sum == [e \in DOMAIN bag \cup {n} |->
                    (IF e \in DOMAIN bag THEN bag[e] ELSE 0)
                      + (IF e \in {n} THEN one[e] ELSE 0)]
<1>1. one[n] = 1 /\ DOMAIN one = {n}
  BY DEF SetToBag
<1>2. Queued(bag, n) = sum
  BY <1>1 DEF Queued, (+)
<1> HIDE DEF one
<1>3. \A e \in DOMAIN bag : bag[e] \in Nat \ {0}
  BY DEF IsQueue
<1>4. DOMAIN sum = DOMAIN bag \cup {n} /\ \A e \in DOMAIN sum : sum[e] \in Nat \ {0}
  BY <1>1, <1>3
<1>5. sum \in [DOMAIN sum -> Nat \ {0}]
  BY <1>4
<1> HIDE DEF sum
<1> QED
  BY <1>2, <1>4, <1>5 DEF IsQueue, BagToSet

LEMMA PolledIs ==
    ASSUME NEW bag, IsQueue(bag), NEW n \in BagToSet(bag)
    PROVE  /\ IsQueue(Polled(bag, n))
           /\ BagToSet(Polled(bag, n)) \subseteq BagToSet(bag)
           /\ BagToSet(bag) \subseteq BagToSet(Polled(bag, n)) \cup {n}
<1> DEFINE one == SetToBag({n})
           all == [e \in DOMAIN bag |-> IF e \in {n} THEN bag[e] - one[e] ELSE bag[e]]
           rest == [e \in {d \in DOMAIN all : all[d] > 0} |-> all[e]]
<1>1. one[n] = 1 /\ DOMAIN one = {n} /\ n \in DOMAIN bag
  BY DEF SetToBag, BagToSet
<1>2. Polled(bag, n) = rest
  BY <1>1 DEF Polled, (-)
<1> HIDE DEF one
<1>3. \A e \in DOMAIN bag : bag[e] \in Nat \ {0}
  BY DEF IsQueue
<1>4. /\ DOMAIN all = DOMAIN bag
      /\ \A e \in DOMAIN bag : all[e] \in Int /\ (e # n => all[e] = bag[e])
  BY <1>1, <1>3
<1> HIDE DEF all
<1>5. /\ DOMAIN rest \subseteq DOMAIN bag
      /\ \A e \in DOMAIN bag : e # n => e \in DOMAIN rest
      /\ \A e \in DOMAIN rest : rest[e] \in Nat \ {0}
  BY <1>3, <1>4
<1>6. rest \in [DOMAIN rest -> Nat \ {0}]
  BY <1>5
<1> HIDE DEF rest
<1> QED
  BY <1>2, <1>5, <1>6 DEF IsQueue, BagToSet

LEMMA QueuedOnceIs ==
    ASSUME NEW bag, IsQueue(bag), BagToSet(bag) \subseteq ANet, NEW n \in ANet
    PROVE  /\ IsQueue(QueuedOnce(bag, n))
           /\ BagToSet(bag) \subseteq BagToSet(QueuedOnce(bag, n))
           /\ BagToSet(QueuedOnce(bag, n)) \subseteq BagToSet(bag) \cup {n}
           /\ \E m \in BagToSet(QueuedOnce(bag, n)) : equals(n, m)
<1>1. CASE Contains(bag, n)
  BY <1>1 DEF QueuedOnce, Contains
<1>2. CASE ~Contains(bag, n)
  <2>1. QueuedOnce(bag, n) = Queued(bag, n)
    BY <1>2 DEF QueuedOnce
  <2>2. IsQueue(Queued(bag, n)) /\ BagToSet(Queued(bag, n)) = BagToSet(bag) \cup {n}
    BY QueuedIs
  <2>3. equals(n, n)
    BY DEF equals
  <2> QED
    BY <2>1, <2>2, <2>3
<1> QED
  BY <1>1, <1>2

\* Networks that are equal hold the same.
LEMMA EqualCovers ==
    ASSUME NEW n, NEW m, equals(n, m), NEW a
    PROVE  Covers(n, a) <=> Covers(m, a)
BY DEF equals, Covers, getLastAddress

-----------------------------------------------------------------------------
(* The invariant. *)

NetsAreAligned ==
    /\ phase \in {"collect", "generate", "done"}
    /\ IsQueue(networks)
    /\ mIpAddresses \subseteq ANet
    /\ ipsDone \subseteq ANet
    /\ Pending \subseteq ANet
    /\ phase # "generate" => networks = EmptyBag
    /\ phase = "collect" => ipsDone = {}

\* Nothing in the queue comes before currentNet, but its first half if the
\* second half is there too.
QueueIsLater ==
    phase = "generate" =>
        \A m \in BagToSet(networks) : Before(m, currentNet) =>
            /\ equals(m, FirstHalf(currentNet))
            /\ \E s \in BagToSet(networks) : equals(s, SecondHalf(currentNet))

NetInv == NetsAreAligned /\ QueueIsLater /\ NoAddressLost /\ DoneIsDisjoint

Holds(set, a) == \E n \in set : Covers(n, a)

\* What NoAddressLost says of one address.
LEMMA LostIs ==
    NoAddressLost <=>
        (phase # "collect" =>
            \A a \in Addresses : Holds(mIpAddresses, a) => Holds(ipsDone \cup Pending, a))
BY DEF NoAddressLost, CoveredBy, Holds

LEMMA AddressesAreNaturals == Addresses \subseteq Nat
BY NetworkSpaceAssumption, PowerIsNatural DEF Addresses, Pow

\* The next network, and what the queue is without it.
LEMMA NextNet ==
    ASSUME NetInv, NEW n \in BagToSet(networks), NEW rest, Turn(n, rest)
    PROVE  /\ phase = "generate" /\ phase' = "generate" /\ mIpAddresses' = mIpAddresses
           /\ n \in ANet /\ currentNet \in ANet
           /\ IsQueue(rest) /\ BagToSet(rest) \subseteq BagToSet(networks)
           /\ BagToSet(networks) \subseteq BagToSet(rest) \cup {n}
           /\ BagToSet(networks) \subseteq ANet
           /\ \A m \in BagToSet(networks) : ~Before(m, n) /\ n.first <= m.first
           /\ currentNet.first <= n.first
           /\ Pending = BagToSet(networks) \cup {currentNet}
           /\ Pending' = BagToSet(networks') \cup {currentNet'}
<1>1. /\ phase = "generate" /\ phase' = "generate" /\ mIpAddresses' = mIpAddresses
      /\ rest = Polled(networks, n) /\ \A m \in BagToSet(networks) : ~Before(m, n)
  BY DEF Turn, Polls
<1>2. Pending = BagToSet(networks) \cup {currentNet} /\ Pending' = BagToSet(networks') \cup {currentNet'}
  BY <1>1 DEF Pending
<1>3. n \in ANet /\ currentNet \in ANet /\ BagToSet(networks) \subseteq ANet /\ IsQueue(networks)
  BY <1>2 DEF NetInv, NetsAreAligned
<1>4. \A m \in ANet : m.first \in Nat /\ m.mask \in Nat
  BY DEF ANet, Net
<1>5. \A m \in BagToSet(networks) : n.first <= m.first
  BY <1>1, <1>3, <1>4 DEF Before
<1>6. currentNet.first <= n.first
  <2> SUFFICES ASSUME n.first < currentNet.first PROVE FALSE
    BY <1>3, <1>4
  <2>1. Before(n, currentNet)
    BY DEF Before
  <2>2. equals(n, FirstHalf(currentNet))
    BY <1>1, <2>1 DEF NetInv, QueueIsLater
  <2>3. n.first = currentNet.first
    BY <1>3, <2>2, Halves DEF equals
  <2> QED
    BY <1>3, <1>4, <2>3
<1> QED
  BY <1>1, <1>2, <1>3, <1>5, <1>6, PolledIs

-----------------------------------------------------------------------------
(* One turn of the loop. *)

\* What a turn has to show.
LEMMA TurnIs ==
    ASSUME NetInv, phase = "generate", phase' = "generate", mIpAddresses' = mIpAddresses,
           IsQueue(networks)', Pending' \subseteq ANet, ipsDone' \subseteq ANet,
           \A a \in Nat : Holds(ipsDone \cup Pending, a) => Holds(ipsDone' \cup Pending', a),
           QueueIsLater', DoneIsDisjoint'
    PROVE  NetInv'
<1>1. NoAddressLost'
  <2>1. \A a \in Addresses : Holds(mIpAddresses, a) => Holds(ipsDone \cup Pending, a)
    BY LostIs DEF NetInv
  <2>2. \A a \in Addresses : Holds(mIpAddresses', a) => Holds(ipsDone' \cup Pending', a)
    BY <2>1, AddressesAreNaturals
  <2> QED
    BY <2>2 DEF NoAddressLost, CoveredBy, Holds
<1>2. NetsAreAligned'
  BY DEF NetInv, NetsAreAligned
<1> QED
  BY <1>1, <1>2 DEF NetInv

\* The list stays disjoint while nothing earlier is queued.
LEMMA DoneStays ==
    ASSUME DoneIsDisjoint, ipsDone' = ipsDone, ipsDone \subseteq ANet,
           Pending \subseteq ANet, Pending' \subseteq ANet,
           \A m \in Pending' : \E q \in Pending : q.first <= m.first
    PROVE  DoneIsDisjoint'
<1>1. \A m \in ANet : m.first \in Nat /\ getLastAddress(m) \in Nat
  BY LastIs DEF ANet, Net
<1>2. ASSUME NEW n \in ipsDone, NEW m \in Pending' PROVE getLastAddress(n) < m.first
  <2>1. PICK q \in Pending : q.first <= m.first
    OBVIOUS
  <2>2. getLastAddress(n) < q.first
    BY DEF DoneIsDisjoint
  <2> QED
    BY <1>1, <2>1, <2>2
<1> QED
  BY <1>2 DEF DoneIsDisjoint

\* An address that is held by a network that stays is held.
LEMMA HeldBySame ==
    ASSUME NEW A, NEW B, NEW a, A \subseteq B, Holds(A, a)
    PROVE  Holds(B, a)
BY DEF Holds

LEMMA AddsIs ==
    ASSUME NEW A, NEW n
    PROVE  /\ A \subseteq Adds(A, n) /\ Adds(A, n) \subseteq A \cup {n}
           /\ \A a : Covers(n, a) => Holds(Adds(A, n), a)
<1>1. CASE \E m \in A : equals(n, m)
  BY <1>1, EqualCovers DEF Adds, Holds
<1>2. CASE ~ \E m \in A : equals(n, m)
  BY <1>2 DEF Adds, Holds
<1> QED
  BY <1>1, <1>2

\* currentNet is done: it ends before everything else that is pending.
LEMMA DoneGrows ==
    ASSUME DoneIsDisjoint, phase = "generate", ipsDone' = Adds(ipsDone, currentNet),
           ipsDone \subseteq ANet, currentNet \in ANet,
           Pending' \subseteq BagToSet(networks),
           \A m \in BagToSet(networks) : getLastAddress(currentNet) < m.first
    PROVE  DoneIsDisjoint'
<1>1. Pending = BagToSet(networks) \cup {currentNet}
  BY DEF Pending
<1>2. ipsDone' \subseteq ipsDone \cup {currentNet}
  BY AddsIs
<1>3. ASSUME NEW n \in ipsDone', NEW m \in ipsDone'
      PROVE  n = m \/ getLastAddress(n) < m.first \/ getLastAddress(m) < n.first
  BY <1>1, <1>2 DEF DoneIsDisjoint
<1>4. ASSUME NEW n \in ipsDone', NEW m \in Pending'
      PROVE  getLastAddress(n) < m.first
  BY <1>1, <1>2 DEF DoneIsDisjoint
<1> QED
  BY <1>3, <1>4 DEF DoneIsDisjoint

LEMMA NextIsLaterStep ==
    ASSUME NetInv, NEW n \in BagToSet(networks), NEW rest, NextIsLater(n, rest)
    PROVE  NetInv'
<1>1. Turn(n, rest)
  BY DEF NextIsLater
<1>2. /\ phase = "generate" /\ phase' = "generate" /\ mIpAddresses' = mIpAddresses
      /\ n \in ANet /\ currentNet \in ANet
      /\ IsQueue(rest) /\ BagToSet(rest) \subseteq BagToSet(networks)
      /\ BagToSet(networks) \subseteq BagToSet(rest) \cup {n}
      /\ BagToSet(networks) \subseteq ANet
      /\ \A m \in BagToSet(networks) : ~Before(m, n) /\ n.first <= m.first
      /\ Pending = BagToSet(networks) \cup {currentNet}
      /\ Pending' = BagToSet(networks') \cup {currentNet'}
  BY <1>1, NextNet
<1>3. /\ ~Overlaps(n) /\ ipsDone' = Adds(ipsDone, currentNet)
      /\ currentNet' = n /\ networks' = rest
  BY DEF NextIsLater
<1>4. \A m \in ANet : m.first \in Nat /\ getLastAddress(m) \in Nat
  BY LastIs DEF ANet, Net
<1>5. Pending' \subseteq BagToSet(networks) /\ Pending' \subseteq ANet
  BY <1>2, <1>3
<1>6. \A m \in BagToSet(networks) : getLastAddress(currentNet) < m.first
  BY <1>2, <1>3, <1>4 DEF Overlaps, getFirstAddress
<1>7. ipsDone \subseteq ANet /\ DoneIsDisjoint
  BY DEF NetInv, NetsAreAligned
<1>8. DoneIsDisjoint'
  BY <1>2, <1>3, <1>5, <1>6, <1>7, DoneGrows
<1>9. QueueIsLater'
  BY <1>2, <1>3 DEF QueueIsLater, Before
<1>10. ASSUME NEW a \in Nat, Holds(ipsDone \cup Pending, a)
       PROVE  Holds(ipsDone' \cup Pending', a)
  <2>1. PICK m \in ipsDone \cup Pending : Covers(m, a)
    BY <1>10 DEF Holds
  <2>2. CASE m = currentNet
    BY <1>3, <2>1, <2>2, AddsIs DEF Holds
  <2>3. CASE m # currentNet
    <3>1. m \in ipsDone' \cup Pending'
      BY <1>2, <1>3, <2>3, AddsIs
    <3> QED
      BY <2>1, <3>1 DEF Holds
  <2> QED
    BY <2>2, <2>3
<1>11. ipsDone' \subseteq ANet
  BY <1>2, <1>3, <1>7, AddsIs
<1>12. IsQueue(networks)'
  BY <1>2, <1>3
<1> QED
  BY <1>2, <1>5, <1>8, <1>9, <1>10, <1>11, <1>12, TurnIs

LEMMA ForgetCurrentStep ==
    ASSUME NetInv, NEW n \in BagToSet(networks), NEW rest, ForgetCurrent(n, rest)
    PROVE  NetInv'
<1>1. Turn(n, rest)
  BY DEF ForgetCurrent
<1>2. /\ phase = "generate" /\ phase' = "generate" /\ mIpAddresses' = mIpAddresses
      /\ n \in ANet /\ currentNet \in ANet
      /\ IsQueue(rest) /\ BagToSet(rest) \subseteq BagToSet(networks)
      /\ BagToSet(networks) \subseteq BagToSet(rest) \cup {n}
      /\ BagToSet(networks) \subseteq ANet
      /\ \A m \in BagToSet(networks) : ~Before(m, n) /\ n.first <= m.first
      /\ Pending = BagToSet(networks) \cup {currentNet}
      /\ Pending' = BagToSet(networks') \cup {currentNet'}
  BY <1>1, NextNet
<1>3. /\ SmallerSameBase(n) /\ ipsDone' = ipsDone /\ currentNet' = n /\ networks' = rest
  BY DEF ForgetCurrent
<1>4. \A m \in ANet : m.first \in Nat /\ m.mask \in Nat /\ getLastAddress(m) \in Nat
  BY LastIs DEF ANet, Net
<1>5. Pending' \subseteq Pending /\ Pending' \subseteq ANet /\ Pending \subseteq ANet
  BY <1>2, <1>3
<1>6. ipsDone \subseteq ANet /\ DoneIsDisjoint
  BY DEF NetInv, NetsAreAligned
<1>7. DoneIsDisjoint'
  BY <1>3, <1>4, <1>5, <1>6, DoneStays
<1>8. QueueIsLater'
  BY <1>2, <1>3 DEF QueueIsLater, Before
<1>9. getLastAddress(currentNet) <= getLastAddress(n) /\ currentNet.first = n.first
  <2>1. n.mask <= currentNet.mask /\ currentNet.first = n.first
    BY <1>2, <1>3, <1>4 DEF SmallerSameBase
  <2> QED
    BY <1>2, <2>1, SameBase DEF ANet
<1>10. ASSUME NEW a \in Nat, Holds(ipsDone \cup Pending, a)
       PROVE  Holds(ipsDone' \cup Pending', a)
  <2>1. PICK m \in ipsDone \cup Pending : Covers(m, a)
    BY <1>10 DEF Holds
  <2>2. CASE m = currentNet
    <3>1. Covers(n, a) /\ n \in Pending'
      BY <1>2, <1>3, <1>4, <1>9, <2>1, <2>2 DEF Covers
    <3> QED
      BY <3>1 DEF Holds
  <2>3. CASE m # currentNet
    <3>1. m \in ipsDone' \cup Pending'
      BY <1>2, <1>3, <2>3
    <3> QED
      BY <2>1, <3>1 DEF Holds
  <2> QED
    BY <2>2, <2>3
<1>11. ipsDone' \subseteq ANet /\ IsQueue(networks)'
  BY <1>2, <1>3, <1>6
<1> QED
  BY <1>2, <1>5, <1>7, <1>8, <1>10, <1>11, TurnIs

LEMMA IgnoreNextStep ==
    ASSUME NetInv, NEW n \in BagToSet(networks), NEW rest, IgnoreNext(n, rest)
    PROVE  NetInv'
<1>1. Turn(n, rest)
  BY DEF IgnoreNext
<1>2. /\ phase = "generate" /\ phase' = "generate" /\ mIpAddresses' = mIpAddresses
      /\ n \in ANet /\ currentNet \in ANet
      /\ IsQueue(rest) /\ BagToSet(rest) \subseteq BagToSet(networks)
      /\ BagToSet(networks) \subseteq BagToSet(rest) \cup {n}
      /\ BagToSet(networks) \subseteq ANet
      /\ \A m \in BagToSet(networks) : ~Before(m, n)
      /\ currentNet.first <= n.first
      /\ Pending = BagToSet(networks) \cup {currentNet}
      /\ Pending' = BagToSet(networks') \cup {currentNet'}
  BY <1>1, NextNet
<1>3. /\ Overlaps(n) /\ ~SmallerSameBase(n)
      /\ ipsDone' = ipsDone /\ currentNet' = currentNet /\ networks' = rest
  BY DEF IgnoreNext
<1>4. \A m \in ANet : m.first \in Nat /\ m.mask \in Nat /\ getLastAddress(m) \in Nat
  BY LastIs DEF ANet, Net
<1>5. Pending' \subseteq Pending /\ Pending' \subseteq ANet /\ Pending \subseteq ANet
  BY <1>2, <1>3
<1>6. ipsDone \subseteq ANet /\ DoneIsDisjoint /\ QueueIsLater
  BY DEF NetInv, NetsAreAligned
<1>7. DoneIsDisjoint'
  BY <1>3, <1>4, <1>5, <1>6, DoneStays
<1>8. QueueIsLater'
  <2> SUFFICES ASSUME NEW m \in BagToSet(rest), Before(m, currentNet)
               PROVE  /\ equals(m, FirstHalf(currentNet))
                      /\ \E s \in BagToSet(rest) : equals(s, SecondHalf(currentNet))
    BY <1>3 DEF QueueIsLater
  <2>1. m \in BagToSet(networks) /\ equals(m, FirstHalf(currentNet))
    BY <1>2, <1>6 DEF QueueIsLater
  <2>2. PICK s \in BagToSet(networks) : equals(s, SecondHalf(currentNet))
    BY <1>2, <1>6 DEF QueueIsLater
  <2>3. m.first < s.first
    BY <1>2, <2>1, <2>2, Halves DEF equals
  <2>4. s # n
    BY <1>2, <2>1, <2>3 DEF Before
  <2> QED
    BY <1>2, <2>1, <2>2, <2>4
<1>9. getLastAddress(n) <= getLastAddress(currentNet)
  <2>1. CASE n.first = currentNet.first
    <3>1. currentNet.mask <= n.mask
      BY <1>2, <1>3, <1>4, <2>1 DEF SmallerSameBase
    <3> QED
      BY <1>2, <2>1, <3>1, SameBase DEF ANet
  <2>2. CASE n.first # currentNet.first
    <3>1. currentNet.first < n.first /\ n.first <= getLastAddress(currentNet)
      BY <1>2, <1>3, <1>4, <2>2 DEF Overlaps, getFirstAddress
    <3> QED
      BY <1>2, <3>1, Nesting
  <2> QED
    BY <2>1, <2>2
<1>10. ASSUME NEW a \in Nat, Holds(ipsDone \cup Pending, a)
       PROVE  Holds(ipsDone' \cup Pending', a)
  <2>1. PICK m \in ipsDone \cup Pending : Covers(m, a)
    BY <1>10 DEF Holds
  <2>2. CASE m = n
    <3>1. Covers(currentNet, a) /\ currentNet \in Pending'
      BY <1>2, <1>3, <1>4, <1>9, <2>1, <2>2 DEF Covers
    <3> QED
      BY <3>1 DEF Holds
  <2>3. CASE m # n
    <3>1. m \in ipsDone' \cup Pending'
      BY <1>2, <1>3, <2>3
    <3> QED
      BY <2>1, <3>1 DEF Holds
  <2> QED
    BY <2>2, <2>3
<1>11. ipsDone' \subseteq ANet /\ IsQueue(networks)'
  BY <1>2, <1>3, <1>6
<1> QED
  BY <1>2, <1>5, <1>7, <1>8, <1>10, <1>11, TurnIs

\* What is queued again of the next network.
LEMMA RequeuedIs ==
    ASSUME NEW rest, IsQueue(rest), BagToSet(rest) \subseteq ANet, NEW n \in ANet
    PROVE  LET N == BagToSet(RequeueHalves(n, rest)) IN
           /\ IsQueue(RequeueHalves(n, rest))
           /\ BagToSet(rest) \subseteq N /\ N \subseteq BagToSet(rest) \cup {FirstHalf(n), SecondHalf(n)}
           /\ \E m \in N : equals(SecondHalf(n), m)
           /\ \/ getLastAddress(FirstHalf(n)) = getLastAddress(currentNet)
              \/ \E m \in N : equals(FirstHalf(n), m)
<1> DEFINE second == QueuedOnce(rest, SecondHalf(n))
           both == QueuedOnce(second, FirstHalf(n))
<1>1. FirstHalf(n) \in ANet /\ SecondHalf(n) \in ANet
  BY Halves
<1>2. /\ IsQueue(second)
      /\ BagToSet(rest) \subseteq BagToSet(second)
      /\ BagToSet(second) \subseteq BagToSet(rest) \cup {SecondHalf(n)}
      /\ \E m \in BagToSet(second) : equals(SecondHalf(n), m)
  BY <1>1, QueuedOnceIs
<1>3. BagToSet(second) \subseteq ANet
  BY <1>1, <1>2
<1> HIDE DEF second
<1>4. /\ IsQueue(both)
      /\ BagToSet(second) \subseteq BagToSet(both)
      /\ BagToSet(both) \subseteq BagToSet(second) \cup {FirstHalf(n)}
      /\ \E m \in BagToSet(both) : equals(FirstHalf(n), m)
  BY <1>1, <1>2, <1>3, QueuedOnceIs
<1> HIDE DEF both
<1>5. RequeueHalves(n, rest) =
        IF getLastAddress(FirstHalf(n)) = getLastAddress(currentNet) THEN second ELSE both
  BY DEF RequeueHalves, second, both
<1> QED
  BY <1>2, <1>4, <1>5

LEMMA SplitNextStep ==
    ASSUME NetInv, NEW n \in BagToSet(networks), NEW rest, SplitNext(n, rest)
    PROVE  NetInv'
<1>1. Turn(n, rest)
  BY DEF SplitNext
<1>2. /\ phase = "generate" /\ phase' = "generate" /\ mIpAddresses' = mIpAddresses
      /\ n \in ANet /\ currentNet \in ANet
      /\ IsQueue(rest) /\ BagToSet(rest) \subseteq BagToSet(networks)
      /\ BagToSet(networks) \subseteq BagToSet(rest) \cup {n}
      /\ BagToSet(networks) \subseteq ANet
      /\ \A m \in BagToSet(networks) : ~Before(m, n)
      /\ Pending = BagToSet(networks) \cup {currentNet}
      /\ Pending' = BagToSet(networks') \cup {currentNet'}
  BY <1>1, NextNet
<1> DEFINE f == FirstHalf(n)
           g == SecondHalf(n)
           N == BagToSet(networks')
<1>3. /\ SmallerSameBase(n) /\ networks' = RequeueHalves(n, rest)
      /\ ipsDone' = ipsDone /\ currentNet' = currentNet
  BY DEF SplitNext
<1>4. \A m \in ANet : m.first \in Nat /\ m.mask \in Nat /\ getLastAddress(m) \in Nat
  BY LastIs DEF ANet, Net
<1>5. /\ f \in ANet /\ g \in ANet
      /\ f.first = n.first /\ f.mask = n.mask + 1
      /\ g.first = n.first + Size(n.mask + 1) /\ g.mask = n.mask + 1
      /\ n.first < g.first
      /\ \A a \in Nat : Covers(n, a) => Covers(f, a) \/ Covers(g, a)
  BY <1>2, Halves
<1>6. /\ IsQueue(networks')
      /\ BagToSet(rest) \subseteq N /\ N \subseteq BagToSet(rest) \cup {f, g}
      /\ \E m \in N : equals(g, m)
      /\ getLastAddress(f) = getLastAddress(currentNet) \/ \E m \in N : equals(f, m)
  BY <1>2, <1>3, RequeuedIs
<1> HIDE DEF f, g
<1>7. n.mask <= currentNet.mask /\ currentNet.first = n.first
  BY <1>2, <1>3, <1>4 DEF SmallerSameBase
<1>8. ipsDone \subseteq ANet /\ DoneIsDisjoint /\ QueueIsLater
  BY DEF NetInv, NetsAreAligned
<1>9. Pending' \subseteq ANet /\ Pending \subseteq ANet
  BY <1>2, <1>3, <1>5, <1>6
<1>10. ASSUME NEW m \in Pending' PROVE \E q \in Pending : q.first <= m.first
  <2>1. CASE m \in Pending
    BY <1>4, <1>9, <2>1
  <2>2. CASE m = f \/ m = g
    BY <1>2, <1>4, <1>5, <2>2
  <2> QED
    BY <1>2, <1>3, <1>6, <2>1, <2>2
<1>11. DoneIsDisjoint'
  BY <1>3, <1>8, <1>9, <1>10, DoneStays
<1>12. QueueIsLater'
  <2> SUFFICES ASSUME NEW m \in N, Before(m, currentNet)
               PROVE  /\ equals(m, FirstHalf(currentNet))
                      /\ \E s \in N : equals(s, SecondHalf(currentNet))
    BY <1>3 DEF QueueIsLater
  <2>0. /\ FirstHalf(currentNet).first = currentNet.first
        /\ FirstHalf(currentNet).mask = currentNet.mask + 1
        /\ SecondHalf(currentNet).first = currentNet.first + Size(currentNet.mask + 1)
        /\ SecondHalf(currentNet).mask = currentNet.mask + 1
    BY <1>2, Halves
  <2>1. m \notin BagToSet(rest)
    <3> SUFFICES ASSUME m \in BagToSet(rest) PROVE FALSE
      OBVIOUS
    <3>1. m \in BagToSet(networks) /\ m.first = currentNet.first /\ m.mask = currentNet.mask + 1
      BY <1>2, <1>8, <2>0 DEF QueueIsLater, equals
    <3>2. Before(m, n)
      BY <1>2, <1>4, <1>7, <3>1 DEF Before
    <3> QED
      BY <1>2, <3>1, <3>2
  <2>2. m # g
    BY <1>2, <1>4, <1>5, <1>7 DEF Before
  <2>3. m = f
    BY <1>6, <2>1, <2>2
  <2>4. n.mask = currentNet.mask
    BY <1>2, <1>4, <1>5, <1>7, <2>3 DEF Before
  <2>5. equals(m, FirstHalf(currentNet))
    BY <1>5, <1>7, <2>0, <2>3, <2>4 DEF equals
  <2>6. PICK s \in N : equals(g, s)
    BY <1>6
  <2>7. equals(s, SecondHalf(currentNet))
    BY <1>5, <1>7, <2>0, <2>4, <2>6 DEF equals
  <2> QED
    BY <2>5, <2>7
<1>13. ASSUME NEW a \in Nat, Holds(ipsDone \cup Pending, a)
       PROVE  Holds(ipsDone' \cup Pending', a)
  <2>1. PICK m \in ipsDone \cup Pending : Covers(m, a)
    BY <1>13 DEF Holds
  <2>2. CASE m = n
    <3>1. CASE Covers(g, a)
      BY <1>2, <1>6, <3>1, EqualCovers DEF Holds
    <3>2. CASE Covers(f, a)
      <4>1. CASE \E s \in N : equals(f, s)
        BY <1>2, <3>2, <4>1, EqualCovers DEF Holds
      <4>2. CASE getLastAddress(f) = getLastAddress(currentNet)
        <5>1. Covers(currentNet, a) /\ currentNet \in Pending'
          BY <1>2, <1>3, <1>5, <1>7, <3>2, <4>2 DEF Covers
        <5> QED
          BY <5>1 DEF Holds
      <4> QED
        BY <1>6, <4>1, <4>2
    <3> QED
      BY <1>5, <2>1, <2>2, <3>1, <3>2
  <2>3. CASE m # n
    <3>1. m \in ipsDone' \cup Pending'
      BY <1>2, <1>3, <1>6, <2>3
    <3> QED
      BY <2>1, <3>1 DEF Holds
  <2> QED
    BY <2>2, <2>3
<1>14. ipsDone' \subseteq ANet /\ IsQueue(networks)'
  BY <1>3, <1>6, <1>8
<1> QED
  BY <1>2, <1>9, <1>11, <1>12, <1>13, <1>14, TurnIs

LEMMA SplitCurrentStep ==
    ASSUME NetInv, NEW n \in BagToSet(networks), NEW rest, SplitCurrent(n, rest)
    PROVE  NetInv'
<1>1. Turn(n, rest)
  BY DEF SplitCurrent
<1>2. /\ phase = "generate" /\ phase' = "generate" /\ mIpAddresses' = mIpAddresses
      /\ n \in ANet /\ currentNet \in ANet
      /\ IsQueue(rest) /\ BagToSet(rest) \subseteq BagToSet(networks)
      /\ BagToSet(networks) \subseteq BagToSet(rest) \cup {n}
      /\ BagToSet(networks) \subseteq ANet
      /\ \A m \in BagToSet(networks) : ~Before(m, n)
      /\ currentNet.first <= n.first
      /\ Pending = BagToSet(networks) \cup {currentNet}
      /\ Pending' = BagToSet(networks') \cup {currentNet'}
  BY <1>1, NextNet
<1> DEFINE f == FirstHalf(currentNet)
           g == SecondHalf(currentNet)
           N == BagToSet(networks')
<1>3. /\ Overlaps(n) /\ ~SmallerSameBase(n)
      /\ networks' = IF g.mask = n.mask THEN Queued(rest, n) ELSE Queued(Queued(rest, g), n)
      /\ ipsDone' = ipsDone /\ currentNet' = f
  BY DEF SplitCurrent
<1>4. \A m \in ANet : m.first \in Nat /\ m.mask \in Nat /\ getLastAddress(m) \in Nat
  BY LastIs DEF ANet, Net
<1>5. /\ f \in ANet /\ g \in ANet
      /\ f.first = currentNet.first /\ f.mask = currentNet.mask + 1
      /\ g.first = currentNet.first + Size(currentNet.mask + 1) /\ g.mask = currentNet.mask + 1
      /\ currentNet.first < g.first
      /\ \A a \in Nat : Covers(currentNet, a) => Covers(f, a) \/ Covers(g, a)
  BY <1>2, Halves
<1> HIDE DEF f, g
<1>6. /\ IsQueue(networks')
      /\ BagToSet(networks) \subseteq N /\ N \subseteq BagToSet(networks) \cup {g}
      /\ g.mask # n.mask => g \in N
  <2>1. IsQueue(Queued(rest, n)) /\ BagToSet(Queued(rest, n)) = BagToSet(rest) \cup {n}
    BY <1>2, QueuedIs
  <2>2. IsQueue(Queued(rest, g)) /\ BagToSet(Queued(rest, g)) = BagToSet(rest) \cup {g}
    BY <1>2, QueuedIs
  <2>3. /\ IsQueue(Queued(Queued(rest, g), n))
        /\ BagToSet(Queued(Queued(rest, g), n)) = BagToSet(rest) \cup {g} \cup {n}
    BY <2>2, QueuedIs
  <2> QED
    BY <1>2, <1>3, <2>1, <2>3
<1>8. ipsDone \subseteq ANet /\ DoneIsDisjoint /\ QueueIsLater
  BY DEF NetInv, NetsAreAligned
<1>9. Pending' \subseteq ANet /\ Pending \subseteq ANet
  BY <1>2, <1>3, <1>5, <1>6
<1>10. ASSUME NEW m \in Pending' PROVE \E q \in Pending : q.first <= m.first
  <2>1. CASE m \in Pending
    BY <1>4, <1>9, <2>1
  <2>2. CASE m = f \/ m = g
    BY <1>2, <1>4, <1>5, <2>2
  <2> QED
    BY <1>2, <1>3, <1>6, <2>1, <2>2
<1>11. DoneIsDisjoint'
  BY <1>3, <1>8, <1>9, <1>10, DoneStays
<1>12. ASSUME NEW m \in BagToSet(networks), Before(m, currentNet)
       PROVE  /\ m.first = currentNet.first /\ m.mask = currentNet.mask + 1
              /\ \E s \in BagToSet(networks) : equals(s, g)
  BY <1>2, <1>5, <1>8, <1>12 DEF QueueIsLater, equals, f, g
<1>13. QueueIsLater'
  <2> SUFFICES ASSUME NEW m \in N, Before(m, f) PROVE FALSE
    BY <1>3 DEF QueueIsLater
  <2>1. m \in ANet /\ m.first \in Nat /\ m.mask \in Nat
    BY <1>2, <1>4, <1>9
  <2>2. m # g
    BY <1>2, <1>4, <1>5 DEF Before
  <2>3. m \in BagToSet(networks)
    BY <1>6, <2>2
  <2>4. Before(m, currentNet)
    BY <1>2, <1>4, <1>5, <2>1 DEF Before
  <2> QED
    BY <1>2, <1>4, <1>5, <1>12, <2>1, <2>3, <2>4 DEF Before
\* The second half is queued, or n is that half, or another network is.
<1>14. \E s \in N : equals(s, g)
  <2>1. CASE g.mask # n.mask
    BY <1>6, <2>1 DEF equals
  <2>2. CASE g.mask = n.mask /\ n.first = currentNet.first
    <3>1. Before(n, currentNet)
      BY <1>2, <1>4, <1>5, <2>2 DEF Before
    <3> QED
      BY <1>6, <1>12, <3>1
  <2>3. CASE g.mask = n.mask /\ n.first # currentNet.first
    <3>1. currentNet.first < n.first /\ n.first <= getLastAddress(currentNet)
      BY <1>2, <1>3, <1>4, <2>3 DEF Overlaps, getFirstAddress
    <3>2. n.first = currentNet.first + Size(currentNet.mask + 1)
      BY <1>2, <1>5, <2>3, <3>1, Nesting
    <3> QED
      BY <1>5, <1>6, <2>3, <3>2 DEF equals
  <2> QED
    BY <2>1, <2>2, <2>3
<1>15. ASSUME NEW a \in Nat, Holds(ipsDone \cup Pending, a)
       PROVE  Holds(ipsDone' \cup Pending', a)
  <2>1. PICK m \in ipsDone \cup Pending : Covers(m, a)
    BY <1>15 DEF Holds
  <2>2. CASE m = currentNet
    <3>1. CASE Covers(g, a)
      BY <1>2, <1>14, <3>1, EqualCovers DEF Holds
    <3>2. CASE Covers(f, a)
      BY <1>2, <1>3, <3>2 DEF Holds
    <3> QED
      BY <1>5, <2>1, <2>2, <3>1, <3>2
  <2>3. CASE m # currentNet
    <3>1. m \in ipsDone' \cup Pending'
      BY <1>2, <1>3, <1>6, <2>3
    <3> QED
      BY <2>1, <3>1 DEF Holds
  <2> QED
    BY <2>2, <2>3
<1>16. ipsDone' \subseteq ANet /\ IsQueue(networks)'
  BY <1>3, <1>6, <1>8
<1> QED
  BY <1>2, <1>9, <1>11, <1>13, <1>15, <1>16, TurnIs

-----------------------------------------------------------------------------
(* The other steps. *)

LEMMA NetInit == Init => NetInv
<1> SUFFICES ASSUME Init PROVE NetInv
  OBVIOUS
<1>1. NetsAreAligned
  BY EmptyIsQueue DEF Init, NetsAreAligned, Pending
<1>2. QueueIsLater /\ NoAddressLost /\ DoneIsDisjoint
  BY DEF Init, QueueIsLater, NoAddressLost, DoneIsDisjoint
<1> QED
  BY <1>1, <1>2 DEF NetInv

LEMMA CollectStep ==
    ASSUME NetInv, NEW n \in Networks, addIP(n)
    PROVE  NetInv'
<1>1. /\ phase = "collect" /\ phase' = "collect" /\ mIpAddresses' = Adds(mIpAddresses, n)
      /\ networks' = networks /\ ipsDone' = ipsDone /\ ipsDone = {}
      /\ mIpAddresses \subseteq ANet /\ IsQueue(networks) /\ networks = EmptyBag
  BY DEF addIP, NetInv, NetsAreAligned
<1>2. mIpAddresses' \subseteq ANet
  BY <1>1, NetworksAreNets, AddsIs
<1>3. NetsAreAligned'
  BY <1>1, <1>2 DEF NetsAreAligned, Pending
<1>4. QueueIsLater' /\ NoAddressLost' /\ DoneIsDisjoint'
  BY <1>1 DEF QueueIsLater, NoAddressLost, DoneIsDisjoint
<1> QED
  BY <1>3, <1>4 DEF NetInv

LEMMA StartStep ==
    ASSUME NetInv, StartGenerate
    PROVE  NetInv'
<1> DEFINE bag == SetToBag(mIpAddresses)
<1>1. IsQueue(bag) /\ BagToSet(bag) = mIpAddresses
  BY SetIsQueue
<1>2. PICK n \in Polls(bag) : currentNet' = n /\ networks' = Polled(bag, n)
  BY DEF StartGenerate
<1>3. /\ phase' = "generate" /\ mIpAddresses' = mIpAddresses /\ ipsDone' = ipsDone /\ ipsDone = {}
      /\ mIpAddresses \subseteq ANet
  BY DEF StartGenerate, NetInv, NetsAreAligned
<1>4. n \in mIpAddresses /\ \A m \in mIpAddresses : ~Before(m, n)
  BY <1>1, <1>2 DEF Polls
<1> HIDE DEF bag
<1>5. /\ IsQueue(networks') /\ BagToSet(networks') \subseteq mIpAddresses
      /\ mIpAddresses \subseteq BagToSet(networks') \cup {n}
  BY <1>1, <1>2, <1>4, PolledIs
<1>6. Pending' = mIpAddresses
  BY <1>2, <1>3, <1>4, <1>5 DEF Pending
<1>7. NetsAreAligned'
  BY <1>3, <1>5, <1>6 DEF NetsAreAligned
<1>8. QueueIsLater'
  BY <1>2, <1>4, <1>5 DEF QueueIsLater
<1>9. NoAddressLost'
  BY <1>3, <1>6 DEF NoAddressLost, CoveredBy
<1>10. DoneIsDisjoint'
  BY <1>3 DEF DoneIsDisjoint
<1> QED
  BY <1>7, <1>8, <1>9, <1>10 DEF NetInv

LEMMA LastStep ==
    ASSUME NetInv, LastNet
    PROVE  NetInv'
<1>1. /\ phase = "generate" /\ phase' = "done" /\ mIpAddresses' = mIpAddresses
      /\ networks = EmptyBag /\ networks' = networks
      /\ ipsDone' = Adds(ipsDone, currentNet)
      /\ NetsAreAligned /\ NoAddressLost /\ DoneIsDisjoint
  BY DEF LastNet, NetInv
<1>2. Pending = {currentNet} /\ Pending' = {}
  BY <1>1, EmptyIsQueue DEF Pending
<1>3. currentNet \in ANet /\ ipsDone \subseteq ANet
  BY <1>1, <1>2 DEF NetsAreAligned
<1>4. DoneIsDisjoint'
  BY <1>1, <1>2, <1>3, EmptyIsQueue, DoneGrows
<1>5. ipsDone' \subseteq ANet
  BY <1>1, <1>3, AddsIs
<1>6. NetsAreAligned'
  BY <1>1, <1>2, <1>5 DEF NetsAreAligned
<1>7. QueueIsLater'
  BY <1>1 DEF QueueIsLater
<1>8. NoAddressLost'
  <2>1. \A a \in Addresses : Holds(mIpAddresses, a) => Holds(ipsDone \cup Pending, a)
    BY <1>1, LostIs
  <2>2. ASSUME NEW a \in Addresses, Holds(mIpAddresses, a)
        PROVE  Holds(ipsDone' \cup Pending', a)
    <3>1. PICK m \in ipsDone \cup {currentNet} : Covers(m, a)
      BY <1>2, <2>1, <2>2 DEF Holds
    <3>2. CASE m \in ipsDone
      BY <1>1, <3>1, <3>2, AddsIs DEF Holds
    <3>3. CASE m = currentNet
      BY <1>1, <1>2, <3>1, <3>3, AddsIs DEF Holds
    <3> QED
      BY <3>2, <3>3
  <2> QED
    BY <1>1, <2>2 DEF NoAddressLost, CoveredBy, Holds
<1> QED
  BY <1>4, <1>6, <1>7, <1>8 DEF NetInv

LEMMA ClearStep ==
    ASSUME NetInv, clear
    PROVE  NetInv'
<1>1. /\ phase' = "collect" /\ mIpAddresses' = {} /\ ipsDone' = {} /\ networks' = networks
      /\ networks = EmptyBag /\ IsQueue(networks)
  BY DEF clear, NetInv, NetsAreAligned
<1>2. NetsAreAligned'
  BY <1>1 DEF NetsAreAligned, Pending
<1> QED
  BY <1>1, <1>2 DEF NetInv, QueueIsLater, NoAddressLost, DoneIsDisjoint

LEMMA StutterStep ==
    ASSUME NetInv, UNCHANGED vars
    PROVE  NetInv'
BY DEF vars, NetInv, NetsAreAligned, QueueIsLater, NoAddressLost, DoneIsDisjoint, Pending

LEMMA NetInvariant == Spec => []NetInv
<1>1. NetInv /\ [Next]_vars => NetInv'
  <2> SUFFICES ASSUME NetInv, [Next]_vars PROVE NetInv'
    OBVIOUS
  <2>1. ASSUME NEW n \in BagToSet(networks), LoopTurn(n, Polled(networks, n)) PROVE NetInv'
    BY <2>1, NextIsLaterStep, ForgetCurrentStep, SplitNextStep, IgnoreNextStep, SplitCurrentStep
    DEF LoopTurn
  <2> QED
    BY <2>1, CollectStep, StartStep, LastStep, ClearStep, StutterStep DEF Next, generateIPList
<1> QED
  BY <1>1, NetInit, PTL DEF Spec

-----------------------------------------------------------------------------
(* Routes. *)

\* A set of networks has no two that compareTo takes for one.
NoTwoEqual == \A m, p \in mIpAddresses : equals(m, p) => m = p

Within(n, m) == m.first <= n.first /\ getLastAddress(n) <= getLastAddress(m)
Meet(n, m) == n.first <= getLastAddress(m) /\ m.first <= getLastAddress(n)

Exceptions ==
    {m \in mIpAddresses : \E p \in mIpAddresses : Inside(m, p) /\ m.included # p.included}

\* Part of a network of its type and of no exception.
Plain(s) ==
    /\ \E p \in mIpAddresses : Within(s, p) /\ s.included = p.included
    /\ \A m \in Exceptions : ~Within(s, m)

\* Every network, done or not, is an exception or plain, and no exception is
\* missing; the queue is later than currentNet without an exception to it.
Routed ==
    /\ \A s \in ipsDone \cup Pending : s \in Exceptions \/ Plain(s)
    /\ Exceptions \subseteq ipsDone \cup Pending
    /\ phase = "generate" => \A m \in BagToSet(networks) : ~Before(m, currentNet)

RouteInv ==
    /\ mIpAddresses \subseteq Networks
    /\ NoTwoEqual
    /\ ExceptionsAreApart /\ phase # "collect" => Routed

\* Smaller masks are larger networks.
LEMMA SizeGrows ==
    ASSUME NEW a \in Nat, NEW b \in Nat, a <= b
    PROVE  /\ Size(b) <= Size(a)
           /\ a < b /\ a < Width => Size(b) < Size(a)
<1>1. \A c \in Nat : c <= b => Size(b) <= Size(c)
  <2> SUFFICES ASSUME NEW c \in Nat, c <= b PROVE Size(b) <= Size(c)
    OBVIOUS
  <2>1. PICK q \in Nat \ {0} : Size(c) = q * Size(b)
    BY SizeDivides
  <2>2. Size(b) \in Nat \ {0} /\ 1 * Size(b) <= q * Size(b)
    BY SizeIs, Multiples
  <2> QED
    BY <2>1, <2>2
<1>2. ASSUME a < b, a < Width PROVE Size(b) < Size(a)
  <2>1. Size(a) = 2 * Size(a + 1) /\ Size(a + 1) \in Nat \ {0} /\ Size(b) \in Nat
    BY <1>2, SizeIs
  <2>2. Size(b) <= Size(a + 1)
    BY <1>1, <1>2
  <2> QED
    BY <2>1, <2>2
<1> QED
  BY <1>1, <1>2

\* The numbers of a network.
LEMMA NetIs ==
    ASSUME NEW n \in ANet
    PROVE  /\ n \in Net /\ n.first \in Nat /\ n.mask \in Nat /\ Size(n.mask) \in Nat \ {0}
           /\ getLastAddress(n) \in Nat /\ n.first <= getLastAddress(n)
           /\ getLastAddress(n) = n.first + Size(n.mask) - 1
<1>1. n \in Net
  BY DEF ANet
<1>2. n.first \in Nat /\ n.mask \in Nat
  BY <1>1 DEF Net
<1> QED
  BY <1>1, <1>2, LastIs, SizeIs

\* Two networks that meet are nested, the one with the larger mask inside.
LEMMA Nested ==
    ASSUME NEW a \in ANet, NEW b \in ANet, Meet(a, b)
    PROVE  \/ Within(a, b) /\ b.mask <= a.mask
           \/ Within(b, a) /\ a.mask <= b.mask
<1>1. /\ a \in Net /\ b \in Net /\ a.first \in Nat /\ b.first \in Nat
      /\ a.mask \in Nat /\ b.mask \in Nat
      /\ getLastAddress(a) \in Nat /\ getLastAddress(b) \in Nat
  BY NetIs
<1>2. CASE a.first < b.first
  <2>1. a.mask < b.mask /\ getLastAddress(b) <= getLastAddress(a)
    BY <1>2, Nesting DEF Meet
  <2> QED
    BY <1>1, <1>2, <2>1 DEF Within
<1>3. CASE b.first < a.first
  <2>1. b.mask < a.mask /\ getLastAddress(a) <= getLastAddress(b)
    BY <1>3, Nesting DEF Meet
  <2> QED
    BY <1>1, <1>3, <2>1 DEF Within
<1>4. CASE a.first = b.first
  BY <1>1, <1>4, SameBase DEF Within
<1> QED
  BY <1>1, <1>2, <1>3, <1>4

\* Up to the width, networks with the same addresses are equal.
LEMMA SameRange ==
    ASSUME NEW a \in ANet, NEW b \in ANet, a.mask <= Width, b.mask <= Width,
           Within(a, b), Within(b, a)
    PROVE  equals(a, b)
<1>1. /\ a.first \in Nat /\ b.first \in Nat /\ a.mask \in Nat /\ b.mask \in Nat
      /\ Size(a.mask) \in Nat /\ Size(b.mask) \in Nat
      /\ getLastAddress(a) = a.first + Size(a.mask) - 1
      /\ getLastAddress(b) = b.first + Size(b.mask) - 1
      /\ getLastAddress(a) \in Nat /\ getLastAddress(b) \in Nat /\ Width \in Nat
  BY NetIs, NetworkSpaceAssumption
<1>2. a.first = b.first /\ getLastAddress(a) = getLastAddress(b)
  BY <1>1 DEF Within
<1>3. Size(a.mask) = Size(b.mask)
  BY <1>1, <1>2
<1>4. ~(a.mask < b.mask)
  <2> SUFFICES ASSUME a.mask < b.mask PROVE FALSE
    OBVIOUS
  <2>1. Size(b.mask) < Size(a.mask)
    BY <1>1, SizeGrows
  <2> QED
    BY <1>1, <1>3, <2>1
<1>5. ~(b.mask < a.mask)
  <2> SUFFICES ASSUME b.mask < a.mask PROVE FALSE
    OBVIOUS
  <2>1. Size(a.mask) < Size(b.mask)
    BY <1>1, SizeGrows
  <2> QED
    BY <1>1, <1>3, <2>1
<1> QED
  BY <1>1, <1>2, <1>4, <1>5 DEF equals

\* A network that is strictly inside another is in one of its halves, which
\* share nothing.
LEMMA InHalf ==
    ASSUME NEW n \in ANet, NEW b \in ANet, Within(b, n), ~Within(n, b)
    PROVE  /\ n.mask < Width
           /\ Within(FirstHalf(n), n) /\ Within(SecondHalf(n), n)
           /\ getLastAddress(FirstHalf(n)) + 1 = SecondHalf(n).first
           /\ Within(b, FirstHalf(n)) \/ Within(b, SecondHalf(n))
<1> DEFINE f == FirstHalf(n)
           g == SecondHalf(n)
           t == Size(n.mask + 1)
<1>1. /\ f \in ANet /\ g \in ANet /\ f.first = n.first /\ f.mask = n.mask + 1
      /\ g.first = n.first + t /\ g.mask = n.mask + 1
  BY Halves
<1> HIDE DEF f, g
<1>2. /\ n.first \in Nat /\ n.mask \in Nat /\ Size(n.mask) \in Nat \ {0}
      /\ b.first \in Nat /\ b.mask \in Nat /\ Size(b.mask) \in Nat \ {0} /\ Width \in Nat
      /\ getLastAddress(n) = n.first + Size(n.mask) - 1
      /\ getLastAddress(b) = b.first + Size(b.mask) - 1
  BY NetIs, NetworkSpaceAssumption
<1>3. n.mask < Width
  <2> SUFFICES ASSUME n.mask >= Width PROVE FALSE
    BY <1>2
  <2>1. Size(n.mask) = 1
    BY <1>2, SizeIs
  <2> QED
    BY <1>2, <2>1 DEF Within
<1>4. t \in Nat \ {0} /\ Size(n.mask) = 2 * t /\ n.mask + 1 \in Nat
  BY <1>2, <1>3, SizeIs
<1>5. /\ getLastAddress(f) = n.first + t - 1
      /\ getLastAddress(g) = n.first + t + t - 1
  BY <1>1, NetIs
<1> HIDE DEF t
<1>6. Within(f, n) /\ Within(g, n) /\ getLastAddress(f) + 1 = g.first
  BY <1>1, <1>2, <1>4, <1>5 DEF Within
<1>7. ASSUME NEW h \in {f, g}, Meet(b, h) PROVE Within(b, h)
  <2>1. CASE Within(h, b) /\ b.mask <= h.mask
    <3>1. b.mask = n.mask + 1
      <4> SUFFICES ASSUME b.mask <= n.mask PROVE FALSE
        BY <1>1, <1>2, <2>1
      <4>1. Size(n.mask) <= Size(b.mask)
        BY <1>2, SizeGrows
      <4> QED
        BY <1>2, <4>1 DEF Within
    <3>2. Size(b.mask) = t
      BY <3>1 DEF t
    <3> QED
      BY <1>1, <1>2, <1>4, <1>5, <2>1, <3>2 DEF Within
  <2> QED
    BY <1>1, <1>7, <2>1, Nested
<1>8. Meet(b, f) \/ Meet(b, g)
  BY <1>1, <1>2, <1>4, <1>5 DEF Within, Meet
<1> QED
  BY <1>3, <1>6, <1>7, <1>8 DEF f, g

-----------------------------------------------------------------------------
(* Exceptions. *)

Collected == mIpAddresses \subseteq Networks /\ NoTwoEqual /\ ExceptionsAreApart

LEMMA CollectedIs ==
    ASSUME Collected, NEW n \in mIpAddresses
    PROVE  n \in ANet /\ n.mask <= Width /\ n.included \in BOOLEAN
BY NetworksAreNets DEF Collected, Networks, ipAddress

\* Of two collected networks that meet, one is inside the other.
LEMMA CollectedMeet ==
    ASSUME Collected, NEW n \in mIpAddresses, NEW m \in mIpAddresses, Meet(n, m)
    PROVE  n = m \/ Inside(n, m) \/ Inside(m, n)
<1>1. /\ n \in ANet /\ m \in ANet /\ n.mask \in Nat /\ m.mask \in Nat
      /\ n.first \in Nat /\ m.first \in Nat
      /\ Size(n.mask) \in Nat /\ Size(m.mask) \in Nat
      /\ getLastAddress(n) = n.first + Size(n.mask) - 1
      /\ getLastAddress(m) = m.first + Size(m.mask) - 1
  BY CollectedIs, NetIs
<1>2. CASE n.mask = m.mask
  <2>1. n.first = m.first
    BY <1>1, <1>2, Nested DEF Within
  <2> QED
    BY <1>2, <2>1 DEF Collected, NoTwoEqual, equals
<1>3. CASE n.mask # m.mask
  BY <1>1, <1>3, Nested DEF Within, Inside
<1> QED
  BY <1>2, <1>3

\* What meets an exception contains it and has the other type.
LEMMA ExceptionIsLeaf ==
    ASSUME Collected, NEW m \in Exceptions, NEW n \in mIpAddresses, Meet(n, m)
    PROVE  n = m \/ (Inside(m, n) /\ n.included # m.included)
<1>1. PICK p \in mIpAddresses : m \in mIpAddresses /\ Inside(m, p) /\ m.included # p.included
  BY DEF Exceptions
<1>2. \A q \in mIpAddresses : ~Inside(q, m)
  BY <1>1 DEF Collected, ExceptionsAreApart
<1>3. ASSUME Inside(m, n), n.included = m.included PROVE FALSE
  <2>1. /\ m \in ANet /\ m.first \in Nat /\ getLastAddress(m) \in Nat
        /\ m.first <= getLastAddress(m)
        /\ n.first \in Nat /\ getLastAddress(n) \in Nat
        /\ p.first \in Nat /\ getLastAddress(p) \in Nat
    BY <1>1, CollectedIs, NetIs
  <2>2. Meet(n, p)
    BY <1>1, <1>3, <2>1 DEF Inside, Meet
  <2>3. Inside(n, p) \/ Inside(p, n)
    BY <1>1, <1>3, <2>2, CollectedMeet
  <2>4. n.included # p.included
    BY <1>1, <1>3
  <2> QED
    BY <1>1, <1>3, <2>3, <2>4 DEF Collected, ExceptionsAreApart
<1> QED
  BY <1>1, <1>2, <1>3, CollectedMeet

\* A plain network that meets an exception contains more than it.
LEMMA PlainMeets ==
    ASSUME Collected, NEW s \in ANet, Plain(s), NEW m \in Exceptions, Meet(s, m)
    PROVE  Within(m, s) /\ ~Within(s, m) /\ s.included # m.included
<1>1. PICK p \in mIpAddresses : Within(s, p) /\ s.included = p.included
  BY DEF Plain
<1>2. ~Within(s, m)
  BY DEF Plain
<1>3. m \in mIpAddresses /\ m \in ANet /\ p \in ANet
  BY CollectedIs DEF Exceptions
<1>4. /\ s.first \in Nat /\ getLastAddress(s) \in Nat /\ p.first \in Nat
      /\ getLastAddress(p) \in Nat /\ m.first \in Nat /\ getLastAddress(m) \in Nat
  BY <1>3, NetIs
<1>5. Meet(p, m)
  BY <1>1, <1>4 DEF Within, Meet
<1>6. p # m
  BY <1>1, <1>2
<1>7. p.included # m.included
  BY <1>5, <1>6, ExceptionIsLeaf
<1>8. Within(m, s)
  BY <1>2, <1>3, Nested
<1> QED
  BY <1>1, <1>2, <1>7, <1>8

\* Plain networks that meet have one type.
LEMMA PlainsAgree ==
    ASSUME Collected, NEW s \in ANet, Plain(s), NEW r \in ANet, Plain(r), Meet(s, r)
    PROVE  s.included = r.included
<1>1. PICK p \in mIpAddresses : Within(s, p) /\ s.included = p.included
  BY DEF Plain
<1>2. PICK q \in mIpAddresses : Within(r, q) /\ r.included = q.included
  BY DEF Plain
<1>3. /\ s.first \in Nat /\ getLastAddress(s) \in Nat /\ p.first \in Nat
      /\ getLastAddress(p) \in Nat /\ r.first \in Nat /\ getLastAddress(r) \in Nat
      /\ q.first \in Nat /\ getLastAddress(q) \in Nat
  BY CollectedIs, NetIs
<1>4. Meet(p, q)
  BY <1>1, <1>2, <1>3 DEF Within, Meet
<1>5. p \notin Exceptions /\ q \notin Exceptions
  BY <1>1, <1>2 DEF Plain
<1>6. p = q \/ Inside(p, q) \/ Inside(q, p)
  BY <1>4, CollectedMeet
<1> QED
  BY <1>1, <1>2, <1>5, <1>6 DEF Exceptions

\* Two of the loop's networks that meet: one type and no exception unless they
\* are the same, or an exception inside a plain network of the other type.
LEMMA LoopMeet ==
    ASSUME Collected, NEW s \in ANet, s \in Exceptions \/ Plain(s),
           NEW r \in ANet, r \in Exceptions \/ Plain(r), Meet(s, r)
    PROVE  /\ s.included = r.included => s = r \/ (Plain(s) /\ Plain(r))
           /\ s.included # r.included =>
                \/ s \in Exceptions /\ Plain(r) /\ Within(s, r) /\ ~Within(r, s)
                \/ r \in Exceptions /\ Plain(s) /\ Within(r, s) /\ ~Within(s, r)
<1>1. Meet(r, s)
  BY DEF Meet
<1>2. CASE s \in Exceptions /\ r \in Exceptions
  <2>1. s \in mIpAddresses /\ r \in mIpAddresses
    BY <1>2 DEF Exceptions
  <2>2. s = r \/ Inside(s, r)
    BY <1>1, <1>2, <2>1, ExceptionIsLeaf
  <2>3. s = r \/ Inside(r, s)
    BY <1>2, <2>1, ExceptionIsLeaf
  <2>4. s.mask \in Nat /\ r.mask \in Nat
    BY NetIs
  <2> QED
    BY <2>2, <2>3, <2>4 DEF Inside
<1>3. CASE s \in Exceptions /\ Plain(r)
  BY <1>1, <1>3, PlainMeets
<1>4. CASE Plain(s) /\ r \in Exceptions
  BY <1>4, PlainMeets
<1>5. CASE Plain(s) /\ Plain(r)
  BY <1>5, PlainsAgree
<1> QED
  BY <1>2, <1>3, <1>4, <1>5

-----------------------------------------------------------------------------
(* One turn of the loop keeps exceptions and plain networks apart. *)

\* Networks that are equal have the same addresses.
LEMMA EqualLast ==
    ASSUME NEW n, NEW m, equals(n, m)
    PROVE  n.first = m.first /\ n.mask = m.mask /\ getLastAddress(n) = getLastAddress(m)
BY DEF equals, getLastAddress

\* What a turn has to show.
LEMMA RouteTurn ==
    ASSUME RouteInv, phase = "generate", phase' = "generate", mIpAddresses' = mIpAddresses,
           Collected =>
               /\ \A s \in ipsDone' \cup Pending' : s \in Exceptions \/ Plain(s)
               /\ Exceptions \subseteq ipsDone' \cup Pending'
               /\ \A m \in BagToSet(networks') : ~Before(m, currentNet')
    PROVE  RouteInv'
<1>1. Exceptions' = Exceptions /\ \A s : Plain(s)' <=> Plain(s)
  BY DEF Exceptions, Plain
<1>2. (ExceptionsAreApart' <=> ExceptionsAreApart) /\ (NoTwoEqual' <=> NoTwoEqual)
  BY DEF ExceptionsAreApart, NoTwoEqual
<1>3. ASSUME ExceptionsAreApart PROVE Routed'
  <2>1. Collected
    BY <1>3 DEF Collected, RouteInv
  <2> QED
    BY <1>1, <2>1 DEF Routed
<1> QED
  BY <1>2, <1>3 DEF RouteInv

\* What the invariants say at a turn.
LEMMA AtTurn ==
    ASSUME NetInv, RouteInv, Collected, NEW n \in BagToSet(networks), NEW rest, Turn(n, rest)
    PROVE  /\ \A s \in ipsDone \cup Pending : s \in ANet /\ (s \in Exceptions \/ Plain(s))
           /\ Exceptions \subseteq ipsDone \cup Pending
           /\ \A m \in BagToSet(networks) : ~Before(m, currentNet)
           /\ \A s \in ipsDone, m \in Pending : getLastAddress(s) < m.first
           /\ Pending = BagToSet(networks) \cup {currentNet}
           /\ n \in Pending /\ currentNet \in Pending
<1>1. phase = "generate" /\ Pending = BagToSet(networks) \cup {currentNet}
  BY DEF Turn, Pending
<1>2. Routed
  BY <1>1 DEF RouteInv, Collected
<1>3. ipsDone \subseteq ANet /\ Pending \subseteq ANet /\ DoneIsDisjoint
  BY DEF NetInv, NetsAreAligned
<1> QED
  BY <1>1, <1>2, <1>3 DEF Routed, DoneIsDisjoint

\* An exception that meets something pending is pending.
LEMMA ExceptionIsPending ==
    ASSUME NEW m \in Exceptions, Exceptions \subseteq ipsDone \cup Pending,
           ipsDone \cup Pending \subseteq ANet,
           \A s \in ipsDone, q \in Pending : getLastAddress(s) < q.first,
           NEW s \in Pending, Meet(m, s)
    PROVE  m \in Pending
<1>1. getLastAddress(m) \in Nat /\ s.first \in Nat
  BY NetIs
<1> QED
  BY <1>1 DEF Meet

\* Nothing that is done is equal to currentNet.
LEMMA CurrentIsAdded ==
    ASSUME NEW c \in ANet, ipsDone \subseteq ANet, \A s \in ipsDone : getLastAddress(s) < c.first
    PROVE  Adds(ipsDone, c) = ipsDone \cup {c}
<1>1. ASSUME NEW s \in ipsDone, equals(c, s) PROVE FALSE
  <2>1. s.first <= getLastAddress(s) /\ s.first = c.first /\ s.first \in Nat
        /\ getLastAddress(s) \in Nat /\ getLastAddress(s) < c.first
    BY <1>1, NetIs DEF equals
  <2> QED
    BY <2>1
<1> QED
  BY <1>1 DEF Adds

LEMMA NextIsLaterRoutes ==
    ASSUME NetInv, RouteInv, NEW n \in BagToSet(networks), NEW rest, NextIsLater(n, rest)
    PROVE  RouteInv'
<1>1. Turn(n, rest)
  BY DEF NextIsLater
<1>2. /\ phase = "generate" /\ phase' = "generate" /\ mIpAddresses' = mIpAddresses
      /\ currentNet \in ANet /\ BagToSet(rest) \subseteq BagToSet(networks)
      /\ BagToSet(networks) \subseteq BagToSet(rest) \cup {n}
      /\ \A m \in BagToSet(networks) : ~Before(m, n)
      /\ Pending' = BagToSet(networks') \cup {currentNet'}
  BY <1>1, NextNet
<1>3. ipsDone' = Adds(ipsDone, currentNet) /\ currentNet' = n /\ networks' = rest
  BY DEF NextIsLater
<1>4. ASSUME Collected
      PROVE  /\ \A s \in ipsDone' \cup Pending' : s \in Exceptions \/ Plain(s)
             /\ Exceptions \subseteq ipsDone' \cup Pending'
             /\ \A m \in BagToSet(networks') : ~Before(m, currentNet')
  <2>1. /\ \A s \in ipsDone \cup Pending : s \in ANet /\ (s \in Exceptions \/ Plain(s))
        /\ Exceptions \subseteq ipsDone \cup Pending
        /\ \A s \in ipsDone, m \in Pending : getLastAddress(s) < m.first
        /\ Pending = BagToSet(networks) \cup {currentNet}
    BY <1>1, <1>4, AtTurn
  <2>2. ipsDone' = ipsDone \cup {currentNet}
    BY <1>2, <1>3, <2>1, CurrentIsAdded
  <2> QED
    BY <1>2, <1>3, <2>1, <2>2
<1> QED
  BY <1>2, <1>4, RouteTurn

\* Of two networks of one type that meet, an exception is only the other itself.
LEMMA ForgetCurrentRoutes ==
    ASSUME NetInv, RouteInv, NEW n \in BagToSet(networks), NEW rest, ForgetCurrent(n, rest)
    PROVE  RouteInv'
<1>1. Turn(n, rest)
  BY DEF ForgetCurrent
<1>2. /\ phase = "generate" /\ phase' = "generate" /\ mIpAddresses' = mIpAddresses
      /\ n \in ANet /\ currentNet \in ANet /\ BagToSet(rest) \subseteq BagToSet(networks)
      /\ BagToSet(networks) \subseteq BagToSet(rest) \cup {n}
      /\ \A m \in BagToSet(networks) : ~Before(m, n)
      /\ Pending' = BagToSet(networks') \cup {currentNet'}
  BY <1>1, NextNet
<1>3. /\ SmallerSameBase(n) /\ currentNet.included = n.included
      /\ ipsDone' = ipsDone /\ currentNet' = n /\ networks' = rest
  BY DEF ForgetCurrent
<1>4. Meet(currentNet, n)
  <2>1. /\ currentNet.first = n.first /\ n.first <= getLastAddress(n)
        /\ currentNet.first <= getLastAddress(currentNet)
    BY <1>2, <1>3, NetIs DEF SmallerSameBase
  <2> QED
    BY <2>1 DEF Meet
<1>5. ASSUME Collected
      PROVE  /\ \A s \in ipsDone' \cup Pending' : s \in Exceptions \/ Plain(s)
             /\ Exceptions \subseteq ipsDone' \cup Pending'
             /\ \A m \in BagToSet(networks') : ~Before(m, currentNet')
  <2>1. /\ \A s \in ipsDone \cup Pending : s \in ANet /\ (s \in Exceptions \/ Plain(s))
        /\ Exceptions \subseteq ipsDone \cup Pending
        /\ Pending = BagToSet(networks) \cup {currentNet}
    BY <1>1, <1>5, AtTurn
  <2>2. currentNet = n \/ Plain(currentNet)
    BY <1>3, <1>4, <1>5, <2>1, LoopMeet
  <2>3. Plain(currentNet) => currentNet \notin Exceptions
    BY <1>2, NetIs DEF Plain, Within
  <2> QED
    BY <1>2, <1>3, <2>1, <2>2, <2>3
<1> QED
  BY <1>2, <1>5, RouteTurn

LEMMA IgnoreNextRoutes ==
    ASSUME NetInv, RouteInv, NEW n \in BagToSet(networks), NEW rest, IgnoreNext(n, rest)
    PROVE  RouteInv'
<1>1. Turn(n, rest)
  BY DEF IgnoreNext
<1>2. /\ phase = "generate" /\ phase' = "generate" /\ mIpAddresses' = mIpAddresses
      /\ n \in ANet /\ currentNet \in ANet /\ BagToSet(rest) \subseteq BagToSet(networks)
      /\ BagToSet(networks) \subseteq BagToSet(rest) \cup {n}
      /\ currentNet.first <= n.first
      /\ Pending' = BagToSet(networks') \cup {currentNet'}
  BY <1>1, NextNet
<1>3. /\ Overlaps(n) /\ currentNet.included = n.included
      /\ ipsDone' = ipsDone /\ currentNet' = currentNet /\ networks' = rest
  BY DEF IgnoreNext
<1>4. Meet(currentNet, n)
  <2>1. /\ n.first <= getLastAddress(n) /\ n.first \in Nat /\ currentNet.first \in Nat
        /\ getLastAddress(n) \in Nat /\ getLastAddress(currentNet) \in Nat
    BY <1>2, NetIs
  <2> QED
    BY <1>2, <1>3, <2>1 DEF Meet, Overlaps, getFirstAddress
<1>5. ASSUME Collected
      PROVE  /\ \A s \in ipsDone' \cup Pending' : s \in Exceptions \/ Plain(s)
             /\ Exceptions \subseteq ipsDone' \cup Pending'
             /\ \A m \in BagToSet(networks') : ~Before(m, currentNet')
  <2>1. /\ \A s \in ipsDone \cup Pending : s \in ANet /\ (s \in Exceptions \/ Plain(s))
        /\ Exceptions \subseteq ipsDone \cup Pending
        /\ \A m \in BagToSet(networks) : ~Before(m, currentNet)
        /\ Pending = BagToSet(networks) \cup {currentNet}
    BY <1>1, <1>5, AtTurn
  <2>2. currentNet = n \/ Plain(n)
    BY <1>3, <1>4, <1>5, <2>1, LoopMeet
  <2>3. Plain(n) => n \notin Exceptions
    BY <1>2, NetIs DEF Plain, Within
  <2> QED
    BY <1>2, <1>3, <2>1, <2>2, <2>3
<1> QED
  BY <1>2, <1>5, RouteTurn

\* A half of a plain network is plain, unless it is an exception in it.
LEMMA HalfIsPlain ==
    ASSUME Collected, NEW n \in ANet, Plain(n), n.mask < Width,
           NEW h \in {FirstHalf(n), SecondHalf(n)}, Within(h, n),
           \A m \in Exceptions : ~equals(m, h)
    PROVE  Plain(h)
<1>1. h \in ANet /\ h.mask = n.mask + 1 /\ n.mask \in Nat /\ Width \in Nat
  BY Halves, NetIs, NetworkSpaceAssumption
<1>2. h.included = n.included
  <2>1. FirstHalf(n).included = n.included
    BY DEF FirstHalf, ANet, Net
  <2>2. SecondHalf(n).included = n.included
    <3>1. FirstHalf(n) \in Net
      BY Halves DEF ANet
    <3>2. SecondHalf(n).included = FirstHalf(n).included
      BY <3>1 DEF SecondHalf, Net
    <3> QED
      BY <2>1, <3>2
  <2> QED
    BY <2>1, <2>2
<1>3. \E p \in mIpAddresses : Within(h, p) /\ h.included = p.included
  <2>1. PICK p \in mIpAddresses : Within(n, p) /\ n.included = p.included
    BY DEF Plain
  <2>2. p.first \in Nat /\ getLastAddress(p) \in Nat
    BY CollectedIs, NetIs
  <2>3. /\ n.first \in Nat /\ getLastAddress(n) \in Nat
        /\ h.first \in Nat /\ getLastAddress(h) \in Nat
    BY <1>1, NetIs
  <2>4. Within(h, p)
    BY <2>1, <2>2, <2>3 DEF Within
  <2> QED
    BY <1>2, <2>1, <2>4
<1>4. ASSUME NEW m \in Exceptions, Within(h, m) PROVE FALSE
  <2>1. m \in mIpAddresses /\ m \in ANet /\ m.mask <= Width
    BY CollectedIs DEF Exceptions
  <2>2. /\ n.first \in Nat /\ getLastAddress(n) \in Nat
        /\ h.first \in Nat /\ getLastAddress(h) \in Nat /\ h.first <= getLastAddress(h)
        /\ m.first \in Nat /\ getLastAddress(m) \in Nat /\ m.mask \in Nat
    BY <1>1, <2>1, NetIs
  <2>3. Meet(n, m)
    BY <1>4, <2>2 DEF Within, Meet
  <2>4. Within(m, n) /\ ~Within(n, m)
    BY <2>3, PlainMeets
  <2>5. /\ Within(m, FirstHalf(n)) \/ Within(m, SecondHalf(n))
        /\ getLastAddress(FirstHalf(n)) + 1 = SecondHalf(n).first
    BY <2>1, <2>4, InHalf
  <2>6. Within(m, h)
    <3>1. /\ FirstHalf(n) \in ANet /\ SecondHalf(n) \in ANet
      BY Halves
    <3>2. /\ FirstHalf(n).first \in Nat /\ getLastAddress(FirstHalf(n)) \in Nat
          /\ SecondHalf(n).first \in Nat /\ getLastAddress(SecondHalf(n)) \in Nat
          /\ FirstHalf(n).first <= getLastAddress(FirstHalf(n))
          /\ SecondHalf(n).first <= getLastAddress(SecondHalf(n))
      BY <3>1, NetIs
    <3> QED
      BY <1>4, <2>2, <2>5, <3>2 DEF Within
  <2>7. h.mask <= Width
    BY <1>1
  <2>8. equals(m, h)
    BY <1>1, <1>4, <2>1, <2>6, <2>7, SameRange
  <2> QED
    BY <2>8
<1> QED
  BY <1>3, <1>4 DEF Plain

\* The other half of a second half is the first half.
LEMMA BuddyIs ==
    ASSUME NEW c \in ANet, c.mask < Width, NEW m \in ANet, equals(m, SecondHalf(c))
    PROVE  Buddy(m).first = FirstHalf(c).first /\ Buddy(m).mask = FirstHalf(c).mask
<1> DEFINE t == Size(c.mask + 1)
<1>1. /\ c.first \in Nat /\ c.mask \in Nat /\ t \in Nat \ {0} /\ Size(c.mask) = 2 * t
      /\ Width \in Nat
  BY NetIs, SizeIs, NetworkSpaceAssumption
<1>2. /\ m.first = c.first + t /\ m.mask = c.mask + 1
      /\ FirstHalf(c).first = c.first /\ FirstHalf(c).mask = c.mask + 1
  BY Halves DEF equals
<1>3. PICK k \in Nat : c.first = k * Size(c.mask)
  BY DEF ANet, Aligned
<1>4. 2^(Width - m.mask) = t
  BY <1>1, <1>2 DEF Size, Pow
<1> HIDE DEF t
<1>5. (m.first \div t) % 2 = 1
  <2>1. m.first = (2 * k + 1) * t
    BY <1>1, <1>2, <1>3
  <2>2. (2 * k + 1) * t = t * (2 * k + 1) + 0
    BY <1>1
  <2>3. m.first \div t = 2 * k + 1
    BY <1>1, <2>1, <2>2
  <2> QED
    BY <2>3
<1>6. m \in Net
  BY DEF ANet
<1>7. m.first - t = c.first
  BY <1>1, <1>2
<1>8. Buddy(m) = [m EXCEPT !.first = m.first - t]
  BY <1>4, <1>5 DEF Buddy
<1> QED
  BY <1>2, <1>6, <1>7, <1>8 DEF Net

\* A half is queued again only if nothing queued is equal to it.
LEMMA RequeuedIsNew ==
    ASSUME NEW rest, IsQueue(rest), BagToSet(rest) \subseteq ANet, NEW n \in ANet,
           NEW m \in BagToSet(RequeueHalves(n, rest)), m \notin BagToSet(rest)
    PROVE  /\ m \in {FirstHalf(n), SecondHalf(n)}
           /\ \A q \in BagToSet(rest) : ~equals(m, q)
           /\ m = FirstHalf(n) => getLastAddress(m) # getLastAddress(currentNet)
<1> DEFINE second == QueuedOnce(rest, SecondHalf(n))
           both == QueuedOnce(second, FirstHalf(n))
<1>1. FirstHalf(n) \in ANet /\ SecondHalf(n) \in ANet /\ FirstHalf(n) # SecondHalf(n)
  BY Halves, NetIs
<1>2. /\ IsQueue(second)
      /\ BagToSet(rest) \subseteq BagToSet(second)
      /\ BagToSet(second) \subseteq BagToSet(rest) \cup {SecondHalf(n)}
      /\ Contains(rest, SecondHalf(n)) => second = rest
  BY <1>1, QueuedOnceIs DEF QueuedOnce
<1> HIDE DEF second
<1>3. BagToSet(second) \subseteq ANet
  BY <1>1, <1>2
<1>4. /\ BagToSet(both) \subseteq BagToSet(second) \cup {FirstHalf(n)}
      /\ Contains(second, FirstHalf(n)) => both = second
  BY <1>1, <1>2, <1>3, QueuedOnceIs DEF QueuedOnce
<1> HIDE DEF both
<1>5. RequeueHalves(n, rest) =
        IF getLastAddress(FirstHalf(n)) = getLastAddress(currentNet) THEN second ELSE both
  BY DEF RequeueHalves, second, both
<1>6. CASE m \in BagToSet(second)
  BY <1>1, <1>2, <1>6 DEF Contains
<1>7. CASE m \notin BagToSet(second)
  <2>1. m = FirstHalf(n) /\ getLastAddress(m) # getLastAddress(currentNet)
    BY <1>4, <1>5, <1>7
  <2>2. both # second
    BY <1>5, <1>7
  <2> QED
    BY <1>2, <1>4, <2>1, <2>2 DEF Contains
<1> QED
  BY <1>6, <1>7

\* currentNet is an exception at the start of the next network, which is plain.
\* An exception that is a half of it is pending: it is currentNet, and then the
\* half is left out, or it is queued, and then nothing equal is added.
LEMMA SplitNextRoutes ==
    ASSUME NetInv, RouteInv, NEW n \in BagToSet(networks), NEW rest, SplitNext(n, rest)
    PROVE  RouteInv'
<1>1. Turn(n, rest)
  BY DEF SplitNext
<1>2. /\ phase = "generate" /\ phase' = "generate" /\ mIpAddresses' = mIpAddresses
      /\ n \in ANet /\ currentNet \in ANet /\ IsQueue(rest)
      /\ BagToSet(rest) \subseteq BagToSet(networks) /\ BagToSet(networks) \subseteq ANet
      /\ BagToSet(networks) \subseteq BagToSet(rest) \cup {n}
      /\ Pending' = BagToSet(networks') \cup {currentNet'}
  BY <1>1, NextNet
<1>3. /\ SmallerSameBase(n) /\ currentNet.included # n.included
      /\ networks' = RequeueHalves(n, rest)
      /\ ipsDone' = ipsDone /\ currentNet' = currentNet
  BY DEF SplitNext
<1>4. /\ currentNet.first = n.first /\ n.first \in Nat
      /\ currentNet.mask \in Nat /\ n.mask \in Nat /\ currentNet.mask >= n.mask
      /\ getLastAddress(n) \in Nat /\ getLastAddress(currentNet) \in Nat
      /\ n.first <= getLastAddress(n) /\ n.first <= getLastAddress(currentNet)
  BY <1>2, <1>3, NetIs DEF SmallerSameBase
<1>5. Meet(currentNet, n)
  BY <1>4 DEF Meet
<1>6. BagToSet(rest) \subseteq BagToSet(networks')
  BY <1>2, <1>3, RequeuedIs
<1>7. ASSUME Collected
      PROVE  /\ \A s \in ipsDone' \cup Pending' : s \in Exceptions \/ Plain(s)
             /\ Exceptions \subseteq ipsDone' \cup Pending'
             /\ \A m \in BagToSet(networks') : ~Before(m, currentNet')
  <2>1. /\ \A s \in ipsDone \cup Pending : s \in ANet /\ (s \in Exceptions \/ Plain(s))
        /\ Exceptions \subseteq ipsDone \cup Pending
        /\ \A m \in BagToSet(networks) : ~Before(m, currentNet)
        /\ \A s \in ipsDone, m \in Pending : getLastAddress(s) < m.first
        /\ Pending = BagToSet(networks) \cup {currentNet}
        /\ n \in Pending /\ currentNet \in Pending
    BY <1>1, <1>7, AtTurn
  <2>2. currentNet \in Exceptions /\ Plain(n) /\ Within(currentNet, n) /\ ~Within(n, currentNet)
    <3>1. \/ /\ currentNet \in Exceptions /\ Plain(n)
             /\ Within(currentNet, n) /\ ~Within(n, currentNet)
          \/ /\ n \in Exceptions /\ Plain(currentNet)
             /\ Within(n, currentNet) /\ ~Within(currentNet, n)
      BY <1>2, <1>3, <1>5, <1>7, <2>1, LoopMeet
    <3>2. getLastAddress(currentNet) <= getLastAddress(n)
      BY <1>2, <1>4, SameBase, NetIs
    <3> QED
      BY <1>4, <3>1, <3>2 DEF Within
  <2>3. n \notin Exceptions
    BY <1>4, <2>2 DEF Plain, Within
  <2>4. /\ n.mask < Width /\ Within(FirstHalf(n), n) /\ Within(SecondHalf(n), n)
        /\ Within(currentNet, FirstHalf(n)) \/ Within(currentNet, SecondHalf(n))
    BY <1>2, <2>2, InHalf
  <2>5. /\ FirstHalf(n) \in ANet /\ SecondHalf(n) \in ANet
        /\ FirstHalf(n).first = n.first /\ FirstHalf(n).mask = n.mask + 1
        /\ n.first < SecondHalf(n).first
        /\ SecondHalf(n).first \in Nat /\ getLastAddress(FirstHalf(n)) \in Nat
        /\ FirstHalf(n).first <= getLastAddress(FirstHalf(n))
        /\ SecondHalf(n).first <= getLastAddress(SecondHalf(n))
        /\ getLastAddress(SecondHalf(n)) \in Nat
    BY <1>2, Halves, NetIs
  <2>6. Within(currentNet, FirstHalf(n))
    BY <1>4, <2>4, <2>5 DEF Within
  <2>7. currentNet.mask # n.mask
    <3>1. currentNet.mask = n.mask => getLastAddress(currentNet) = getLastAddress(n)
      BY <1>2, <1>4, NetIs
    <3> QED
      BY <1>4, <2>2, <3>1 DEF Within
  <2>8. ASSUME NEW h \in BagToSet(networks'), h \notin BagToSet(rest)
        PROVE  Plain(h) /\ ~Before(h, currentNet)
    <3>1. /\ h \in {FirstHalf(n), SecondHalf(n)}
          /\ \A q \in BagToSet(rest) : ~equals(h, q)
          /\ h = FirstHalf(n) => getLastAddress(h) # getLastAddress(currentNet)
      BY <1>2, <1>3, <2>8, RequeuedIsNew
    <3>2. ASSUME NEW m \in Exceptions, equals(m, h) PROVE FALSE
      <4>1. /\ m.first = h.first /\ getLastAddress(m) = getLastAddress(h)
            /\ h.first <= getLastAddress(h) /\ n.first <= h.first
            /\ getLastAddress(h) <= getLastAddress(n)
            /\ h.first \in Nat /\ getLastAddress(h) \in Nat
        <5>1. m.first = h.first /\ getLastAddress(m) = getLastAddress(h)
          BY <3>2, EqualLast
        <5>2. Within(h, n)
          BY <2>4, <3>1
        <5>3. h \in ANet
          BY <2>5, <3>1
        <5> QED
          BY <5>1, <5>2, <5>3, NetIs DEF Within
      <4>2. Meet(m, n)
        BY <1>4, <4>1 DEF Meet
      <4>3. m \in Pending
        BY <2>1, <4>2, ExceptionIsPending
      <4>4. m # n
        BY <2>3
      <4>5. m \notin BagToSet(rest)
        BY <3>1, <3>2 DEF equals
      <4>6. m = currentNet
        BY <1>2, <2>1, <4>3, <4>4, <4>5
      <4>7. h = FirstHalf(n)
        BY <1>4, <2>5, <3>1, <4>1, <4>6
      <4> QED
        BY <3>1, <4>1, <4>6, <4>7
    <3>3. Plain(h)
      BY <1>2, <1>7, <2>2, <2>4, <3>1, <3>2, HalfIsPlain
    <3>4. ~Before(h, currentNet)
      BY <1>4, <2>5, <2>7, <3>1 DEF Before
    <3> QED
      BY <3>3, <3>4
  <2> QED
    BY <1>2, <1>3, <1>6, <2>1, <2>3, <2>8
<1> QED
  BY <1>2, <1>7, RouteTurn

\* The next network is an exception inside currentNet, which is plain.  An
\* exception that is a half of it is queued.  It is not the first half, which
\* would be earlier than currentNet.  If it is the second, the next network is
\* not inside the first, its buddy, but is that half, which is then left out.
LEMMA SplitCurrentRoutes ==
    ASSUME NetInv, RouteInv, NEW n \in BagToSet(networks), NEW rest, SplitCurrent(n, rest)
    PROVE  RouteInv'
<1>1. Turn(n, rest)
  BY DEF SplitCurrent
<1> DEFINE c == currentNet
           f == FirstHalf(c)
           g == SecondHalf(c)
           N == BagToSet(networks')
<1>2. /\ phase = "generate" /\ phase' = "generate" /\ mIpAddresses' = mIpAddresses
      /\ n \in ANet /\ c \in ANet /\ IsQueue(rest) /\ BagToSet(networks) \subseteq ANet
      /\ BagToSet(rest) \subseteq BagToSet(networks)
      /\ BagToSet(networks) \subseteq BagToSet(rest) \cup {n}
      /\ c.first <= n.first /\ \A m \in BagToSet(networks) : ~Before(m, n)
      /\ Pending' = N \cup {currentNet'}
  BY <1>1, NextNet
<1>3. /\ Overlaps(n) /\ ~SmallerSameBase(n) /\ c.included # n.included
      /\ networks' = IF g.mask = n.mask THEN Queued(rest, n) ELSE Queued(Queued(rest, g), n)
      /\ ipsDone' = ipsDone /\ currentNet' = f
  BY DEF SplitCurrent
<1>4. /\ f \in ANet /\ g \in ANet /\ f.first = c.first /\ f.mask = c.mask + 1
      /\ g.mask = c.mask + 1 /\ c.first < g.first
  BY <1>2, Halves
<1>5. /\ N \subseteq BagToSet(networks) \cup {g} /\ BagToSet(networks) \subseteq N
      /\ g \in N => g.mask # n.mask \/ g \in BagToSet(networks)
  <2>1. IsQueue(Queued(rest, n)) /\ BagToSet(Queued(rest, n)) = BagToSet(rest) \cup {n}
    BY <1>2, QueuedIs
  <2>2. IsQueue(Queued(rest, g)) /\ BagToSet(Queued(rest, g)) = BagToSet(rest) \cup {g}
    BY <1>2, QueuedIs
  <2>3. BagToSet(Queued(Queued(rest, g), n)) = BagToSet(rest) \cup {g} \cup {n}
    BY <2>2, QueuedIs
  <2> QED
    BY <1>2, <1>3, <2>1, <2>3
<1> HIDE DEF f, g, N
<1>6. /\ c.first \in Nat /\ c.mask \in Nat /\ getLastAddress(c) \in Nat
      /\ c.first <= getLastAddress(c)
      /\ n.first \in Nat /\ n.mask \in Nat /\ getLastAddress(n) \in Nat
      /\ n.first <= getLastAddress(n)
      /\ f.first \in Nat /\ getLastAddress(f) \in Nat /\ f.first <= getLastAddress(f)
      /\ g.first \in Nat /\ getLastAddress(g) \in Nat /\ g.first <= getLastAddress(g)
  BY <1>2, <1>4, NetIs
<1>7. Meet(c, n) /\ n.first <= getLastAddress(c)
  BY <1>2, <1>3, <1>6 DEF Meet, Overlaps, getFirstAddress
<1>8. ASSUME Collected
      PROVE  /\ \A s \in ipsDone' \cup Pending' : s \in Exceptions \/ Plain(s)
             /\ Exceptions \subseteq ipsDone' \cup Pending'
             /\ \A m \in BagToSet(networks') : ~Before(m, currentNet')
  <2>1. /\ \A s \in ipsDone \cup Pending : s \in ANet /\ (s \in Exceptions \/ Plain(s))
        /\ Exceptions \subseteq ipsDone \cup Pending
        /\ \A m \in BagToSet(networks) : ~Before(m, c)
        /\ \A s \in ipsDone, m \in Pending : getLastAddress(s) < m.first
        /\ Pending = BagToSet(networks) \cup {c}
        /\ n \in Pending /\ c \in Pending
    BY <1>1, <1>8, AtTurn
  <2>2. c.first < n.first
    <3>1. ~Before(n, c)
      BY <2>1
    <3> QED
      BY <1>2, <1>3, <1>6, <3>1 DEF Before, SmallerSameBase
  <2>3. n \in Exceptions /\ Plain(c) /\ Within(n, c) /\ ~Within(c, n)
    <3>1. \/ c \in Exceptions /\ Plain(n) /\ Within(c, n) /\ ~Within(n, c)
          \/ n \in Exceptions /\ Plain(c) /\ Within(n, c) /\ ~Within(c, n)
      BY <1>2, <1>3, <1>7, <1>8, <2>1, LoopMeet
    <3> QED
      BY <1>6, <2>2, <3>1 DEF Within
  <2>4. c \notin Exceptions
    BY <1>6, <2>3 DEF Plain, Within
  <2>5. /\ c.mask < Width /\ Within(f, c) /\ Within(g, c)
        /\ getLastAddress(f) + 1 = g.first
        /\ Within(n, f) \/ Within(n, g)
    BY <1>2, <2>3, InHalf DEF f, g
  <2>6. ASSUME NEW h \in {f, g}, NEW m \in Exceptions, equals(m, h)
        PROVE  m \in BagToSet(networks)
    <3>1. m.first = h.first /\ getLastAddress(m) = getLastAddress(h)
      BY <2>6, EqualLast
    <3>2. Meet(m, c)
      BY <1>6, <2>5, <3>1 DEF Meet, Within
    <3> QED
      BY <2>1, <2>4, <3>2, ExceptionIsPending
  <2>7. ASSUME NEW m \in Exceptions, equals(m, f) PROVE FALSE
    <3>1. Before(m, c)
      BY <1>4, <1>6, <2>7 DEF equals, Before
    <3> QED
      BY <2>1, <2>6, <2>7, <3>1
  <2>8. Plain(f)
    BY <1>2, <1>8, <2>3, <2>5, <2>7, HalfIsPlain DEF f
  <2>9. ASSUME g \in N, g \notin BagToSet(networks) PROVE Plain(g)
    <3>1. ASSUME NEW m \in Exceptions, equals(m, g) PROVE FALSE
      <4>1. m.first = g.first /\ m.mask = g.mask /\ m \in BagToSet(networks)
        BY <2>6, <3>1 DEF equals
      <4>2. ~Before(m, n) /\ n.mask # g.mask
        BY <1>2, <1>5, <2>9, <4>1
      \* n is not inside g: that would put it inside an exception.
      <4>3. ASSUME Within(n, g) PROVE FALSE
        <5>1. Within(n, m)
          BY <3>1, <4>3, EqualLast DEF Within
        <5>2. Meet(n, m) /\ n \in mIpAddresses /\ n # m
          <6>1. n \in mIpAddresses /\ m.first \in Nat /\ getLastAddress(m) \in Nat
            BY <1>2, <2>3, <4>1, NetIs DEF Exceptions
          <6> QED
            BY <1>6, <4>1, <4>2, <5>1, <6>1 DEF Within, Meet
        <5>3. Inside(m, n)
          BY <1>8, <5>2, ExceptionIsLeaf
        <5>4. equals(m, n)
          <6>1. Within(m, n)
            BY <5>3 DEF Inside, Within
          <6> QED
            BY <1>2, <1>8, <5>1, <5>2, <6>1, CollectedIs, SameRange DEF Exceptions
        <5> QED
          BY <4>1, <4>2, <5>4 DEF equals
      <4>4. Within(n, f)
        BY <2>5, <4>3
      \* It is inside f, the buddy of m.
      <4>5. m \in mIpAddresses /\ n \in mIpAddresses /\ m \in ANet /\ m.mask = c.mask + 1
        BY <1>4, <1>8, <2>3, <4>1, CollectedIs DEF Exceptions
      <4>6. Buddy(m).first = f.first /\ Buddy(m).mask = f.mask
        BY <1>2, <1>4, <2>5, <3>1, <4>5, BuddyIs DEF f, g
      <4>7. Inside(n, Buddy(m))
        <5>1. f.mask < n.mask
          <6>1. n.first > f.first /\ n.first <= getLastAddress(f)
            BY <1>4, <1>6, <2>2, <4>4 DEF Within
          <6> QED
            BY <1>2, <1>4, <6>1, Nesting
        <5> QED
          BY <4>4, <4>6, <5>1, EqualLast DEF Inside, Within, equals
      <4>8. \E p \in mIpAddresses : Inside(m, p) /\ m.included # p.included
        BY DEF Exceptions
      <4> QED
        BY <1>8, <4>5, <4>7, <4>8 DEF Collected, ExceptionsAreApart
    <3> QED
      BY <1>2, <1>8, <2>3, <2>5, <3>1, HalfIsPlain DEF g
  <2>10. ASSUME NEW m \in N PROVE ~Before(m, f)
    <3>1. CASE m = g
      BY <1>4, <1>6, <3>1 DEF Before
    <3>2. CASE m \in BagToSet(networks)
      <4>1. ~Before(m, c) /\ m.first \in Nat /\ m.mask \in Nat
        BY <1>2, <2>1, <3>2, NetIs
      <4> QED
        BY <1>4, <1>6, <4>1 DEF Before
    <3> QED
      BY <1>5, <3>1, <3>2
  <2>11. \A s \in ipsDone' \cup Pending' : s \in Exceptions \/ Plain(s)
    BY <1>2, <1>3, <1>5, <2>1, <2>8, <2>9
  <2>12. Exceptions \subseteq ipsDone' \cup Pending'
    BY <1>2, <1>3, <1>5, <2>1, <2>4
  <2> QED
    BY <1>3, <2>10, <2>11, <2>12 DEF N
<1> QED
  BY <1>2, <1>8, RouteTurn

-----------------------------------------------------------------------------
(* The other steps. *)

\* Of the networks as they are collected, those in no exception are plain.
LEMMA CollectedIsRouted ==
    ASSUME Collected, NEW s \in mIpAddresses
    PROVE  s \in Exceptions \/ Plain(s)
<1> SUFFICES ASSUME s \notin Exceptions PROVE Plain(s)
  OBVIOUS
<1>1. s \in ANet /\ s.mask <= Width /\ s.first \in Nat /\ getLastAddress(s) \in Nat
      /\ s.first <= getLastAddress(s)
  BY CollectedIs, NetIs
<1>2. Within(s, s)
  BY <1>1 DEF Within
<1>3. ASSUME NEW m \in Exceptions, Within(s, m) PROVE FALSE
  <2>1. m \in mIpAddresses /\ m \in ANet /\ m.mask <= Width
    BY CollectedIs DEF Exceptions
  <2>2. m.first \in Nat /\ getLastAddress(m) \in Nat
    BY <2>1, NetIs
  <2>3. Meet(s, m)
    BY <1>1, <1>3, <2>2 DEF Within, Meet
  <2>4. Inside(m, s)
    BY <2>3, ExceptionIsLeaf
  <2>5. Within(m, s)
    BY <2>4 DEF Inside, Within
  <2>6. equals(s, m)
    BY <1>1, <1>3, <2>1, <2>5, SameRange
  <2> QED
    BY <2>1, <2>6 DEF Collected, NoTwoEqual
<1> QED
  BY <1>2, <1>3 DEF Plain

LEMMA RouteInit == Init => RouteInv
BY DEF Init, RouteInv, NoTwoEqual

LEMMA CollectRoutes ==
    ASSUME NetInv, RouteInv, NEW n \in Networks, addIP(n)
    PROVE  RouteInv'
<1>1. phase' = "collect" /\ mIpAddresses' = Adds(mIpAddresses, n)
  BY DEF addIP
<1>2. mIpAddresses' \subseteq Networks
  BY <1>1, AddsIs DEF RouteInv
<1>3. NoTwoEqual'
  BY <1>1 DEF Adds, NoTwoEqual, equals, RouteInv
<1> QED
  BY <1>1, <1>2, <1>3 DEF RouteInv

LEMMA StartRoutes ==
    ASSUME NetInv, RouteInv, StartGenerate
    PROVE  RouteInv'
<1> DEFINE bag == SetToBag(mIpAddresses)
<1>1. IsQueue(bag) /\ BagToSet(bag) = mIpAddresses
  BY SetIsQueue
<1>2. PICK n \in Polls(bag) : currentNet' = n /\ networks' = Polled(bag, n)
  BY DEF StartGenerate
<1>3. /\ phase' = "generate" /\ mIpAddresses' = mIpAddresses /\ ipsDone' = {}
  BY DEF StartGenerate, NetInv, NetsAreAligned
<1>4. n \in mIpAddresses /\ \A m \in mIpAddresses : ~Before(m, n)
  BY <1>1, <1>2 DEF Polls
<1> HIDE DEF bag
<1>5. /\ BagToSet(networks') \subseteq mIpAddresses
      /\ mIpAddresses \subseteq BagToSet(networks') \cup {n}
  BY <1>1, <1>2, <1>4, PolledIs
<1>6. Pending' = mIpAddresses
  BY <1>2, <1>3, <1>4, <1>5 DEF Pending
<1>7. Exceptions' = Exceptions /\ (\A s : Plain(s)' <=> Plain(s)) /\ Exceptions \subseteq mIpAddresses
  BY <1>3 DEF Exceptions, Plain
<1>8. (ExceptionsAreApart' <=> ExceptionsAreApart) /\ (NoTwoEqual' <=> NoTwoEqual)
  BY <1>3 DEF ExceptionsAreApart, NoTwoEqual
<1>9. ASSUME ExceptionsAreApart PROVE Routed'
  <2>1. \A s \in mIpAddresses : s \in Exceptions \/ Plain(s)
    BY <1>9, CollectedIsRouted DEF Collected, RouteInv
  <2>2. \A m \in BagToSet(networks') : ~Before(m, currentNet')
    BY <1>2, <1>4, <1>5
  <2> QED
    BY <1>3, <1>6, <1>7, <2>1, <2>2 DEF Routed
<1> QED
  BY <1>3, <1>8, <1>9 DEF RouteInv

LEMMA LastRoutes ==
    ASSUME NetInv, RouteInv, LastNet
    PROVE  RouteInv'
<1>1. /\ phase = "generate" /\ phase' = "done" /\ mIpAddresses' = mIpAddresses
      /\ networks = EmptyBag /\ ipsDone' = Adds(ipsDone, currentNet)
      /\ NetsAreAligned /\ DoneIsDisjoint
  BY DEF LastNet, NetInv
<1>2. Pending = {currentNet} /\ Pending' = {}
  BY <1>1, EmptyIsQueue DEF Pending
<1>3. ipsDone' = ipsDone \cup {currentNet}
  BY <1>1, <1>2, CurrentIsAdded DEF NetsAreAligned, DoneIsDisjoint
<1>4. Exceptions' = Exceptions /\ \A s : Plain(s)' <=> Plain(s)
  BY <1>1 DEF Exceptions, Plain
<1>5. (ExceptionsAreApart' <=> ExceptionsAreApart) /\ (NoTwoEqual' <=> NoTwoEqual)
  BY <1>1 DEF ExceptionsAreApart, NoTwoEqual
<1>6. ASSUME ExceptionsAreApart PROVE Routed'
  <2>1. Routed
    BY <1>1, <1>6 DEF RouteInv
  <2> QED
    BY <1>1, <1>2, <1>3, <1>4, <2>1 DEF Routed
<1> QED
  BY <1>1, <1>5, <1>6 DEF RouteInv

LEMMA ClearRoutes ==
    ASSUME clear
    PROVE  RouteInv'
BY DEF clear, RouteInv, NoTwoEqual

LEMMA StutterRoutes ==
    ASSUME RouteInv, UNCHANGED vars
    PROVE  RouteInv'
<1>1. Exceptions' = Exceptions /\ \A s : Plain(s)' <=> Plain(s)
  BY DEF vars, Exceptions, Plain
<1>2. (ExceptionsAreApart' <=> ExceptionsAreApart) /\ (NoTwoEqual' <=> NoTwoEqual)
  BY DEF vars, ExceptionsAreApart, NoTwoEqual
<1>3. Routed => Routed'
  BY <1>1 DEF vars, Routed, Pending
<1> QED
  BY <1>2, <1>3 DEF vars, RouteInv

LEMMA RouteInvariant == Spec => []RouteInv
<1>1. NetInv /\ RouteInv /\ [Next]_vars => RouteInv'
  <2> SUFFICES ASSUME NetInv, RouteInv, [Next]_vars PROVE RouteInv'
    OBVIOUS
  <2>1. ASSUME NEW n \in BagToSet(networks), LoopTurn(n, Polled(networks, n)) PROVE RouteInv'
    BY <2>1, NextIsLaterRoutes, ForgetCurrentRoutes, SplitNextRoutes, IgnoreNextRoutes,
       SplitCurrentRoutes DEF LoopTurn
  <2> QED
    BY <2>1, CollectRoutes, StartRoutes, LastRoutes, ClearRoutes, StutterRoutes
    DEF Next, generateIPList
<1> QED
  BY <1>1, RouteInit, NetInvariant, PTL DEF Spec

-----------------------------------------------------------------------------
(* What is done when the loop has ended. *)

\* Collected networks that hold an address of a plain one that is done have one
\* type: of two types one would be an exception, done too, and meet it.
LEMMA OneType ==
    ASSUME Collected, NetInv, Routed, phase = "done", NEW a \in Nat,
           NEW s \in ipsDone, Plain(s), Covers(s, a),
           NEW n \in mIpAddresses, Covers(n, a), NEW p \in mIpAddresses, Covers(p, a)
    PROVE  n.included = p.included
<1> SUFFICES ASSUME n.included # p.included PROVE FALSE
  OBVIOUS
<1>1. /\ n.first \in Nat /\ getLastAddress(n) \in Nat
      /\ p.first \in Nat /\ getLastAddress(p) \in Nat
  BY CollectedIs, NetIs
<1>2. Meet(n, p)
  BY <1>1 DEF Covers, Meet
<1>3. \E e \in Exceptions : Covers(e, a)
  BY <1>2, CollectedMeet DEF Exceptions
<1>4. PICK e \in Exceptions : Covers(e, a)
  BY <1>3
<1>5. e \in ipsDone /\ s \in ANet /\ e \in ANet
  BY DEF Routed, Pending, NetInv, NetsAreAligned
<1>6. /\ e.first \in Nat /\ getLastAddress(e) \in Nat
      /\ s.first \in Nat /\ getLastAddress(s) \in Nat
  BY <1>5, NetIs
<1>7. e = s
  BY <1>4, <1>5, <1>6 DEF NetInv, DoneIsDisjoint, Covers
<1> QED
  BY <1>6, <1>7 DEF Plain, Within

\* The most specific network that holds an address.
LEMMA MostSpecific ==
    ASSUME Collected, NEW a \in Nat, NEW p \in mIpAddresses, Covers(p, a)
    PROVE  \E n \in mIpAddresses :
               Covers(n, a) /\ \A m \in mIpAddresses : Covers(m, a) => m.mask <= n.mask
<1> DEFINE T == {Width - m.mask : m \in {m \in mIpAddresses : Covers(m, a)}}
<1>1. \A m \in mIpAddresses : Width - m.mask \in Nat /\ m.mask \in Nat /\ Width \in Nat
  <2>1. \A m \in mIpAddresses : m.mask \in Nat /\ m.mask <= Width /\ Width \in Nat
    BY CollectedIs, NetIs, NetworkSpaceAssumption
  <2> QED
    BY <2>1
<1>2. T \in SUBSET Nat /\ T # {}
  BY <1>1
<1>3. PICK d \in T : \A e \in T : d <= e
  <2> HIDE DEF T
  <2> QED
    BY <1>2, LeastNatural
<1>4. PICK n \in mIpAddresses : Covers(n, a) /\ d = Width - n.mask
  OBVIOUS
<1>5. ASSUME NEW m \in mIpAddresses, Covers(m, a) PROVE m.mask <= n.mask
  <2>1. d <= Width - m.mask
    BY <1>3, <1>5
  <2> QED
    BY <1>1, <1>4, <2>1
<1> QED
  BY <1>4, <1>5

\* One address of the result.
LEMMA DoneIsWanted ==
    ASSUME Collected, NetInv, Routed, phase = "done", NEW a \in Nat,
           NEW s \in ipsDone, Covers(s, a)
    PROVE  Wanted(a) <=> s.included
<1>1. s \in ANet /\ (s \in Exceptions \/ Plain(s))
  BY DEF Routed, NetInv, NetsAreAligned
<1>2. s.first \in Nat /\ getLastAddress(s) \in Nat /\ s.mask \in Nat
  BY <1>1, NetIs
<1>3. CASE s \in Exceptions
  <2>1. s \in mIpAddresses
    BY <1>3 DEF Exceptions
  <2>2. ASSUME NEW n \in mIpAddresses, Covers(n, a) PROVE n = s \/ n.mask < s.mask
    <3>1. n.first \in Nat /\ getLastAddress(n) \in Nat
      BY CollectedIs, NetIs
    <3>2. Meet(n, s)
      BY <1>2, <2>2, <3>1 DEF Covers, Meet
    <3> QED
      BY <1>3, <3>2, ExceptionIsLeaf DEF Inside
  <2>3. \A n \in mIpAddresses : n.mask \in Nat
    BY CollectedIs, NetIs
  <2> QED
    BY <1>2, <2>1, <2>2, <2>3 DEF Wanted
<1>4. CASE Plain(s)
  <2>1. PICK p \in mIpAddresses : Within(s, p) /\ s.included = p.included
    BY <1>4 DEF Plain
  <2>2. p.first \in Nat /\ getLastAddress(p) \in Nat
    BY CollectedIs, NetIs
  <2>3. Covers(p, a)
    BY <1>2, <2>1, <2>2 DEF Covers, Within
  <2>4. \A n \in mIpAddresses : Covers(n, a) => n.included = s.included
    BY <1>4, <2>1, <2>3, OneType
  <2>5. PICK n \in mIpAddresses :
            Covers(n, a) /\ \A m \in mIpAddresses : Covers(m, a) => m.mask <= n.mask
    BY <2>3, MostSpecific
  <2> QED
    BY <2>4, <2>5 DEF Wanted
<1> QED
  BY <1>1, <1>3, <1>4

\* A wanted address is held by something that is done.
LEMMA WantedIsDone ==
    ASSUME NetInv, phase = "done", NEW a \in Addresses, Wanted(a)
    PROVE  \E s \in ipsDone : Covers(s, a)
<1>1. Holds(mIpAddresses, a)
  BY DEF Wanted, Holds
<1>2. Holds(ipsDone \cup Pending, a)
  BY <1>1, LostIs DEF NetInv
<1> QED
  BY <1>2 DEF Holds, Pending
-----------------------------------------------------------------------------
(* The theorems. *)

\* Every network that generateIPList handles starts at a multiple of its size
\* (ipAddress.split, NetworkSpace.java:240-262).
THEOREM NetworksAreAligned == Spec => []NetsAreAligned
<1>1. NetInv => NetsAreAligned
  BY DEF NetInv
<1> QED
  BY <1>1, NetInvariant, PTL

\* No turn of the loop of generateIPList drops an address that a collected
\* network holds.
THEOREM NothingIsLost == Spec => []NoAddressLost
<1>1. NetInv => NoAddressLost
  BY DEF NetInv
<1> QED
  BY <1>1, NetInvariant, PTL

\* The networks that generateIPList returns are disjoint, and at any time they
\* end before everything that is still in its queue.
THEOREM RoutesAreDisjoint == Spec => []DoneIsDisjoint
<1>1. NetInv => DoneIsDisjoint
  BY DEF NetInv
<1> QED
  BY <1>1, NetInvariant, PTL

\* Each address is routed into the VPN exactly when the most specific network
\* that was collected for it is an included one (getPositiveIPList), however
\* many networks are split, as long as exceptions have none of their own and
\* their buddies are whole.
THEOREM RoutesAreRight == Spec => []RoutesMatch
<1>1. ASSUME NetInv, RouteInv, phase = "done", ExceptionsAreApart PROVE RoutesAreWanted
  <2>1. Collected /\ Routed
    BY <1>1 DEF Collected, RouteInv
  <2>2. ASSUME NEW a \in Addresses
        PROVE  (\E n \in getPositiveIPList : Covers(n, a)) <=> Wanted(a)
    <3>1. a \in Nat
      BY AddressesAreNaturals
    <3>2. \A s \in ipsDone : Covers(s, a) => (Wanted(a) <=> s.included)
      BY <1>1, <2>1, <3>1, DoneIsWanted
    <3>3. Wanted(a) => \E s \in ipsDone : Covers(s, a)
      BY <1>1, WantedIsDone
    <3> QED
      BY <3>2, <3>3 DEF getPositiveIPList
  <2> QED
    BY <2>2 DEF RoutesAreWanted, CoveredBy
<1>2. NetInv /\ RouteInv => RoutesMatch
  BY <1>1 DEF RoutesMatch
<1> QED
  BY <1>2, NetInvariant, RouteInvariant, PTL
=============================================================================
