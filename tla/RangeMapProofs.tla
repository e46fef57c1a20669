--------------------------- MODULE RangeMapProofs ---------------------------
(***************************************************************************)
(* Proofs about RangeMap, for any width of addresses and any entries: the  *)
(* types, the disjointness of the ranges, what is retrieved, and that the  *)
(* recursion of StoreRangeInternal implements RangeMapSpec.                *)
(*                                                                         *)
(* The inductive invariant adds to the types and the disjointness that a   *)
(* shrunk range, and a call that has been shrunk, is still what was asked  *)
(* for, less delta addresses at its low end; and that what was cut off     *)
(* ends where another range ends (CutBelow).                               *)
(***************************************************************************)
EXTENDS RangeMap, WellFoundedInduction, TLAPS

\* A call that has given way is within the address space.
CallIsShrunk ==
    call # None =>
        /\ call.delta <= call.base
        /\ call.delta > 0 => ~Invalid /\ enable_shrink_down_

\* Only shrinking gives a range a delta.
DeltaIsShrinking == ~enable_shrink_down_ => \A r \in map_ : r.delta = 0

EndsAt(a) == \E q \in map_ : q.high = a

\* What was cut off ends where another range ends, or the range being stored.
CutBelow ==
    /\ \A r \in map_ : r.delta > 0 =>
          EndsAt(r.base - 1) \/ (call # None /\ ~Invalid /\ high = r.base - 1)
    /\ call # None /\ call.delta > 0 => EndsAt(call.base - 1)

IInv == TypeOK /\ RangesAreDisjoint /\ CallIsShrunk /\ DeltaIsShrinking /\ CutBelow

-----------------------------------------------------------------------------
(* Addresses and lower bounds. *)

\* A set of naturals that has an element has a least one.
LEMMA LeastNatural ==
    ASSUME NEW T \in SUBSET Nat, T # {}
    PROVE  \E m \in T : \A k \in T : m <= k
<1>1. IsWellFoundedOn(OpToRel(<, Nat), Nat)
  BY NatLessThanWellFounded
<1>2. PICK m \in T : \A k \in T : <<k, m>> \notin OpToRel(<, Nat)
  BY <1>1, WFMin
<1>3. ASSUME NEW k \in T PROVE m <= k
  <2>1. k \in Nat /\ m \in Nat /\ ~(k < m)
    BY <1>2 DEF OpToRel
  <2> QED
    BY <2>1
<1> QED
  BY <1>3

\* The last address of a range is computed in the width of an address.
LEMMA HighIs ==
    ASSUME NEW base \in Addresses, NEW size \in Addresses
    PROVE  /\ High(base, size) \in Addresses
           /\ (size > 0 /\ High(base, size) >= base) <=> (size > 0 /\ base + size - 1 <= Top)
           /\ size > 0 /\ base + size - 1 <= Top => High(base, size) = base + size - 1
<1> USE TopAssumption DEF Addresses, High
<1>1. High(base, size) \in Addresses
  OBVIOUS
<1>2. CASE size > 0 /\ base + size - 1 <= Top
  <2>1. base + size - 1 \in 0..Top
    BY <1>2
  <2>2. ((base + size - 1) + (Top + 1)) % (Top + 1) = base + size - 1
    BY <2>1
  <2>3. (base + size - 1) + (Top + 1) = base + size + Top
    OBVIOUS
  <2> QED
    BY <1>1, <1>2, <2>2, <2>3
<1>3. CASE size > 0 /\ ~(base + size - 1 <= Top)
  <2>1. base + size - 2 - Top \in 0..Top
    BY <1>3
  <2>2. ((base + size - 2 - Top) + 2 * (Top + 1)) % (Top + 1) = base + size - 2 - Top
    BY <2>1
  <2>3. (base + size - 2 - Top) + 2 * (Top + 1) = base + size + Top
    OBVIOUS
  <2>4. base + size - 2 - Top < base
    OBVIOUS
  <2> QED
    BY <1>1, <1>3, <2>2, <2>3, <2>4
<1>4. CASE ~(size > 0)
  BY <1>1, <1>4
<1> QED
  BY <1>2, <1>3, <1>4

\* The lower bound exists as soon as some range ends at or above the address.
LEMMA LowerBoundExists ==
    ASSUME map_ \subseteq Range, NEW a \in Addresses, NEW q \in map_, q.high >= a
    PROVE  \E r \in LowerBound(a) : r \in map_ /\ r.high >= a /\ r.high <= q.high
<1> DEFINE T == {r.high : r \in {r \in map_ : r.high >= a}}
<1>1. T \in SUBSET Nat /\ T # {}
  BY DEF Range, Addresses
<1>2. PICK m \in T : \A k \in T : m <= k
  BY <1>1, LeastNatural
<1>3. PICK r \in map_ : r.high >= a /\ r.high = m
  OBVIOUS
<1>4. \A p \in map_ : p.high >= a => r.high <= p.high
  BY <1>2, <1>3
<1> QED
  BY <1>3, <1>4 DEF LowerBound

\* Two ranges that end together are one.
LEMMA LowerBoundUnique ==
    ASSUME map_ \subseteq Range, RangesAreDisjoint, NEW a \in Addresses,
           NEW r \in LowerBound(a), NEW q \in LowerBound(a)
    PROVE  r = q
  BY DEF LowerBound, RangesAreDisjoint, Range, Addresses

\* What a valid call covers.
LEMMA CallCovers ==
    ASSUME TypeOK, call # None, ~Invalid
    PROVE  /\ call.base \in Addresses /\ call.size \in Addresses /\ high \in Addresses
           /\ call.size > 0
           /\ high = call.base + call.size - 1
<1>1. call.base \in Addresses /\ call.size \in Addresses
  BY DEF TypeOK, Call
<1>2. High(call.base, call.size) \in Addresses
  BY <1>1, HighIs
<1> QED
  <2>1. call.size > 0 /\ High(call.base, call.size) >= call.base
    BY <1>1, <1>2, TopAssumption DEF Invalid, high, Addresses
  <2> QED
    BY <1>1, <2>1, HighIs DEF high

\* Another range ends inside the call exactly when there is one.
LEMMA EndsInsideIs ==
    ASSUME TypeOK, RangesAreDisjoint, call # None, ~Invalid
    PROVE  EndsInside <=> \E q \in map_ : call.base <= q.high /\ q.high < high
<1>1. /\ call.base \in Addresses /\ high \in Addresses /\ call.base <= high
      /\ map_ \subseteq Range
  BY CallCovers DEF Addresses, TypeOK
<1>2. ASSUME NEW q \in map_, call.base <= q.high, q.high < high
      PROVE  EndsInside
  <2>1. q.high >= call.base
    BY <1>1, <1>2 DEF Range, Addresses
  <2>2. PICK r \in LowerBound(call.base) : r.high <= q.high
    BY <1>1, <2>1, LowerBoundExists
  <2>3. r \in map_ /\ r \notin LowerBound(high)
    BY <1>1, <1>2, <2>2 DEF LowerBound, Range, Addresses
  <2> QED
    BY <2>2, <2>3 DEF EndsInside
<1>3. ASSUME \A q \in map_ : ~(call.base <= q.high /\ q.high < high)
      PROVE  ~EndsInside
  <2>1. \A q \in map_ : q.high >= call.base <=> q.high >= high
    BY <1>1, <1>3 DEF Range, Addresses
  <2> QED
    BY <2>1 DEF EndsInside, LowerBound
<1> QED
  BY <1>2, <1>3

\* The range that ends first in the call ends inside it.
LEMMA FirstInside ==
    ASSUME TypeOK, RangesAreDisjoint, call # None, ~Invalid, EndsInside,
           NEW other \in LowerBound(call.base)
    PROVE  other \in map_ /\ call.base <= other.high /\ other.high < high
<1>1. PICK q \in map_ : call.base <= q.high /\ q.high < high
  BY EndsInsideIs
<1> QED
  BY <1>1, CallCovers DEF LowerBound, TypeOK, Range, Addresses

\* Nothing touches the call once nothing ends inside it and nothing is above.
LEMMA NothingTouches ==
    ASSUME TypeOK, RangesAreDisjoint, call # None, ~Invalid, ~EndsInside, Above = {},
           NEW q \in map_
    PROVE  q.high < call.base \/ high < q.base
<1>1. /\ call.base \in Addresses /\ high \in Addresses /\ call.base <= high
      /\ map_ \subseteq Range
  BY CallCovers DEF Addresses, TypeOK
<1>2. q.high < call.base \/ q.high >= high
  BY <1>1, EndsInsideIs DEF Range, Addresses
<1>3. CASE q.high >= high
  <2>1. PICK r \in LowerBound(high) : r \in map_ /\ r.high >= high /\ r.high <= q.high
    BY <1>1, <1>3, LowerBoundExists
  <2>2. r.base > high
    BY <1>1, <2>1 DEF Above, Range, Addresses
  <2>3. r = q \/ r.high < q.base
    BY <1>1, <2>1, <2>2 DEF RangesAreDisjoint, Range, Addresses
  <2> QED
    BY <1>1, <2>1, <2>2, <2>3 DEF Range, Addresses
<1> QED
  BY <1>2, <1>3

-----------------------------------------------------------------------------
(* Every step keeps the invariant. *)

LEMMA InitInv == Init => IInv
BY DEF Init, IInv, TypeOK, RangesAreDisjoint, CallIsShrunk, DeltaIsShrinking, CutBelow

LEMMA StoreRangeInv ==
    ASSUME IInv, NEW base \in Addresses, NEW size \in Addresses, NEW entry \in Entries,
           StoreRange(base, size, entry)
    PROVE  IInv'
<1>1. /\ call' = [base |-> base, delta |-> 0, size |-> size, entry |-> entry]
      /\ UNCHANGED <<enable_shrink_down_, map_, answer>> /\ call = None
  BY DEF StoreRange
<1>2. call' \in Call /\ call'.delta = 0
  BY <1>1, TopAssumption DEF Call, Addresses
<1>3. TypeOK' /\ RangesAreDisjoint' /\ DeltaIsShrinking'
  BY <1>1, <1>2 DEF IInv, TypeOK, RangesAreDisjoint, DeltaIsShrinking
<1>4. CallIsShrunk'
  BY <1>2, TopAssumption DEF CallIsShrunk, Call, Addresses
<1>5. CutBelow'
  BY <1>1, <1>2 DEF IInv, CutBelow, EndsAt
<1> QED
  BY <1>3, <1>4, <1>5 DEF IInv

LEMMA StoreInvalidInv ==
    ASSUME IInv, StoreInvalid
    PROVE  IInv'
<1>1. call' = None /\ Invalid /\ UNCHANGED <<enable_shrink_down_, map_>> /\ answer' = FALSE
  BY DEF StoreInvalid, Return
<1>2. TypeOK' /\ RangesAreDisjoint' /\ DeltaIsShrinking' /\ CallIsShrunk'
  BY <1>1 DEF IInv, TypeOK, RangesAreDisjoint, DeltaIsShrinking, CallIsShrunk
<1>3. CutBelow'
  BY <1>1 DEF IInv, CutBelow, EndsAt
<1> QED
  BY <1>2, <1>3 DEF IInv

\* A call that gives way keeps its last address, and begins above the range
\* that ends inside it.
LEMMA ShrinkThisStep ==
    ASSUME IInv, ShrinkThis
    PROVE  \E other \in map_ :
              /\ call' \in Call /\ call'.entry = call.entry
              /\ call'.base = other.high + 1
              /\ call'.base - call'.delta = call.base - call.delta
              /\ call'.size + call'.delta = call.size + call.delta
              /\ call'.base > call.base /\ call'.delta <= call'.base
              /\ high' = high /\ ~Invalid'
<1>1. /\ call # None /\ ~Invalid /\ EndsInside
      /\ TypeOK /\ RangesAreDisjoint /\ CallIsShrunk
  BY DEF ShrinkThis, IInv
<1>2. PICK other \in LowerBound(call.base) :
         LET additional_delta == other.high - call.base + 1 IN
         call' = [call EXCEPT !.base = @ + additional_delta,
                              !.delta = @ + additional_delta,
                              !.size = @ - additional_delta]
  BY DEF ShrinkThis
<1>3. other \in map_ /\ call.base <= other.high /\ other.high < high
  BY <1>1, FirstInside
<1>4. /\ call.base \in Addresses /\ call.size \in Addresses /\ high \in Addresses
      /\ high = call.base + call.size - 1
  BY <1>1, CallCovers
<1>5. /\ call \in Call /\ call.delta \in Addresses /\ call.delta <= call.base
      /\ other.high \in Addresses
  BY <1>1, <1>3 DEF TypeOK, Call, Range, CallIsShrunk
<1> DEFINE cut == other.high - call.base + 1
<1>6. cut \in Nat /\ cut > 0 /\ cut < call.size
  BY <1>3, <1>4, <1>5, TopAssumption DEF Addresses
<1>7. call' = [base |-> call.base + cut, delta |-> call.delta + cut, size |-> call.size - cut,
               entry |-> call.entry]
  BY <1>2, <1>5 DEF Call
<1>8. /\ call.base + cut = other.high + 1
      /\ call.base + cut \in Addresses /\ call.delta + cut \in Addresses
      /\ call.size - cut \in Addresses
      /\ call.delta + cut <= call.base + cut
  BY <1>3, <1>4, <1>5, <1>6, TopAssumption DEF Addresses
<1>9. call' \in Call
  BY <1>5, <1>7, <1>8 DEF Call
<1>10. /\ call'.base = call.base + cut /\ call'.size = call.size - cut
       /\ call'.delta = call.delta + cut /\ call'.entry = call.entry
  BY <1>7
<1>11. /\ call'.size > 0
       /\ call'.base + call'.size - 1 = high
       /\ call'.base - call'.delta = call.base - call.delta
       /\ call'.size + call'.delta = call.size + call.delta
       /\ call'.base > call.base
  <2> HIDE DEF cut
  <2> QED
    BY <1>4, <1>5, <1>6, <1>10, TopAssumption DEF Addresses
<1>12. high' = high
  <2>1. High(call'.base, call'.size) = call'.base + call'.size - 1
    BY <1>4, <1>8, <1>10, <1>11, HighIs, TopAssumption DEF Addresses
  <2> QED
    BY <1>11, <2>1 DEF high
<1>13. ~Invalid'
  BY <1>3, <1>4, <1>5, <1>8, <1>10, <1>11, <1>12, TopAssumption DEF Invalid, Addresses
<1> QED
  BY <1>3, <1>8, <1>9, <1>10, <1>11, <1>12, <1>13

LEMMA ShrinkThisInv ==
    ASSUME IInv, ShrinkThis
    PROVE  IInv'
<1>1. /\ UNCHANGED <<enable_shrink_down_, map_, answer>> /\ enable_shrink_down_
      /\ call # None /\ ~Invalid
  BY DEF ShrinkThis
<1>2. PICK other \in map_ :
         /\ call' \in Call
         /\ call'.base = other.high + 1 /\ call'.delta <= call'.base
         /\ high' = high /\ ~Invalid'
  BY ShrinkThisStep
<1>3. TypeOK' /\ RangesAreDisjoint' /\ DeltaIsShrinking'
  BY <1>1, <1>2 DEF IInv, TypeOK, RangesAreDisjoint, DeltaIsShrinking
<1>4. CallIsShrunk'
  BY <1>1, <1>2 DEF CallIsShrunk
<1>5. CutBelow'
  <2>1. call' # None
    BY <1>2, NoneAssumption
  <2>2. (EndsAt(call.base - 1))'
    BY <1>1, <1>2, TopAssumption DEF EndsAt, IInv, TypeOK, Range, Addresses
  <2>3. \A r \in map_' : r.delta > 0 => (EndsAt(r.base - 1))' \/ high' = r.base - 1
    BY <1>1, <1>2 DEF IInv, CutBelow, EndsAt
  <2> QED
    BY <1>2, <2>1, <2>2, <2>3 DEF CutBelow
<1> QED
  BY <1>3, <1>4, <1>5 DEF IInv

\* The range that gives way keeps its last address and begins above the call.
LEMMA ShrinkOtherStep ==
    ASSUME IInv, ShrinkOther
    PROVE  \E other \in map_, new \in Range :
              /\ map_' = (map_ \ {other}) \cup {new}
              /\ new.high = other.high /\ new.entry = other.entry
              /\ new.base = high + 1 /\ other.base <= high /\ high < other.high
              /\ new.base - new.delta = other.base - other.delta
              /\ new.delta <= new.base
<1>1. /\ call # None /\ ~Invalid /\ TypeOK /\ RangesAreDisjoint
  BY DEF ShrinkOther, IInv
<1>2. PICK other \in Above :
         /\ other.high > high
         /\ map_' = (map_ \ {other}) \cup {Shrunk(other, high - other.base + 1)}
  BY DEF ShrinkOther
<1>3. other \in map_ /\ other.base <= high
  BY <1>2 DEF Above, LowerBound
<1>4. high \in Addresses
  BY <1>1, CallCovers
<1>5. /\ other \in Range /\ other.base \in Addresses /\ other.high \in Addresses
      /\ other.delta \in Addresses /\ other.delta <= other.base
  BY <1>1, <1>3 DEF TypeOK, Range, RangesAreDisjoint
<1> DEFINE cut == high - other.base + 1
           new == [base |-> other.base + cut, high |-> other.high,
                   delta |-> other.delta + cut, entry |-> other.entry]
<1>6. Shrunk(other, cut) = new
  <2>1. other = [base |-> other.base, high |-> other.high, delta |-> other.delta,
                 entry |-> other.entry]
    BY <1>5 DEF Range
  <2>2. Shrunk(other, cut) = [other EXCEPT !.base = other.base + cut,
                                           !.delta = other.delta + cut]
    BY Zenon DEF Shrunk
  <2> HIDE DEF cut
  <2> QED
    BY <2>1, <2>2
<1>7. /\ other.base + cut = high + 1
      /\ other.base + cut \in Addresses /\ other.delta + cut \in Addresses
      /\ other.delta + cut <= other.base + cut
      /\ (other.base + cut) - (other.delta + cut) = other.base - other.delta
  BY <1>2, <1>3, <1>4, <1>5, TopAssumption DEF Addresses
<1>8. new \in Range
  BY <1>5, <1>7 DEF Range
<1>9. high < other.high
  BY <1>2, <1>4, <1>5, TopAssumption DEF Addresses
<1> QED
  BY <1>2, <1>3, <1>6, <1>7, <1>8, <1>9

LEMMA ShrinkOtherInv ==
    ASSUME IInv, ShrinkOther
    PROVE  IInv'
<1>1. /\ UNCHANGED <<enable_shrink_down_, call, answer>> /\ enable_shrink_down_
      /\ call # None /\ ~Invalid /\ high' = high /\ ~Invalid'
  BY DEF ShrinkOther, high, Invalid
<1>2. PICK other \in map_, new \in Range :
         /\ map_' = (map_ \ {other}) \cup {new}
         /\ new.high = other.high
         /\ new.base = high + 1 /\ other.base <= high /\ high < other.high
         /\ new.delta <= new.base
  BY ShrinkOtherStep
<1>3. map_ \subseteq Range /\ RangesAreDisjoint /\ high \in Addresses
  BY <1>1, CallCovers DEF IInv, TypeOK
<1>4. TypeOK'
  BY <1>1, <1>2 DEF IInv, TypeOK
<1>5. RangesAreDisjoint'
  <2>1. \A r \in map_' : r.base <= r.high /\ r.delta <= r.base
    BY <1>2, <1>3, TopAssumption DEF RangesAreDisjoint, Range, Addresses
  <2>2. ASSUME NEW r \in map_, r # other
        PROVE  r.high < new.base \/ new.high < r.base
    BY <1>2, <1>3, <2>2, TopAssumption DEF RangesAreDisjoint, Range, Addresses
  <2>3. \A r, q \in map_' : r = q \/ r.high < q.base \/ q.high < r.base
    BY <1>2, <1>3, <2>2 DEF RangesAreDisjoint
  <2> QED
    BY <2>1, <2>3 DEF RangesAreDisjoint
<1>6. CallIsShrunk' /\ DeltaIsShrinking'
  BY <1>1 DEF IInv, CallIsShrunk, DeltaIsShrinking
<1>7. CutBelow'
  <2>1. \A a : EndsAt(a) => (EndsAt(a))'
    BY <1>2 DEF EndsAt
  <2>2. new.base - 1 = high
    BY <1>2, <1>3, TopAssumption DEF Addresses
  <2>3. \A r \in map_' : r.delta > 0 => (EndsAt(r.base - 1))' \/ high' = r.base - 1
    BY <1>1, <1>2, <2>1, <2>2 DEF IInv, CutBelow
  <2>4. call'.delta > 0 => (EndsAt(call.base - 1))'
    BY <1>1, <2>1 DEF IInv, CutBelow
  <2> QED
    BY <1>1, <2>3, <2>4 DEF CutBelow
<1> QED
  BY <1>4, <1>5, <1>6, <1>7 DEF IInv

LEMMA StoreConflictingInv ==
    ASSUME IInv, StoreConflicting
    PROVE  IInv'
<1>1. /\ call' = None /\ UNCHANGED <<enable_shrink_down_, map_>> /\ answer' = FALSE
      /\ call # None /\ ~Invalid
  BY DEF StoreConflicting, Return
<1>2. TypeOK' /\ RangesAreDisjoint' /\ DeltaIsShrinking' /\ CallIsShrunk'
  BY <1>1 DEF IInv, TypeOK, RangesAreDisjoint, DeltaIsShrinking, CallIsShrunk
<1>3. ASSUME enable_shrink_down_
      PROVE  EndsAt(high)
  <2>1. PICK other \in Above : ~(other.high > high)
    BY <1>3 DEF StoreConflicting
  <2>2. other \in map_ /\ other.high >= high
    BY <2>1 DEF Above, LowerBound
  <2>3. high \in Addresses /\ other.high \in Addresses
    BY <1>1, <2>2, CallCovers DEF IInv, TypeOK, Range
  <2> QED
    BY <2>1, <2>2, <2>3, TopAssumption DEF EndsAt, Addresses
<1>4. \A r \in map_ : r.delta > 0 => EndsAt(r.base - 1)
  <2>1. CASE enable_shrink_down_
    BY <1>3, <2>1 DEF IInv, CutBelow
  <2>2. CASE ~enable_shrink_down_
    BY <2>2 DEF IInv, DeltaIsShrinking
  <2> QED
    BY <2>1, <2>2
<1>5. CutBelow'
  BY <1>1, <1>4 DEF CutBelow, EndsAt
<1> QED
  BY <1>2, <1>5 DEF IInv

LEMMA InsertInv ==
    ASSUME IInv, Insert
    PROVE  IInv'
<1> DEFINE new == [base |-> call.base, high |-> high, delta |-> call.delta,
                   entry |-> call.entry]
<1>1. /\ call' = None /\ UNCHANGED enable_shrink_down_ /\ answer' = TRUE
      /\ map_' = map_ \cup {new}
      /\ call # None /\ ~Invalid /\ ~EndsInside /\ Above = {}
  BY DEF Insert, Return
<1>2. /\ call \in Call /\ map_ \subseteq Range /\ high \in Addresses
      /\ call.base \in Addresses /\ call.delta \in Addresses /\ call.entry \in Entries
      /\ call.base <= high /\ call.delta <= call.base
  BY <1>1, CallCovers, TopAssumption DEF IInv, TypeOK, Call, CallIsShrunk, Addresses
<1>3. new \in Range /\ new.base <= new.high /\ new.delta <= new.base
  BY <1>2 DEF Range
<1>4. TypeOK' /\ CallIsShrunk'
  BY <1>1, <1>3 DEF IInv, TypeOK, CallIsShrunk
<1>5. RangesAreDisjoint'
  <2>1. \A q \in map_ : q.high < new.base \/ new.high < q.base
    BY <1>1, NothingTouches DEF IInv
  <2> HIDE DEF new
  <2> QED
    BY <1>1, <1>3, <2>1 DEF IInv, RangesAreDisjoint
<1>6. DeltaIsShrinking'
  <2>1. ~enable_shrink_down_ => new.delta = 0
    BY <1>1, <1>2, TopAssumption DEF IInv, CallIsShrunk, Addresses
  <2> HIDE DEF new
  <2> QED
    BY <1>1, <2>1 DEF IInv, DeltaIsShrinking
<1>7. CutBelow'
  <2>1. new \in map_' /\ new.high = high /\ new.base = call.base /\ new.delta = call.delta
    BY <1>1
  <2> HIDE DEF new
  <2>2. ASSUME NEW a, EndsAt(a) \/ a = high
        PROVE  \E q \in map_' : q.high = a
    BY <1>1, <2>1, <2>2 DEF EndsAt
  <2>3. \A r \in map_' : r.delta > 0 => EndsAt(r.base - 1) \/ r.base - 1 = high
    BY <1>1, <2>1 DEF IInv, CutBelow
  <2>4. \A r \in map_' : r.delta > 0 => (EndsAt(r.base - 1))'
    BY <2>2, <2>3 DEF EndsAt
  <2> QED
    BY <1>1, <2>4 DEF CutBelow
<1> QED
  BY <1>4, <1>5, <1>6, <1>7 DEF IInv

LEMMA ClearInv ==
    ASSUME IInv, Clear
    PROVE  IInv'
BY DEF Clear, IInv, TypeOK, RangesAreDisjoint, CallIsShrunk, DeltaIsShrinking, CutBelow

LEMMA NextInv == IInv /\ [Next]_vars => IInv'
<1> SUFFICES ASSUME IInv, [Next]_vars PROVE IInv'
  OBVIOUS
<1>1. CASE \E base, size \in Addresses, entry \in Entries : StoreRange(base, size, entry)
  BY <1>1, StoreRangeInv
<1>2. CASE StoreRangeInternal
  BY <1>2, StoreInvalidInv, ShrinkThisInv, ShrinkOtherInv, StoreConflictingInv, InsertInv
     DEF StoreRangeInternal
<1>3. CASE Clear
  BY <1>3, ClearInv
<1>4. CASE UNCHANGED vars
  BY <1>4 DEF vars, IInv, TypeOK, RangesAreDisjoint, CallIsShrunk, DeltaIsShrinking,
              CutBelow, EndsAt, Invalid, high
<1> QED
  BY <1>1, <1>2, <1>3, <1>4 DEF Next

LEMMA Invariant == Spec => []IInv
BY InitInv, NextInv, PTL DEF Spec

\* The range map's state is typed: in particular what is left of a range never
\* leaves the address space, whatever was cut off (StoreRangeInternal).
THEOREM TypeCorrect == Spec => []TypeOK
<1>1. IInv => TypeOK
  BY DEF IInv
<1> QED
  BY <1>1, Invariant, PTL

\* No two stored ranges share an address, however many calls of
\* StoreRangeInternal shrink them.
THEOREM Disjoint == Spec => []RangesAreDisjoint
<1>1. IInv => RangesAreDisjoint
  BY DEF IInv
<1> QED
  BY <1>1, Invariant, PTL

-----------------------------------------------------------------------------
(* What is retrieved. *)

\* What is asked for is known by the same entries.
LEMMA EntriesAsked ==
    \A S : {p.entry : p \in {Asked(r) : r \in S}} = {r.entry : r \in S}
<1>1. \A r : Asked(r).entry = r.entry
  BY DEF Asked
<1> QED
  BY <1>1

\* The addresses cut off a range belong to the range that ends first above them.
LEMMA RetrievedIs == ASSUME IInv PROVE RetrievesAsPromised
<1> DEFINE First(a) == {p \in AskedRanges :
                           /\ p.base <= a /\ a <= p.high
                           /\ \A q \in AskedRanges : a <= q.high => p.high <= q.high}
<1>1. ASSUME IInv, call = None, NEW a \in Addresses
      PROVE  First(a) = {Asked(r) : r \in RetrieveRange(a)}
  <2>1. map_ \subseteq Range /\ RangesAreDisjoint /\ CutBelow
    BY <1>1 DEF IInv, TypeOK
  <2>2. ASSUME NEW r \in RetrieveRange(a)
        PROVE  Asked(r) \in First(a)
    BY <1>1, <2>1, <2>2, TopAssumption
       DEF RetrieveRange, LowerBound, Range, Addresses, RangesAreDisjoint, Asked, AskedRanges
  <2>3. ASSUME NEW r \in map_, Asked(r) \in First(a)
        PROVE  r \in RetrieveRange(a)
    <3>1. r.base - r.delta <= a /\ a <= r.high /\ \A q \in map_ : a <= q.high => r.high <= q.high
      <4>1. /\ Asked(r).base <= a /\ a <= Asked(r).high
            /\ \A q \in AskedRanges : a <= q.high => Asked(r).high <= q.high
        BY <2>3, Zenon
      <4>2. \A q \in map_ : Asked(q) \in AskedRanges
        BY Zenon DEF AskedRanges
      <4>3. \A q \in map_ : a <= Asked(q).high => Asked(r).high <= Asked(q).high
        BY <4>1, <4>2, Zenon
      <4> QED
        BY <4>1, <4>3 DEF Asked
    <3>2. r \in LowerBound(a)
      BY <1>1, <2>1, <3>1, TopAssumption DEF LowerBound, Range, Addresses
    <3>3. CASE r.base <= a
      BY <3>2, <3>3 DEF RetrieveRange
    <3>4. CASE ~(r.base <= a)
      <4>1. r.delta > 0 /\ r.base <= r.high
        BY <1>1, <2>1, <3>1, <3>4, TopAssumption DEF Range, Addresses, RangesAreDisjoint
      <4>2. PICK q \in map_ : q.high = r.base - 1
        BY <1>1, <2>1, <4>1 DEF CutBelow, EndsAt
      <4>3. a <= q.high /\ q.high < r.high
        BY <1>1, <2>1, <3>4, <4>1, <4>2, TopAssumption DEF Range, Addresses
      <4> QED
        BY <1>1, <2>1, <3>1, <4>3, TopAssumption DEF Range, Addresses
    <3> QED
      BY <3>3, <3>4
  <2> QED
    BY <2>2, <2>3 DEF RetrieveRange, LowerBound, AskedRanges
<1>2. ASSUME IInv, call = None, NEW a \in Addresses
      PROVE  {r.entry : r \in RetrieveRange(a)} = Promise!Lookup(a)
  <2>1. Promise!Lookup(a) = {p.entry : p \in First(a)}
    BY DEF Promise!Lookup
  <2>2. First(a) = {Asked(r) : r \in RetrieveRange(a)}
    BY <1>1, <1>2
  <2> HIDE DEF First
  <2> QED
    BY <2>1, <2>2, EntriesAsked
\* Nothing that ends at or below an address moves its last address.
<1>3. ASSUME NEW a \in Addresses
      PROVE  {r.entry : r \in LastBelow(a)}
               = {p.entry : p \in {p \in AskedRanges :
                    p.high <= a /\ \A q \in AskedRanges : q.high <= a => q.high <= p.high}}
  <2> DEFINE Last == {p \in AskedRanges :
                        p.high <= a /\ \A q \in AskedRanges : q.high <= a => q.high <= p.high}
  <2>1. \A r : Asked(r).high = r.high
    BY DEF Asked
  <2>2. Last = {Asked(r) : r \in LastBelow(a)}
    BY <2>1 DEF LastBelow, AskedRanges
  <2> HIDE DEF Last
  <2>3. {p.entry : p \in Last} = {r.entry : r \in LastBelow(a)}
    BY <2>2, EntriesAsked
  <2> QED
    BY <2>3 DEF Last
<1> SUFFICES ASSUME call = None, NEW a \in Addresses
             PROVE  /\ {r.entry : r \in RetrieveRange(a)} = Promise!Lookup(a)
                    /\ {r.entry : r \in RetrieveNearestRange(a)} = Promise!Nearest(a)
  BY DEF RetrievesAsPromised
<1>4. {r.entry : r \in RetrieveRange(a)} = Promise!Lookup(a)
  BY <1>2
<1>5. CASE RetrieveRange(a) # {}
  BY <1>4, <1>5 DEF RetrieveNearestRange, Promise!Nearest
<1>6. CASE RetrieveRange(a) = {}
  BY <1>3, <1>4, <1>6 DEF RetrieveNearestRange, Promise!Nearest
<1> QED
  BY <1>4, <1>5, <1>6

\* RetrieveRange finds an address exactly where RangeMapSpec says, and
\* RetrieveNearestRange the nearest range (range_map-inl.h, lower_bound and
\* upper_bound), whatever has been shrunk.
THEOREM Retrieves == Spec => []RetrievesAsPromised
BY RetrievedIs, Invariant, PTL

-----------------------------------------------------------------------------
(* The recursion implements the promise. *)

\* What the call covers ends where the request ends, and is a range when the
\* request is one.
LEMMA RequestIs ==
    ASSUME IInv, call # None
    PROVE  /\ High(AskedCall.base, AskedCall.size) = high
           /\ Promise!Valid(AskedCall) <=> ~Invalid
           /\ AskedCall.base = call.base - call.delta /\ AskedCall.entry = call.entry
           /\ AskedCall # None
<1>1. /\ call.base \in Addresses /\ call.size \in Addresses /\ call.delta \in Addresses
      /\ high \in Addresses
  BY HighIs DEF IInv, TypeOK, Call, high
<1>2. High(call.base - call.delta, call.size + call.delta) = high
  <2>1. (call.base - call.delta) + (call.size + call.delta) + Top = call.base + call.size + Top
    BY <1>1, TopAssumption DEF Addresses
  <2> QED
    BY <2>1 DEF High, high
<1>3. /\ AskedCall.base = call.base - call.delta /\ AskedCall.size = call.size + call.delta
      /\ AskedCall.entry = call.entry
  BY DEF AskedCall
<1>0. AskedCall # None
  <2>1. /\ call.base - call.delta \in Addresses /\ call.size + call.delta \in Nat
        /\ call.entry \in Entries
    BY <1>1, TopAssumption DEF IInv, TypeOK, CallIsShrunk, Call, Addresses
  <2> QED
    BY <2>1, NoneAssumption DEF AskedCall
<1>4. Promise!Valid(AskedCall)
        <=> call.size + call.delta > 0 /\ high >= call.base - call.delta
  BY <1>2, <1>3 DEF Promise!Valid, Promise!High, High
<1>5. (call.size + call.delta > 0 /\ high >= call.base - call.delta) <=> ~Invalid
  <2>1. CASE call.delta = 0
    BY <1>1, <2>1, TopAssumption DEF Invalid, Addresses
  <2>2. CASE call.delta # 0
    <3>1. call.delta > 0 /\ ~Invalid
      BY <1>1, <2>2, TopAssumption DEF IInv, CallIsShrunk, Addresses
    <3>2. call.size > 0 /\ high >= call.base
      BY <1>1, <3>1, TopAssumption DEF Invalid, Addresses
    <3> QED
      BY <1>1, <3>1, <3>2, TopAssumption DEF Addresses
  <2> QED
    BY <2>1, <2>2
<1> QED
  BY <1>0, <1>2, <1>3, <1>4, <1>5

\* Whether there is room for what was asked for.
LEMMA FitsIs ==
    ASSUME IInv, call # None
    PROVE  Promise!Fits(AskedCall)
             <=> /\ ~Invalid
                 /\ \A r \in map_ :
                       IF enable_shrink_down_ THEN r.high # high
                       ELSE r.high < call.base - call.delta \/ high < r.base - r.delta
<1>1. Promise!High(AskedCall.base, AskedCall.size) = high
  BY RequestIs DEF Promise!High, High
<1>2. Promise!Fits(AskedCall)
        <=> /\ Promise!Valid(AskedCall)
            /\ \A q \in AskedRanges :
                  IF enable_shrink_down_ THEN q.high # high
                  ELSE q.high < AskedCall.base \/ high < q.base
  BY <1>1 DEF Promise!Fits
<1>3. AskedCall.base = call.base - call.delta
  BY DEF AskedCall
<1>4. \A r : Asked(r).base = r.base - r.delta /\ Asked(r).high = r.high
  BY DEF Asked
<1>5. (\A q \in AskedRanges :
          IF enable_shrink_down_ THEN q.high # high
          ELSE q.high < AskedCall.base \/ high < q.base)
        <=> \A r \in map_ :
               IF enable_shrink_down_ THEN r.high # high
               ELSE r.high < call.base - call.delta \/ high < r.base - r.delta
  BY <1>3, <1>4 DEF AskedRanges
<1> QED
  BY <1>2, <1>5, RequestIs

\* Storing and answering, as steps of the promise.
LEMMA RefinesAsk ==
    ASSUME IInv, NEW base \in Addresses, NEW size \in Addresses, NEW entry \in Entries,
           StoreRange(base, size, entry)
    PROVE  Promise!Ask(base, size, entry)
<1> USE DEF AskedCall, AskedRanges
<1>1. /\ call = None
      /\ call' = [base |-> base, delta |-> 0, size |-> size, entry |-> entry]
      /\ UNCHANGED <<enable_shrink_down_, map_, answer>>
  BY DEF StoreRange
<1>2. call' \in Call /\ base - 0 = base /\ size + 0 = size
  BY <1>1, TopAssumption DEF Call, Addresses
<1>3. call' # None
  BY <1>2, NoneAssumption
<1> QED
  BY <1>1, <1>2, <1>3 DEF Promise!Ask

LEMMA RefinesRefusal ==
    ASSUME IInv, StoreInvalid \/ StoreConflicting
    PROVE  Promise!Answer
<1>1. /\ call # None /\ call' = None /\ answer' = FALSE
      /\ UNCHANGED <<enable_shrink_down_, map_>>
  BY DEF StoreInvalid, StoreConflicting, Return
<1>2. ~Promise!Fits(AskedCall)
  <2>1. CASE StoreInvalid
    BY <1>1, <2>1, FitsIs DEF StoreInvalid
  <2>2. CASE StoreConflicting
    <3>1. TypeOK /\ RangesAreDisjoint /\ CallIsShrunk /\ DeltaIsShrinking /\ ~Invalid
      BY <2>2 DEF IInv, StoreConflicting
    <3>2. /\ call.base \in Addresses /\ high \in Addresses /\ call.base <= high
          /\ call.delta \in Addresses /\ map_ \subseteq Range
      BY <1>1, <3>1, CallCovers, TopAssumption DEF TypeOK, Call, Addresses
    <3>3. CASE enable_shrink_down_
      <4>1. PICK other \in Above : ~(other.high > high)
        BY <2>2, <3>3 DEF StoreConflicting
      <4>2. other \in map_ /\ other.high = high
        BY <3>2, <4>1, TopAssumption DEF Above, LowerBound, Range, Addresses
      <4> QED
        BY <1>1, <3>3, <4>2, FitsIs
    <3>4. CASE ~enable_shrink_down_
      <4>1. PICK other \in map_ : call.base <= other.high /\ other.base <= high
        <5>1. CASE EndsInside
          <6>1. PICK q \in map_ : call.base <= q.high /\ q.high < high
            BY <1>1, <3>1, <5>1, EndsInsideIs
          <6> QED
            BY <3>1, <3>2, <6>1, TopAssumption DEF RangesAreDisjoint, Range, Addresses
        <5>2. CASE ~EndsInside
          BY <2>2, <3>2, <5>2, TopAssumption
             DEF StoreConflicting, Above, LowerBound, Range, Addresses
        <5> QED
          BY <5>1, <5>2
      <4>2. other.delta = 0 /\ call.delta = 0
        BY <1>1, <3>1, <3>2, <3>4, TopAssumption DEF DeltaIsShrinking, CallIsShrunk, Addresses
      <4>3. ~(other.high < call.base - call.delta \/ high < other.base - other.delta)
        BY <3>2, <4>1, <4>2, TopAssumption DEF Range, Addresses
      <4> QED
        BY <1>1, <3>4, <4>3, FitsIs
    <3> QED
      BY <3>3, <3>4
  <2> QED
    BY <2>1, <2>2
<1>3. AskedCall # None /\ AskedCall' = None /\ AskedRanges' = AskedRanges
  BY <1>1, RequestIs DEF AskedCall, AskedRanges
<1>4. Promise!Fits(AskedCall) = FALSE
  BY <1>2 DEF Promise!Fits
<1> QED
  BY <1>1, <1>3, <1>4 DEF Promise!Answer

\* A range that gives way is not a step of the promise.
LEMMA RefinesShrinkThis ==
    ASSUME IInv, ShrinkThis
    PROVE  UNCHANGED <<enable_shrink_down_, AskedRanges, AskedCall, answer>>
<1>1. /\ UNCHANGED <<enable_shrink_down_, map_, answer>> /\ call # None
  BY DEF ShrinkThis
<1>2. /\ call' \in Call /\ call'.entry = call.entry
      /\ call'.base - call'.delta = call.base - call.delta
      /\ call'.size + call'.delta = call.size + call.delta
  BY ShrinkThisStep
<1>3. call' # None
  BY <1>2, NoneAssumption
<1> QED
  BY <1>1, <1>2, <1>3 DEF AskedCall, AskedRanges

LEMMA RefinesShrinkOther ==
    ASSUME IInv, ShrinkOther
    PROVE  UNCHANGED <<enable_shrink_down_, AskedRanges, AskedCall, answer>>
<1>1. UNCHANGED <<enable_shrink_down_, call, answer>>
  BY DEF ShrinkOther
<1>2. PICK other \in map_, new \in Range :
         /\ map_' = (map_ \ {other}) \cup {new}
         /\ new.high = other.high /\ new.entry = other.entry
         /\ new.base - new.delta = other.base - other.delta
  BY ShrinkOtherStep
<1>3. Asked(new) = Asked(other)
  BY <1>2 DEF Asked
<1>4. AskedRanges' = {Asked(r) : r \in map_'}
  BY DEF AskedRanges, Asked
<1>5. {Asked(r) : r \in map_'} = AskedRanges
  BY <1>2, <1>3, Zenon DEF AskedRanges
<1> QED
  BY <1>1, <1>4, <1>5 DEF AskedCall

LEMMA RefinesInsert ==
    ASSUME IInv, Insert
    PROVE  Promise!Answer
<1> DEFINE new == [base |-> call.base, high |-> high, delta |-> call.delta,
                   entry |-> call.entry]
<1>1. /\ call' = None /\ UNCHANGED enable_shrink_down_ /\ answer' = TRUE
      /\ map_' = map_ \cup {new}
      /\ call # None /\ ~Invalid /\ ~EndsInside /\ Above = {}
  BY DEF Insert, Return
<1>2. TypeOK /\ RangesAreDisjoint /\ CallIsShrunk /\ DeltaIsShrinking
  BY DEF IInv
<1>3. /\ call.base \in Addresses /\ high \in Addresses /\ call.base <= high
      /\ call.delta \in Addresses /\ map_ \subseteq Range
  BY <1>1, <1>2, CallCovers, TopAssumption DEF TypeOK, Call, Addresses
<1>4. Promise!Fits(AskedCall)
  <2>1. ASSUME NEW r \in map_
        PROVE  IF enable_shrink_down_ THEN r.high # high
               ELSE r.high < call.base - call.delta \/ high < r.base - r.delta
    <3>1. r.high < call.base \/ high < r.base
      BY <1>1, <1>2, NothingTouches
    <3>2. r \in Range /\ r.base <= r.high
      BY <1>2, <1>3 DEF RangesAreDisjoint
    <3>3. CASE enable_shrink_down_
      BY <1>3, <3>1, <3>2, <3>3, TopAssumption DEF Range, Addresses
    <3>4. CASE ~enable_shrink_down_
      <4>1. r.delta = 0 /\ call.delta = 0
        BY <1>1, <1>2, <1>3, <3>4, TopAssumption DEF DeltaIsShrinking, CallIsShrunk, Addresses
      <4> QED
        BY <1>3, <3>1, <3>2, <3>4, <4>1, TopAssumption DEF Range, Addresses
    <3> QED
      BY <3>3, <3>4
  <2> QED
    BY <1>1, <2>1, FitsIs
<1>5. Promise!Fits(AskedCall) = TRUE
  BY <1>4 DEF Promise!Fits
<1>6. AskedCall # None /\ AskedCall' = None
  BY <1>1, RequestIs DEF AskedCall
<1>7. Promise!High(AskedCall.base, AskedCall.size) = high
  BY <1>1, RequestIs DEF Promise!High, High
<1>8. Asked(new) = [base |-> AskedCall.base, entry |-> AskedCall.entry, high |-> high]
  BY <1>1, RequestIs DEF Asked
<1>9. AskedRanges' = AskedRanges \cup {Asked(new)}
  <2>1. AskedRanges' = {Asked(r) : r \in map_'}
    BY DEF AskedRanges, Asked
  <2> HIDE DEF new
  <2>2. {Asked(r) : r \in map_'} = AskedRanges \cup {Asked(new)}
    BY <1>1, Zenon DEF AskedRanges
  <2> QED
    BY <2>1, <2>2
<1> QED
  BY <1>1, <1>5, <1>6, <1>7, <1>8, <1>9 DEF Promise!Answer

LEMMA RefinesClear ==
    ASSUME Clear
    PROVE  Promise!Clear
BY DEF Clear, Promise!Clear, AskedRanges, AskedCall

\* A turn of StoreRangeInternal answers, or it is not seen.
LEMMA RefinesTurn ==
    ASSUME IInv, StoreRangeInternal
    PROVE  Promise!Answer \/ UNCHANGED <<enable_shrink_down_, AskedRanges, AskedCall, answer>>
BY RefinesRefusal, RefinesInsert, RefinesShrinkThis, RefinesShrinkOther DEF StoreRangeInternal

\* StoreRange, however many turns of StoreRangeInternal it takes, is one answer
\* of RangeMapSpec: a range is taken as it was asked for or refused, and what
\* was taken before is never changed or lost.
THEOREM Implements == Spec => KeepsPromise
<1>1. Init => Promise!Init
  BY DEF Init, Promise!Init, AskedRanges, AskedCall
<1>2. IInv /\ [Next]_vars => [Promise!Next]_Promise!vars
  <2> SUFFICES ASSUME IInv, [Next]_vars
               PROVE  Promise!Next \/ UNCHANGED <<enable_shrink_down_, AskedRanges, AskedCall, answer>>
    BY DEF Promise!vars
  <2>1. CASE \E base, size \in Addresses, entry \in Entries : StoreRange(base, size, entry)
    <3>1. \E base, size \in Addresses, entry \in Entries : Promise!Ask(base, size, entry)
      BY <2>1, RefinesAsk
    <3> QED
      BY <3>1 DEF Promise!Next, Promise!Addresses, Addresses
  <2>2. CASE StoreRangeInternal
    BY <2>2, RefinesTurn DEF Promise!Next
  <2>3. CASE Clear
    BY <2>3, RefinesClear DEF Promise!Next
  <2>4. CASE UNCHANGED vars
    BY <2>4 DEF vars, AskedRanges, AskedCall
  <2> QED
    BY <2>1, <2>2, <2>3, <2>4 DEF Next
<1> QED
  BY <1>1, <1>2, Invariant, PTL DEF Spec, KeepsPromise, Promise!Spec
=============================================================================
