------------------------------ MODULE RangeMap ------------------------------
(***************************************************************************)
(* google_breakpad::RangeMap (processor/range_map-inl.h): disjoint ranges  *)
(* of addresses kept by their last address.  StoreRangeInternal calls      *)
(* itself again whenever it has shrunk a range; one call is one step.      *)
(* Addresses and sizes have the width of AddressType: 0..Top.              *)
(***************************************************************************)
EXTENDS AddressRanges

VARIABLES
    enable_shrink_down_,
    map_,
    call,      \* the arguments of StoreRangeInternal; None outside
    answer     \* what StoreRange returned last
vars == <<enable_shrink_down_, map_, call, answer>>

Range == [base : Addresses, high : Addresses, delta : Addresses, entry : Entries]

Init ==
    /\ enable_shrink_down_ \in BOOLEAN
    /\ map_ = {}
    /\ call = None
    /\ answer = FALSE

\* The range std::map::lower_bound points to; {} is end().
LowerBound(a) ==
    {r \in map_ : r.high >= a /\ \A q \in map_ : q.high >= a => r.high <= q.high}

\* The range upper_bound points past.
LastBelow(a) ==
    {r \in map_ : r.high <= a /\ \A q \in map_ : q.high <= a => q.high <= r.high}

\* Mutant of RetrieveRange: the base is not looked at.
RetrieveRangeUnbased(a) == LowerBound(a)

RetrieveRange(a) == {r \in LowerBound(a) : r.base <= a}

RetrieveNearestRange(a) ==
    IF RetrieveRange(a) # {} THEN RetrieveRange(a) ELSE LastBelow(a)

-----------------------------------------------------------------------------
StoreRange(base, size, entry) ==
    /\ call = None
    /\ call' = [base |-> base, delta |-> 0, size |-> size, entry |-> entry]
    /\ UNCHANGED <<enable_shrink_down_, map_, answer>>

Return(result) == call' = None /\ answer' = result /\ UNCHANGED enable_shrink_down_

high == High(call.base, call.size)
Invalid == call.size = 0 \/ high < call.base
\* Another range ends inside this one.
EndsInside == LowerBound(call.base) # LowerBound(high)
\* The range that ends at or above this one begins inside or below it.
Above == {r \in LowerBound(high) : r.base <= high}

StoreInvalid ==
    /\ call # None
    /\ Invalid
    /\ Return(FALSE)
    /\ UNCHANGED map_

\* Mutant of ShrinkThis: delta is forgotten.
ShrinkThisOnly ==
    /\ call # None /\ ~Invalid
    /\ EndsInside /\ enable_shrink_down_
    /\ \E other \in LowerBound(call.base) :
          LET additional_delta == other.high - call.base + 1 IN
          call' = [call EXCEPT !.base = @ + additional_delta, !.size = @ - additional_delta]
    /\ UNCHANGED <<enable_shrink_down_, map_, answer>>

\* This range gives way to the one that ends inside it.
ShrinkThis ==
    /\ call # None /\ ~Invalid
    /\ EndsInside /\ enable_shrink_down_
    /\ \E other \in LowerBound(call.base) :
          LET additional_delta == other.high - call.base + 1 IN
          call' = [call EXCEPT !.base = @ + additional_delta,
                               !.delta = @ + additional_delta,
                               !.size = @ - additional_delta]
    /\ UNCHANGED <<enable_shrink_down_, map_, answer>>

Shrunk(r, additional_delta) ==
    [r EXCEPT !.base = @ + additional_delta, !.delta = @ + additional_delta]

\* Mutant of ShrinkOther: the shrunk range keeps one address too many.
ShrinkOtherShort ==
    /\ call # None /\ ~Invalid
    /\ ~EndsInside /\ enable_shrink_down_
    /\ \E other \in Above :
          /\ other.high > high
          /\ map_' = (map_ \ {other}) \cup {Shrunk(other, high - other.base)}
    /\ UNCHANGED <<enable_shrink_down_, call, answer>>

\* The other range gives way to this one.
ShrinkOther ==
    /\ call # None /\ ~Invalid
    /\ ~EndsInside /\ enable_shrink_down_
    /\ \E other \in Above :
          /\ other.high > high
          /\ map_' = (map_ \ {other}) \cup {Shrunk(other, high - other.base + 1)}
    /\ UNCHANGED <<enable_shrink_down_, call, answer>>

StoreConflicting ==
    /\ call # None /\ ~Invalid
    /\ \/ EndsInside /\ ~enable_shrink_down_
       \/ ~EndsInside /\ \E other \in Above : ~(enable_shrink_down_ /\ other.high > high)
    /\ Return(FALSE)
    /\ UNCHANGED map_

Insert ==
    /\ call # None /\ ~Invalid
    /\ ~EndsInside /\ Above = {}
    /\ map_' = map_ \cup {[base |-> call.base, high |-> high, delta |-> call.delta,
                           entry |-> call.entry]}
    /\ Return(TRUE)

\* One call of StoreRangeInternal.
StoreRangeInternal ==
    StoreInvalid \/ ShrinkThis \/ ShrinkOther \/ StoreConflicting \/ Insert

Clear == call = None /\ map_' = {} /\ UNCHANGED <<enable_shrink_down_, call, answer>>

Next ==
    \/ \E base, size \in Addresses, entry \in Entries : StoreRange(base, size, entry)
    \/ StoreRangeInternal
    \/ Clear

Spec == Init /\ [][Next]_vars

-----------------------------------------------------------------------------
TypeOK ==
    /\ enable_shrink_down_ \in BOOLEAN
    /\ map_ \subseteq Range
    /\ call \in Call \cup {None}
    /\ answer \in BOOLEAN

\* Each range is kept whole: no two share an address, and what was cut off is
\* the part delta says.
RangesAreDisjoint ==
    /\ \A r \in map_ : r.base <= r.high /\ r.delta <= r.base
    /\ \A r, q \in map_ : r = q \/ r.high < q.base \/ q.high < r.base

\* What is stored, and what is being stored, as it was asked for.
Asked(r) == [base |-> r.base - r.delta, high |-> r.high, entry |-> r.entry]
AskedRanges == {Asked(r) : r \in map_}
AskedCall ==
    IF call = None THEN None
    ELSE [base |-> call.base - call.delta, size |-> call.size + call.delta,
          entry |-> call.entry]

Promise == INSTANCE RangeMapSpec WITH
    shrink <- enable_shrink_down_, ranges <- AskedRanges, request <- AskedCall,
    answer <- answer

\* The map implements the promise, whatever turns a store takes.
KeepsPromise == Promise!Spec

\* An address is found exactly where the promise says, and so is the range
\* nearest to it.
RetrievesAsPromised ==
    call = None => \A a \in Addresses :
        /\ {r.entry : r \in RetrieveRange(a)} = Promise!Lookup(a)
        /\ {r.entry : r \in RetrieveNearestRange(a)} = Promise!Nearest(a)
=============================================================================
