---------------------------- MODULE RangeMapSpec ----------------------------
(***************************************************************************)
(* What google_breakpad::RangeMap promises (processor/range_map.h): ranges *)
(* are asked to be stored one at a time; an answer says whether the range  *)
(* is in, and nothing that is in ever changes.  With shrinking, of the     *)
(* ranges that overlap "the range which ends at the higher address" gives  *)
(* way, so an address belongs to the range that ends first at or above it. *)
(***************************************************************************)
EXTENDS AddressRanges

VARIABLES shrink, ranges, request, answer
vars == <<shrink, ranges, request, answer>>

Init ==
    /\ shrink \in BOOLEAN
    /\ ranges = {}
    /\ request = None
    /\ answer = FALSE

Ask(base, size, entry) ==
    /\ request = None
    /\ request' = [base |-> base, size |-> size, entry |-> entry]
    /\ UNCHANGED <<shrink, ranges, answer>>

Valid(r) == r.size > 0 /\ High(r.base, r.size) >= r.base

\* There is room for the range: none ends where it ends, or none touches it.
Fits(r) ==
    LET high == High(r.base, r.size) IN
    /\ Valid(r)
    /\ \A q \in ranges :
          IF shrink THEN q.high # high ELSE q.high < r.base \/ high < q.base

Answer ==
    /\ request # None
    /\ answer' = Fits(request)
    /\ ranges' = IF Fits(request)
                 THEN ranges \cup {[base |-> request.base, entry |-> request.entry,
                                    high |-> High(request.base, request.size)]}
                 ELSE ranges
    /\ request' = None
    /\ UNCHANGED shrink

Clear == request = None /\ ranges' = {} /\ UNCHANGED <<shrink, request, answer>>

Next ==
    \/ \E base, size \in Addresses, entry \in Entries : Ask(base, size, entry)
    \/ Answer
    \/ Clear

Spec == Init /\ [][Next]_vars

\* Whose address it is: of the range that ends first at or above it, if it
\* reaches down to it.
Lookup(a) ==
    {r.entry : r \in {r \in ranges :
        /\ r.base <= a /\ a <= r.high
        /\ \A q \in ranges : a <= q.high => r.high <= q.high}}

\* "the nearest range to the supplied address that is lower than the address"
\* where there is none.
Nearest(a) ==
    IF Lookup(a) # {} THEN Lookup(a)
    ELSE {r.entry : r \in {r \in ranges :
            r.high <= a /\ \A q \in ranges : q.high <= a => q.high <= r.high}}
=============================================================================
