---------------------------- MODULE AddressRanges ----------------------------
(***************************************************************************)
(* What the range map, its promise and the lists of modules share: the     *)
(* addresses of google_breakpad::RangeMap, whose AddressType is an         *)
(* unsigned integer of a fixed width, and what is stored under them.       *)
(***************************************************************************)
EXTENDS Integers

CONSTANTS
    Top,        \* the largest address
    Entries,    \* what is stored
    None        \* no call is being answered

ASSUME TopAssumption == Top \in Nat \ {0}

Addresses == 0..Top
Call == [base : Addresses, delta : Addresses, size : Addresses, entry : Entries]

ASSUME NoneAssumption ==
    None \notin Call \cup [base : Addresses, size : Nat, entry : Entries]

\* base + (size - 1), the last address of a range, in the width of an address.
High(base, size) == (base + size + Top) % (Top + 1)
=============================================================================
