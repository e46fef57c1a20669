-------------------------- MODULE ModuleListProofs --------------------------
(***************************************************************************)
(* Proofs about ModuleList, for any width of addresses, any dump and any   *)
(* number of modules.  RangeMapProofs is used twice: extended for the      *)
(* list's map and instantiated for the copy's.  What either map does is    *)
(* then seen as RangeMapSpec sees it, by what it was asked for: shrinking  *)
(* changes no asked range, so each module is one request and one answer.   *)
(*                                                                         *)
(* The list asks for a module at the address of the dump, or with the      *)
(* client's correction backed out: either way for addresses that are the   *)
(* module's (Owned).  With shrinking both maps hold the same: every module *)
(* that is a range and the first to end where it ends (Holds).             *)
(***************************************************************************)
EXTENDS ModuleList, RangeMapProofs

CopyOf == INSTANCE RangeMapProofs WITH
    map_ <- copy_map_, call <- copy_call, answer <- copy_answer

ListTypes ==
    /\ modules_ \in Seq(Dump) /\ Len(modules_) <= Count
    /\ last_end_address \in Addresses
    /\ copied \in 0..Len(modules_)
    /\ status \in {"new", "reading", "storing", "adjusted", "failed", "copying", "copied"}

\* Each map is asked only in its stage.
Stages ==
    /\ status = "new" => modules_ = <<>>
    /\ status \in {"storing", "adjusted"} => Len(modules_) > 0
    /\ call # None => status \in {"storing", "adjusted"}
    /\ copy_call # None => status = "copying" /\ copied > 0
    /\ status = "copied" => copied = Len(modules_)

MapsInv == IInv /\ CopyOf!IInv /\ ListTypes /\ Stages

\* What is asked for is a range, with its last address.
IsRange(m) == m.size > 0 /\ High(m.base, m.size) >= m.base
Last(m) == High(m.base, m.size)

\* A range that belongs to its module in full.
OwnedBy(ms, p) ==
    /\ p.entry \in DOMAIN ms
    /\ ms[p.entry].base <= p.base
    /\ p.high < ms[p.entry].base + ms[p.entry].size

AsRange(r) == [base |-> r.base, entry |-> r.entry, high |-> Last(r)]

Owned ==
    /\ \A p \in AskedRanges : OwnedBy(modules_, p)
    /\ call # None /\ IsRange(AskedCall) => OwnedBy(modules_, AsRange(AskedCall))

\* Module i of ms as it is asked for, and whether a map that shrinks takes it.
Request(ms, i) == [base |-> ms[i].base, size |-> ms[i].size, entry |-> i]
Taken(ms, i) ==
    /\ IsRange(ms[i])
    /\ \A j \in 1..(i - 1) : IsRange(ms[j]) => Last(ms[j]) # Last(ms[i])

\* A map that has been asked for the first k modules.
Holds(ms, ranges, k) ==
    /\ ranges = {AsRange(Request(ms, i)) : i \in {i \in 1..k : Taken(ms, i)}}
    /\ \A i \in 1..k : IsRange(ms[i]) => \E p \in ranges : p.high = Last(ms[i])

Unanswered == status = "storing" /\ call # None

\* A module asked for again ends where it did, so it does not fit again.
ListHolds ==
    /\ Holds(modules_, AskedRanges, Len(modules_) - (IF Unanswered THEN 1 ELSE 0))
    /\ Unanswered => AskedCall = Request(modules_, Len(modules_))
    /\ status = "adjusted" /\ call # None /\ IsRange(AskedCall) =>
          IsRange(module) /\ Last(AskedCall) = Last(module)

CopyHolds ==
    /\ Holds(modules_, CopyOf!AskedRanges, copied - (IF copy_call # None THEN 1 ELSE 0))
    /\ copy_call # None => CopyOf!AskedCall = Request(modules_, copied)

BothHold == enable_shrink_down_ => ListHolds /\ CopyHolds

-----------------------------------------------------------------------------
(* The two maps. *)

\* The copy's map is the one the proofs are instantiated for.
LEMMA CopyIs ==
    /\ Copy!Init <=> CopyOf!Init
    /\ Copy!StoreRangeInternal <=> CopyOf!StoreRangeInternal
    /\ \A base, size, entry :
          Copy!StoreRange(base, size, entry) <=> CopyOf!StoreRange(base, size, entry)
    /\ \A a : Copy!RetrieveRange(a) = CopyOf!RetrieveRange(a)
<1> USE DEF Copy!LowerBound, CopyOf!LowerBound, Copy!High, CopyOf!High
<1>1. Copy!Init <=> CopyOf!Init
  BY DEF Copy!Init, CopyOf!Init
<1>2. \A a : Copy!RetrieveRange(a) = CopyOf!RetrieveRange(a)
  BY DEF Copy!RetrieveRange, CopyOf!RetrieveRange
<1>3. \A base, size, entry :
          Copy!StoreRange(base, size, entry) <=> CopyOf!StoreRange(base, size, entry)
  BY DEF Copy!StoreRange, CopyOf!StoreRange
<1>4. Copy!StoreRangeInternal <=> CopyOf!StoreRangeInternal
  BY Zenon DEF Copy!StoreRangeInternal, CopyOf!StoreRangeInternal,
    Copy!StoreInvalid, CopyOf!StoreInvalid, Copy!StoreConflicting, CopyOf!StoreConflicting,
    Copy!Insert, CopyOf!Insert, Copy!ShrinkThis, CopyOf!ShrinkThis,
    Copy!ShrinkOther, CopyOf!ShrinkOther, Copy!Return, CopyOf!Return, Copy!Shrunk, CopyOf!Shrunk,
    Copy!Invalid, CopyOf!Invalid, Copy!EndsInside, CopyOf!EndsInside, Copy!Above, CopyOf!Above,
    Copy!high, CopyOf!high
<1> QED
  BY <1>1, <1>2, <1>3, <1>4

\* Both maps have the same addresses.
LEMMA CopyAddresses == CopyOf!Addresses = Addresses /\ CopyOf!Call = Call
BY DEF Addresses, Call, CopyOf!Addresses, CopyOf!Call

\* What the promise means by a range that fits a map that shrinks.
LEMMA FitsShrunk ==
    ASSUME enable_shrink_down_
    PROVE  /\ \A r : Promise!Fits(r) <=> IsRange(r) /\ \A q \in AskedRanges : q.high # Last(r)
           /\ \A r : CopyOf!Promise!Fits(r)
                        <=> IsRange(r) /\ \A q \in CopyOf!AskedRanges : q.high # Last(r)
<1>1. \A r : Promise!Fits(r) <=> IsRange(r) /\ \A q \in AskedRanges : q.high # Last(r)
  BY DEF Promise!Fits, Promise!Valid, Promise!High, IsRange, Last, High
<1>2. \A r : CopyOf!Promise!Fits(r)
                <=> IsRange(r) /\ \A q \in CopyOf!AskedRanges : q.high # Last(r)
  BY DEF CopyOf!Promise!Fits, CopyOf!Promise!Valid, CopyOf!Promise!High, IsRange, Last, High
<1> QED
  BY <1>1, <1>2

\* A step of one map keeps the proofs' invariant of that map.
LEMMA ListStoreInv ==
    ASSUME IInv, NEW base \in Addresses, NEW size \in Addresses, NEW entry \in Entries,
           StoreRange(base, size, entry)
    PROVE  IInv' /\ call' # None /\ AskedRanges' = AskedRanges
           /\ AskedCall' = [base |-> base, size |-> size, entry |-> entry]
<1>1. call' \in Call /\ call' # None
  BY TopAssumption, NoneAssumption DEF StoreRange, Call, Addresses
<1> QED
  BY <1>1, StoreRangeInv, RefinesAsk DEF Promise!Ask

LEMMA CopyStoreInv ==
    ASSUME CopyOf!IInv, NEW base \in Addresses, NEW size \in Addresses, NEW entry \in Entries,
           CopyOf!StoreRange(base, size, entry)
    PROVE  CopyOf!IInv' /\ CopyOf!AskedRanges' = CopyOf!AskedRanges /\ copy_call' # None
           /\ CopyOf!AskedCall' = [base |-> base, size |-> size, entry |-> entry]
<1>1. copy_call' \in Call /\ copy_call' # None
  BY TopAssumption, NoneAssumption DEF CopyOf!StoreRange, Call, Addresses
<1>2. CopyOf!IInv'
  BY CopyOf!StoreRangeInv, TopAssumption, NoneAssumption, CopyAddresses
<1>3. CopyOf!Promise!Ask(base, size, entry)
  BY CopyOf!RefinesAsk, TopAssumption, NoneAssumption, CopyAddresses
<1> QED
  BY <1>1, <1>2, <1>3 DEF CopyOf!Promise!Ask

\* A call that has given way asks for something.
LEMMA AskedIsCall ==
    ASSUME NEW c \in Call, c.delta <= c.base
    PROVE  [base |-> c.base - c.delta, size |-> c.size + c.delta, entry |-> c.entry] # None
<1>1. c.base - c.delta \in Addresses /\ c.size + c.delta \in Nat /\ c.entry \in Entries
  BY TopAssumption DEF Call, Addresses
<1> QED
  BY <1>1, NoneAssumption

\* A turn of either map, as its promise sees it.
LEMMA ListTurn ==
    ASSUME IInv, StoreRangeInternal
    PROVE  /\ IInv' /\ call # None
           /\ \/ Promise!Answer /\ call' = None
              \/ UNCHANGED <<AskedRanges, AskedCall>> /\ call' # None
<1>1. IInv'
  BY NextInv DEF Next
<1>2. \/ Promise!Answer
      \/ UNCHANGED <<enable_shrink_down_, AskedRanges, AskedCall, answer>>
  BY RefinesTurn
<1>3. call # None
  BY DEF StoreRangeInternal, StoreInvalid, ShrinkThis, ShrinkOther, StoreConflicting, Insert
<1>4. AskedCall # None
  BY <1>3, RequestIs
<1>5. AskedCall' = None <=> call' = None
  <2>1. CASE call' = None
    BY <2>1 DEF AskedCall
  <2>2. CASE call' # None
    <3>1. call' \in Call /\ call'.delta <= call'.base
      BY <1>1, <2>2 DEF IInv, TypeOK, CallIsShrunk
    <3> QED
      BY <2>2, <3>1, AskedIsCall DEF AskedCall
  <2> QED
    BY <2>1, <2>2
<1> QED
  BY <1>1, <1>2, <1>3, <1>4, <1>5 DEF Promise!Answer

LEMMA CopyTurn ==
    ASSUME CopyOf!IInv, CopyOf!StoreRangeInternal
    PROVE  /\ CopyOf!IInv' /\ copy_call # None
           /\ \/ CopyOf!Promise!Answer /\ copy_call' = None
              \/ UNCHANGED <<CopyOf!AskedRanges, CopyOf!AskedCall>> /\ copy_call' # None
<1>1. CopyOf!IInv'
  BY CopyOf!NextInv, TopAssumption, NoneAssumption, CopyAddresses DEF CopyOf!Next
<1>2. \/ CopyOf!Promise!Answer
      \/ UNCHANGED <<enable_shrink_down_, CopyOf!AskedRanges, CopyOf!AskedCall, copy_answer>>
  BY CopyOf!RefinesTurn, TopAssumption, NoneAssumption, CopyAddresses
<1>3. copy_call # None
  BY DEF CopyOf!StoreRangeInternal, CopyOf!StoreInvalid, CopyOf!ShrinkThis, CopyOf!ShrinkOther,
         CopyOf!StoreConflicting, CopyOf!Insert
<1>4. CopyOf!AskedCall # None
  BY <1>3, CopyOf!RequestIs, TopAssumption, NoneAssumption, CopyAddresses
<1>5. CopyOf!AskedCall' = None <=> copy_call' = None
  <2>1. CASE copy_call' = None
    BY <2>1 DEF CopyOf!AskedCall
  <2>2. CASE copy_call' # None
    <3>1. copy_call' \in Call /\ copy_call'.delta <= copy_call'.base
      BY <1>1, <2>2, CopyAddresses DEF CopyOf!IInv, CopyOf!TypeOK, CopyOf!CallIsShrunk
    <3> QED
      BY <2>2, <3>1, AskedIsCall DEF CopyOf!AskedCall
  <2> QED
    BY <2>1, <2>2
<1> QED
  BY <1>1, <1>2, <1>3, <1>4, <1>5 DEF CopyOf!Promise!Answer

\* Steps that leave the copy's map alone.
LEMMA CopyKept ==
    ASSUME CopyOf!IInv, UNCHANGED <<enable_shrink_down_, copy_map_, copy_call, copy_answer>>
    PROVE  CopyOf!IInv'
BY CopyOf!NextInv, TopAssumption, NoneAssumption, CopyAddresses DEF CopyOf!vars

-----------------------------------------------------------------------------
(* Types, and what each step does to the two maps. *)

\* Steps that ask nothing and answer nothing.
Quiet == BadModule \/ NextModule \/ GiveUp \/ ReadEnds \/ CopyEnds

LEMMA QuietStep ==
    ASSUME MapsInv, Quiet
    PROVE  /\ UNCHANGED <<enable_shrink_down_, map_, call, answer,
                          copy_map_, copy_call, copy_answer, copied, modules_>>
           /\ call = None /\ copy_call = None
           /\ last_end_address' \in Addresses
           /\ status' \in {"reading", "failed", "copying", "copied"}
           /\ status' = "copied" => copied = Len(modules_)
<1>1. Wrap(module.base + module.size) \in Addresses \/ Len(modules_) = 0
  <2>1. CASE Len(modules_) # 0
    <3>1. module \in Dump
      BY <2>1 DEF MapsInv, ListTypes, module
    <3>2. module.base + module.size \in Nat
      BY <3>1, TopAssumption, DumpAssumption DEF Addresses
    <3> QED
      BY <3>2, TopAssumption DEF Wrap, Addresses
  <2> QED
    BY <2>1
<1>2. NextModule => Len(modules_) # 0
  BY DEF NextModule, AtModule, MapsInv, Stages
<1> QED
  BY <1>1, <1>2 DEF Quiet, BadModule, NextModule, GiveUp, ReadEnds, CopyEnds, AtModule, MapsInv,
     Stages, ListTypes, listVars, copyVars

LEMMA MapsInit == ModulesInit => MapsInv /\ Init /\ CopyOf!Init
<1> SUFFICES ASSUME ModulesInit PROVE MapsInv /\ Init /\ CopyOf!Init
  OBVIOUS
<1>1. Init /\ CopyOf!Init
  BY CopyIs DEF ModulesInit
<1>2. IInv
  BY <1>1, InitInv
<1>3. CopyOf!IInv
  BY <1>1, CopyOf!InitInv, TopAssumption, NoneAssumption, CopyAddresses
<1>4. ListTypes
  <2>1. <<>> \in Seq(Dump) /\ Len(<<>>) = 0
    OBVIOUS
  <2> QED
    BY <2>1, CountAssumption, TopAssumption DEF ModulesInit, ListTypes, Addresses
<1>5. Stages
  BY <1>1 DEF ModulesInit, Stages, Init, CopyOf!Init
<1> QED
  BY <1>1, <1>2, <1>3, <1>4, <1>5 DEF MapsInv

\* The next module is asked for as the dump has it.
LEMMA ReadStep ==
    ASSUME MapsInv, NEW m \in Dump, ReadModule(m)
    PROVE  /\ MapsInv' /\ UNCHANGED <<enable_shrink_down_, AskedRanges, copied, copy_map_, copy_call>>
           /\ status' = "storing" /\ call = None /\ call' # None
           /\ modules_' = Append(modules_, m)
           /\ status # "storing"
           /\ AskedCall' = Request(modules_', Len(modules_'))
<1> DEFINE n == Len(modules_) + 1
<1>1. /\ modules_' = Append(modules_, m) /\ modules_ \in Seq(Dump) /\ Len(modules_) < Count
      /\ UNCHANGED <<copy_map_, copy_call, copy_answer, copied, last_end_address>>
      /\ status = "reading" /\ call = None /\ status' = "storing"
      /\ StoreRange(m.base, m.size, n)
  BY DEF ReadModule, AtModule, copyVars, MapsInv, ListTypes
<1>2. m.base \in Addresses /\ m.size \in Addresses /\ n \in Entries
  BY <1>1, DumpAssumption, EntriesAssumption, CountAssumption
<1>3. modules_' \in Seq(Dump) /\ Len(modules_') = n /\ modules_'[n] = m
  BY <1>1
<1>4. /\ IInv' /\ call' # None /\ AskedRanges' = AskedRanges /\ UNCHANGED enable_shrink_down_
      /\ AskedCall' = [base |-> m.base, size |-> m.size, entry |-> n]
  BY <1>1, <1>2, ListStoreInv DEF StoreRange, MapsInv
<1>5. CopyOf!IInv'
  BY <1>1, <1>4, CopyKept DEF MapsInv
<1>6. ListTypes'
  BY <1>1, <1>2, <1>3, CountAssumption DEF MapsInv, ListTypes
<1>7. Stages'
  BY <1>1, <1>3, CountAssumption DEF MapsInv, ListTypes, Stages
<1> QED
  BY <1>1, <1>3, <1>4, <1>5, <1>6, <1>7 DEF MapsInv, Request

\* A module that does not fit is asked for again.
LEMMA AdjustStep ==
    ASSUME MapsInv, Adjust
    PROVE  /\ MapsInv'
           /\ UNCHANGED <<enable_shrink_down_, AskedRanges, modules_, copied, copy_map_, copy_call>>
           /\ status' = "adjusted" /\ call = None /\ call' # None
           /\ module \in Dump /\ Len(modules_) \in DOMAIN modules_
           /\ last_end_address \in Addresses /\ module.base < last_end_address
           /\ AskedCall' = [base |-> last_end_address,
                            size |-> Wrap(module.size - (last_end_address - module.base)),
                            entry |-> Len(modules_)]
<1>1. /\ UNCHANGED <<modules_, copy_map_, copy_call, copy_answer, copied, last_end_address>>
      /\ status = "storing" /\ call = None /\ status' = "adjusted"
      /\ module.base < last_end_address /\ last_end_address \in Addresses
      /\ modules_ \in Seq(Dump) /\ Len(modules_) > 0
      /\ StoreRange(last_end_address,
                    Wrap(module.size - (last_end_address - module.base)), Len(modules_))
  BY DEF Adjust, AtModule, copyVars, MapsInv, ListTypes, Stages
<1>2. module \in Dump /\ Len(modules_) \in DOMAIN modules_
  BY <1>1 DEF module
<1>3. module.base \in Addresses /\ module.size \in Addresses
  BY <1>2, DumpAssumption
<1>4. Wrap(module.size - (last_end_address - module.base)) \in Addresses
  BY <1>1, <1>3, TopAssumption DEF Wrap, Addresses
<1>5. Len(modules_) \in Entries
  BY <1>1, CountAssumption, EntriesAssumption DEF MapsInv, ListTypes
<1>6. /\ IInv' /\ call' # None /\ AskedRanges' = AskedRanges /\ UNCHANGED enable_shrink_down_
      /\ AskedCall' = [base |-> last_end_address,
                       size |-> Wrap(module.size - (last_end_address - module.base)),
                       entry |-> Len(modules_)]
  BY <1>1, <1>4, <1>5, ListStoreInv DEF StoreRange, MapsInv
<1>7. CopyOf!IInv'
  BY <1>1, <1>6, CopyKept DEF MapsInv
<1>8. ListTypes' /\ Stages'
  BY <1>1 DEF MapsInv, ListTypes, Stages
<1> QED
  BY <1>1, <1>2, <1>6, <1>7, <1>8 DEF MapsInv

\* The copy asks for the next module as the dump has it.
LEMMA CopyStep ==
    ASSUME MapsInv, CopyModule
    PROVE  /\ MapsInv' /\ UNCHANGED <<enable_shrink_down_, map_, call, answer, modules_, status>>
           /\ CopyOf!AskedRanges' = CopyOf!AskedRanges
           /\ copied' = copied + 1 /\ copied' \in DOMAIN modules_
           /\ copy_call = None /\ copy_call' # None
           /\ CopyOf!AskedCall' = Request(modules_, copied')
<1> DEFINE m == modules_[copied + 1]
<1>1. /\ UNCHANGED <<map_, call, answer, modules_, last_end_address, status>>
      /\ status = "copying" /\ copied < Len(modules_) /\ copied' = copied + 1
      /\ copied \in Nat /\ modules_ \in Seq(Dump) /\ Len(modules_) <= Count
      /\ Copy!StoreRange(m.base, m.size, copied + 1)
  BY DEF CopyModule, listVars, MapsInv, ListTypes
<1>2. CopyOf!StoreRange(m.base, m.size, copied + 1)
  BY <1>1, CopyIs
<1>3. m \in Dump /\ copied + 1 \in DOMAIN modules_ /\ copied + 1 \in Entries
  BY <1>1, CountAssumption, EntriesAssumption
<1>4. m.base \in Addresses /\ m.size \in Addresses
  BY <1>3, DumpAssumption
<1>5. /\ CopyOf!IInv' /\ CopyOf!AskedRanges' = CopyOf!AskedRanges /\ copy_call' # None
      /\ CopyOf!AskedCall' = [base |-> m.base, size |-> m.size, entry |-> copied + 1]
  BY <1>2, <1>3, <1>4, CopyStoreInv DEF MapsInv
<1>6. UNCHANGED enable_shrink_down_ /\ copy_call = None
  BY <1>2 DEF CopyOf!StoreRange
<1>7. IInv'
  BY <1>1, <1>6, NextInv DEF MapsInv, vars
<1>8. ListTypes' /\ Stages'
  BY <1>1, <1>3 DEF MapsInv, ListTypes, Stages
<1> QED
  BY <1>1, <1>3, <1>5, <1>6, <1>7, <1>8 DEF MapsInv, Request

\* Turns of StoreRangeInternal.
LEMMA ListTurnStep ==
    ASSUME MapsInv, StoreInList
    PROVE  /\ MapsInv' /\ call # None
           /\ UNCHANGED <<enable_shrink_down_, modules_, copied, copy_map_, copy_call, status>>
           /\ \/ Promise!Answer /\ call' = None
              \/ UNCHANGED <<AskedRanges, AskedCall>> /\ call' # None
<1>1. /\ UNCHANGED <<modules_, copy_map_, copy_call, copy_answer, copied, last_end_address, status>>
      /\ StoreRangeInternal
  BY DEF StoreInList, copyVars
<1>2. UNCHANGED enable_shrink_down_
  BY <1>1 DEF StoreRangeInternal, StoreInvalid, ShrinkThis, ShrinkOther, StoreConflicting, Insert,
     Return
<1>3. CopyOf!IInv'
  BY <1>1, <1>2, CopyKept DEF MapsInv
<1>4. IInv' /\ call # None /\ (\/ Promise!Answer /\ call' = None
                               \/ UNCHANGED <<AskedRanges, AskedCall>> /\ call' # None)
  BY <1>1, ListTurn DEF MapsInv
<1>5. ListTypes' /\ Stages'
  BY <1>1, <1>4 DEF MapsInv, ListTypes, Stages
<1> QED
  BY <1>1, <1>2, <1>3, <1>4, <1>5 DEF MapsInv

LEMMA CopyTurnStep ==
    ASSUME MapsInv, StoreInCopy
    PROVE  /\ MapsInv' /\ copy_call # None
           /\ UNCHANGED <<enable_shrink_down_, modules_, copied, map_, call, answer, status>>
           /\ \/ CopyOf!Promise!Answer /\ copy_call' = None
              \/ UNCHANGED <<CopyOf!AskedRanges, CopyOf!AskedCall>> /\ copy_call' # None
<1>1. /\ UNCHANGED <<modules_, map_, call, answer, copied, last_end_address, status>>
      /\ CopyOf!StoreRangeInternal
  BY CopyIs DEF StoreInCopy, listVars
<1>2. UNCHANGED enable_shrink_down_
  BY <1>1 DEF CopyOf!StoreRangeInternal, CopyOf!StoreInvalid, CopyOf!ShrinkThis,
     CopyOf!ShrinkOther, CopyOf!StoreConflicting, CopyOf!Insert, CopyOf!Return
<1>3. IInv'
  BY <1>1, <1>2, NextInv DEF MapsInv, vars
<1>4. /\ CopyOf!IInv' /\ copy_call # None
      /\ \/ CopyOf!Promise!Answer /\ copy_call' = None
         \/ UNCHANGED <<CopyOf!AskedRanges, CopyOf!AskedCall>> /\ copy_call' # None
  BY <1>1, CopyTurn DEF MapsInv
<1>5. ListTypes' /\ Stages'
  BY <1>1, <1>4 DEF MapsInv, ListTypes, Stages
<1> QED
  BY <1>1, <1>2, <1>3, <1>4, <1>5 DEF MapsInv

\* Read, the first step, clears a map that nothing has been stored in.
LEMMA ReadFirst ==
    ASSUME MapsInv, Read
    PROVE  /\ MapsInv' /\ call = None /\ call' = None /\ AskedRanges' = {} /\ modules_ = <<>>
           /\ UNCHANGED <<enable_shrink_down_, modules_, copied, copy_map_, copy_call>>
           /\ status' = "reading"
<1>1. /\ UNCHANGED <<modules_, copy_map_, copy_call, copy_answer, copied, last_end_address>>
      /\ Clear /\ status = "new" /\ status' = "reading" /\ modules_ = <<>>
  BY DEF Read, AtModule, copyVars, MapsInv, Stages
<1>2. IInv' /\ AskedRanges' = {} /\ call = None /\ call' = None /\ UNCHANGED enable_shrink_down_
  BY <1>1, ClearInv DEF Clear, AskedRanges, MapsInv
<1>3. CopyOf!IInv'
  BY <1>1, <1>2, CopyKept DEF MapsInv
<1>4. ListTypes' /\ Stages'
  BY <1>1, <1>2 DEF MapsInv, ListTypes, Stages
<1> QED
  BY <1>1, <1>2, <1>3, <1>4 DEF MapsInv

LEMMA QuietInv == MapsInv /\ (Quiet \/ UNCHANGED moduleVars) => MapsInv'
<1> SUFFICES ASSUME MapsInv, Quiet \/ UNCHANGED moduleVars PROVE MapsInv'
  OBVIOUS
<1>1. UNCHANGED <<enable_shrink_down_, map_, call, answer,
                  copy_map_, copy_call, copy_answer, copied, modules_>>
  BY QuietStep DEF moduleVars, listVars, copyVars
<1>2. IInv'
  BY <1>1, NextInv DEF MapsInv, vars
<1>3. CopyOf!IInv'
  BY <1>1, CopyKept DEF MapsInv
<1>4. CASE Quiet
  BY <1>1, <1>2, <1>3, <1>4, QuietStep DEF MapsInv, ListTypes, Stages
<1>5. CASE UNCHANGED moduleVars
  BY <1>1, <1>2, <1>3, <1>5 DEF MapsInv, ListTypes, Stages, moduleVars
<1> QED
  BY <1>4, <1>5

LEMMA MapsStep == MapsInv /\ [ModulesNext]_moduleVars => MapsInv'
<1> SUFFICES ASSUME MapsInv, [ModulesNext]_moduleVars PROVE MapsInv'
  OBVIOUS
<1>1. CASE \E m \in Dump : ReadModule(m)
  BY <1>1, ReadStep
<1> QED
  BY <1>1, ReadFirst, AdjustStep, CopyStep, ListTurnStep, CopyTurnStep, QuietInv
     DEF ModulesNext, Reading, Copying, Quiet

LEMMA MapsHold == ModulesSpec => []MapsInv
BY MapsInit, MapsStep, PTL DEF ModulesSpec

\* Both maps, the modules and the stage have their types (minidump.cc,
\* MinidumpModuleList::Read): no entry is stored that is not a module's number.
THEOREM ModulesTypes == ModulesSpec => []ModulesTypeOK
<1>1. CopyOf!TypeOK => Copy!TypeOK
  BY DEF Copy!TypeOK, CopyOf!TypeOK, Copy!Range, CopyOf!Range, Copy!Addresses, CopyOf!Addresses,
         Copy!Call, CopyOf!Call
<1>2. MapsInv => ModulesTypeOK
  BY <1>1 DEF MapsInv, ListTypes, ModulesTypeOK, IInv, CopyOf!IInv
<1> QED
  BY <1>2, MapsHold, PTL

\* Every step of the list is one of its range map, or leaves it alone.
LEMMA ListIsMap == MapsInv /\ [ModulesNext]_moduleVars => [Next]_vars
<1> SUFFICES ASSUME MapsInv, [ModulesNext]_moduleVars PROVE Next \/ UNCHANGED vars
  OBVIOUS
<1>1. CASE Read
  BY <1>1 DEF Read, Next
<1>2. ASSUME NEW m \in Dump, ReadModule(m) PROVE Next
  <2>1. StoreRange(m.base, m.size, Len(modules_) + 1)
    BY <1>2 DEF ReadModule
  <2>2. m.base \in Addresses /\ m.size \in Addresses /\ Len(modules_) + 1 \in Entries
    BY <1>2, DumpAssumption, EntriesAssumption, CountAssumption DEF ReadModule, MapsInv, ListTypes
  <2> QED
    BY <2>1, <2>2 DEF Next
<1>3. CASE Adjust
  <2>1. /\ module \in Dump /\ last_end_address \in Addresses /\ Len(modules_) \in Entries
    BY <1>3, AdjustStep, CountAssumption, EntriesAssumption DEF MapsInv, ListTypes
  <2>2. Wrap(module.size - (last_end_address - module.base)) \in Addresses
    BY <2>1, DumpAssumption, TopAssumption DEF Wrap, Addresses
  <2> QED
    BY <1>3, <2>1, <2>2 DEF Adjust, Next
<1>4. CASE StoreInList
  BY <1>4 DEF StoreInList, Next
<1>5. CASE CopyModule \/ StoreInCopy
  BY <1>5, CopyStep, CopyTurnStep DEF vars
<1>6. CASE Quiet \/ UNCHANGED moduleVars
  BY <1>6, QuietStep DEF vars, moduleVars, listVars
<1> QED
  BY <1>1, <1>2, <1>3, <1>4, <1>5, <1>6 DEF ModulesNext, Reading, Copying, Quiet

LEMMA ListSpec == ModulesSpec => Spec
<1>1. ModulesInit => Init
  BY MapsInit
<1> QED
  BY <1>1, MapsHold, ListIsMap, PTL DEF ModulesSpec, Spec

\* As MinidumpModuleList::Read uses it, with the client's correction backed out
\* or not, each StoreRange is one answer of RangeMapSpec (range_map.h).
THEOREM ListKeepsPromise == ModulesSpec => KeepsPromise
BY ListSpec, Implements, PTL

\* GetModuleForAddress finds what the promise says at every address, and at
\* every moment of reading (minidump.cc, RetrieveRange).
THEOREM ListRetrieves == ModulesSpec => []RetrievesAsPromised
BY ListSpec, Retrieves, PTL

-----------------------------------------------------------------------------
(* A module owns what it is asked for. *)

\* The last address of a range that is one.
LEMMA RangeEnds ==
    ASSUME NEW base \in Addresses, NEW size \in Addresses,
           NEW r, r.base = base, r.size = size, IsRange(r)
    PROVE  base + size - 1 <= Top /\ Last(r) = base + size - 1 /\ size > 0
<1>1. size > 0 /\ High(base, size) >= base
  BY DEF IsRange
<1> QED
  BY <1>1, HighIs DEF Last

\* With the correction backed out, a module that was a range may still be one,
\* with the same end, and one that was none is none.
LEMMA BackedOut ==
    ASSUME NEW m \in Dump, NEW end \in Addresses, m.base < end, m.base > 0 \/ m.size > 0,
           NEW r, r.base = end, r.size = Wrap(m.size - (end - m.base)), IsRange(r)
    PROVE  IsRange(m) /\ Last(r) = Last(m) /\ Last(r) < m.base + m.size
<1> USE TopAssumption
<1>1. m.base \in Addresses /\ m.size \in Addresses
  BY DumpAssumption
<1>2. r.size \in Addresses
  BY <1>1 DEF Wrap, Addresses
<1>3. end + r.size - 1 <= Top /\ Last(r) = end + r.size - 1 /\ r.size > 0
  BY <1>2, RangeEnds
<1>4. CASE m.size >= end - m.base
  <2>1. r.size = m.size - (end - m.base)
    <3>1. m.size - (end - m.base) \in 0..Top
      BY <1>1, <1>4 DEF Addresses
    <3>2. \A x \in 0..Top : x % (Top + 1) = x
      OBVIOUS
    <3> QED
      BY <3>1, <3>2 DEF Wrap
  <2>2. m.base + m.size - 1 <= Top /\ m.size > 0 /\ Last(r) = m.base + m.size - 1
    BY <1>1, <1>3, <2>1 DEF Addresses
  <2>3. High(m.base, m.size) >= m.base /\ High(m.base, m.size) = m.base + m.size - 1
    BY <1>1, <2>2, HighIs
  <2> QED
    BY <1>1, <2>2, <2>3 DEF IsRange, Last, Addresses
\* A size that wraps reaches past the last address.
<1>5. CASE m.size < end - m.base
  <2>1. r.size = m.size - (end - m.base) + (Top + 1)
    <3>1. m.size - (end - m.base) + (Top + 1) \in 0..Top
      BY <1>1, <1>5 DEF Addresses
    <3>2. \A x \in Int : x + (Top + 1) \in 0..Top => x % (Top + 1) = x + (Top + 1)
      OBVIOUS
    <3>3. m.size - (end - m.base) \in Int
      BY <1>1 DEF Addresses
    <3> QED
      BY <3>1, <3>2, <3>3 DEF Wrap
  <2> QED
    BY <1>1, <1>3, <2>1 DEF Addresses
<1> QED
  BY <1>1, <1>4, <1>5 DEF Addresses

\* An answer adds at most the range that was asked for.
LEMMA OwnedAnswer ==
    ASSUME Owned, Promise!Answer, call # None, call' = None, UNCHANGED modules_
    PROVE  Owned'
<1>1. \/ AskedRanges' = AskedRanges
      \/ IsRange(AskedCall) /\ AskedRanges' = AskedRanges \cup {AsRange(AskedCall)}
  BY Zenon DEF Promise!Answer, Promise!Fits, Promise!Valid, Promise!High, High, IsRange, AsRange, Last
<1>2. \A p \in AskedRanges' : OwnedBy(modules_, p)
  BY <1>1 DEF Owned
<1> QED
  BY <1>2 DEF Owned

LEMMA OwnedKept ==
    ASSUME Owned, AskedRanges' \subseteq AskedRanges, call' # None => call # None /\ UNCHANGED AskedCall,
           UNCHANGED modules_
    PROVE  Owned'
<1>1. \A p \in AskedRanges' : OwnedBy(modules_, p)
  BY DEF Owned
<1>2. call' # None /\ IsRange(AskedCall') => OwnedBy(modules_, AsRange(AskedCall'))
  BY DEF Owned
<1> QED
  BY <1>1, <1>2 DEF Owned

\* What a module owned it owns when another one has been read.
LEMMA OwnedByMore ==
    ASSUME NEW ms \in Seq(Dump), NEW m \in Dump, NEW p, OwnedBy(ms, p)
    PROVE  OwnedBy(Append(ms, m), p)
<1>1. p.entry \in DOMAIN Append(ms, m) /\ Append(ms, m)[p.entry] = ms[p.entry]
  BY DEF OwnedBy
<1> QED
  BY <1>1 DEF OwnedBy

LEMMA OwnedStep ==
    ASSUME EmptyIsAboveZero, MapsInv, Owned, [ModulesNext]_moduleVars
    PROVE  Owned'
<1>ty. modules_ \in Seq(Dump)
  BY DEF MapsInv, ListTypes
<1>1. CASE Read
  BY <1>1, ReadFirst, OwnedKept
<1>2. ASSUME NEW m \in Dump, ReadModule(m) PROVE Owned'
  <2> DEFINE n == Len(modules_) + 1
  <2>1. /\ AskedRanges' = AskedRanges /\ modules_' = Append(modules_, m)
        /\ AskedCall' = Request(modules_', Len(modules_'))
    BY <1>2, ReadStep
  <2>2. Len(modules_') = n /\ n \in DOMAIN modules_' /\ modules_'[n] = m
    BY <1>ty, <2>1
  <2>3. ASSUME IsRange(AskedCall') PROVE OwnedBy(modules_', AsRange(AskedCall'))
    <3>1. m.base \in Addresses /\ m.size \in Addresses
      BY DumpAssumption
    <3>2. AskedCall'.base = m.base /\ AskedCall'.size = m.size /\ AskedCall'.entry = n
      BY <2>1, <2>2 DEF Request
    <3>3. Last(AskedCall') = m.base + m.size - 1
      BY <2>3, <3>1, <3>2, RangeEnds
    <3> QED
      BY <2>2, <3>1, <3>2, <3>3, TopAssumption DEF OwnedBy, AsRange, Addresses
  <2>4. \A p \in AskedRanges' : OwnedBy(modules_', p)
    BY <1>ty, <2>1, OwnedByMore DEF Owned
  <2> QED
    BY <2>3, <2>4 DEF Owned
<1>3. CASE Adjust
  <2> DEFINE n == Len(modules_)
  <2>1. /\ AskedRanges' = AskedRanges /\ modules_' = modules_
        /\ module \in Dump /\ n \in DOMAIN modules_ /\ module = modules_[n]
        /\ last_end_address \in Addresses /\ module.base < last_end_address
        /\ AskedCall' = [base |-> last_end_address,
                         size |-> Wrap(module.size - (last_end_address - module.base)),
                         entry |-> n]
    BY <1>3, AdjustStep DEF module
  <2>2. ASSUME IsRange(AskedCall') PROVE OwnedBy(modules_, AsRange(AskedCall'))
    <3>1. AskedCall'.base = last_end_address /\ AskedCall'.entry = n
          /\ AskedCall'.size = Wrap(module.size - (last_end_address - module.base))
      BY <2>1
    <3>2. Last(AskedCall') < module.base + module.size
      BY <2>1, <2>2, <3>1, BackedOut DEF EmptyIsAboveZero
    <3>3. module.base <= last_end_address
      BY <2>1, DumpAssumption DEF Addresses
    <3> QED
      BY <2>1, <3>1, <3>2, <3>3 DEF OwnedBy, AsRange
  <2> QED
    BY <2>1, <2>2 DEF Owned
<1>4. CASE StoreInList
  <2>1. CASE Promise!Answer /\ call' = None
    BY <1>4, <2>1, ListTurnStep, OwnedAnswer
  <2>2. CASE UNCHANGED <<AskedRanges, AskedCall>> /\ call' # None
    BY <1>4, <2>2, ListTurnStep, OwnedKept
  <2> QED
    BY <1>4, <2>1, <2>2, ListTurnStep
<1>5. CASE CopyModule \/ StoreInCopy \/ Quiet \/ UNCHANGED moduleVars
  <2>1. UNCHANGED <<map_, call, modules_>>
    BY <1>5, CopyStep, CopyTurnStep, QuietStep DEF moduleVars, listVars
  <2> QED
    BY <2>1, OwnedKept DEF AskedRanges, AskedCall
<1> QED
  BY <1>1, <1>2, <1>3, <1>4, <1>5 DEF ModulesNext, Reading, Copying, Quiet

\* However modules overlap, and with or without the client's correction backed
\* out (minidump.cc, "back out the client correction and retry"), no module is
\* found at an address that the dump does not give it.
THEOREM ModulesOwn == EmptyIsAboveZero => (ModulesSpec => []ModulesOwnTheirAddresses)
<1> SUFFICES ASSUME EmptyIsAboveZero PROVE ModulesSpec => []ModulesOwnTheirAddresses
  OBVIOUS
<1>1. ModulesInit => Owned
  <2> SUFFICES ASSUME ModulesInit PROVE Owned
    OBVIOUS
  <2>1. map_ = {} /\ call = None
    BY MapsInit DEF Init
  <2> QED
    BY <2>1 DEF Owned, AskedRanges
<1>2. MapsInv /\ Owned /\ [ModulesNext]_moduleVars => Owned'
  BY OwnedStep
<1>3. MapsInv /\ Owned => ModulesOwnTheirAddresses
  <2> SUFFICES ASSUME MapsInv, Owned, NEW a \in Addresses, NEW r \in RetrieveRange(a)
               PROVE  modules_[r.entry].base <= a
                      /\ a < modules_[r.entry].base + modules_[r.entry].size
    BY DEF ModulesOwnTheirAddresses, ModuleAt
  <2>1. r \in Range /\ r \in map_ /\ r.base <= a /\ a <= r.high
    BY DEF RetrieveRange, LowerBound, MapsInv, IInv, TypeOK
  <2>2. OwnedBy(modules_, Asked(r))
    BY <2>1 DEF Owned, AskedRanges
  <2>3. /\ r.entry \in DOMAIN modules_ /\ modules_[r.entry].base <= r.base - r.delta
        /\ r.high < modules_[r.entry].base + modules_[r.entry].size
    BY <2>2 DEF OwnedBy, Asked
  <2>4. modules_[r.entry].base \in Addresses /\ modules_[r.entry].size \in Addresses
    BY <2>3, DumpAssumption DEF MapsInv, ListTypes
  <2> QED
    BY <2>1, <2>3, <2>4, TopAssumption DEF Range, Addresses
<1> QED
  BY <1>1, <1>2, <1>3, MapsHold, PTL DEF ModulesSpec

-----------------------------------------------------------------------------
(* With shrinking, both maps take the same modules. *)

\* Asking for one more module.
LEMMA HoldsOneMore ==
    ASSUME NEW ms, NEW k \in Nat \ {0}, NEW ranges, NEW more, Holds(ms, ranges, k - 1),
           more = IF /\ IsRange(Request(ms, k))
                     /\ \A p \in ranges : p.high # Last(Request(ms, k))
                  THEN ranges \cup {AsRange(Request(ms, k))} ELSE ranges
    PROVE  Holds(ms, more, k)
<1> DEFINE Kept(n) == {i \in 1..n : Taken(ms, i)}
           Stored(n) == {AsRange(Request(ms, i)) : i \in Kept(n)}
<1>1. \A i : /\ IsRange(Request(ms, i)) <=> IsRange(ms[i])
             /\ Last(Request(ms, i)) = Last(ms[i])
             /\ AsRange(Request(ms, i)).high = Last(ms[i])
  BY DEF Request, IsRange, Last, AsRange
<1>2. /\ ranges = Stored(k - 1)
      /\ \A i \in 1..(k - 1) : IsRange(ms[i]) => \E p \in ranges : p.high = Last(ms[i])
  BY DEF Holds
<1>3. 1..k = 1..(k - 1) \cup {k} /\ k \in 1..k /\ k \notin 1..(k - 1)
  OBVIOUS
<1>4. ASSUME NEW p \in ranges
      PROVE  \E i \in 1..(k - 1) : IsRange(ms[i]) /\ p.high = Last(ms[i])
  <2>1. PICK i \in Kept(k - 1) : p = AsRange(Request(ms, i))
    BY <1>2
  <2> QED
    BY <1>1, <2>1 DEF Taken
<1>5. Taken(ms, k) <=> /\ IsRange(Request(ms, k))
                       /\ \A p \in ranges : p.high # Last(Request(ms, k))
  BY <1>1, <1>2, <1>4 DEF Taken
<1>6. CASE Taken(ms, k)
  <2>1. Kept(k) = Kept(k - 1) \cup {k}
    BY <1>3, <1>6
  <2> HIDE DEF Kept
  <2>2. more = Stored(k)
    BY <1>2, <1>5, <1>6, <2>1
  <2>3. AsRange(Request(ms, k)) \in more /\ ranges \subseteq more
    BY <1>5, <1>6
  <2>4. \A i \in 1..k : IsRange(ms[i]) => \E p \in more : p.high = Last(ms[i])
    BY <1>1, <1>2, <1>3, <2>3
  <2> QED
    BY <2>2, <2>4 DEF Holds, Kept
<1>7. CASE ~Taken(ms, k)
  <2>1. Kept(k) = Kept(k - 1)
    BY <1>3, <1>7
  <2>2. more = ranges
    BY <1>5, <1>7
  <2>3. IsRange(ms[k]) => \E p \in ranges : p.high = Last(ms[k])
    BY <1>1, <1>5, <1>7
  <2> HIDE DEF Kept
  <2>4. more = Stored(k)
    BY <1>2, <2>1, <2>2
  <2>5. \A i \in 1..k : IsRange(ms[i]) => \E p \in more : p.high = Last(ms[i])
    BY <1>2, <1>3, <2>2, <2>3
  <2> QED
    BY <2>4, <2>5 DEF Holds, Kept
<1> QED
  BY <1>6, <1>7

\* Reading another module changes nothing of what has been asked for.
LEMMA HoldsByMore ==
    ASSUME NEW ms \in Seq(Dump), NEW m \in Dump, NEW k \in 0..Len(ms), NEW ranges,
           Holds(ms, ranges, k)
    PROVE  Holds(Append(ms, m), ranges, k)
<1> DEFINE more == Append(ms, m)
<1>1. \A i \in 1..k : more[i] = ms[i]
  OBVIOUS
<1> HIDE DEF more
<1>2. \A i \in 1..k : Request(more, i) = Request(ms, i)
  BY <1>1 DEF Request
<1>3. \A i \in 1..k : Taken(more, i) <=> Taken(ms, i)
  <2> SUFFICES ASSUME NEW i \in 1..k PROVE Taken(more, i) <=> Taken(ms, i)
    OBVIOUS
  <2>1. \A j \in 1..(i - 1) : j \in 1..k
    OBVIOUS
  <2> QED
    BY <1>1, <2>1 DEF Taken
<1>4. {i \in 1..k : Taken(more, i)} = {i \in 1..k : Taken(ms, i)}
  BY <1>3
<1>5. {AsRange(Request(more, i)) : i \in {i \in 1..k : Taken(more, i)}}
        = {AsRange(Request(ms, i)) : i \in {i \in 1..k : Taken(ms, i)}}
  BY <1>2, <1>4
<1>6. \A i \in 1..k : IsRange(more[i]) => \E p \in ranges : p.high = Last(more[i])
  BY <1>1 DEF Holds
<1> QED
  BY <1>5, <1>6 DEF Holds, more

\* An answer of either map, in the terms of this module.
LEMMA ListAnswered ==
    ASSUME enable_shrink_down_, Promise!Answer
    PROVE  AskedRanges' = IF IsRange(AskedCall) /\ \A p \in AskedRanges : p.high # Last(AskedCall)
                          THEN AskedRanges \cup {AsRange(AskedCall)} ELSE AskedRanges
<1>1. Promise!Fits(AskedCall)
        <=> IsRange(AskedCall) /\ \A p \in AskedRanges : p.high # Last(AskedCall)
  BY FitsShrunk
<1> QED
  BY <1>1 DEF Promise!Answer, AsRange, Last, Promise!High, High

LEMMA CopyAnswered ==
    ASSUME enable_shrink_down_, CopyOf!Promise!Answer
    PROVE  CopyOf!AskedRanges' =
             IF /\ IsRange(CopyOf!AskedCall)
                /\ \A p \in CopyOf!AskedRanges : p.high # Last(CopyOf!AskedCall)
             THEN CopyOf!AskedRanges \cup {AsRange(CopyOf!AskedCall)} ELSE CopyOf!AskedRanges
<1>1. CopyOf!Promise!Fits(CopyOf!AskedCall)
        <=> /\ IsRange(CopyOf!AskedCall)
            /\ \A p \in CopyOf!AskedRanges : p.high # Last(CopyOf!AskedCall)
  BY FitsShrunk
<1> QED
  BY <1>1 DEF CopyOf!Promise!Answer, AsRange, Last, CopyOf!Promise!High, High

LEMMA ListHoldsStep ==
    ASSUME EmptyIsAboveZero, enable_shrink_down_, MapsInv, ListHolds, [ModulesNext]_moduleVars
    PROVE  ListHolds'
<1> DEFINE n == Len(modules_)
<1>ty. modules_ \in Seq(Dump) /\ n \in Nat /\ (call # None => n > 0)
  BY DEF MapsInv, ListTypes, Stages
<1>1. CASE Read
  <2>1. n = 0 /\ modules_' = <<>> /\ AskedRanges' = {} /\ call' = None
    BY <1>1, ReadFirst
  <2>2. Holds(<<>>, {}, 0)
    BY DEF Holds
  <2> QED
    BY <2>1, <2>2 DEF ListHolds, Unanswered
<1>2. ASSUME NEW m \in Dump, ReadModule(m) PROVE ListHolds'
  <2>1. /\ AskedRanges' = AskedRanges /\ modules_' = Append(modules_, m)
        /\ AskedCall' = Request(modules_', Len(modules_')) /\ status' = "storing"
        /\ call' # None /\ call = None
    BY <1>2, ReadStep
  <2>2. Holds(modules_, AskedRanges, n)
    BY <1>ty, <2>1 DEF ListHolds, Unanswered
  <2>3. Holds(modules_', AskedRanges', n)
    BY <1>ty, <2>1, <2>2, HoldsByMore
  <2>4. Len(modules_') - 1 = n
    BY <1>ty, <2>1
  <2> QED
    BY <2>1, <2>3, <2>4 DEF ListHolds, Unanswered
<1>3. CASE Adjust
  <2>1. /\ AskedRanges' = AskedRanges /\ modules_' = modules_ /\ status' = "adjusted" /\ call = None
        /\ module \in Dump /\ last_end_address \in Addresses /\ module.base < last_end_address
        /\ AskedCall' = [base |-> last_end_address,
                         size |-> Wrap(module.size - (last_end_address - module.base)),
                         entry |-> n]
    BY <1>3, AdjustStep
  <2>2. Holds(modules_', AskedRanges', n)
    BY <1>ty, <2>1 DEF ListHolds, Unanswered
  <2>3. IsRange(AskedCall') => IsRange(module) /\ Last(AskedCall') = Last(module)
    BY <2>1, BackedOut DEF EmptyIsAboveZero
  <2>4. module' = module
    BY <2>1 DEF module
  <2> QED
    BY <1>ty, <2>1, <2>2, <2>3, <2>4 DEF ListHolds, Unanswered
<1>4. CASE StoreInList
  <2>1. UNCHANGED <<modules_, status>> /\ call # None /\ n > 0 /\ module' = module
    BY <1>ty, <1>4, ListTurnStep DEF module
  <2>2. CASE Promise!Answer /\ call' = None
    <3>1. AskedRanges' = IF IsRange(AskedCall) /\ \A p \in AskedRanges : p.high # Last(AskedCall)
                         THEN AskedRanges \cup {AsRange(AskedCall)} ELSE AskedRanges
      BY <2>2, ListAnswered
    <3>2. CASE status = "storing"
      <4>1. Holds(modules_, AskedRanges, n - 1) /\ AskedCall = Request(modules_, n)
        BY <2>1, <3>2 DEF ListHolds, Unanswered
      <4>2. Holds(modules_, AskedRanges', n)
        BY <1>ty, <2>1, <3>1, <4>1, HoldsOneMore
      <4> QED
        BY <1>ty, <2>1, <2>2, <4>2 DEF ListHolds, Unanswered
    <3>3. CASE status = "adjusted"
      <4>1. /\ Holds(modules_, AskedRanges, n)
            /\ IsRange(AskedCall) => IsRange(module) /\ Last(AskedCall) = Last(module)
        BY <1>ty, <2>1, <3>3 DEF ListHolds, Unanswered
      <4>2. IsRange(module) => \E p \in AskedRanges : p.high = Last(module)
        BY <1>ty, <2>1, <4>1 DEF Holds, module
      <4>3. AskedRanges' = AskedRanges
        BY <3>1, <4>1, <4>2
      <4> QED
        BY <1>ty, <2>1, <2>2, <4>1, <4>3 DEF ListHolds, Unanswered
    <3> QED
      BY <2>1, <3>2, <3>3 DEF MapsInv, Stages
  <2>3. CASE UNCHANGED <<AskedRanges, AskedCall>> /\ call' # None
    BY <2>1, <2>3 DEF ListHolds, Unanswered
  <2> QED
    BY <1>4, <2>2, <2>3, ListTurnStep
<1>5. CASE CopyModule \/ StoreInCopy \/ UNCHANGED moduleVars
  <2>1. UNCHANGED <<map_, call, modules_, status>>
    BY <1>5, CopyStep, CopyTurnStep DEF moduleVars, listVars
  <2>2. UNCHANGED <<AskedRanges, AskedCall, module>>
    BY <2>1 DEF AskedRanges, AskedCall, module
  <2> QED
    BY <2>1, <2>2 DEF ListHolds, Unanswered
<1>6. CASE Quiet
  <2>1. UNCHANGED <<map_, call, modules_>> /\ call = None
    BY <1>6, QuietStep
  <2>2. UNCHANGED AskedRanges
    BY <2>1 DEF AskedRanges
  <2> QED
    BY <2>1, <2>2 DEF ListHolds, Unanswered
<1> QED
  BY <1>1, <1>2, <1>3, <1>4, <1>5, <1>6 DEF ModulesNext, Reading, Copying, Quiet

LEMMA CopyHoldsStep ==
    ASSUME enable_shrink_down_, MapsInv, CopyHolds, [ModulesNext]_moduleVars
    PROVE  CopyHolds'
<1>ty. /\ modules_ \in Seq(Dump) /\ copied \in 0..Len(modules_) /\ Len(modules_) \in Nat
       /\ copy_call # None => copied > 0 /\ status = "copying"
  BY DEF MapsInv, ListTypes, Stages
<1>1. CASE CopyModule
  <2>1. /\ UNCHANGED modules_ /\ CopyOf!AskedRanges' = CopyOf!AskedRanges
        /\ copied' = copied + 1 /\ copy_call = None /\ copy_call' # None
        /\ CopyOf!AskedCall' = Request(modules_, copied')
    BY <1>1, CopyStep
  <2>2. Holds(modules_, CopyOf!AskedRanges', copied' - 1)
    BY <1>ty, <2>1 DEF CopyHolds
  <2> QED
    BY <2>1, <2>2 DEF CopyHolds
<1>2. CASE StoreInCopy
  <2>1. UNCHANGED <<modules_, copied>> /\ copy_call # None
    BY <1>2, CopyTurnStep
  <2>2. Holds(modules_, CopyOf!AskedRanges, copied - 1) /\ CopyOf!AskedCall = Request(modules_, copied)
    BY <2>1 DEF CopyHolds
  <2>3. CASE CopyOf!Promise!Answer /\ copy_call' = None
    <3>1. Holds(modules_, CopyOf!AskedRanges', copied)
      BY <1>ty, <2>1, <2>2, <2>3, CopyAnswered, HoldsOneMore
    <3> QED
      BY <1>ty, <2>1, <2>3, <3>1 DEF CopyHolds
  <2>4. CASE UNCHANGED <<CopyOf!AskedRanges, CopyOf!AskedCall>> /\ copy_call' # None
    BY <2>1, <2>2, <2>4 DEF CopyHolds
  <2> QED
    BY <1>2, <2>3, <2>4, CopyTurnStep
<1>3. ASSUME NEW m \in Dump, ReadModule(m) PROVE CopyHolds'
  <2>1. /\ modules_' = Append(modules_, m) /\ UNCHANGED <<copy_map_, copy_call, copied>>
        /\ status # "copying"
    BY <1>3, ReadStep DEF ReadModule, AtModule
  <2>2. copy_call = None /\ CopyOf!AskedRanges' = CopyOf!AskedRanges
    BY <1>ty, <2>1 DEF CopyOf!AskedRanges, CopyOf!Asked
  <2>3. Holds(modules_', CopyOf!AskedRanges, copied)
    BY <1>ty, <2>1, <2>2, HoldsByMore DEF CopyHolds
  <2> QED
    BY <1>ty, <2>1, <2>2, <2>3 DEF CopyHolds
<1>4. CASE Read \/ Adjust \/ StoreInList \/ Quiet \/ UNCHANGED moduleVars
  <2>1. UNCHANGED <<copy_map_, copy_call, copied, modules_>>
    BY <1>4, ReadFirst, AdjustStep, ListTurnStep, QuietStep DEF moduleVars, copyVars
  <2>2. UNCHANGED <<CopyOf!AskedRanges, CopyOf!AskedCall>>
    BY <2>1 DEF CopyOf!AskedRanges, CopyOf!Asked, CopyOf!AskedCall
  <2> QED
    BY <2>1, <2>2 DEF CopyHolds
<1> QED
  BY <1>1, <1>2, <1>3, <1>4 DEF ModulesNext, Reading, Copying, Quiet

\* "The new CodeModules object ... will behave identically to the copied object"
\* (google_breakpad/processor/code_modules.h:92-94): with overlapping modules
\* shrunk it does, whatever gave way to what in either map.
THEOREM ShrunkCopiesAgree == EmptyIsAboveZero => (ModulesSpec => []ShrunkCopyAgrees)
<1> SUFFICES ASSUME EmptyIsAboveZero PROVE ModulesSpec => []ShrunkCopyAgrees
  OBVIOUS
<1>1. ModulesInit => BothHold
  <2> SUFFICES ASSUME ModulesInit PROVE ListHolds /\ CopyHolds
    BY DEF BothHold
  <2>1. /\ map_ = {} /\ call = None /\ copy_map_ = {} /\ copy_call = None
        /\ modules_ = <<>> /\ copied = 0
    BY MapsInit DEF Init, CopyOf!Init, ModulesInit
  <2>2. AskedRanges = {} /\ CopyOf!AskedRanges = {} /\ Holds(<<>>, {}, 0)
    BY <2>1 DEF AskedRanges, CopyOf!AskedRanges, Holds
  <2> QED
    BY <2>1, <2>2 DEF ListHolds, CopyHolds, Unanswered
<1>2. MapsInv /\ BothHold /\ [ModulesNext]_moduleVars => BothHold'
  <2> SUFFICES ASSUME MapsInv, BothHold, [ModulesNext]_moduleVars, enable_shrink_down_'
               PROVE  ListHolds' /\ CopyHolds'
    BY DEF BothHold
  <2>1. UNCHANGED enable_shrink_down_
    BY ReadFirst, ReadStep, AdjustStep, CopyStep, ListTurnStep, CopyTurnStep, QuietStep
       DEF ModulesNext, Reading, Copying, Quiet, moduleVars
  <2> QED
    BY <2>1, ListHoldsStep, CopyHoldsStep DEF BothHold
<1>3. MapsInv /\ BothHold => ShrunkCopyAgrees
  <2> SUFFICES ASSUME MapsInv, BothHold, enable_shrink_down_, status = "copied",
                      NEW a \in Addresses
               PROVE  ModuleAt(a) = CopyModuleAt(a)
    BY DEF ShrunkCopyAgrees, CopyAgrees
  <2>1. call = None /\ copy_call = None
    BY DEF MapsInv, Stages
  <2>2. AskedRanges = CopyOf!AskedRanges
    <3>1. copied = Len(modules_) /\ Len(modules_) \in Nat
      BY DEF MapsInv, Stages, ListTypes
    <3>2. /\ Holds(modules_, AskedRanges, Len(modules_))
          /\ Holds(modules_, CopyOf!AskedRanges, Len(modules_))
      BY <2>1, <3>1 DEF BothHold, ListHolds, CopyHolds, Unanswered
    <3> QED
      BY <3>2 DEF Holds
  <2>3. ModuleAt(a) = Promise!Lookup(a)
    BY <2>1, RetrievedIs DEF MapsInv, RetrievesAsPromised, ModuleAt
  <2>4. CopyModuleAt(a) = CopyOf!Promise!Lookup(a)
    BY <2>1, CopyOf!RetrievedIs, CopyIs, CopyAddresses, TopAssumption, NoneAssumption
       DEF MapsInv, CopyOf!RetrievesAsPromised, CopyModuleAt
  <2>5. Promise!Lookup(a) = CopyOf!Promise!Lookup(a)
    BY <2>2 DEF Promise!Lookup, CopyOf!Promise!Lookup
  <2> QED
    BY <2>3, <2>4, <2>5
<1> QED
  BY <1>1, <1>2, <1>3, MapsHold, PTL DEF ModulesSpec
=============================================================================
