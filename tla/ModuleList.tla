----------------------------- MODULE ModuleList -----------------------------
(***************************************************************************)
(* The modules of a minidump (processor/minidump.cc, MinidumpModuleList)   *)
(* and the copy the processor keeps of them (processor/                    *)
(* basic_code_modules.cc, BasicCodeModules), each with a RangeMap: the     *)
(* list's is the one this module extends.  What the dump says of a module  *)
(* is any element of Dump.                                                 *)
(***************************************************************************)
EXTENDS RangeMap, Sequences

CONSTANTS
    Count,      \* bound on the modules of a dump
    Dump,       \* what a dump may say of a module: base and size
    Shrinks     \* whether the dump is one of Android's

ASSUME CountAssumption == Count \in Nat \ {0}
ASSUME EntriesAssumption == Entries = 1..Count
ASSUME DumpAssumption == Dump \subseteq [base : Addresses, size : Addresses]
ASSUME ShrinksAssumption == Shrinks \subseteq BOOLEAN

VARIABLES
    copy_map_, copy_call, copy_answer,  \* the copy's RangeMap
    modules_,                           \* what has been read of each module
    last_end_address,
    copied,                             \* modules the copy has asked for
    status

\* A module is stored under its number in the dump.
Copy == INSTANCE RangeMap WITH
    map_ <- copy_map_, call <- copy_call, answer <- copy_answer

listVars == <<map_, call, answer>>
copyVars == <<copy_map_, copy_call, copy_answer, copied>>
moduleVars == <<enable_shrink_down_, listVars, copyVars, modules_, last_end_address, status>>

Wrap(a) == a % (Top + 1)

ModulesInit ==
    /\ Init /\ Copy!Init
    /\ enable_shrink_down_ \in Shrinks
    /\ modules_ = <<>>
    /\ last_end_address = 0
    /\ copied = 0
    /\ status = "new"

module == modules_[Len(modules_)]
AtModule(from, to) == status = from /\ call = None /\ status' = to

\* Read clears the map and starts.
Read ==
    /\ AtModule("new", "reading")
    /\ Clear
    /\ UNCHANGED <<copyVars, modules_, last_end_address>>

\* The next module of the second loop of Read.
ReadModule(m) ==
    /\ AtModule("reading", "storing")
    /\ Len(modules_) < Count
    /\ m.base # Top
    /\ modules_' = Append(modules_, m)
    /\ StoreRange(m.base, m.size, Len(modules_) + 1)
    /\ UNCHANGED <<copyVars, last_end_address>>

\* "bad base address", or auxiliary data is missing.
BadModule ==
    /\ AtModule("reading", "failed")
    /\ UNCHANGED <<enable_shrink_down_, listVars, copyVars, modules_, last_end_address>>

\* The module is in, or a conflict is ignored because it is of /dev/ashmem/.
NextModule ==
    /\ status \in {"storing", "adjusted"} /\ AtModule(status, "reading")
    /\ answer \/ status = "storing"
    /\ last_end_address' = Wrap(module.base + module.size)
    /\ UNCHANGED <<enable_shrink_down_, listVars, copyVars, modules_>>

\* Mutant of Adjust: the size stays.
AdjustBaseOnly ==
    /\ AtModule("storing", "adjusted")
    /\ ~answer
    /\ module.base < last_end_address
    /\ StoreRange(last_end_address, module.size, Len(modules_))
    /\ UNCHANGED <<copyVars, modules_, last_end_address>>

\* "back out the client correction and retry"
Adjust ==
    /\ AtModule("storing", "adjusted")
    /\ ~answer
    /\ module.base < last_end_address
    /\ StoreRange(last_end_address,
                       Wrap(module.size - (last_end_address - module.base)), Len(modules_))
    /\ UNCHANGED <<copyVars, modules_, last_end_address>>

\* The module cannot be stored: Read fails.
GiveUp ==
    /\ \/ AtModule("adjusted", "failed")
       \/ AtModule("storing", "failed") /\ module.base >= last_end_address
    /\ ~answer
    /\ UNCHANGED <<enable_shrink_down_, listVars, copyVars, modules_, last_end_address>>

\* Read ends; BasicCodeModules is made of the list.
ReadEnds ==
    /\ AtModule("reading", "copying")
    /\ UNCHANGED <<enable_shrink_down_, listVars, copyVars, modules_, last_end_address>>

\* Mutant of CopyModule: a module is asked for where the list has it.
CopyShrunk ==
    /\ status = "copying" /\ copied < Len(modules_)
    /\ copied' = copied + 1
    /\ LET inList == {r.base : r \in {r \in map_ : r.entry = copied + 1}} IN
       \E base \in IF inList = {} THEN {modules_[copied + 1].base} ELSE inList :
            Copy!StoreRange(base, modules_[copied + 1].size, copied + 1)
    /\ UNCHANGED <<listVars, modules_, last_end_address, status>>

\* The constructor asks for each module at the address the dump gives it.
CopyModule ==
    /\ status = "copying" /\ copied < Len(modules_)
    /\ copied' = copied + 1
    /\ Copy!StoreRange(modules_[copied + 1].base, modules_[copied + 1].size, copied + 1)
    /\ UNCHANGED <<listVars, modules_, last_end_address, status>>

CopyEnds ==
    /\ status = "copying" /\ copied = Len(modules_) /\ copy_call = None
    /\ status' = "copied"
    /\ UNCHANGED <<enable_shrink_down_, listVars, copyVars, modules_, last_end_address>>

StoreInList ==
    /\ StoreRangeInternal
    /\ UNCHANGED <<copyVars, modules_, last_end_address, status>>
StoreInCopy ==
    /\ Copy!StoreRangeInternal
    /\ UNCHANGED <<copied, listVars, modules_, last_end_address, status>>

Reading ==
    \/ Read \/ BadModule \/ NextModule \/ Adjust \/ GiveUp
    \/ \E m \in Dump : ReadModule(m)
Copying == ReadEnds \/ CopyModule \/ CopyEnds

ModulesNext == Reading \/ Copying \/ StoreInList \/ StoreInCopy

ModulesSpec == ModulesInit /\ [][ModulesNext]_moduleVars

\* One thread reads and copies; it goes on.
FairSpec == ModulesSpec /\ WF_moduleVars(ModulesNext)

-----------------------------------------------------------------------------
ModulesTypeOK ==
    /\ TypeOK /\ Copy!TypeOK
    /\ modules_ \in Seq(Dump) /\ Len(modules_) <= Count
    /\ last_end_address \in Addresses
    /\ copied \in 0..Len(modules_)
    /\ status \in {"new", "reading", "storing", "adjusted", "failed", "copying", "copied"}

ModuleAt(a) == {r.entry : r \in RetrieveRange(a)}
CopyModuleAt(a) == {r.entry : r \in Copy!RetrieveRange(a)}

\* No module of size 0 is at address 0.  Backed out, its size wraps to all that
\* is above the module before it.
EmptyIsAboveZero == \A m \in Dump : m.base > 0 \/ m.size > 0

\* A module is found only at addresses the dump gives it, shrunk or adjusted.
ModulesOwnTheirAddresses ==
    \A a \in Addresses : \A i \in ModuleAt(a) :
        modules_[i].base <= a /\ a < modules_[i].base + modules_[i].size

\* "The new CodeModules object ... will behave identically to the copied object"
\* (google_breakpad/processor/code_modules.h:92-94): the copy knows the same
\* module at every address.
CopyAgrees == status = "copied" => \A a \in Addresses : ModuleAt(a) = CopyModuleAt(a)

\* It does when overlapping modules are shrunk.
ShrunkCopyAgrees == enable_shrink_down_ => CopyAgrees

\* Whatever the dump says, the range map's recursion ends and Read with it.
ReadingEnds == <>(status \in {"failed", "copied"})
=============================================================================
