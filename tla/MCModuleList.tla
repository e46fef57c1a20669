---------------------------- MODULE MCModuleList ----------------------------
(* TLC instance of ModuleList: every base and size, but for the module of size
   0 at address 0. *)
EXTENDS ModuleList

AnyButEmptyAtZero == [base : 0..Top, size : 0..Top] \ {[base |-> 0, size |-> 0]}

\* The dumps are ones that the conditional theorems speak of.
ASSUME DumpIsCovered == EmptyIsAboveZero
=============================================================================
