--------------------------- MODULE MCHoldProtocol ---------------------------
(* TLC instance of HoldProtocol. *)
EXTENDS HoldProtocol
=============================================================================
