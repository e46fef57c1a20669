--------------------------- MODULE MCNetworkSpace ---------------------------
(* TLC instance of NetworkSpace. *)
EXTENDS NetworkSpace
=============================================================================
