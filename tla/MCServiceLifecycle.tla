------------------------- MODULE MCServiceLifecycle -------------------------
(* TLC instance of ServiceLifecycle. *)
EXTENDS ServiceLifecycle
=============================================================================
