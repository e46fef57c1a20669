----------------------- MODULE MCCrashGenerationServer -----------------------
(* TLC instance of CrashGenerationServer: how often each client asks. *)
EXTENDS CrashGenerationServer, TLC

CONSTANTS c1, c2

OneAsks == c1 :> 1 @@ c2 :> 0
=============================================================================
