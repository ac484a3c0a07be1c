---------------------------- MODULE MCProcessPool ----------------------------
(* The process pool on a small instance: two uses of one task, one of another. *)
EXTENDS ProcessPool, TLC

CONSTANTS u1, u2, u3

TaskOfUse == u1 :> 1 @@ u2 :> 1 @@ u3 :> 2
=============================================================================
