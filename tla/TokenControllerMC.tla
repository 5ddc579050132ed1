-------------------------- MODULE TokenControllerMC -------------------------
(***************************************************************************)
(* Small instances of TokenController for TLC.                             *)
(***************************************************************************)
EXTENDS TokenController

(* The shape of the released model's delays [0, 250, 250].                 *)
MCDelays == [q \in 0 .. 2 |-> IF q = 0 THEN 0 ELSE 1]
=============================================================================
