--------------------------- MODULE MCSubComponent ---------------------------
(***************************************************************************)
(* Values for TLC: the methods are those of Roach2 and Dspsr that matter   *)
(* to the queue, abort_observation calling the decorated                   *)
(* cleanup_observation of its own component.                               *)
(***************************************************************************)
EXTENDS SubComponent

MCMethods == {"abort", "cleanup"}

MCFollowUp == [m \in MCMethods |-> IF m = "abort" THEN "cleanup" ELSE None]
=============================================================================
