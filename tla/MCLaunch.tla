------------------------------ MODULE MCLaunch ------------------------------
(***************************************************************************)
(* Values for TLC: two sockets of six cores each.  ens1f0, which comes     *)
(* first in the list of interfaces, receives the high half.                *)
(***************************************************************************)
EXTENDS Launch

MCBands == <<"low", "high">>
MCInterfaces == <<"high", "low">>
MCMasks == {0..5, 6..11, 0..15}
MCFollowed ==
  {[busiest |-> [b \in Bands |-> IF b = "low" THEN 6 ELSE 0],
    local   |-> [b \in Bands |-> IF b = "low" THEN 6..11 ELSE 0..5],
    gpu     |-> [b \in Bands |-> 0..15]]}
=============================================================================
