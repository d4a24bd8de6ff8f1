----------------------------- MODULE MCShutdown -----------------------------
(***************************************************************************)
(* Values for TLC: see MCObservation.                                      *)
(***************************************************************************)
EXTENDS Shutdown

TwoBands == <<"low", "high">>
OneBand == <<"low">>
=============================================================================
