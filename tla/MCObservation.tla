--------------------------- MODULE MCObservation ---------------------------
(***************************************************************************)
(* Values for TLC: the two halves of the band as in get_configuration, or  *)
(* one of them where only the order of the calls matters.                  *)
(***************************************************************************)
EXTENDS Observation, TLC

TwoBands == <<"low", "high">>
OneBand == <<"low">>

\* Which source is which makes no difference to an invariant.
SourceSymmetry == Permutations(Sources)
=============================================================================
