---------------------------- MODULE MCDisputeDesk ----------------------------
(***************************************************************************)
(* DisputeDesk with a few incidents and calls in flight.                   *)
(***************************************************************************)
EXTENDS DisputeDesk, TLC

CONSTANTS i1, i2, o1, o2

MCSymmetry == Permutations(Officers) \cup Permutations(Incidents)
=============================================================================
