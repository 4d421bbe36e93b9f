---------------------------- MODULE MCAssignment ----------------------------
(***************************************************************************)
(* Two drivers, one the operator of the agreement and the other the maker  *)
(* of the job, and one vehicle, for goods of ordinary and of very high     *)
(* value.                                                                  *)
(***************************************************************************)
EXTENDS Assignment

CONSTANTS asha, juma, lorry
=============================================================================
