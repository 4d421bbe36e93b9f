----------------------------- MODULE MCJobAccess -----------------------------
(***************************************************************************)
(* One job of a shop, carried by a driver of their own or by a yard of     *)
(* two, who are alike.                                                     *)
(***************************************************************************)
EXTENDS JobAccess, TLC

CONSTANTS shop, yard, ann, ben, cat

Carriers == Permutations({ben, cat})
=============================================================================
