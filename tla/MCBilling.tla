------------------------------ MODULE MCBilling ------------------------------
(***************************************************************************)
(* Billing of two jobs of one payee: the second is ready while the payee   *)
(* has a statement for the week already.                                   *)
(***************************************************************************)
EXTENDS Billing, TLC

CONSTANTS j1, j2, p1, r1, r2, o1, o2

MCPayeeOf == [j \in Jobs |-> p1]
MCFee == [j \in Jobs |-> IF j = j1 THEN 2 ELSE 1]

MCSymmetry == Permutations(Officers) \cup Permutations(Refs)
=============================================================================
