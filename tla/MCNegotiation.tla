---------------------------- MODULE MCNegotiation ----------------------------
(***************************************************************************)
(* Negotiation with two parties and two prices.                            *)
(***************************************************************************)
EXTENDS Negotiation, TLC

CONSTANTS p1, p2, low, high

MCSymmetry == Permutations({p1, p2})
=============================================================================
