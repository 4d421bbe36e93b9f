------------------------- MODULE MCNegotiationLocks -------------------------
(***************************************************************************)
(* NegotiationLocks with a few calls on two threads.                       *)
(***************************************************************************)
EXTENDS NegotiationLocks, TLC

CONSTANTS c1, c2, c3, t1, t2

MCSymmetry == Permutations(Calls) \cup Permutations({t1, t2})
=============================================================================
