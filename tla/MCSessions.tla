----------------------------- MODULE MCSessions -----------------------------
(***************************************************************************)
(* One user, who may become an admin, with two sessions and two requests   *)
(* at once.                                                                *)
(***************************************************************************)
EXTENDS Sessions, TLC

CONSTANTS amina, phone, laptop, once, left, right, spare

\* No session or request is distinguished.
Either == Permutations({phone, laptop}) \cup Permutations({left, right})

\* No clock is off, so a code is replayed within its own step.
Exact == {0}
=============================================================================
