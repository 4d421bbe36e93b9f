----------------------------- MODULE MCHandover -----------------------------
(***************************************************************************)
(* Handover on a small instance: the shipped delivery rules of STANDARD    *)
(* and of the high-value bands (platform_config/defaults.py).              *)
(***************************************************************************)
EXTENDS Handover, TLC

CONSTANTS c1, c2

MCStandard == {{"OTP", "SIGNATURE"}, {"PHOTO"}}
MCStrict == {{"OTP"}, {"SIGNATURE"}, {"PHOTO"}}
MCRules == {MCStandard, MCStrict}

MCSymmetry == Permutations(Calls)
=============================================================================
