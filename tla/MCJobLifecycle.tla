--------------------------- MODULE MCJobLifecycle ---------------------------
(***************************************************************************)
(* JobLifecycle on a small instance, with the shipped custody_proof_rules. *)
(***************************************************************************)
EXTENDS JobLifecycle, TLC

CONSTANTS d1, low, high

MCFee == low :> 1 @@ high :> 2

MCGivens == {{}, {"PHOTO"}, {"OTP", "SIGNATURE", "PHOTO"}}

Strict == {{"OTP"}, {"SIGNATURE"}, {"PHOTO"}}

\* platform_config/defaults.py, custody_proof_rules.
MCProofRules ==
    [PICKUP |-> [STANDARD |-> {{"OTP", "SIGNATURE", "IN_APP"}},
                 ELEVATED |-> {{"OTP", "IN_APP"}, {"PHOTO"}},
                 HIGH |-> Strict, VERY_HIGH |-> Strict],
     DELIVERY |-> [STANDARD |-> {{"OTP", "SIGNATURE"}, {"PHOTO"}},
                   ELEVATED |-> {{"OTP"}, {"PHOTO"}},
                   HIGH |-> Strict, VERY_HIGH |-> Strict]]
=============================================================================
