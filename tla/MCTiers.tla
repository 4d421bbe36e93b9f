------------------------------- MODULE MCTiers -------------------------------
(***************************************************************************)
(* A driver with two jobs, rated and disputed, who is found to be at fault *)
(* and manages tiers too; of five scores a low and a high one.             *)
(***************************************************************************)
EXTENDS Tiers

CONSTANTS delivery, errand, boss, driver
=============================================================================
