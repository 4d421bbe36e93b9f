------------------------------ MODULE MCVetting ------------------------------
(***************************************************************************)
(* Vetting of an operator's licence and of a business, with an owner who   *)
(* is also a reviewer, an officer and an administrator.                    *)
(***************************************************************************)
EXTENDS Vetting

CONSTANTS own, officer, admin, licence, details, driver, shop

MCRecords == {licence, details}
MCTypeOf == [r \in MCRecords |-> IF r = licence THEN "OPERATOR" ELSE "BUSINESS"]
MCDomainOf == [r \in MCRecords |-> IF r = licence THEN "LICENCE" ELSE "BUSINESS"]
MCHolders == [r \in MCRecords |-> {own}]
MCKinds == [r \in MCRecords |-> IF r = licence THEN {"DRIVING_LICENCE"} ELSE {}]
MCApplicantOf == [r \in MCRecords |-> IF r = licence THEN driver ELSE shop]
=============================================================================
