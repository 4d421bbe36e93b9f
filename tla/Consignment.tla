----------------------------- MODULE Consignment -----------------------------
(***************************************************************************)
(* What the platform promises about one consignment, whatever route the    *)
(* job takes: who holds the goods, whether a dispute has frozen the job,   *)
(* how the job came out and whether its commission is owed or billed.      *)
(* JobLifecycle implements this specification.                             *)
(***************************************************************************)

VARIABLES
    holder,   \* who holds the goods: "SENDER", "CARRIER" or "RECIPIENT"
    frozen,   \* a dispute awaits its ruling
    outcome,  \* "OPEN", "DONE" (completed) or "ENDED" (cancelled or failed)
    due       \* the commission: "NONE", "OWED" or "BILLED"

vars == <<holder, frozen, outcome, due>>

TypeOK ==
    /\ holder \in {"SENDER", "CARRIER", "RECIPIENT"}
    /\ frozen \in BOOLEAN
    /\ outcome \in {"OPEN", "DONE", "ENDED"}
    /\ due \in {"NONE", "OWED", "BILLED"}

Init ==
    /\ holder = "SENDER"
    /\ frozen = FALSE
    /\ outcome = "OPEN"
    /\ due = "NONE"

Underway == ~frozen /\ outcome = "OPEN"

\* The goods change hands in one order, while the job runs.
HandOver ==
    /\ Underway
    /\ \/ holder = "SENDER" /\ holder' = "CARRIER"
       \/ holder = "CARRIER" /\ holder' = "RECIPIENT"
    /\ UNCHANGED <<frozen, outcome, due>>

\* Only a delivered job completes by itself; the commission is then owed.
Complete ==
    /\ Underway
    /\ holder = "RECIPIENT"
    /\ outcome' = "DONE"
    /\ due' = "OWED"
    /\ UNCHANGED <<holder, frozen>>

\* A job is given up only before its goods reached the recipient.
GiveUp ==
    /\ Underway
    /\ holder # "RECIPIENT"
    /\ outcome' = "ENDED"
    /\ UNCHANGED <<holder, frozen, due>>

\* A job that has not ended is disputed, also after it completed, until the
\* commission is billed.
Freeze ==
    /\ ~frozen
    /\ outcome # "ENDED"
    /\ due # "BILLED"
    /\ frozen' = TRUE
    /\ UNCHANGED <<holder, outcome, due>>

\* A binding ruling decides the outcome and moves no goods.
Rule ==
    /\ frozen
    /\ frozen' = FALSE
    /\ outcome' \in {"DONE", "ENDED"}
    /\ due' = IF outcome' = "DONE" THEN "OWED" ELSE due
    /\ UNCHANGED holder

\* A job disputed on the way goes on where it was.
Release ==
    /\ frozen
    /\ outcome = "OPEN"
    /\ frozen' = FALSE
    /\ UNCHANGED <<holder, outcome, due>>

Bill ==
    /\ ~frozen
    /\ outcome = "DONE"
    /\ due = "OWED"
    /\ due' = "BILLED"
    /\ UNCHANGED <<holder, frozen, outcome>>

Next == HandOver \/ Complete \/ GiveUp \/ Freeze \/ Rule \/ Release \/ Bill

Spec == Init /\ [][Next]_vars
=============================================================================
