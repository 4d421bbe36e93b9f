-------------------------------- MODULE Deal --------------------------------
(***************************************************************************)
(* What bargaining over one job promises: the job is struck at most once,  *)
(* with one party, at a figure that was on the table between the business  *)
(* and that party.  Negotiation implements this specification.             *)
(***************************************************************************)

CONSTANTS Parties, Prices

VARIABLES
    table,    \* the figures on the table: <<party, price>>
    open,     \* may the job still be struck?
    struck    \* the figures it was struck at: none, or the one

vars == <<table, open, struck>>

Figures == Parties \X Prices

TypeOK ==
    /\ table \subseteq Figures
    /\ open \in BOOLEAN
    /\ struck \subseteq Figures

Init ==
    /\ table = {}
    /\ open = TRUE
    /\ struck = {}

\* Opening a conversation brings the posted price along with the first figure.
Put ==
    /\ open = TRUE
    /\ \E party \in Parties, figures \in SUBSET Prices :
           table' = table \cup ({party} \X figures)
    /\ UNCHANGED <<open, struck>>

\* Either side ends the conversation with one party.
Leave ==
    /\ \E party \in Parties : table' = table \ ({party} \X Prices)
    /\ UNCHANGED <<open, struck>>

Strike ==
    /\ open = TRUE
    /\ \E figure \in table :
           /\ struck' = {figure}
           /\ table' = {figure}
    /\ open' = FALSE

CallOff ==
    /\ open = TRUE
    /\ open' = FALSE
    /\ UNCHANGED <<table, struck>>

Next == Put \/ Leave \/ Strike \/ CallOff

Spec == Init /\ [][Next]_vars
=============================================================================
