----------------------------- MODULE Negotiation -----------------------------
(***************************************************************************)
(* The bargaining over one published job: a sealed thread per operator or  *)
(* group, each with an append-only history of entries whose standing is    *)
(* derived on every read, never stored.                                    *)
(*                                                                         *)
(* Every write to a thread of the job holds the job's row lock, so a call  *)
(* is one step here; NegotiationLocks has the order the locks are taken in.*)
(* A call the job engine refuses (an operator who is no longer eligible)   *)
(* rolls back as a whole and is no step at all.                            *)
(***************************************************************************)
EXTENDS Naturals, Sequences, FiniteSets

CONSTANTS
    Parties,      \* operators and groups that may open a thread
    Prices,
    MaxEntries    \* bound on the entries of all threads

ASSUME NoPriceAssumption == "NONE" \notin Prices
ASSUME MaxEntriesAssumption == MaxEntries \in Nat

VARIABLES
    job,        \* the job's status, as far as bargaining goes
    posted,     \* the posted price; the agreed one once confirmed
    threads,    \* party -> its thread
    agreement   \* the frozen agreement, or NoAgreement

vars == <<job, posted, threads, agreement>>

OpenStates == {"REQUESTED", "NEGOTIATING"}
Sides == {"BUSINESS", "OPERATOR", "ADMIN"}
Negotiators == {"BUSINESS", "OPERATOR"}
Other(side) == IF side = "OPERATOR" THEN "BUSINESS" ELSE "OPERATOR"

\* `expired` holds the sides whose latest offer reached its expires_at; of an
\* offer its side has revised nobody can tell.
NoThread == [status |-> "NONE", entries |-> <<>>, expired |-> {}]
NoAgreement == [party |-> "NONE", price |-> "NONE"]

\* An entry has a figure unless it rejects; who wrote it under which note is
\* left out.
Entry ==
    [side : Sides, type : {"OFFER", "ACCEPT"}, amount : Prices]
        \cup [side : Sides, type : {"REJECT"}, amount : {"NONE"}]

\* PROPOSE and COUNTER entries read alike: both put a figure on the table.
OfferBy(side, amount) == [side |-> side, type |-> "OFFER", amount |-> amount]
AcceptBy(side, amount) == [side |-> side, type |-> "ACCEPT", amount |-> amount]
RejectBy(side) == [side |-> side, type |-> "REJECT", amount |-> "NONE"]

Init ==
    /\ job = "REQUESTED"
    /\ posted \in Prices \cup {"NONE"}
    /\ threads = [party \in Parties |-> NoThread]
    /\ agreement = NoAgreement

-----------------------------------------------------------------------------
(* The standing of an entry, derived. *)

Declined(thread) ==
    /\ thread.status = "CLOSED"
    /\ \E i \in DOMAIN thread.entries : thread.entries[i].type = "REJECT"

Later(thread, i) == {thread.entries[j] : j \in {k \in DOMAIN thread.entries : k > i}}

\* Mutant: only the side's own later offer withdraws its acceptance.
StandsOwn(thread, i) ==
    LET entry == thread.entries[i] IN
    /\ thread.status # "SUPERSEDED" /\ ~Declined(thread)
    /\ entry.type = "OFFER" => entry.side \notin thread.expired
    /\ entry.type # "REJECT" =>
           \A later \in Later(thread, i) : later.type = "OFFER" => later.side # entry.side

\* An offer stands until its side revises it or it expires, an acceptance
\* until the terms move or its side repeats it.  Closing by agreement leaves
\* both standing; a lost or declined thread has no standing entry.
Stands(thread, i) ==
    LET entry == thread.entries[i] IN
    /\ thread.status # "SUPERSEDED" /\ ~Declined(thread)
    /\ entry.type = "OFFER" => entry.side \notin thread.expired
    /\ entry.type = "OFFER" =>
           \A later \in Later(thread, i) : later.type = "OFFER" => later.side # entry.side
    /\ entry.type = "ACCEPT" =>
           \A later \in Later(thread, i) :
               /\ later.type # "OFFER"
               /\ later.type = "ACCEPT" => later.side # entry.side

\* The entries with a figure of one side that stand.
Standing(thread, side) ==
    {i \in DOMAIN thread.entries :
        /\ thread.entries[i].side = side
        /\ thread.entries[i].type \in {"OFFER", "ACCEPT"}
        /\ Stands(thread, i)}

\* What `side` would accept: the other side's latest figure that stands,
\* which may be an acceptance of a figure of its own.
IsFigureFor(thread, side, i) ==
    /\ i \in Standing(thread, Other(side))
    /\ \A j \in Standing(thread, Other(side)) : j <= i

\* Both sides hold a standing acceptance of the same amount.
MutualAcceptance(thread, amount) ==
    \A side \in Negotiators :
        \E i \in Standing(thread, side) :
            thread.entries[i].type = "ACCEPT" /\ thread.entries[i].amount = amount

-----------------------------------------------------------------------------
Active(party) == threads[party].status = "ACTIVE"

\* Party and position of every entry.
Written ==
    {entry \in Parties \X (1..MaxEntries) : entry[2] <= Len(threads[entry[1]].entries)}

HasRoom(n) == Cardinality(Written) + n <= MaxEntries

\* An offer comes with a new expires_at.
With(thread, entry) ==
    [thread EXCEPT !.entries = Append(@, entry),
                   !.expired = IF entry.type = "OFFER" THEN @ \ {entry.side} ELSE @]

\* The first figure moves the job on.
ToNegotiating == job' = IF job = "REQUESTED" THEN "NEGOTIATING" ELSE job

\* The posted price is the first entry of every thread.
Seed == IF posted = "NONE" THEN <<>> ELSE <<OfferBy("BUSINESS", posted)>>

\* Mutant: the job's status is not checked.
OpenThreadLate(party, amount) ==
    /\ threads[party].status = "NONE"
    /\ HasRoom(Len(Seed) + 1)
    /\ threads' = [threads EXCEPT ![party] =
                      [status |-> "ACTIVE", entries |-> Append(Seed, OfferBy("OPERATOR", amount)),
                       expired |-> {}]]
    /\ ToNegotiating
    /\ UNCHANGED <<posted, agreement>>

\* propose, by an operator or group with no thread yet.
OpenThread(party, amount) ==
    /\ job \in OpenStates
    /\ threads[party].status = "NONE"
    /\ HasRoom(Len(Seed) + 1)
    /\ threads' = [threads EXCEPT ![party] =
                      [status |-> "ACTIVE", entries |-> Append(Seed, OfferBy("OPERATOR", amount)),
                       expired |-> {}]]
    /\ ToNegotiating
    /\ UNCHANGED <<posted, agreement>>

\* counter, and propose in a thread there is.
Offer(party, side, amount) ==
    /\ job \in OpenStates
    /\ Active(party)
    /\ HasRoom(1)
    /\ threads' = [threads EXCEPT ![party] = With(@, OfferBy(side, amount))]
    /\ ToNegotiating
    /\ UNCHANGED <<posted, agreement>>

\* Mutant: the losing threads are left as they are.
CloseWinnerOnly(winner, accepted) ==
    threads' = [threads EXCEPT ![winner] = [accepted EXCEPT !.status = "CLOSED"]]

\* The winning thread is closed, every other active one is lost.
CloseThreads(winner, accepted) ==
    threads' = [party \in Parties |->
                   IF party = winner THEN [accepted EXCEPT !.status = "CLOSED"]
                   ELSE IF Active(party) THEN [threads[party] EXCEPT !.status = "SUPERSEDED"]
                   ELSE threads[party]]

\* accept: one side says yes to the figure the other stands by; when that
\* makes it mutual the job is confirmed, in the same transaction.
Accept(party, side) ==
    \E i \in DOMAIN threads[party].entries :
        LET amount == threads[party].entries[i].amount
            accepted == With(threads[party], AcceptBy(side, amount))
        IN
        /\ job \in OpenStates
        /\ Active(party)
        /\ HasRoom(1)
        /\ IsFigureFor(threads[party], side, i)
        /\ IF MutualAcceptance(accepted, amount)
           THEN /\ job' = "CONFIRMED"
                /\ agreement' = [party |-> party, price |-> amount]
                /\ posted' = amount
                /\ CloseThreads(party, accepted)
           ELSE /\ threads' = [threads EXCEPT ![party] = accepted]
                /\ UNCHANGED <<job, posted, agreement>>

\* decline: whatever the job's status, an active thread is closed.
Decline(party, side) ==
    /\ Active(party)
    /\ HasRoom(1)
    /\ threads' = [threads EXCEPT ![party] =
                      [With(@, RejectBy(side)) EXCEPT !.status = "CLOSED"]]
    /\ UNCHANGED <<job, posted, agreement>>

\* Time passes: a side's latest offer reaches its expires_at (acceptances
\* have none).
Expire(party, side) ==
    /\ side \notin threads[party].expired
    /\ \E i \in DOMAIN threads[party].entries :
           threads[party].entries[i].type = "OFFER" /\ threads[party].entries[i].side = side
    /\ threads' = [threads EXCEPT ![party].expired = @ \cup {side}]
    /\ UNCHANGED <<job, posted, agreement>>

\* The business cancels the job, or the sweep or staff fail it: the engine
\* moves the job and touches no thread.
EndJob ==
    /\ job \in OpenStates
    /\ job' \in {"CANCELLED", "FAILED"}
    /\ UNCHANGED <<posted, threads, agreement>>

-----------------------------------------------------------------------------
(* The calls of the API. *)

\* Only operators and groups propose; in the thread they have it is an offer.
Proposals ==
    \E party \in Parties, amount \in Prices :
        OpenThread(party, amount) \/ Offer(party, "OPERATOR", amount)

Counters ==
    \E party \in Parties, side \in Sides, amount \in Prices : Offer(party, side, amount)

Acceptances == \E party \in Parties, side \in Negotiators : Accept(party, side)

Refusals == \E party \in Parties, side \in Sides : Decline(party, side)

Next ==
    \/ Proposals
    \/ Counters
    \/ Acceptances
    \/ Refusals
    \/ \E party \in Parties, side \in Sides : Expire(party, side)
    \/ EndJob

Spec == Init /\ [][Next]_vars

-----------------------------------------------------------------------------
(* Properties. *)

\* Every column keeps its type, and the entries stay within their bound.
TypeOK ==
    /\ job \in OpenStates \cup {"CONFIRMED", "CANCELLED", "FAILED"}
    /\ posted \in Prices \cup {"NONE"}
    /\ threads \in [Parties -> [status : {"NONE", "ACTIVE", "SUPERSEDED", "CLOSED"},
                                entries : Seq(Entry), expired : SUBSET Sides]]
    /\ Cardinality(Written) <= MaxEntries
    /\ agreement \in {NoAgreement} \cup [party : Parties, price : Prices]

\* Nobody is bound to terms that moved: after the first of the two acceptances
\* the thread holds no offer of anyone, staff included, and before it the
\* agreed figure was offered by one of the two sides.
NoStaleTerms ==
    agreement # NoAgreement =>
        LET entries == threads[agreement.party].entries IN
        \E first \in DOMAIN entries :
            /\ entries[first].type = "ACCEPT"
            /\ \A k \in DOMAIN entries : k > first => entries[k].type = "ACCEPT"
            /\ \E k \in 1..(first - 1) :
                   /\ entries[k].type = "OFFER"
                   /\ entries[k].side = Other(entries[first].side)
                   /\ entries[k].amount = agreement.price

\* Once a job is confirmed no thread stays open: one won, the others were lost
\* or had been declined, and the winning one was not.
OneWinner ==
    job = "CONFIRMED" =>
        \A party \in Parties :
            /\ ~Active(party)
            /\ party = agreement.party <=>
                   threads[party].status = "CLOSED" /\ ~Declined(threads[party])

-----------------------------------------------------------------------------
(* The abstract view. *)

\* The figures the two sides put in the threads that are not lost or declined.
TableOf ==
    {figure \in Parties \X Prices :
        LET thread == threads[figure[1]] IN
        /\ thread.status \in {"ACTIVE", "CLOSED"} /\ ~Declined(thread)
        /\ job = "CONFIRMED" => figure[2] = agreement.price
        /\ \E i \in DOMAIN thread.entries :
               /\ thread.entries[i].type = "OFFER"
               /\ thread.entries[i].side \in Negotiators
               /\ thread.entries[i].amount = figure[2]}

StruckOf ==
    IF job = "CONFIRMED" THEN {<<agreement.party, agreement.price>>} ELSE {}

Abstract ==
    INSTANCE Deal WITH table <- TableOf, open <- (job \in OpenStates), struck <- StruckOf

\* Bargaining strikes at most one deal, at a figure on the table between the
\* business and the party that won.
ImplementsDeal == Abstract!Spec
=============================================================================
