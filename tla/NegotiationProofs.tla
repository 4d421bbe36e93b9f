-------------------------- MODULE NegotiationProofs --------------------------
(***************************************************************************)
(* Proofs about Negotiation, for any parties, prices and bound.            *)
(***************************************************************************)
EXTENDS Negotiation, TLAPS

Threads == [status : {"NONE", "ACTIVE", "SUPERSEDED", "CLOSED"},
            entries : Seq(Entry), expired : SUBSET Sides]

\* The columns have their types.
Shape ==
    /\ job \in OpenStates \cup {"CONFIRMED", "CANCELLED", "FAILED"}
    /\ posted \in Prices \cup {"NONE"}
    /\ threads \in [Parties -> Threads]
    /\ agreement \in {NoAgreement} \cup [party : Parties, price : Prices]

NoRejection(entries) == \A i \in DOMAIN entries : entries[i].type # "REJECT"

\* An acceptance answers an offer of the other side, at its amount.
Answers(entries, i) ==
    /\ entries[i].side \in Negotiators
    /\ \E k \in 1..(i - 1) :
           /\ entries[k].type = "OFFER"
           /\ entries[k].side = Other(entries[i].side)
           /\ entries[k].amount = entries[i].amount

Answered(entries) ==
    \A i \in DOMAIN entries : entries[i].type = "ACCEPT" => Answers(entries, i)

\* An acceptance of an acceptance would have confirmed the job, so in a thread that
\* goes on every acceptance answers an offer.
ActiveGoesOn ==
    \A party \in Parties :
        Active(party) => NoRejection(threads[party].entries) /\ Answered(threads[party].entries)

\* While the job is open a thread closes by a refusal only.
ClosedIsDeclined ==
    job \in OpenStates =>
        \A party \in Parties : threads[party].status = "CLOSED" => Declined(threads[party])

AgreedIsClosed ==
    agreement # NoAgreement =>
        job = "CONFIRMED" /\ threads[agreement.party].status = "CLOSED"

Safe == ActiveGoesOn /\ ClosedIsDeclined /\ AgreedIsClosed /\ OneWinner /\ NoStaleTerms

IInv == Shape /\ Safe

LEMMA ThreadIsTyped == ASSUME Shape, NEW party \in Parties PROVE threads[party] \in Threads
BY DEF Shape

LEMMA EntriesAreTyped ==
    ASSUME NEW side \in Sides, NEW amount \in Prices
    PROVE  /\ OfferBy(side, amount) \in Entry
           /\ AcceptBy(side, amount) \in Entry
           /\ RejectBy(side) \in Entry
BY DEF OfferBy, AcceptBy, RejectBy, Entry

\* A longer history keeps what it had.
LEMMA Appending ==
    ASSUME NEW es \in Seq(Entry), NEW e \in Entry
    PROVE  /\ Append(es, e) \in Seq(Entry)
           /\ DOMAIN es = 1..Len(es)
           /\ DOMAIN Append(es, e) = 1..(Len(es) + 1)
           /\ Len(es) \in Nat
           /\ \A i \in 1..Len(es) : Append(es, e)[i] = es[i]
           /\ Append(es, e)[Len(es) + 1] = e
OBVIOUS

LEMMA HistoryGoesOn ==
    ASSUME NEW es \in Seq(Entry), NEW e \in Entry, e.type # "REJECT",
           NoRejection(es), Answered(es),
           e.type = "ACCEPT" => Answers(Append(es, e), Len(es) + 1)
    PROVE  NoRejection(Append(es, e)) /\ Answered(Append(es, e))
<1>1. NoRejection(Append(es, e))
  BY Appending DEF NoRejection
<1>2. ASSUME NEW i \in 1..Len(es), es[i].type = "ACCEPT" PROVE Answers(Append(es, e), i)
  <2>1. Answers(es, i)
    BY <1>2, Appending DEF Answered
  <2>2. PICK k \in 1..(i - 1) : /\ es[k].type = "OFFER"
                                /\ es[k].side = Other(es[i].side)
                                /\ es[k].amount = es[i].amount
    BY <2>1 DEF Answers
  <2>3. Append(es, e)[i] = es[i] /\ Append(es, e)[k] = es[k]
    BY Appending
  <2> QED
    BY <2>1, <2>2, <2>3 DEF Answers
<1>3. Answered(Append(es, e))
  BY <1>2, Appending DEF Answered
<1> QED
  BY <1>1, <1>3

-----------------------------------------------------------------------------
LEMMA InitHolds == Init => IInv
<1> SUFFICES ASSUME Init PROVE IInv
  OBVIOUS
<1>1. NoThread \in Threads
  BY DEF NoThread, Threads
<1>2. Shape
  BY <1>1 DEF Init, Shape, OpenStates
<1>3. Safe
  BY DEF Init, Safe, ActiveGoesOn, ClosedIsDeclined, AgreedIsClosed, OneWinner,
         NoStaleTerms, Active, NoThread, NoAgreement
<1> QED
  BY <1>2, <1>3 DEF IInv

-----------------------------------------------------------------------------
\* A call on an open job that leaves its thread active and the rest alone.
LEMMA BargainingKeeps ==
    ASSUME IInv, job \in OpenStates, job' \in OpenStates,
           NEW party \in Parties, NEW thread \in Threads,
           thread.status = "ACTIVE", NoRejection(thread.entries), Answered(thread.entries),
           threads' = [threads EXCEPT ![party] = thread],
           posted' = posted, agreement' = agreement
    PROVE  IInv'
<1>1. Shape'
  BY DEF IInv, Shape
<1>2. \A p \in Parties : threads'[p] = IF p = party THEN thread ELSE threads[p]
  BY DEF IInv, Shape
<1>3. agreement = NoAgreement /\ job' # "CONFIRMED"
  BY DEF IInv, Safe, AgreedIsClosed, OpenStates
<1>4. ActiveGoesOn'
  BY <1>2 DEF IInv, Safe, ActiveGoesOn, Active
<1>5. ClosedIsDeclined'
  <2> SUFFICES ASSUME NEW p \in Parties, threads'[p].status = "CLOSED"
               PROVE  Declined(threads'[p])
    BY DEF ClosedIsDeclined, Declined
  <2>1. p # party /\ threads'[p] = threads[p]
    BY <1>2
  <2> QED
    BY <2>1 DEF IInv, Safe, ClosedIsDeclined
<1>6. AgreedIsClosed' /\ OneWinner' /\ NoStaleTerms'
  BY <1>3 DEF AgreedIsClosed, OneWinner, NoStaleTerms, NoAgreement
<1> QED
  BY <1>1, <1>4, <1>5, <1>6 DEF IInv, Safe

LEMMA MovedOn == ASSUME job \in OpenStates, ToNegotiating PROVE job' \in OpenStates
BY DEF ToNegotiating, OpenStates

LEMMA OpenThreadKeeps ==
    ASSUME IInv, NEW party \in Parties, NEW amount \in Prices, OpenThread(party, amount)
    PROVE  IInv'
<1> DEFINE e == OfferBy("OPERATOR", amount)
           thread == [status |-> "ACTIVE", entries |-> Append(Seed, e), expired |-> {}]
<1>1. e \in Entry /\ e.type = "OFFER"
  BY EntriesAreTyped DEF Sides, OfferBy
<1>2. Seed \in Seq(Entry) /\ NoRejection(Seed) /\ Answered(Seed)
  <2>1. CASE posted = "NONE"
    BY <2>1 DEF Seed, NoRejection, Answered
  <2>2. CASE posted # "NONE"
    <3>1. posted \in Prices
      BY <2>2 DEF IInv, Shape
    <3>2. OfferBy("BUSINESS", posted) \in Entry /\ OfferBy("BUSINESS", posted).type = "OFFER"
      BY <3>1, EntriesAreTyped DEF Sides, OfferBy
    <3>3. Seed = <<OfferBy("BUSINESS", posted)>>
      BY <2>2 DEF Seed
    <3> HIDE DEF e
    <3> QED
      BY <3>2, <3>3 DEF NoRejection, Answered
  <2> QED
    BY <2>1, <2>2
<1> HIDE DEF e
<1>3. Append(Seed, e) \in Seq(Entry) /\ NoRejection(Append(Seed, e)) /\ Answered(Append(Seed, e))
  BY <1>1, <1>2, HistoryGoesOn, Appending
<1>4. thread \in Threads
  BY <1>3 DEF Threads
<1>5. /\ threads' = [threads EXCEPT ![party] = thread]
      /\ job \in OpenStates /\ ToNegotiating /\ posted' = posted /\ agreement' = agreement
  BY DEF OpenThread, e
<1> QED
  BY <1>3, <1>4, <1>5, MovedOn, BargainingKeeps

LEMMA WithIsTyped ==
    ASSUME NEW thread \in Threads, NEW e \in Entry
    PROVE  /\ With(thread, e) \in Threads
           /\ With(thread, e).status = thread.status
           /\ With(thread, e).entries = Append(thread.entries, e)
<1>1. Append(thread.entries, e) \in Seq(Entry)
  BY Appending DEF Threads
<1> QED
  BY <1>1 DEF With, Threads

LEMMA OfferKeeps ==
    ASSUME IInv, NEW party \in Parties, NEW side \in Sides, NEW amount \in Prices,
           Offer(party, side, amount)
    PROVE  IInv'
<1> DEFINE e == OfferBy(side, amount)
           thread == With(threads[party], e)
<1>1. e \in Entry /\ e.type = "OFFER"
  BY EntriesAreTyped DEF OfferBy
<1>2. /\ threads' = [threads EXCEPT ![party] = thread]
      /\ job \in OpenStates /\ ToNegotiating /\ posted' = posted /\ agreement' = agreement
      /\ threads[party].status = "ACTIVE"
  BY DEF Offer, Active
<1> HIDE DEF e
<1>3. threads[party] \in Threads
  BY ThreadIsTyped DEF IInv
<1>4. /\ thread \in Threads /\ thread.status = "ACTIVE"
      /\ thread.entries = Append(threads[party].entries, e)
  BY <1>1, <1>2, <1>3, WithIsTyped
<1>5. NoRejection(threads[party].entries) /\ Answered(threads[party].entries)
  BY <1>2 DEF IInv, Safe, ActiveGoesOn, Active
<1>6. threads[party].entries \in Seq(Entry)
  BY <1>3 DEF Threads
<1>7. NoRejection(thread.entries) /\ Answered(thread.entries)
  BY <1>1, <1>4, <1>5, <1>6, HistoryGoesOn
<1> HIDE DEF thread
<1> QED
  BY <1>2, <1>4, <1>7, MovedOn, BargainingKeeps

-----------------------------------------------------------------------------
(* accept *)

LEMMA OtherOfOther ==
    ASSUME NEW side \in Negotiators
    PROVE  /\ Other(side) \in Negotiators /\ Other(side) # side /\ Other(Other(side)) = side
           /\ \A s \in Negotiators : s = side \/ s = Other(side)
           /\ side \in Sides
BY DEF Negotiators, Sides, Other

\* The acceptance of an acceptance that stands is the second of a mutual pair.
LEMMA SecondIsMutual ==
    ASSUME NEW thread \in Threads, thread.status = "ACTIVE", NEW side \in Negotiators,
           NEW i \in Standing(thread, Other(side)), thread.entries[i].type = "ACCEPT"
    PROVE  LET amount == thread.entries[i].amount
           IN MutualAcceptance(With(thread, AcceptBy(side, amount)), amount)
<1> DEFINE es == thread.entries
           amount == es[i].amount
           e == AcceptBy(side, amount)
           accepted == With(thread, e)
           n == Len(es)
<1>1. es \in Seq(Entry) /\ i \in 1..n
  BY DEF Standing, Threads
<1>2. es[i] \in Entry /\ es[i].side = Other(side)
  BY <1>1 DEF Standing
<1>3. amount \in Prices /\ e \in Entry
  BY <1>2, OtherOfOther, EntriesAreTyped DEF Entry
<1>4. e.type = "ACCEPT" /\ e.side = side /\ e.amount = amount
  BY DEF AcceptBy
<1>5. accepted.status = "ACTIVE" /\ accepted.entries = Append(es, e)
  BY <1>3, WithIsTyped
<1> HIDE DEF accepted, e, amount
<1>6. /\ DOMAIN Append(es, e) = 1..(n + 1) /\ n \in Nat
      /\ \A k \in 1..n : Append(es, e)[k] = es[k]
      /\ Append(es, e)[n + 1] = e /\ DOMAIN es = 1..n
  BY <1>1, <1>3, Appending
<1>7. ~Declined(accepted) /\ accepted.status # "SUPERSEDED"
  BY <1>5 DEF Declined
<1>8. Later(accepted, n + 1) = {}
  BY <1>5, <1>6 DEF Later
<1>9. n + 1 \in Standing(accepted, side)
  <2>1. Stands(accepted, n + 1)
    BY <1>4, <1>5, <1>6, <1>7, <1>8 DEF Stands
  <2> QED
    BY <2>1, <1>4, <1>5, <1>6 DEF Standing
<1>10. i \in Standing(accepted, Other(side))
  <2>1. \A later \in Later(accepted, i) : later = e \/ later \in Later(thread, i)
    BY <1>1, <1>5, <1>6 DEF Later
  <2>2. \A later \in Later(thread, i) :
            later.type # "OFFER" /\ (later.type = "ACCEPT" => later.side # es[i].side)
    BY DEF Standing, Stands
  <2>3. accepted.entries[i] = es[i]
    BY <1>1, <1>5, <1>6
  <2>4. \A later \in Later(accepted, i) :
            later.type # "OFFER" /\ (later.type = "ACCEPT" => later.side # es[i].side)
    BY <2>1, <2>2, <1>2, <1>4, OtherOfOther
  <2>5. Stands(accepted, i)
    BY <2>3, <2>4, <1>7 DEF Stands
  <2> QED
    BY <2>3, <2>5, <1>1, <1>2, <1>5, <1>6 DEF Standing
<1>11. /\ accepted.entries[i].type = "ACCEPT" /\ accepted.entries[i].amount = amount
       /\ accepted.entries[n + 1].type = "ACCEPT" /\ accepted.entries[n + 1].amount = amount
  BY <1>1, <1>4, <1>5, <1>6 DEF amount
<1>12. MutualAcceptance(accepted, amount)
  BY <1>9, <1>10, <1>11, OtherOfOther DEF MutualAcceptance
<1> QED
  BY <1>12 DEF accepted, e, amount

\* What both sides agreed on in a history.
Bound(entries, price) ==
    \E first \in DOMAIN entries :
        /\ entries[first].type = "ACCEPT"
        /\ \A k \in DOMAIN entries : k > first => entries[k].type = "ACCEPT"
        /\ \E k \in 1..(first - 1) :
               /\ entries[k].type = "OFFER"
               /\ entries[k].side = Other(entries[first].side)
               /\ entries[k].amount = price

\* With a mutual pair nothing but acceptances follows its first.
LEMMA MutualIsBound ==
    ASSUME NEW thread \in Threads, thread.status = "ACTIVE", NEW side \in Negotiators,
           NEW amount \in Prices,
           NoRejection(thread.entries), Answered(thread.entries),
           MutualAcceptance(With(thread, AcceptBy(side, amount)), amount)
    PROVE  Bound(With(thread, AcceptBy(side, amount)).entries, amount)
<1> DEFINE es == thread.entries
           e == AcceptBy(side, amount)
           accepted == With(thread, e)
           n == Len(es)
<1>1. es \in Seq(Entry) /\ e \in Entry /\ e.type = "ACCEPT" /\ e.side = side
  BY OtherOfOther, EntriesAreTyped DEF Threads, AcceptBy
<1>2. accepted.entries = Append(es, e)
  BY <1>1, WithIsTyped
<1> HIDE DEF accepted, e
<1>3. /\ DOMAIN Append(es, e) = 1..(n + 1) /\ n \in Nat
      /\ \A k \in 1..n : Append(es, e)[k] = es[k]
      /\ Append(es, e)[n + 1] = e /\ DOMAIN es = 1..n
  BY <1>1, Appending
<1>4. PICK first \in Standing(accepted, Other(side)) :
          accepted.entries[first].type = "ACCEPT" /\ accepted.entries[first].amount = amount
  BY OtherOfOther DEF MutualAcceptance, accepted, e
<1>5. first \in 1..(n + 1) /\ accepted.entries[first].side = Other(side)
  BY <1>2, <1>3, <1>4 DEF Standing
<1>6. first \in 1..n /\ Append(es, e)[first] = es[first]
  BY <1>1, <1>2, <1>3, <1>5, OtherOfOther
<1>7. Answers(es, first) /\ es[first].amount = amount /\ es[first].type = "ACCEPT"
  BY <1>2, <1>3, <1>4, <1>6 DEF Answered
<1>8. \A k \in 1..(n + 1) : k > first => Append(es, e)[k].type # "OFFER"
  <2> SUFFICES ASSUME NEW k \in 1..(n + 1), k > first
               PROVE  Append(es, e)[k].type # "OFFER"
    OBVIOUS
  <2>1. accepted.entries[k] \in Later(accepted, first)
    BY <1>2, <1>3 DEF Later
  <2> QED
    BY <2>1, <1>2, <1>4 DEF Standing, Stands
<1>9. \A k \in 1..(n + 1) : Append(es, e)[k] \in Entry /\ Append(es, e)[k].type # "REJECT"
  <2>1. \A k \in 1..n : es[k] \in Entry /\ es[k].type # "REJECT"
    BY <1>1, <1>3 DEF NoRejection
  <2> QED
    BY <2>1, <1>1, <1>3
<1>10. \A k \in 1..(n + 1) : k > first => Append(es, e)[k].type = "ACCEPT"
  BY <1>8, <1>9 DEF Entry
<1>11. PICK k \in 1..(first - 1) : /\ es[k].type = "OFFER"
                                   /\ es[k].side = Other(es[first].side)
                                   /\ es[k].amount = amount
  BY <1>7 DEF Answers
<1>12. k \in 1..n /\ Append(es, e)[k] = es[k]
  BY <1>3, <1>6, <1>11
<1>13. Bound(accepted.entries, amount)
  <2> DEFINE all == Append(es, e)
  <2>1. first \in DOMAIN all /\ all[first].type = "ACCEPT"
    BY <1>3, <1>6, <1>7
  <2>2. \A j \in DOMAIN all : j > first => all[j].type = "ACCEPT"
    BY <1>3, <1>10
  <2>3. /\ k \in 1..(first - 1) /\ all[k].type = "OFFER"
        /\ all[k].side = Other(all[first].side) /\ all[k].amount = amount
    BY <1>6, <1>11, <1>12
  <2> HIDE DEF all, es
  <2>4. Bound(all, amount)
    BY <2>1, <2>2, <2>3 DEF Bound
  <2> QED
    BY <2>4, <1>2 DEF all, es
<1> QED
  BY <1>13 DEF accepted, e

LEMMA AcceptKeeps ==
    ASSUME IInv, NEW party \in Parties, NEW side \in Negotiators, Accept(party, side)
    PROVE  IInv'
<1> PICK i \in DOMAIN threads[party].entries :
        LET amount == threads[party].entries[i].amount
            accepted == With(threads[party], AcceptBy(side, amount))
        IN
        /\ job \in OpenStates
        /\ Active(party)
        /\ HasRoom(1)
        /\ IsFigureFor(threads[party], side, i)
        /\ IF MutualAcceptance(accepted, amount)
           THEN /\ job' = "CONFIRMED"
                /\ agreement' = [party |-> party, price |-> amount]
                /\ posted' = amount
                /\ CloseThreads(party, accepted)
           ELSE /\ threads' = [threads EXCEPT ![party] = accepted]
                /\ UNCHANGED <<job, posted, agreement>>
  BY DEF Accept
<1> DEFINE thread == threads[party]
           es == thread.entries
           amount == es[i].amount
           e == AcceptBy(side, amount)
           accepted == With(thread, e)
<1>1. thread \in Threads /\ thread.status = "ACTIVE" /\ NoRejection(es) /\ Answered(es)
  BY ThreadIsTyped DEF IInv, Safe, ActiveGoesOn, Active
<1>2. es \in Seq(Entry) /\ i \in 1..Len(es) /\ i \in Standing(thread, Other(side))
  BY <1>1 DEF Threads, IsFigureFor
<1>3. /\ es[i] \in Entry /\ es[i].side = Other(side) /\ es[i].type \in {"OFFER", "ACCEPT"}
  BY <1>2 DEF Standing
<1>4. amount \in Prices
  BY <1>3 DEF Entry
<1>5. e \in Entry /\ e.type = "ACCEPT" /\ e.side = side /\ e.amount = amount
  BY <1>4, OtherOfOther, EntriesAreTyped DEF AcceptBy
<1>6. /\ accepted \in Threads /\ accepted.status = "ACTIVE"
      /\ accepted.entries = Append(es, e)
  BY <1>1, <1>5, WithIsTyped
<1>7. CASE MutualAcceptance(accepted, amount)
  <2>1. /\ job' = "CONFIRMED" /\ agreement' = [party |-> party, price |-> amount]
        /\ posted' = amount /\ CloseThreads(party, accepted)
    BY <1>7
  <2>2. Bound(accepted.entries, amount)
    BY <1>1, <1>4, <1>7, MutualIsBound
  <2>3. NoRejection(accepted.entries)
    BY <1>1, <1>2, <1>5, <1>6, Appending DEF NoRejection
  <2> HIDE DEF accepted, e, amount, es, thread
  <2> DEFINE won == [accepted EXCEPT !.status = "CLOSED"]
  <2>4. won \in Threads /\ won.status = "CLOSED" /\ won.entries = accepted.entries
    BY <1>6 DEF Threads
  <2>5. threads' = [p \in Parties |->
                       IF p = party THEN won
                       ELSE IF Active(p) THEN [threads[p] EXCEPT !.status = "SUPERSEDED"]
                       ELSE threads[p]]
    BY <2>1 DEF CloseThreads
  <2> HIDE DEF won
  <2>6. \A p \in Parties : [threads[p] EXCEPT !.status = "SUPERSEDED"] \in Threads
    BY ThreadIsTyped DEF IInv, Threads
  <2>7. threads' \in [Parties -> Threads]
    BY <2>4, <2>5, <2>6 DEF IInv, Shape
  <2>8. Shape'
    BY <2>1, <2>7, <1>4 DEF Shape
  <2>9. threads'[party] = won
    BY <2>5
  <2>10. \A p \in Parties : p # party =>
             /\ threads'[p].status # "ACTIVE"
             /\ threads'[p].status = "CLOSED" => threads'[p] = threads[p]
    <3> SUFFICES ASSUME NEW p \in Parties, p # party
                 PROVE  /\ threads'[p].status # "ACTIVE"
                        /\ threads'[p].status = "CLOSED" => threads'[p] = threads[p]
      OBVIOUS
    <3>1. CASE Active(p)
      <4>1. threads'[p] = [threads[p] EXCEPT !.status = "SUPERSEDED"]
        BY <2>5, <3>1
      <4>2. threads[p] \in Threads
        BY ThreadIsTyped DEF IInv
      <4>3. threads'[p].status = "SUPERSEDED"
        BY <4>1, <4>2 DEF Threads
      <4> QED
        BY <4>3
    <3>2. CASE ~Active(p)
      BY <2>5, <3>2 DEF Active
    <3> QED
      BY <3>1, <3>2
  <2>11. agreement'.party = party /\ agreement'.price = amount
    BY <2>1
  <2>12. \A p \in Parties : ~(threads'[p].status = "ACTIVE")
    BY <2>4, <2>9, <2>10
  <2>13. ActiveGoesOn'
    BY <2>12 DEF ActiveGoesOn, Active
  <2>14. ClosedIsDeclined' /\ AgreedIsClosed'
    BY <2>1, <2>4, <2>9, <2>11 DEF ClosedIsDeclined, AgreedIsClosed, OpenStates
  <2>15. \A p \in Parties : p = party <=>
             threads'[p].status = "CLOSED" /\ ~Declined(threads'[p])
    <3>1. threads'[party].status = "CLOSED" /\ ~Declined(threads'[party])
      BY <2>3, <2>4, <2>9 DEF Declined, NoRejection
    <3>2. ASSUME NEW p \in Parties, p # party, threads'[p].status = "CLOSED"
          PROVE  Declined(threads'[p])
      <4>1. threads'[p] = threads[p]
        BY <2>10, <3>2
      <4> QED
        BY <4>1, <3>2 DEF IInv, Safe, ClosedIsDeclined
    <3> QED
      BY <3>1, <3>2
  <2>16. OneWinner'
    BY <2>11, <2>12, <2>15 DEF OneWinner, Active, Declined
  <2>17. NoStaleTerms'
    BY <2>2, <2>4, <2>9, <2>11 DEF NoStaleTerms, Bound
  <2> QED
    BY <2>8, <2>13, <2>14, <2>16, <2>17 DEF IInv, Safe
<1>8. CASE ~MutualAcceptance(accepted, amount)
  <2>1. es[i].type = "OFFER"
    BY <1>1, <1>2, <1>3, <1>8, SecondIsMutual
  <2>2. Answers(Append(es, e), Len(es) + 1)
    <3> HIDE DEF e, es
    <3>1. Append(es, e)[Len(es) + 1] = e /\ Append(es, e)[i] = es[i] /\ i \in 1..(Len(es) + 1 - 1)
      BY <1>2, <1>5, Appending
    <3>2. e.side \in Negotiators
      BY <1>5
    <3> QED
      BY <3>1, <3>2, <2>1, <1>3, <1>5 DEF Answers
  <2>3. NoRejection(accepted.entries) /\ Answered(accepted.entries)
    BY <2>2, <1>1, <1>2, <1>5, <1>6, HistoryGoesOn
  <2>4. /\ threads' = [threads EXCEPT ![party] = accepted]
        /\ job \in OpenStates /\ job' = job /\ posted' = posted /\ agreement' = agreement
    BY <1>8
  <2> HIDE DEF accepted
  <2> QED
    BY <2>3, <2>4, <1>6, BargainingKeeps
<1> QED
  BY <1>7, <1>8

-----------------------------------------------------------------------------
\* A call that confirms nothing, in a thread whose entries it keeps or ends by a refusal.
LEMMA ThreadChangeKeeps ==
    ASSUME IInv, NEW party \in Parties, NEW thread \in Threads,
           threads' = [threads EXCEPT ![party] = thread],
           job' = job, posted' = posted, agreement' = agreement,
           \/ /\ thread.entries = threads[party].entries
              /\ thread.status = threads[party].status
           \/ Active(party) /\ Declined(thread) /\ thread.status = "CLOSED"
    PROVE  IInv'
<1>1. Shape'
  BY DEF IInv, Shape
<1>2. \A p \in Parties : threads'[p] = IF p = party THEN thread ELSE threads[p]
  BY DEF IInv, Shape
<1>3. CASE /\ thread.entries = threads[party].entries
           /\ thread.status = threads[party].status
  <2>1. \A p \in Parties : /\ threads'[p].entries = threads[p].entries
                           /\ threads'[p].status = threads[p].status
    BY <1>2, <1>3
  <2>2. \A p \in Parties : Declined(threads[p]) => Declined(threads'[p])
    BY <2>1 DEF Declined
  <2>3. \A p \in Parties : Declined(threads'[p]) => Declined(threads[p])
    BY <2>1 DEF Declined
  <2>4. ActiveGoesOn'
    BY <2>1 DEF IInv, Safe, ActiveGoesOn, Active
  <2>5. ClosedIsDeclined'
    BY <2>1, <2>2 DEF IInv, Safe, ClosedIsDeclined, Declined
  <2>6. agreement # NoAgreement => agreement.party \in Parties
    BY DEF IInv, Shape
  <2>7. AgreedIsClosed'
    BY <2>1, <2>6 DEF IInv, Safe, AgreedIsClosed, NoAgreement
  <2>8. OneWinner'
    BY <2>1, <2>2, <2>3 DEF IInv, Safe, OneWinner, Active, Declined
  <2>9. NoStaleTerms'
    BY <2>1, <2>6 DEF IInv, Safe, NoStaleTerms, NoAgreement
  <2> QED
    BY <1>1, <2>4, <2>5, <2>7, <2>8, <2>9 DEF IInv, Safe
<1>4. CASE Active(party) /\ Declined(thread) /\ thread.status = "CLOSED"
  <2>1. job # "CONFIRMED" /\ agreement = NoAgreement
    BY <1>4 DEF IInv, Safe, OneWinner, AgreedIsClosed
  <2>2. ActiveGoesOn'
    BY <1>2, <1>4 DEF IInv, Safe, ActiveGoesOn, Active
  <2>3. ClosedIsDeclined'
    BY <1>2, <1>4 DEF IInv, Safe, ClosedIsDeclined, Declined
  <2>4. AgreedIsClosed' /\ OneWinner' /\ NoStaleTerms'
    BY <2>1 DEF AgreedIsClosed, OneWinner, NoStaleTerms, NoAgreement
  <2> QED
    BY <1>1, <2>2, <2>3, <2>4 DEF IInv, Safe
<1> QED
  BY <1>3, <1>4

LEMMA DeclineKeeps ==
    ASSUME IInv, NEW party \in Parties, NEW side \in Sides, Decline(party, side)
    PROVE  IInv'
<1> DEFINE e == RejectBy(side)
           refused == With(threads[party], e)
           thread == [refused EXCEPT !.status = "CLOSED"]
<1>1. e \in Entry /\ e.type = "REJECT"
  BY DEF RejectBy, Entry
<1>2. threads[party] \in Threads /\ threads[party].entries \in Seq(Entry)
  BY ThreadIsTyped DEF IInv, Threads
<1>3. /\ Active(party) /\ threads' = [threads EXCEPT ![party] = thread]
      /\ job' = job /\ posted' = posted /\ agreement' = agreement
  BY DEF Decline
<1> HIDE DEF e
<1>4. refused \in Threads /\ refused.entries = Append(threads[party].entries, e)
  BY <1>1, <1>2, WithIsTyped
<1> HIDE DEF refused
<1>5. /\ thread \in Threads /\ thread.status = "CLOSED"
      /\ thread.entries = Append(threads[party].entries, e)
  BY <1>4 DEF Threads
<1>6. Declined(thread)
  BY <1>1, <1>2, <1>5, Appending DEF Declined
<1> HIDE DEF thread
<1> QED
  BY <1>3, <1>5, <1>6, ThreadChangeKeeps

LEMMA ExpireKeeps ==
    ASSUME IInv, NEW party \in Parties, NEW side \in Sides, Expire(party, side)
    PROVE  IInv'
<1> DEFINE thread == [threads[party] EXCEPT !.expired = @ \cup {side}]
<1>1. threads[party] \in Threads
  BY ThreadIsTyped DEF IInv
<1>2. /\ thread \in Threads /\ thread.status = threads[party].status
      /\ thread.entries = threads[party].entries
  BY <1>1 DEF Threads
<1>3. /\ threads' = [threads EXCEPT ![party] = thread]
      /\ job' = job /\ posted' = posted /\ agreement' = agreement
  BY DEF Expire
<1> HIDE DEF thread
<1> QED
  BY <1>2, <1>3, ThreadChangeKeeps

LEMMA EndJobKeeps == ASSUME IInv, EndJob PROVE IInv'
<1>1. /\ job \in OpenStates /\ job' \in {"CANCELLED", "FAILED"}
      /\ posted' = posted /\ threads' = threads /\ agreement' = agreement
  BY DEF EndJob
<1>2. agreement = NoAgreement
  BY <1>1 DEF IInv, Safe, AgreedIsClosed, OpenStates
<1>3. Shape'
  BY <1>1 DEF IInv, Shape
<1>4. ActiveGoesOn'
  BY <1>1 DEF IInv, Safe, ActiveGoesOn, Active
<1>5. ClosedIsDeclined' /\ AgreedIsClosed' /\ OneWinner' /\ NoStaleTerms'
  BY <1>1, <1>2 DEF ClosedIsDeclined, AgreedIsClosed, OneWinner, NoStaleTerms, OpenStates,
                    NoAgreement
<1> QED
  BY <1>3, <1>4, <1>5 DEF IInv, Safe

LEMMA NextKeeps == ASSUME IInv, [Next]_vars PROVE IInv'
<1>1. CASE UNCHANGED vars
  BY <1>1 DEF vars, IInv, Shape, Safe, ActiveGoesOn, Active, ClosedIsDeclined, Declined,
              AgreedIsClosed, OneWinner, NoStaleTerms
<1>2. CASE Proposals
  <2> PICK party \in Parties, amount \in Prices :
        OpenThread(party, amount) \/ Offer(party, "OPERATOR", amount)
    BY <1>2 DEF Proposals
  <2> QED
    BY OpenThreadKeeps, OfferKeeps DEF Sides
<1>3. CASE Counters
  BY <1>3, OfferKeeps DEF Counters
<1>4. CASE Acceptances
  BY <1>4, AcceptKeeps DEF Acceptances
<1>5. CASE Refusals
  BY <1>5, DeclineKeeps DEF Refusals
<1>6. CASE \E party \in Parties, side \in Sides : Expire(party, side)
  BY <1>6, ExpireKeeps
<1>7. CASE EndJob
  BY <1>7, EndJobKeeps
<1> QED
  BY <1>1, <1>2, <1>3, <1>4, <1>5, <1>6, <1>7 DEF Next

-----------------------------------------------------------------------------
\* The strengthened invariant holds in every reachable state.
THEOREM Invariance == Spec => []IInv
<1>1. IInv /\ [Next]_vars => IInv'
  BY NextKeeps
<1> QED
  BY InitHolds, <1>1, PTL DEF Spec

\* Whoever wins, every other thread of the job is closed with it: however many operators
\* bargain, a confirmed job has the one thread that agreed and none that goes on.
THEOREM OneThreadWins == Spec => []OneWinner
<1>1. IInv => OneWinner
  BY DEF IInv, Safe
<1> QED
  BY Invariance, <1>1, PTL

\* Nobody is bound to terms that moved after the first yes, and the agreed price was
\* offered by one of the two sides.
THEOREM TermsAreCurrent == Spec => []NoStaleTerms
<1>1. IInv => NoStaleTerms
  BY DEF IInv, Safe
<1> QED
  BY Invariance, <1>1, PTL

-----------------------------------------------------------------------------
(* Bargaining implements the deal, step by step. *)

\* The thread is neither lost nor declined.
Visible(thread) == thread.status \in {"ACTIVE", "CLOSED"} /\ ~Declined(thread)

\* The figures its two sides put in it.
Offered(thread) ==
    {price \in Prices :
        \E i \in DOMAIN thread.entries :
            /\ thread.entries[i].type = "OFFER"
            /\ thread.entries[i].side \in Negotiators
            /\ thread.entries[i].amount = price}

LEMMA TableIs ==
    TableOf = {figure \in Parties \X Prices :
                  /\ Visible(threads[figure[1]])
                  /\ job = "CONFIRMED" => figure[2] = agreement.price
                  /\ figure[2] \in Offered(threads[figure[1]])}
BY DEF TableOf, Visible, Offered

LEMMA TableIsNext ==
    TableOf' = {figure \in Parties \X Prices :
                   /\ Visible(threads'[figure[1]])
                   /\ job' = "CONFIRMED" => figure[2] = agreement'.price
                   /\ figure[2] \in Offered(threads'[figure[1]])}
BY DEF TableOf, Visible, Offered, Declined

LEMMA AbstractInit == ASSUME Init PROVE Abstract!Init
<1>1. TableOf = {}
  BY TableIs DEF Init, NoThread, Visible
<1>2. (job \in OpenStates) = TRUE /\ StruckOf = {}
  BY DEF Init, OpenStates, StruckOf
<1> QED
  BY <1>1, <1>2 DEF Abstract!Init

\* An open job with some figures more in one thread.
LEMMA BargainingPuts ==
    ASSUME IInv, job \in OpenStates, job' \in OpenStates,
           NEW party \in Parties, NEW thread \in Threads, thread.status = "ACTIVE",
           threads' = [threads EXCEPT ![party] = thread],
           NEW more \in SUBSET Prices,
           Offered(thread) = more \cup (IF Visible(threads[party])
                                        THEN Offered(threads[party]) ELSE {})
    PROVE  Abstract!Put
<1>1. \A p \in Parties : threads'[p] = IF p = party THEN thread ELSE threads[p]
  BY DEF IInv, Shape
<1>2. Visible(thread) /\ job # "CONFIRMED" /\ job' # "CONFIRMED"
  BY DEF Visible, Declined, OpenStates
<1>3. TableOf' = {figure \in Parties \X Prices :
                     Visible(threads'[figure[1]]) /\ figure[2] \in Offered(threads'[figure[1]])}
  BY <1>2, TableIsNext
<1>4. TableOf = {figure \in Parties \X Prices :
                    Visible(threads[figure[1]]) /\ figure[2] \in Offered(threads[figure[1]])}
  BY <1>2, TableIs
<1>5. ASSUME NEW figure \in Parties \X Prices
      PROVE  figure \in TableOf' <=> figure \in TableOf \cup ({party} \X more)
  <2>1. CASE figure[1] = party
    <3>1. threads'[figure[1]] = thread
      BY <1>1, <2>1
    <3>2. figure \in {party} \X more <=> figure[2] \in more
      BY <2>1
    <3> QED
      BY <1>2, <1>3, <1>4, <2>1, <3>1, <3>2
  <2>2. CASE figure[1] # party
    <3>1. threads'[figure[1]] = threads[figure[1]]
      BY <1>1, <2>2
    <3>2. figure \notin {party} \X more
      BY <2>2
    <3> QED
      BY <1>3, <1>4, <3>1, <3>2
  <2> QED
    BY <2>1, <2>2
<1>6. /\ TableOf' \subseteq Parties \X Prices
      /\ TableOf \cup ({party} \X more) \subseteq Parties \X Prices
  BY <1>3, <1>4
<1>7. TableOf' = TableOf \cup ({party} \X more)
  BY <1>5, <1>6
<1>8. (job \in OpenStates) = TRUE /\ (job' \in OpenStates) = TRUE
  OBVIOUS
<1>9. StruckOf = {} /\ StruckOf' = {}
  BY <1>2 DEF StruckOf
<1> QED
  BY <1>7, <1>8, <1>9 DEF Abstract!Put

\* A longer history has the figures of the shorter one and, for an offer, its own.
LEMMA OfferedAfter ==
    ASSUME NEW old \in Threads, NEW e \in Entry, NEW new \in Threads,
           new.entries = Append(old.entries, e)
    PROVE  Offered(new) = Offered(old) \cup
               {price \in Prices : /\ e.type = "OFFER" /\ e.side \in Negotiators
                                   /\ e.amount = price}
<1>1. old.entries \in Seq(Entry)
  BY DEF Threads
<1> QED
  BY <1>1, Appending DEF Offered

LEMMA EntryPuts ==
    ASSUME IInv, job \in OpenStates, job' \in OpenStates,
           NEW party \in Parties, NEW e \in Entry, Active(party),
           threads' = [threads EXCEPT ![party] = With(threads[party], e)]
    PROVE  Abstract!Put
<1> DEFINE thread == With(threads[party], e)
           more == {price \in Prices : /\ e.type = "OFFER" /\ e.side \in Negotiators
                                       /\ e.amount = price}
<1>1. threads[party] \in Threads
  BY ThreadIsTyped DEF IInv
<1>2. /\ thread \in Threads /\ thread.status = "ACTIVE"
      /\ thread.entries = Append(threads[party].entries, e)
  BY <1>1, WithIsTyped DEF Active
<1> HIDE DEF thread
<1>3. Offered(thread) = Offered(threads[party]) \cup more
  BY <1>1, <1>2, OfferedAfter
<1>4. Visible(threads[party])
  BY DEF Visible, Declined, Active
<1>5. more \in SUBSET Prices
  OBVIOUS
<1> HIDE DEF more
<1> QED
  BY <1>2, <1>3, <1>4, <1>5, BargainingPuts DEF thread

LEMMA OpenThreadPuts ==
    ASSUME IInv, NEW party \in Parties, NEW amount \in Prices, OpenThread(party, amount)
    PROVE  Abstract!Put
<1> DEFINE e == OfferBy("OPERATOR", amount)
           thread == [status |-> "ACTIVE", entries |-> Append(Seed, e), expired |-> {}]
<1>1. e \in Entry
  BY EntriesAreTyped DEF Sides
<1>2. Seed \in Seq(Entry)
  <2>1. CASE posted = "NONE"
    BY <2>1 DEF Seed
  <2>2. CASE posted # "NONE"
    <3>1. OfferBy("BUSINESS", posted) \in Entry
      BY <2>2, EntriesAreTyped DEF Sides, IInv, Shape
    <3> QED
      BY <2>2, <3>1 DEF Seed
  <2> QED
    BY <2>1, <2>2
<1>3. Append(Seed, e) \in Seq(Entry)
  BY <1>1, <1>2, Appending
<1>4. thread \in Threads /\ thread.status = "ACTIVE"
  BY <1>3 DEF Threads
<1>5. /\ threads' = [threads EXCEPT ![party] = thread]
      /\ job \in OpenStates /\ ToNegotiating /\ threads[party].status = "NONE"
  BY DEF OpenThread
<1>6. ~Visible(threads[party])
  BY <1>5 DEF Visible
<1>7. Offered(thread) \in SUBSET Prices
  BY DEF Offered
<1> HIDE DEF thread
<1> QED
  BY <1>4, <1>5, <1>6, <1>7, MovedOn, BargainingPuts

LEMMA OfferPuts ==
    ASSUME IInv, NEW party \in Parties, NEW side \in Sides, NEW amount \in Prices,
           Offer(party, side, amount)
    PROVE  Abstract!Put
BY EntryPuts, EntriesAreTyped, MovedOn DEF Offer

LEMMA AcceptStrikes ==
    ASSUME IInv, NEW party \in Parties, NEW side \in Negotiators, Accept(party, side)
    PROVE  Abstract!Put \/ Abstract!Strike
<1> PICK i \in DOMAIN threads[party].entries :
        LET amount == threads[party].entries[i].amount
            accepted == With(threads[party], AcceptBy(side, amount))
        IN
        /\ job \in OpenStates
        /\ Active(party)
        /\ HasRoom(1)
        /\ IsFigureFor(threads[party], side, i)
        /\ IF MutualAcceptance(accepted, amount)
           THEN /\ job' = "CONFIRMED"
                /\ agreement' = [party |-> party, price |-> amount]
                /\ posted' = amount
                /\ CloseThreads(party, accepted)
           ELSE /\ threads' = [threads EXCEPT ![party] = accepted]
                /\ UNCHANGED <<job, posted, agreement>>
  BY DEF Accept
<1> DEFINE es == threads[party].entries
           amount == es[i].amount
           e == AcceptBy(side, amount)
           accepted == With(threads[party], e)
<1>1. /\ threads[party] \in Threads /\ threads[party].status = "ACTIVE"
      /\ NoRejection(es) /\ Answered(es)
  BY ThreadIsTyped DEF IInv, Safe, ActiveGoesOn, Active
<1>2. amount \in Prices
  BY <1>1 DEF Threads, IsFigureFor, Standing, Entry
<1>3. e \in Entry /\ e.type = "ACCEPT"
  BY <1>2, OtherOfOther, EntriesAreTyped DEF AcceptBy
<1>4. CASE ~MutualAcceptance(accepted, amount)
  <2>1. threads' = [threads EXCEPT ![party] = accepted] /\ job' = job /\ job \in OpenStates
    BY <1>4
  <2> HIDE DEF e
  <2>2. Abstract!Put
    BY <1>3, <2>1, EntryPuts
  <2> QED
    BY <2>2
<1>5. CASE MutualAcceptance(accepted, amount)
  <2>1. /\ job' = "CONFIRMED" /\ agreement'.party = party /\ agreement'.price = amount
        /\ CloseThreads(party, accepted) /\ job \in OpenStates
    BY <1>5
  <2>2. Bound(accepted.entries, amount)
    BY <1>1, <1>2, <1>5, MutualIsBound
  <2>3. accepted \in Threads /\ accepted.entries = Append(es, e)
    BY <1>1, <1>3, WithIsTyped
  <2>4. threads'[party].entries = Append(es, e)
    BY <2>1, <2>3 DEF CloseThreads, Threads
  <2>5. OneWinner'
    BY AcceptKeeps DEF IInv, Safe
  <2>6. Offered(threads[party]) = Offered(threads'[party])
    <3>1. Offered(accepted) = Offered(threads[party])
      <4> HIDE DEF e, accepted
      <4>1. Offered(accepted) = Offered(threads[party]) \cup
                {price \in Prices : /\ e.type = "OFFER" /\ e.side \in Negotiators
                                    /\ e.amount = price}
        BY <1>1, <1>3, <2>3, OfferedAfter
      <4> QED
        BY <4>1, <1>3
    <3>2. Offered(threads'[party]) = Offered(accepted)
      BY <2>3, <2>4 DEF Offered
    <3> QED
      BY <3>1, <3>2
  <2> HIDE DEF e, amount, accepted
  <2>7. amount \in Offered(accepted)
    <3>1. PICK first \in DOMAIN accepted.entries :
              /\ accepted.entries[first].type = "ACCEPT"
              /\ \E k \in 1..(first - 1) :
                     /\ accepted.entries[k].type = "OFFER"
                     /\ accepted.entries[k].side = Other(accepted.entries[first].side)
                     /\ accepted.entries[k].amount = amount
      BY <2>2 DEF Bound
    <3>2. PICK k \in 1..(first - 1) :
              /\ accepted.entries[k].type = "OFFER"
              /\ accepted.entries[k].side = Other(accepted.entries[first].side)
              /\ accepted.entries[k].amount = amount
      BY <3>1
    <3>3. k \in DOMAIN accepted.entries
      BY <2>3, <3>1, <3>2 DEF Threads
    <3>4. accepted.entries[k].side \in Negotiators
      BY <3>2 DEF Other, Negotiators
    <3> QED
      BY <1>2, <3>2, <3>3, <3>4 DEF Offered
  <2>8. amount \in Offered(threads'[party]) /\ amount \in Offered(threads[party])
    BY <2>3, <2>4, <2>6, <2>7 DEF Offered
  <2>9. \A p \in Parties : Visible(threads'[p]) <=> p = party
    <3>1. \A p \in Parties : /\ threads'[p].status # "ACTIVE"
                             /\ p = party <=> /\ threads'[p].status = "CLOSED"
                                              /\ ~Declined(threads'[p])
      BY <2>1, <2>5 DEF OneWinner, Active, Declined
    <3> QED
      BY <3>1 DEF Visible
  <2>10. ASSUME NEW figure \in Parties \X Prices
         PROVE  figure \in TableOf' <=> figure = <<party, amount>>
    <3>1. figure \in TableOf' <=> /\ figure[1] = party /\ figure[2] = amount
                                  /\ figure[2] \in Offered(threads'[figure[1]])
      BY <2>1, <2>9, TableIsNext
    <3>2. figure = <<party, amount>> <=> figure[1] = party /\ figure[2] = amount
      OBVIOUS
    <3> QED
      BY <3>1, <3>2, <2>8
  <2>11. TableOf' \subseteq Parties \X Prices /\ <<party, amount>> \in Parties \X Prices
    BY <1>2, TableIsNext
  <2>12. TableOf' = {<<party, amount>>}
    BY <2>10, <2>11
  <2>13. StruckOf' = {<<party, amount>>}
    BY <2>1 DEF StruckOf
  <2>14. <<party, amount>> \in TableOf
    <3>1. Visible(threads[party]) /\ job # "CONFIRMED"
      BY <1>1, <2>1 DEF Visible, Declined, OpenStates
    <3> QED
      BY <2>8, <2>11, <3>1, TableIs
  <2>15. (job \in OpenStates) = TRUE /\ (job' \in OpenStates) = FALSE
    BY <2>1 DEF OpenStates
  <2>16. Abstract!Strike
    BY <2>12, <2>13, <2>14, <2>15 DEF Abstract!Strike
  <2> QED
    BY <2>16
<1> QED
  BY <1>4, <1>5

LEMMA DeclineLeaves ==
    ASSUME IInv, NEW party \in Parties, NEW side \in Sides, Decline(party, side)
    PROVE  Abstract!Leave
<1> DEFINE e == RejectBy(side)
           refused == With(threads[party], e)
           thread == [refused EXCEPT !.status = "CLOSED"]
<1>1. e \in Entry /\ e.type = "REJECT"
  BY DEF RejectBy, Entry
<1>2. threads[party] \in Threads /\ threads[party].entries \in Seq(Entry)
  BY ThreadIsTyped DEF IInv, Threads
<1>3. /\ threads' = [threads EXCEPT ![party] = thread]
      /\ job' = job /\ agreement' = agreement
  BY DEF Decline
<1> HIDE DEF e
<1>4. refused \in Threads /\ refused.entries = Append(threads[party].entries, e)
  BY <1>1, <1>2, WithIsTyped
<1> HIDE DEF refused
<1>5. thread.status = "CLOSED" /\ thread.entries = Append(threads[party].entries, e)
  BY <1>4 DEF Threads
<1>6. ~Visible(thread)
  BY <1>1, <1>2, <1>5, Appending DEF Declined, Visible
<1> HIDE DEF thread
<1>7. \A p \in Parties : threads'[p] = IF p = party THEN thread ELSE threads[p]
  BY <1>3 DEF IInv, Shape
<1>8. ASSUME NEW figure \in Parties \X Prices
      PROVE  figure \in TableOf' <=> figure \in TableOf \ ({party} \X Prices)
  <2>1. figure \in {party} \X Prices <=> figure[1] = party
    OBVIOUS
  <2> QED
    BY <1>3, <1>6, <1>7, <2>1, TableIs, TableIsNext
<1>9. TableOf' \subseteq Parties \X Prices /\ TableOf \subseteq Parties \X Prices
  BY TableIs, TableIsNext
<1>10. TableOf' = TableOf \ ({party} \X Prices)
  BY <1>8, <1>9
<1>11. StruckOf' = StruckOf /\ (job' \in OpenStates) = (job \in OpenStates)
  BY <1>3 DEF StruckOf
<1> QED
  BY <1>10, <1>11 DEF Abstract!Leave

\* Without a new entry or another status the table stays as it is.
LEMMA TableKept ==
    ASSUME \A p \in Parties : /\ threads'[p].entries = threads[p].entries
                              /\ threads'[p].status = threads[p].status,
           job' = job \/ (job \in OpenStates /\ job' \in {"CANCELLED", "FAILED"}),
           agreement' = agreement
    PROVE  TableOf' = TableOf /\ StruckOf' = StruckOf
<1>1. \A p \in Parties : /\ Visible(threads'[p]) <=> Visible(threads[p])
                         /\ Offered(threads'[p]) = Offered(threads[p])
  BY DEF Visible, Declined, Offered
<1>2. job' = "CONFIRMED" <=> job = "CONFIRMED"
  BY DEF OpenStates
<1>3. \A figure \in Parties \X Prices : figure \in TableOf' <=> figure \in TableOf
  BY <1>1, <1>2, TableIs, TableIsNext
<1>4. TableOf' \subseteq Parties \X Prices /\ TableOf \subseteq Parties \X Prices
  BY TableIs, TableIsNext
<1>5. StruckOf' = StruckOf
  BY <1>2 DEF StruckOf
<1> QED
  BY <1>3, <1>4, <1>5

LEMMA ExpireStutters ==
    ASSUME IInv, NEW party \in Parties, NEW side \in Sides, Expire(party, side)
    PROVE  UNCHANGED Abstract!vars
<1>1. /\ threads' = [threads EXCEPT ![party].expired = @ \cup {side}]
      /\ job' = job /\ agreement' = agreement
  BY DEF Expire
<1>2. \A p \in Parties : threads[p] \in Threads
  BY ThreadIsTyped DEF IInv
<1>3. \A p \in Parties : /\ threads'[p].entries = threads[p].entries
                         /\ threads'[p].status = threads[p].status
  BY <1>1, <1>2 DEF Threads, IInv, Shape
<1>4. TableOf' = TableOf /\ StruckOf' = StruckOf
  BY <1>1, <1>3, TableKept
<1> QED
  BY <1>1, <1>4 DEF Abstract!vars

LEMMA EndJobCallsOff == ASSUME EndJob PROVE Abstract!CallOff
<1>1. TableOf' = TableOf /\ StruckOf' = StruckOf
  BY TableKept DEF EndJob
<1>2. (job \in OpenStates) = TRUE /\ (job' \in OpenStates) = FALSE
  BY DEF EndJob, OpenStates
<1> QED
  BY <1>1, <1>2 DEF Abstract!CallOff

LEMMA NextRefines == ASSUME IInv, [Next]_vars PROVE [Abstract!Next]_(Abstract!vars)
<1>1. CASE UNCHANGED vars
  <2>1. TableOf' = TableOf /\ StruckOf' = StruckOf
    BY <1>1, TableKept DEF vars
  <2> QED
    BY <1>1, <2>1 DEF vars, Abstract!vars
<1>2. CASE Proposals
  <2> PICK party \in Parties, amount \in Prices :
        OpenThread(party, amount) \/ Offer(party, "OPERATOR", amount)
    BY <1>2 DEF Proposals
  <2>1. "OPERATOR" \in Sides
    BY DEF Sides
  <2> QED
    BY <2>1, OpenThreadPuts, OfferPuts DEF Abstract!Next
<1>3. CASE Counters
  BY <1>3, OfferPuts DEF Counters, Abstract!Next
<1>4. CASE Acceptances
  BY <1>4, AcceptStrikes DEF Acceptances, Abstract!Next
<1>5. CASE Refusals
  BY <1>5, DeclineLeaves DEF Refusals, Abstract!Next
<1>6. CASE \E party \in Parties, side \in Sides : Expire(party, side)
  BY <1>6, ExpireStutters
<1>7. CASE EndJob
  BY <1>7, EndJobCallsOff DEF Abstract!Next
<1> QED
  BY <1>1, <1>2, <1>3, <1>4, <1>5, <1>6, <1>7 DEF Next

\* However many threads, offers and refusals there are, bargaining strikes at most one
\* deal, with one party, at a figure that was on the table between it and the business.
THEOREM BargainingIsADeal == Spec => ImplementsDeal
<1>1. Init => Abstract!Init
  BY AbstractInit
<1>2. IInv /\ [Next]_vars => [Abstract!Next]_(Abstract!vars)
  BY NextRefines
<1> QED
  BY <1>1, <1>2, Invariance, PTL DEF Spec, ImplementsDeal, Abstract!Spec
=============================================================================
