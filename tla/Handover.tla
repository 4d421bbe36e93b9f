------------------------------ MODULE Handover ------------------------------
(***************************************************************************)
(* Handing the goods to the recipient: the codes, the recipient's link and *)
(* the driver's calls behind the steps AT_DESTINATION and DELIVERED of     *)
(* JobLifecycle.                                                           *)
(*                                                                         *)
(* The driver's call verifies a code in a transaction of its own and moves *)
(* the job in a second one; anything may happen between the two.  The      *)
(* recipient opens the link in one request and confirms in a later one.    *)
(* A recipient phone is on file.                                           *)
(***************************************************************************)
EXTENDS Naturals, Sequences, FiniteSets

CONSTANTS
    Calls,        \* the driver's calls in flight (devices, double taps)
    Rules,        \* the delivery rules of the value bands: groups of methods
    MaxAttempts,  \* wrong codes after which a code is locked
    MaxMisses,    \* bound on the wrong codes entered for one code
    MaxResumes    \* bound on how often a dispute is resumed

Methods == {"OTP", "SIGNATURE", "PHOTO"}

ASSUME RulesAssumption == Rules \subseteq SUBSET SUBSET Methods
ASSUME AttemptsAssumption ==
    MaxAttempts \in Nat \ {0} /\ MaxMisses \in Nat /\ MaxResumes \in Nat

VARIABLES
    status, before,  \* the job's status, and the one it was disputed in
    rule,            \* the rule of the job's band
    codes,           \* the recipient's codes in the order they were issued
    link,            \* the live link: its generation, 0 before the first
    held,            \* the link the recipient opened
    receipts,        \* the recipient's confirmation rows
    issues,          \* the links the recipient reported an issue through
    verified,        \* call -> the code it verified, 0 for none
    resumes,         \* how often a dispute was resumed
    proof            \* the proof of delivery

handoverVars == <<status, before, rule, codes, link, held, receipts, issues, verified, resumes, proof>>

\* `wrong` is the attempts column, `missed` the wrong codes really entered.
NewCode == [wrong |-> 0, missed |-> 0, consumed |-> FALSE, lapsed |-> FALSE]
NoLink == [generation |-> 0, used |-> FALSE, lapsed |-> FALSE]
NoProof == [methods |-> {}, code |-> 0]

HandoverInit ==
    /\ status = "IN_TRANSIT" /\ before = "NONE"
    /\ rule \in Rules
    /\ codes = <<>>
    /\ link = NoLink /\ held = 0
    /\ receipts = {} /\ issues = {}
    /\ verified = [c \in Calls |-> 0]
    /\ resumes = 0
    /\ proof = NoProof

-----------------------------------------------------------------------------
(* Codes. *)

\* The newest code that was not consumed is the one looked at.
IsNewest(i) ==
    /\ i \in DOMAIN codes
    /\ ~codes[i].consumed
    /\ \A j \in DOMAIN codes : j > i => codes[j].consumed

\* Neither locked nor expired.
IsOpen(code) == code.wrong < MaxAttempts /\ ~code.lapsed

\* The code in hand is entered right or wrong; a wrong one is counted.
Missed(code) == [code EXCEPT !.wrong = @ + 1, !.missed = @ + 1]

Consumed(code) == [code EXCEPT !.consumed = TRUE]

\* Arriving, and resuming at the destination: a new code, and a new link in
\* the place of the old one.
Issue ==
    /\ codes' = Append(codes, NewCode)
    /\ link' = [NoLink EXCEPT !.generation = link.generation + 1]

Arrive ==
    /\ status = "IN_TRANSIT"
    /\ status' = "AT_DESTINATION"
    /\ Issue
    /\ UNCHANGED <<before, rule, issues, held, receipts, verified, resumes, proof>>

CodeLapses ==
    /\ \E i \in DOMAIN codes :
           /\ ~codes[i].lapsed /\ ~codes[i].consumed
           /\ codes' = [codes EXCEPT ![i].lapsed = TRUE]
    /\ UNCHANGED <<status, before, rule, issues, link, held, receipts, verified, resumes, proof>>

LinkLapses ==
    /\ link.generation > 0 /\ ~link.lapsed
    /\ link' = [link EXCEPT !.lapsed = TRUE]
    /\ UNCHANGED <<status, before, rule, issues, codes, held, receipts, verified, resumes, proof>>

-----------------------------------------------------------------------------
(* The driver. *)

\* verify_otp in a transaction of its own, whatever the job's status: a right
\* code is remembered, not consumed ...
Verify(c) ==
    /\ verified[c] = 0
    /\ \E i \in DOMAIN codes :
           /\ IsNewest(i) /\ IsOpen(codes[i])
           /\ verified' = [verified EXCEPT ![c] = i]
    /\ UNCHANGED <<status, before, rule, issues, codes, link, held, receipts, resumes, proof>>

\* ... a wrong one is counted, although the call fails.
VerifyWrong(c) ==
    /\ verified[c] = 0
    /\ \E i \in DOMAIN codes :
           /\ IsNewest(i) /\ IsOpen(codes[i]) /\ codes[i].missed < MaxMisses
           /\ codes' = [codes EXCEPT ![i] = Missed(@)]
    /\ UNCHANGED <<status, before, rule, issues, link, held, receipts, verified, resumes, proof>>

\* Confirmations recorded before the last resume no longer count.
Counted == {r \in receipts : r.epoch = resumes}

\* The methods at hand as the job moves.
Present(c, given) ==
    given \cup (IF verified[c] # 0 THEN {"OTP"} ELSE {}) \cup {r.method : r \in Counted}

Complete(methods) == \A group \in rule : methods \cap group # {}

\* Mutant: the code is consumed, but the rest of the call fails.
DeliverBurning(c, given) ==
    /\ status \in {"AT_DESTINATION", "DISPUTED"}
    /\ IF status = "AT_DESTINATION" /\ Complete(Present(c, given))
       THEN /\ status' = "DELIVERED"
            /\ proof' = [methods |-> Present(c, given), code |-> verified[c]]
       ELSE UNCHANGED <<status, proof>>
    /\ codes' = [i \in DOMAIN codes |-> IF i = verified[c] THEN Consumed(codes[i]) ELSE codes[i]]
    /\ verified' = [verified EXCEPT ![c] = 0]
    /\ UNCHANGED <<before, rule, issues, link, held, receipts, resumes>>

\* confirm_delivery's transition, with a code verified before or none and with
\* the signature and photos `given`.
Deliver(c, given) ==
    /\ status = "AT_DESTINATION"
    /\ Complete(Present(c, given))
    /\ status' = "DELIVERED"
    /\ proof' = [methods |-> Present(c, given), code |-> verified[c]]
    /\ codes' = [i \in DOMAIN codes |-> IF i = verified[c] THEN Consumed(codes[i]) ELSE codes[i]]
    /\ verified' = [verified EXCEPT ![c] = 0]
    /\ UNCHANGED <<before, rule, issues, link, held, receipts, resumes>>

\* The transition is refused; the code stays as it was.
DeliverRefused(c) ==
    /\ verified[c] # 0
    /\ \/ status # "AT_DESTINATION"
       \/ \E given \in SUBSET {"SIGNATURE", "PHOTO"} : ~Complete(Present(c, given))
    /\ verified' = [verified EXCEPT ![c] = 0]
    /\ UNCHANGED <<status, before, rule, issues, codes, link, held, receipts, resumes, proof>>

-----------------------------------------------------------------------------
(* The recipient. *)

\* resolve_recipient: the request holds on to the link it opened.
OpenLink ==
    /\ link.generation > 0 /\ ~link.lapsed
    /\ held' = link.generation
    /\ UNCHANGED <<status, before, rule, issues, codes, link, receipts, verified, resumes, proof>>

\* Mutant: the link is not read again under the job's lock.
MayConfirmHeld == held > 0 /\ status = "AT_DESTINATION"

\* Each request reads the link it opened again: replaced links are gone.
LinkLives == held > 0 /\ held = link.generation /\ ~link.lapsed

\* Under the job's lock; the link serves for one confirmation.
MayConfirm == LinkLives /\ ~link.used /\ status = "AT_DESTINATION"

\* confirm_receipt with the right code, and a signature or not.
ConfirmReceipt(signed) ==
    /\ MayConfirm
    /\ \E i \in DOMAIN codes :
           /\ IsNewest(i) /\ IsOpen(codes[i])
           /\ receipts' = receipts \cup
                  {[method |-> m, epoch |-> resumes, through |-> held, code |-> i] :
                       m \in {"OTP"} \cup (IF signed THEN {"SIGNATURE"} ELSE {})}
           /\ codes' = [codes EXCEPT ![i] = Consumed(@)]
    /\ link' = [link EXCEPT !.used = TRUE]
    /\ UNCHANGED <<status, before, rule, issues, held, verified, resumes, proof>>

\* With a wrong code the whole call rolls back, the count of it included.
ConfirmReceiptWrong ==
    /\ MayConfirm
    /\ \E i \in DOMAIN codes :
           /\ IsNewest(i) /\ IsOpen(codes[i]) /\ codes[i].missed < MaxMisses
           /\ codes' = [codes EXCEPT ![i].missed = @ + 1]
    /\ UNCHANGED <<status, before, rule, issues, link, held, receipts, verified, resumes, proof>>

\* An issue may be reported at any time, without a code; nothing else moves.
ReportIssue ==
    /\ LinkLives /\ held \notin issues
    /\ issues' = issues \cup {held}
    /\ UNCHANGED <<status, before, rule, codes, link, held, receipts, verified, resumes, proof>>

-----------------------------------------------------------------------------
(* Disputes. *)

OpenDispute ==
    /\ status \in {"IN_TRANSIT", "AT_DESTINATION", "DELIVERED"}
    /\ status' = "DISPUTED" /\ before' = status
    /\ UNCHANGED <<rule, issues, codes, link, held, receipts, verified, resumes, proof>>

Resume ==
    /\ status = "DISPUTED" /\ resumes < MaxResumes
    /\ status' = before /\ before' = "NONE"
    /\ resumes' = resumes + 1
    /\ IF before = "AT_DESTINATION" THEN Issue ELSE UNCHANGED <<codes, link>>
    /\ UNCHANGED <<rule, issues, held, receipts, verified, proof>>

\* Staff rule on the dispute or fail the job, or the sender closes it.
End ==
    /\ status \in {"IN_TRANSIT", "AT_DESTINATION", "DELIVERED", "DISPUTED"}
    /\ status' = "ENDED"
    /\ UNCHANGED <<before, rule, issues, codes, link, held, receipts, verified, resumes, proof>>

-----------------------------------------------------------------------------
Drive ==
    \/ Arrive
    \/ \E c \in Calls :
           \/ Verify(c)
           \/ VerifyWrong(c)
           \/ \E given \in SUBSET {"SIGNATURE", "PHOTO"} : Deliver(c, given)
           \/ DeliverRefused(c)

Receive ==
    \/ OpenLink
    \/ \E signed \in BOOLEAN : ConfirmReceipt(signed)
    \/ ConfirmReceiptWrong
    \/ ReportIssue

HandoverNext == Drive \/ Receive \/ CodeLapses \/ LinkLapses \/ OpenDispute \/ Resume \/ End

HandoverSpec == HandoverInit /\ [][HandoverNext]_handoverVars

-----------------------------------------------------------------------------
(* Properties. *)

Code == [wrong : 0..MaxAttempts, missed : 0..MaxMisses, consumed : BOOLEAN, lapsed : BOOLEAN]

\* Every variable keeps its type: no code takes more wrong attempts than its
\* limit.
HandoverTypeOK ==
    /\ status \in {"IN_TRANSIT", "AT_DESTINATION", "DELIVERED", "DISPUTED", "ENDED"}
    /\ before \in {"NONE", "IN_TRANSIT", "AT_DESTINATION", "DELIVERED"}
    /\ rule \in Rules
    /\ codes \in Seq(Code) /\ Len(codes) <= MaxResumes + 1
    /\ link \in [generation : 0..(MaxResumes + 1), used : BOOLEAN, lapsed : BOOLEAN]
    /\ held \in 0..link.generation
    /\ receipts \subseteq [method : {"OTP", "SIGNATURE"}, epoch : 0..MaxResumes,
                           through : 1..(MaxResumes + 1), code : DOMAIN codes]
    /\ issues \subseteq 1..link.generation
    /\ verified \in [Calls -> 0..Len(codes)]
    /\ resumes \in 0..MaxResumes
    /\ proof \in [methods : SUBSET Methods, code : 0..Len(codes)]

\* A code is consumed exactly when it served: a refused delivery or a failed
\* receipt burns no code, and no proof rests on a code left open.
CodesAccounted ==
    \A i \in DOMAIN codes :
        codes[i].consumed <=> proof.code = i \/ (\E r \in receipts : r.code = i)

\* The recipient confirms once per link, and what counts was confirmed through
\* the link that is live: never through one replaced meanwhile.
ReceiptsThroughLiveLink ==
    /\ \A r, s \in receipts : r.method = s.method /\ r.through = s.through => r = s
    /\ status = "AT_DESTINATION" =>
           \A r \in Counted : r.through = link.generation /\ link.used

=============================================================================
