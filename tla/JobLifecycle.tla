---------------------------- MODULE JobLifecycle ----------------------------
(***************************************************************************)
(* One job from its draft to its settlement: the transition engine and the *)
(* services that call it.  Every service locks the job row, so a call is   *)
(* one atomic step; the expiry sweep, which reads its candidates before it *)
(* locks them, takes two.                                                  *)
(*                                                                         *)
(* Left to other modules: the codes behind a handover, idempotent replays, *)
(* the threads of a negotiation, incidents, statements of several jobs.    *)
(***************************************************************************)
EXTENDS JobStates, Sequences

CONSTANTS
    Drivers,      \* drivers of the party that may win the job
    Prices,       \* prices the parties may agree on
    Fee,          \* the commission of each price
    ProofRules,   \* custody_proof_rules: stage, band -> groups of methods
    Givens,       \* bound: the sets of methods a driver presents
    MaxDisputes   \* bound on how often the job is disputed

Methods == {"OTP", "SIGNATURE", "PHOTO", "IN_APP"}
Stages == {"PICKUP", "DELIVERY"}

ASSUME FeeAssumption == Fee \in [Prices -> Nat]
ASSUME RulesAssumption ==
    /\ ProofRules \in [Stages -> [Bands -> SUBSET SUBSET Methods]]
    /\ \A stage \in Stages, b \in Bands : ProofRules[stage][b] # {}
ASSUME BoundAssumption == MaxDisputes \in Nat /\ Givens \subseteq SUBSET Methods
ASSUME NamesAssumption == "NONE" \notin Drivers \cup Prices

VARIABLES
    status, band, stamps,  \* the job row; stamps: statuses whose timestamp is set
    price,        \* the agreed price, "NONE" before the agreement
    assignment,   \* the assigned driver, "NONE" before
    approval,     \* the high-value decision
    confirmed,    \* methods recorded ahead of a handover that still count
    proof,        \* methods of the proof rows, {} without a row
    payment,      \* the sender recorded paying the operator
    commission,   \* the commission record with the sum of its adjustments
    billed,       \* the commission is on a statement
    disputes,     \* the dispute rows with their resolutions
    ending,       \* the cancellation or failure record
    windowClosed, \* the post-completion dispute window has passed
    listed        \* the job is in the candidate list of a running sweep

jobRow == <<status, band, stamps>>
custody == <<confirmed, proof>>
money == <<payment, commission, billed>>
parties == <<price, assignment, approval>>
vars == <<jobRow, parties, custody, money, disputes, ending, windowClosed, listed>>

NoCommission == [recorded |-> FALSE, fee |-> 0, reduced |-> 0]
NoEnding == [kind |-> "NONE", at |-> "NONE", by |-> "NONE"]

-----------------------------------------------------------------------------
(* The transition engine. *)

\* The engine's own writes: the rule is looked up, the caller matched, the
\* status set and its timestamp stamped the first time only.
Transition(to, tokens) ==
    /\ Permitted(status, to, tokens)
    /\ status' = to
    /\ stamps' = stamps \cup ({to} \cap StampedStatuses)

\* OPEN stands for every state of a dispute but RESOLVED.
DisputeOpen == \E i \in DOMAIN disputes : disputes[i].state = "OPEN"

\* The proof the methods make satisfies every group of the band's rule.
ProofComplete(stage, methods) ==
    \A group \in ProofRules[stage][band] : methods \cap group # {}

\* The approval of a high-value job stands (a reversed rejection is an
\* approval by a Platform Admin).
HighValueApproved ==
    /\ band = "HIGH" => approval \in StaffRoles \cup {"REVERSED"}
    /\ band = "VERY_HIGH" => approval \in {"PLATFORM_ADMIN", "REVERSED"}

\* A binding ruling above STANDARD is a Platform Admin's.
AdminBandAuthorised(role) == band # "STANDARD" => role = "PLATFORM_ADMIN"

\* What a resumed job goes on with: an assignment that could be made today, as far
\* as this module sees it.
AssignmentStands == assignment # "NONE" /\ HighValueApproved

\* What the engine derives for the caller who is the assigned driver.
DriverTokens == IF assignment = "NONE" THEN {} ELSE {"ASSIGNED_DRIVER"}

\* The commission record, created by the first completion only.
Earned ==
    IF commission.recorded THEN commission
    ELSE [recorded |-> TRUE, fee |-> Fee[price], reduced |-> 0]

Init ==
    /\ status = "DRAFT" /\ band = "NONE" /\ stamps = {}
    /\ price = "NONE" /\ assignment = "NONE" /\ approval = "NONE"
    /\ confirmed = [stage \in Stages |-> {}]
    /\ proof = [stage \in Stages |-> {}]
    /\ payment = FALSE /\ commission = NoCommission /\ billed = FALSE
    /\ disputes = <<>>
    /\ ending = NoEnding
    /\ windowClosed = FALSE
    /\ listed = FALSE

-----------------------------------------------------------------------------
(* Before custody: publishing, agreeing, cancelling, expiring. *)

\* submit_job: the declared value's band is frozen on publication.
Submit ==
    /\ \E tokens \in {{"BUSINESS_OWNER_OR_DISPATCHER"}, {"ADMIN"}} :
           Transition("REQUESTED", tokens)
    /\ band' \in Bands
    /\ UNCHANGED <<parties, custody, money, disputes, ending, windowClosed, listed>>

\* An offer in a negotiation thread.
Offer(side) ==
    /\ Transition("NEGOTIATING", {side})
    /\ UNCHANGED <<band, parties, custody, money, disputes, ending, windowClosed, listed>>

\* A mutual acceptance in a thread; a thread exists once an offer was made.
Confirm(side, amount) ==
    /\ status = "NEGOTIATING"
    /\ Transition("CONFIRMED", {side})
    /\ price' = amount
    /\ UNCHANGED <<band, assignment, approval, custody, money, disputes, ending,
                   windowClosed, listed>>

\* cancel and fail write one record of how the job ended.
EndsAs(kind, by) == ending' = [kind |-> kind, at |-> status, by |-> by]

\* A draft's band is frozen when it is cancelled, too.
FreezeBand ==
    IF status = "DRAFT" THEN band' \in Bands ELSE UNCHANGED band

CancelByBusiness ==
    /\ Transition("CANCELLED", {"BUSINESS_PARTY"})
    /\ FreezeBand
    /\ EndsAs("CANCELLED", "BUSINESS")
    /\ UNCHANGED <<parties, custody, money, disputes, windowClosed, listed>>

\* Staff cancel with a reason; above STANDARD only a Platform Admin does.  A
\* disputed job is routed by a resolution, never by a plain cancel.
CancelByStaff(role) ==
    /\ status # "DISPUTED"
    /\ status = "DRAFT" \/ band = "STANDARD" \/ role = "PLATFORM_ADMIN"
    /\ Transition("CANCELLED", StaffTokens(role))
    /\ FreezeBand
    /\ EndsAs("CANCELLED", "STAFF")
    /\ UNCHANGED <<parties, custody, money, disputes, windowClosed, listed>>

\* Mutant: the candidate query selects the wrong status.
ListDrafts ==
    /\ ~listed
    /\ status = "DRAFT"
    /\ listed' = TRUE
    /\ UNCHANGED <<jobRow, parties, custody, money, disputes, ending, windowClosed>>

\* Once its expiry has passed, expire_requests reads the job as a candidate,
\* without a lock ...
ListExpired ==
    /\ ~listed
    /\ status = "REQUESTED"
    /\ listed' = TRUE
    /\ UNCHANGED <<jobRow, parties, custody, money, disputes, ending, windowClosed>>

Expires ==
    /\ Transition("FAILED", {"SCHEDULER"})
    /\ EndsAs("FAILED", "SCHEDULER")

\* ... then moves each of them, whatever its status has become; a refused
\* transition is skipped.
ExpireCandidate ==
    /\ listed
    /\ listed' = FALSE
    /\ \/ Expires
       \/ /\ ~Permitted(status, "FAILED", {"SCHEDULER"})
          /\ UNCHANGED <<status, stamps, ending>>
    /\ UNCHANGED <<band, parties, custody, money, disputes, windowClosed>>

-----------------------------------------------------------------------------
(* Assignment. *)

\* One decision per high-value job, at any time once the band is known.
DecideHighValue(role, approve) ==
    /\ approval = "NONE"
    /\ band \in HighValueBands
    /\ band = "VERY_HIGH" => role = "PLATFORM_ADMIN"
    /\ approval' = IF approve THEN role ELSE "REJECTED"
    /\ UNCHANGED <<jobRow, price, assignment, custody, money, disputes, ending,
                   windowClosed, listed>>

ReverseRejection ==
    /\ approval = "REJECTED"
    /\ approval' = "REVERSED"
    /\ UNCHANGED <<jobRow, price, assignment, custody, money, disputes, ending,
                   windowClosed, listed>>

\* assign_job: whether the driver and the vehicle may have the job today is
\* for the operators, groups, verification and trust packages to say.
Assign(tokens, driver) ==
    /\ status = "CONFIRMED"
    /\ HighValueApproved
    /\ Transition("ASSIGNED", tokens)
    /\ assignment' = driver
    /\ UNCHANGED <<band, price, approval, custody, money, disputes, ending,
                   windowClosed, listed>>

-----------------------------------------------------------------------------
(* Custody: the driver's calls, and the other party's confirmations. *)

\* Arrivals and the departure move the status only (the codes and the
\* recipient link an arrival issues are left to another module).
Drive(to) ==
    /\ Transition(to, DriverTokens)
    /\ UNCHANGED <<band, parties, custody, money, disputes, ending, windowClosed, listed>>

ArriveAtPickup == Drive("AT_PICKUP")
StartTransit == Drive("IN_TRANSIT")
ArriveAtDestination == Drive("AT_DESTINATION")

SenderConfirmPickup ==
    /\ status \in {"ASSIGNED", "AT_PICKUP"}
    /\ "IN_APP" \notin confirmed["PICKUP"]
    /\ confirmed' = [confirmed EXCEPT !["PICKUP"] = @ \cup {"IN_APP"}]
    /\ UNCHANGED <<jobRow, parties, proof, money, disputes, ending, windowClosed, listed>>

\* The recipient gives the code through the link, once, and may sign.
ConfirmReceipt(signed) ==
    /\ status = "AT_DESTINATION"
    /\ "OTP" \notin confirmed["DELIVERY"]
    /\ confirmed' = [confirmed EXCEPT !["DELIVERY"] =
                        @ \cup {"OTP"} \cup (IF signed THEN {"SIGNATURE"} ELSE {})]
    /\ UNCHANGED <<jobRow, parties, proof, money, disputes, ending, windowClosed, listed>>

\* Mutant: a proof row with any method passes the guard.
HandOverUnchecked(stage, to, given) ==
    LET present == given \cup confirmed[stage] IN
    /\ Transition(to, DriverTokens)
    /\ present # {}
    /\ proof' = [proof EXCEPT ![stage] = present]
    /\ UNCHANGED <<band, parties, confirmed, money, disputes, ending, windowClosed, listed>>

\* The driver completes a handover with what was given to them, counting the
\* confirmations recorded ahead, and the proof row keeps every method.
HandOver(stage, to, given) ==
    LET present == given \cup confirmed[stage] IN
    /\ Transition(to, DriverTokens)
    /\ ProofComplete(stage, present)
    /\ proof' = [proof EXCEPT ![stage] = present]
    /\ UNCHANGED <<band, parties, confirmed, money, disputes, ending, windowClosed, listed>>

ConfirmPickup(given) == HandOver("PICKUP", "PICKED_UP", given)
ConfirmDelivery(given) == HandOver("DELIVERY", "DELIVERED", given)

\* Mutant: the failure of a disputed job needs no resolution.
FailDisputed(by, tokens) ==
    /\ Transition("FAILED", tokens)
    /\ EndsAs("FAILED", by)
    /\ UNCHANGED <<band, parties, custody, money, disputes, windowClosed, listed>>

\* fail_at_pickup: the driver's call, but staff may make it from other
\* statuses too; a disputed job needs a resolution.
FailAtPickup(by, tokens) ==
    /\ status # "DISPUTED"
    /\ Transition("FAILED", tokens)
    /\ EndsAs("FAILED", by)
    /\ UNCHANGED <<band, parties, custody, money, disputes, windowClosed, listed>>

\* Mutant: the job completes without the payment record.
SenderCloseUnpaid ==
    /\ status = "DELIVERED"
    /\ Transition("COMPLETED", {"BUSINESS_PARTY"})
    /\ commission' = Earned
    /\ UNCHANGED <<band, parties, custody, payment, billed, disputes, ending,
                   windowClosed, listed>>

\* Mutant: the completion forgets the commission.
SenderCloseFree ==
    /\ status = "DELIVERED"
    /\ Transition("COMPLETED", {"BUSINESS_PARTY"})
    /\ payment' = TRUE
    /\ UNCHANGED <<band, parties, custody, commission, billed, disputes, ending,
                   windowClosed, listed>>

\* sender_close_job: the payment statement and the completion in one
\* transaction.
SenderClose ==
    /\ status = "DELIVERED"
    /\ ~DisputeOpen
    /\ Transition("COMPLETED", {"BUSINESS_PARTY"})
    /\ payment' = TRUE
    /\ commission' = Earned
    /\ UNCHANGED <<band, parties, custody, billed, disputes, ending, windowClosed, listed>>

-----------------------------------------------------------------------------
(* Disputes. *)

\* open_dispute, behind an incident of the job (another module's), by a party
\* to the job, its recipient or staff.
OpenDispute(tokens) ==
    /\ Len(disputes) < MaxDisputes
    /\ ~DisputeOpen
    /\ status = "COMPLETED" => ~windowClosed
    /\ disputes' = Append(disputes, [state |-> "OPEN", pre |-> status, routed |-> "NONE"])
    /\ Transition("DISPUTED", tokens)
    /\ UNCHANGED <<band, parties, custody, money, ending, windowClosed, listed>>

\* The dispute is closed with the status the job was routed to: a dispute has
\* one resolution at most, so one that was closed and reopened is not closed again.
Closes(i, routed) ==
    /\ disputes[i].state = "OPEN"
    /\ disputes[i].routed = "NONE"
    /\ disputes' = [disputes EXCEPT ![i] =
                       [state |-> "RESOLVED", pre |-> @.pre, routed |-> routed]]

\* resolve_dispute: staff route the job; above STANDARD, or to reduce or waive
\* the commission by `cut`, a Platform Admin does.  The adjustment never takes
\* the commission below zero and needs a record to adjust.
ResolveDispute(i, role, routed, cut) ==
    LET earned == IF routed = "COMPLETED" THEN Earned ELSE commission IN
    /\ routed \in RoutableStatuses
    /\ AdminBandAuthorised(role)
    /\ cut > 0 => role = "PLATFORM_ADMIN"
    /\ cut <= earned.fee - earned.reduced
    /\ Closes(i, routed)
    /\ Transition(routed, StaffTokens(role))
    /\ commission' = [earned EXCEPT !.reduced = @ + cut]
    /\ UNCHANGED <<band, parties, custody, payment, billed, ending, windowClosed, listed>>

\* Mutant: confirmations given before the dispute still count.
ResumeDisputeKeeping(i) ==
    LET target == disputes[i].pre IN
    /\ target \in ResumableStatuses
    /\ AssignmentStands
    /\ Closes(i, target)
    /\ Transition(target, StaffTokens("PLATFORM_ADMIN"))
    /\ UNCHANGED <<band, parties, custody, money, ending, windowClosed, listed>>

\* resume_dispute: a Platform Admin lets the job go on where it was, with the
\* assignment it has; confirmations
\* given before no longer count.
ResumeDispute(i) ==
    LET target == disputes[i].pre IN
    /\ target \in ResumableStatuses
    /\ AssignmentStands
    /\ Closes(i, target)
    /\ Transition(target, StaffTokens("PLATFORM_ADMIN"))
    /\ confirmed' = [stage \in Stages |-> {}]
    /\ UNCHANGED <<band, parties, proof, money, ending, windowClosed, listed>>

\* Mutant: the unique constraint leaves escalated disputes out.
EscalateBeside(i) ==
    /\ disputes' = [disputes EXCEPT ![i].state = "OPEN"]
    /\ UNCHANGED <<jobRow, parties, custody, money, ending, windowClosed, listed>>

\* escalate saves ESCALATED over a dispute it read before, without a lock and
\* while it was unresolved, as every dispute was once: one resolved meanwhile
\* is open again, the job left as it is.  The unique constraint refuses the
\* save beside another open dispute; over an open one it changes nothing here.
Escalate(i) ==
    /\ ~DisputeOpen
    /\ disputes' = [disputes EXCEPT ![i].state = "OPEN"]
    /\ UNCHANGED <<jobRow, parties, custody, money, ending, windowClosed, listed>>

-----------------------------------------------------------------------------
(* Billing, time and the other packages. *)

\* Mutant: only jobs the sender paid for are billed.
RunStatementPaid ==
    /\ status = "COMPLETED"
    /\ payment
    /\ ~billed
    /\ windowClosed
    /\ billed' = TRUE
    /\ UNCHANGED <<jobRow, parties, custody, payment, commission, disputes, ending,
                   windowClosed, listed>>

\* The statement run bills a completed job once its dispute window closed.
RunStatement ==
    /\ status = "COMPLETED"
    /\ commission.recorded
    /\ ~billed
    /\ windowClosed
    /\ billed' = TRUE
    /\ UNCHANGED <<jobRow, parties, custody, payment, commission, disputes, ending,
                   windowClosed, listed>>

\* The window runs from the first completion, also while the job is disputed.
WindowCloses ==
    /\ "COMPLETED" \in stamps
    /\ ~windowClosed
    /\ windowClosed' = TRUE
    /\ UNCHANGED <<jobRow, parties, custody, money, disputes, ending, listed>>

-----------------------------------------------------------------------------
\* The callers a service resolves, by the tokens they hold.
Assigners == {{"OPERATOR_PARTY"}, {"GROUP_MANAGER"}, {"ADMIN"}}
Disputants ==
    {{"BUSINESS_PARTY"}, {"OPERATOR_PARTY"}, {"GROUP_MANAGER"}, {"RECIPIENT"}, {"ADMIN"}}

Bargain ==
    \/ Submit
    \/ \E side \in {"BUSINESS_PARTY", "OPERATOR_PARTY", "ADMIN"} : Offer(side)
    \/ \E side \in {"BUSINESS_PARTY", "OPERATOR_PARTY"}, amount \in Prices :
           Confirm(side, amount)
    \/ CancelByBusiness
    \/ \E role \in StaffRoles : CancelByStaff(role)

Sweep == ListExpired \/ ExpireCandidate

Prepare ==
    \/ \E role \in StaffRoles, approve \in BOOLEAN : DecideHighValue(role, approve)
    \/ ReverseRejection
    \/ \E tokens \in Assigners, driver \in Drivers : Assign(tokens, driver)

Carry ==
    \/ ArriveAtPickup
    \/ StartTransit
    \/ ArriveAtDestination
    \/ SenderConfirmPickup
    \/ \E signed \in BOOLEAN : ConfirmReceipt(signed)
    \/ \E given \in Givens :
           ConfirmPickup(given) \/ ConfirmDelivery(given)
    \/ FailAtPickup("DRIVER", DriverTokens)
    \/ \E role \in StaffRoles : FailAtPickup("STAFF", StaffTokens(role))
    \/ SenderClose

Settle ==
    \/ \E tokens \in Disputants : OpenDispute(tokens)
    \/ \E i \in DOMAIN disputes :
           \/ \E role \in StaffRoles, routed \in RoutableStatuses,
                 cut \in 0..(Earned.fee) : ResolveDispute(i, role, routed, cut)
           \/ ResumeDispute(i)
           \/ Escalate(i)
    \/ RunStatement

Next == Bargain \/ Sweep \/ Prepare \/ Carry \/ Settle \/ WindowCloses

Spec == Init /\ [][Next]_vars

\* Celery beat runs the sweep and the statement run for ever, and time passes.
Fairness ==
    /\ WF_vars(Sweep)
    /\ WF_vars(RunStatement)
    /\ WF_vars(WindowCloses)

FairSpec == Spec /\ Fairness

-----------------------------------------------------------------------------
(* Properties. *)

DisputeRow ==
    [state : {"OPEN", "RESOLVED"}, pre : Status, routed : Status \cup {"NONE"}]

\* Every table and column keeps its type.
TypeOK ==
    /\ status \in Status /\ band \in Bands \cup {"NONE"} /\ stamps \subseteq StampedStatuses
    /\ price \in Prices \cup {"NONE"}
    /\ assignment \in Drivers \cup {"NONE"}
    /\ approval \in StaffRoles \cup {"NONE", "REJECTED", "REVERSED"}
    /\ confirmed \in [Stages -> SUBSET Methods]
    /\ proof \in [Stages -> SUBSET Methods]
    /\ payment \in BOOLEAN
    /\ commission \in [recorded : BOOLEAN, fee : Nat, reduced : Nat]
    /\ billed \in BOOLEAN
    /\ disputes \in Seq(DisputeRow) /\ Len(disputes) \in 0..MaxDisputes
    /\ ending \in [kind : {"NONE", "CANCELLED", "FAILED"}, at : Status \cup {"NONE"},
                   by : {"NONE", "BUSINESS", "STAFF", "DRIVER", "SCHEDULER"}]
    /\ windowClosed \in BOOLEAN
    /\ listed \in BOOLEAN

\* Where the job stands, seen through a dispute that froze it.
Standpoint ==
    IF status = "DISPUTED" THEN disputes[Len(disputes)].pre ELSE status

RuledTo(outcome) ==
    \E i \in DOMAIN disputes : disputes[i].routed = outcome

\* A dispute has no resolution yet.
AwaitsRuling(i) == disputes[i].routed = "NONE"
RulingAwaited == \E i \in DOMAIN disputes : AwaitsRuling(i)

\* What else holds of the rows at every step, for the proofs: a draft alone
\* has no band, an agreed job has a price, disputes come after the assignment,
\* a job has the timestamp of where it stands, and the first completion is
\* never undone except by a ruling.
Bookkeeping ==
    /\ status # "DRAFT" => band \in Bands
    /\ status \in {"DRAFT", "REQUESTED", "NEGOTIATING", "CONFIRMED"} =>
           disputes = <<>> /\ assignment = "NONE"
    /\ status \notin {"DRAFT", "REQUESTED", "NEGOTIATING", "CANCELLED", "FAILED"} =>
           price \in Prices
    /\ "COMPLETED" \in stamps => Standpoint \in TerminalStates
    /\ Standpoint \in StampedStatuses => Standpoint \in stamps
    /\ windowClosed => "COMPLETED" \in stamps
    /\ ~commission.recorded => commission = NoCommission
    /\ \A i \in DOMAIN disputes :
           /\ disputes[i].routed \in {"NONE"} \cup ResumableStatuses \cup RoutableStatuses
           /\ disputes[i].routed \in {"CANCELLED", "FAILED"} =>
                  i = Len(disputes) /\ status = disputes[i].routed

\* The job row and the dispute table agree, although open_dispute,
\* resolve_dispute and resume_dispute write them one after the other and
\* escalate writes the table alone: a job is DISPUTED exactly while its newest
\* dispute awaits its ruling, which is then the open one.  An escalation may
\* reopen a dispute of a job that went on, but never a second one.
DisputeFreezesJob ==
    /\ status = "DISPUTED" <=> RulingAwaited
    /\ \A i \in DOMAIN disputes :
           /\ AwaitsRuling(i) => i = Len(disputes) /\ disputes[i].state = "OPEN"
           /\ disputes[i].pre \in ResumableStatuses \cup {"COMPLETED"}
           /\ \A k \in DOMAIN disputes :
                  disputes[i].state = "OPEN" /\ disputes[k].state = "OPEN" => i = k

\* The chain of custody: however often the job was disputed, resumed or ruled
\* on, the proof rows are those of where it stands - none before the pickup,
\* the pickup's alone on the road, both once delivered - and each satisfies
\* the rule of the job's band.  A second proof row would break the unique
\* key of its table.
CustodyChain ==
    /\ Standpoint \in {"PICKED_UP", "IN_TRANSIT", "AT_DESTINATION", "DELIVERED"} =>
           ProofComplete("PICKUP", proof["PICKUP"])
    /\ Standpoint = "DELIVERED" => ProofComplete("DELIVERY", proof["DELIVERY"])
    /\ Standpoint \in {"DRAFT", "REQUESTED", "NEGOTIATING", "CONFIRMED", "ASSIGNED",
                       "AT_PICKUP"} => proof["PICKUP"] = {}
    /\ Standpoint \notin {"DELIVERED"} \cup TerminalStates => proof["DELIVERY"] = {}
    /\ proof["DELIVERY"] # {} => proof["PICKUP"] # {}

\* A completion is earned: a completed job was closed by the sender, who
\* recorded a payment for goods with both proofs, or was ruled complete; and
\* nobody's payment is recorded for goods that did not arrive.
CompletionEarned ==
    /\ "COMPLETED" \in stamps <=> payment \/ RuledTo("COMPLETED")
    /\ payment =>
           /\ ProofComplete("PICKUP", proof["PICKUP"])
           /\ ProofComplete("DELIVERY", proof["DELIVERY"])

\* The commission is recorded exactly once, at the first completion, from the
\* agreed price; rulings may lower it but never below zero, and only a job
\* that was disputed has its commission lowered.
CommissionEarned ==
    /\ commission.recorded <=> "COMPLETED" \in stamps
    /\ commission.recorded => commission.fee = Fee[price]
    /\ commission.reduced <= commission.fee
    /\ commission.reduced > 0 => \E i \in DOMAIN disputes : ~AwaitsRuling(i)

\* What was billed stands: the job is complete, its commission recorded, the
\* dispute window closed and every dispute ruled on, so the amount cannot change.
BilledIsFinal ==
    billed =>
        /\ status = "COMPLETED"
        /\ commission.recorded
        /\ windowClosed
        /\ ~RulingAwaited

\* Every job that was cancelled or failed has exactly one explanation, a
\* cancellation or failure record or the last ruling; and once the goods were
\* picked up only staff or a ruling end the job short of completion.
EndExplained ==
    /\ status \in {"CANCELLED", "FAILED"} =>
           (ending.kind = status <=>
               ~ (disputes # <<>> /\ disputes[Len(disputes)].routed = status))
    /\ ending.kind # "NONE" => status = ending.kind
    /\ ending.kind # "NONE" /\ proof["PICKUP"] # {} => ending.by = "STAFF"

\* A job of a high-value band leaves CONFIRMED only with an approval of the
\* right authority, which stands ever after.
HighValueSupervised ==
    assignment # "NONE" => HighValueApproved

\* While a dispute awaits its ruling nobody moves the job but the staff who
\* give it: proofs, endings and the assignment are frozen, and the status and
\* the commission change together with the ruling, to what the ruling says.  A
\* dispute an escalation reopened holds less: the parties carry the job on, but
\* the sender cannot close it, nor can anybody dispute it again.
OpenDisputeHolds ==
    [][/\ RulingAwaited =>
             /\ UNCHANGED <<proof, ending, assignment>>
             /\ RulingAwaited' => UNCHANGED <<status, commission>>
             /\ ~RulingAwaited' => status' = disputes'[Len(disputes')].routed
       /\ DisputeOpen => UNCHANGED payment /\ Len(disputes') = Len(disputes)]_vars

\* A resumed job goes on exactly where it was, with no confirmation counted
\* that was given before.
ResumeRestores ==
    [][status = "DISPUTED" /\ status' \in ResumableStatuses =>
         /\ status' = Standpoint
         /\ UNCHANGED <<proof, money, stamps>>
         /\ \A stage \in Stages : confirmed'[stage] = {}]_vars

\* Cancelled and failed jobs stay so, and a completed one only reopens into a
\* dispute before its commission is billed.
EndsStay ==
    [][/\ status \in {"CANCELLED", "FAILED"} => status' = status
       /\ status = "COMPLETED" => status' \in {"COMPLETED", "DISPUTED"}
       /\ billed => UNCHANGED <<status, commission>> /\ Len(disputes') = Len(disputes)]_vars

\* However often a job completes, its one commission record is kept and the
\* adjustments made so far with it.
CommissionKept ==
    [][commission.recorded =>
         /\ commission'.recorded
         /\ commission'.fee = commission.fee
         /\ commission'.reduced >= commission.reduced]_vars

\* A published job that no operator ever offers for does not stay open: the
\* sweep fails it.
RequestExpires == status = "REQUESTED" ~> status # "REQUESTED"

\* The commission of a job that stays complete is billed.
EarnedIsBilled ==
    status = "COMPLETED" ~> (billed \/ status # "COMPLETED")

-----------------------------------------------------------------------------
(* The abstract view of the job. *)

HolderOf ==
    IF proof["DELIVERY"] # {} THEN "RECIPIENT"
    ELSE IF proof["PICKUP"] # {} THEN "CARRIER" ELSE "SENDER"

OutcomeOf ==
    IF Standpoint = "COMPLETED" THEN "DONE"
    ELSE IF Standpoint \in {"CANCELLED", "FAILED"} THEN "ENDED" ELSE "OPEN"

DueOf == IF billed THEN "BILLED" ELSE IF commission.recorded THEN "OWED" ELSE "NONE"

Abstract ==
    INSTANCE Consignment WITH holder <- HolderOf, frozen <- (status = "DISPUTED"),
                              outcome <- OutcomeOf, due <- DueOf

\* The whole of custody, disputes and billing keeps the promise of Consignment:
\* goods change hands once each way with a proof, only delivered goods or a
\* ruling complete a job, rulings move no goods, and what is billed stands.
ImplementsConsignment == Abstract!Spec
=============================================================================
