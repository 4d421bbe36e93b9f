------------------------- MODULE JobLifecycleProofs -------------------------
(***************************************************************************)
(* Proofs about JobLifecycle, for every set of drivers and prices, every   *)
(* fee table, every proof rule and any number of disputes.                 *)
(***************************************************************************)
EXTENDS JobLifecycle, TLAPS, SequenceTheorems

(* What the table of transitions allows, target by target. *)

LEMMA RuleTargets ==
    ASSUME NEW from, NEW to, NEW tokens, Permitted(from, to, tokens)
    PROVE  /\ from \in Status /\ to \in Status
           /\ to # "DRAFT"
           /\ from \notin {"CANCELLED", "FAILED"}
           /\ from = "COMPLETED" => to = "DISPUTED"
           /\ to = "REQUESTED" => from = "DRAFT"
           /\ to = "NEGOTIATING" => from \in {"REQUESTED", "NEGOTIATING"}
           /\ to = "CONFIRMED" => from \in {"REQUESTED", "NEGOTIATING"}
           /\ to = "COMPLETED" => from \in {"DELIVERED", "DISPUTED"}
           /\ to = "DISPUTED" => from \in ResumableStatuses \cup {"COMPLETED"}
BY DEF Permitted, Rules, PreCustodyRules, CustodyRules, ClosingRules, DisputeRules, Rows,
       RoutableStatuses, ResumableStatuses, Status

\* The same for the callers that are no staff: where their calls start from.
LEMMA DriverTargets ==
    ASSUME NEW from, NEW to, Permitted(from, to, DriverTokens)
    PROVE  /\ assignment # "NONE"
           /\ to = "AT_PICKUP" => from = "ASSIGNED"
           /\ to = "PICKED_UP" => from = "AT_PICKUP"
           /\ to = "IN_TRANSIT" => from = "PICKED_UP"
           /\ to = "AT_DESTINATION" => from = "IN_TRANSIT"
           /\ to = "DELIVERED" => from = "AT_DESTINATION"
           /\ to = "FAILED" => from \in {"NEGOTIATING", "AT_PICKUP"}
BY DEF Permitted, Rules, PreCustodyRules, CustodyRules, ClosingRules, DisputeRules, Rows,
       RoutableStatuses, ResumableStatuses, Granted, DriverTokens

LEMMA CancelTargets ==
    ASSUME NEW from, NEW tokens, Permitted(from, "CANCELLED", tokens)
    PROVE  /\ from \in {"DRAFT", "REQUESTED", "NEGOTIATING", "CONFIRMED", "ASSIGNED",
                        "AT_PICKUP", "DISPUTED"}
           /\ tokens = {"BUSINESS_PARTY"} => from # "DISPUTED"
BY DEF Permitted, Rules, PreCustodyRules, CustodyRules, ClosingRules, DisputeRules, Rows,
       RoutableStatuses, ResumableStatuses, Granted

LEMMA FailTargets ==
    ASSUME NEW from, NEW tokens, Permitted(from, "FAILED", tokens)
    PROVE  /\ from \notin {"DRAFT", "CONFIRMED", "DELIVERED"} \cup TerminalStates
           /\ tokens = {"SCHEDULER"} => from \in {"REQUESTED", "NEGOTIATING"}
BY DEF Permitted, Rules, PreCustodyRules, CustodyRules, ClosingRules, DisputeRules, Rows,
       RoutableStatuses, ResumableStatuses, Granted, TerminalStates

-----------------------------------------------------------------------------
\* A rule of the configuration is never empty, so a proof that satisfies it
\* has a method.
LEMMA ProofsHaveMethods ==
    ASSUME NEW stage \in Stages, NEW methods, band \in Bands, ProofComplete(stage, methods)
    PROVE  methods # {}
BY RulesAssumption DEF ProofComplete

\* The three ways the dispute table changes.
LEMMA TableWhenOpened ==
    ASSUME NEW row \in DisputeRow, disputes \in Seq(DisputeRow),
           disputes' = Append(disputes, row)
    PROVE  /\ disputes' \in Seq(DisputeRow)
           /\ Len(disputes') = Len(disputes) + 1
           /\ DOMAIN disputes' = DOMAIN disputes \cup {Len(disputes')}
           /\ \A i \in DOMAIN disputes : disputes'[i] = disputes[i]
           /\ disputes'[Len(disputes')] = row
           /\ Len(disputes') \notin DOMAIN disputes
OBVIOUS

LEMMA TableWhenClosed ==
    ASSUME NEW i \in DOMAIN disputes, NEW routed \in Status, TypeOK, Closes(i, routed)
    PROVE  /\ disputes' \in Seq(DisputeRow)
           /\ Len(disputes') = Len(disputes)
           /\ DOMAIN disputes' = DOMAIN disputes
           /\ \A k \in DOMAIN disputes : k # i => disputes'[k] = disputes[k]
           /\ disputes'[i].pre = disputes[i].pre
           /\ disputes'[i].state = "RESOLVED"
           /\ disputes'[i].routed = routed
<1>1. disputes \in Seq(DisputeRow)
  BY DEF TypeOK
<1>2. disputes[i] \in DisputeRow
  BY <1>1
<1> DEFINE row == [state |-> "RESOLVED", pre |-> disputes[i].pre, routed |-> routed]
<1>3. row \in DisputeRow
  BY <1>2 DEF DisputeRow
<1>4. disputes' = [disputes EXCEPT ![i] = row]
  BY DEF Closes
<1> HIDE DEF row
<1>5. /\ disputes' \in Seq(DisputeRow)
      /\ Len(disputes') = Len(disputes)
      /\ DOMAIN disputes' = DOMAIN disputes
      /\ \A k \in DOMAIN disputes : k # i => disputes'[k] = disputes[k]
      /\ disputes'[i] = row
  BY <1>1, <1>3, <1>4
<1> QED
  BY <1>5 DEF row

-----------------------------------------------------------------------------
\* The inductive invariant: no property of the job is inductive alone, since
\* each rests on the others and on the bookkeeping between the tables.
IInv ==
    /\ TypeOK
    /\ Bookkeeping
    /\ DisputeFreezesJob
    /\ CustodyChain
    /\ CompletionEarned
    /\ CommissionEarned
    /\ BilledIsFinal
    /\ EndExplained
    /\ HighValueSupervised

LEMMA InitHolds == Init => IInv
<1> SUFFICES ASSUME Init PROVE IInv
  OBVIOUS
<1> USE DEF Init
<1>1. TypeOK
  <2>1. disputes \in Seq(DisputeRow) /\ Len(disputes) \in 0..MaxDisputes
    BY BoundAssumption
  <2> QED
    BY <2>1 DEF TypeOK, Status, NoCommission, NoEnding
<1>2. Bookkeeping /\ CustodyChain
  BY DEF Bookkeeping, CustodyChain, Standpoint, TerminalStates, Stages, StampedStatuses
<1>3. DisputeFreezesJob /\ CompletionEarned /\ CommissionEarned
  BY DEF DisputeFreezesJob, RulingAwaited, AwaitsRuling, CompletionEarned, RuledTo,
         CommissionEarned, NoCommission
<1>4. BilledIsFinal /\ EndExplained /\ HighValueSupervised
  BY DEF BilledIsFinal, EndExplained, NoEnding, HighValueSupervised
<1> QED
  BY <1>1, <1>2, <1>3, <1>4 DEF IInv

-----------------------------------------------------------------------------
(* Frames: what each part of the invariant rests on. *)

LEMMA BookkeepingRests ==
    ASSUME Bookkeeping,
           UNCHANGED <<jobRow, price, assignment, commission, disputes>>,
           windowClosed' => windowClosed \/ "COMPLETED" \in stamps
    PROVE  Bookkeeping'
BY DEF Bookkeeping, jobRow, Standpoint

LEMMA DisputeFreezesJobRests ==
    ASSUME DisputeFreezesJob, UNCHANGED <<status, disputes>>
    PROVE  DisputeFreezesJob'
BY DEF DisputeFreezesJob, RulingAwaited, AwaitsRuling

LEMMA CustodyChainRests ==
    ASSUME CustodyChain, UNCHANGED <<status, band, disputes, proof>>
    PROVE  CustodyChain'
BY DEF CustodyChain, Standpoint, ProofComplete

LEMMA CompletionEarnedRests ==
    ASSUME CompletionEarned, UNCHANGED <<band, proof, payment>>,
           "COMPLETED" \in stamps' <=> "COMPLETED" \in stamps,
           RuledTo("COMPLETED")' <=> RuledTo("COMPLETED")
    PROVE  CompletionEarned'
BY DEF CompletionEarned, ProofComplete

LEMMA CommissionEarnedRests ==
    ASSUME CommissionEarned, UNCHANGED <<price, commission, disputes>>,
           "COMPLETED" \in stamps' <=> "COMPLETED" \in stamps
    PROVE  CommissionEarned'
BY DEF CommissionEarned, AwaitsRuling

LEMMA BilledIsFinalRests ==
    ASSUME BilledIsFinal, UNCHANGED <<status, commission, billed, windowClosed, disputes>>
    PROVE  BilledIsFinal'
BY DEF BilledIsFinal, RulingAwaited, AwaitsRuling

LEMMA EndExplainedRests ==
    ASSUME EndExplained, UNCHANGED <<status, disputes, ending, proof>>
    PROVE  EndExplained'
BY DEF EndExplained

LEMMA HighValueSupervisedRests ==
    ASSUME HighValueSupervised, UNCHANGED <<band, assignment, approval>>
    PROVE  HighValueSupervised'
BY DEF HighValueSupervised, HighValueApproved

\* Together: a step that changes nothing of the job row, the dispute table,
\* the parties' agreement, the proofs and the money keeps all but its types.
LEMMA AllRest ==
    ASSUME IInv, UNCHANGED <<jobRow, parties, proof, money, disputes, ending, windowClosed>>
    PROVE  IInv' <=> TypeOK'
BY BookkeepingRests, DisputeFreezesJobRests, CustodyChainRests, CompletionEarnedRests,
   CommissionEarnedRests, BilledIsFinalRests, EndExplainedRests, HighValueSupervisedRests
   DEF IInv, jobRow, parties, money, RuledTo

-----------------------------------------------------------------------------
(* Steps that leave the job row and the dispute table alone. *)

LEMMA ListExpiredKeeps == ASSUME IInv, ListExpired PROVE IInv'
<1>1. TypeOK'
  BY DEF IInv, TypeOK, ListExpired, jobRow, parties, custody, money
<1> QED
  BY <1>1, AllRest DEF ListExpired, custody

LEMMA StutterKeeps == ASSUME IInv, UNCHANGED vars PROVE IInv'
<1>1. TypeOK'
  BY DEF IInv, TypeOK, vars, jobRow, parties, custody, money
<1> QED
  BY <1>1, AllRest DEF vars, custody

LEMMA SenderConfirmPickupKeeps == ASSUME IInv, SenderConfirmPickup PROVE IInv'
<1>1. TypeOK'
  BY DEF IInv, TypeOK, SenderConfirmPickup, jobRow, parties, money, Methods, Stages
<1> QED
  BY <1>1, AllRest DEF SenderConfirmPickup

LEMMA ConfirmReceiptKeeps ==
    ASSUME IInv, NEW signed \in BOOLEAN, ConfirmReceipt(signed) PROVE IInv'
<1>1. TypeOK'
  BY DEF IInv, TypeOK, ConfirmReceipt, jobRow, parties, money, Methods, Stages
<1> QED
  BY <1>1, AllRest DEF ConfirmReceipt

\* A decision is made once: where one is needed for the assignment the job
\* has, it was an approval and is not decided again.
LEMMA DecideHighValueKeeps ==
    ASSUME IInv, NEW role \in StaffRoles, NEW approve \in BOOLEAN,
           DecideHighValue(role, approve)
    PROVE  IInv'
<1> USE DEF DecideHighValue, jobRow, custody, money
<1>1. TypeOK'
  BY DEF IInv, TypeOK
<1>2. assignment = "NONE"
  BY DEF IInv, HighValueSupervised, HighValueApproved, HighValueBands, StaffRoles
<1>3. HighValueSupervised'
  BY <1>2 DEF HighValueSupervised
<1>4. Bookkeeping' /\ DisputeFreezesJob' /\ CustodyChain' /\ CompletionEarned'
  BY BookkeepingRests, DisputeFreezesJobRests, CustodyChainRests, CompletionEarnedRests
     DEF IInv, RuledTo
<1>5. CommissionEarned' /\ BilledIsFinal' /\ EndExplained'
  BY CommissionEarnedRests, BilledIsFinalRests, EndExplainedRests DEF IInv
<1> QED
  BY <1>1, <1>3, <1>4, <1>5 DEF IInv

LEMMA ReverseRejectionKeeps == ASSUME IInv, ReverseRejection PROVE IInv'
<1> USE DEF ReverseRejection, jobRow, custody, money
<1>1. TypeOK'
  BY DEF IInv, TypeOK
<1>2. HighValueSupervised'
  BY DEF IInv, HighValueSupervised, HighValueApproved, StaffRoles
<1>3. Bookkeeping' /\ DisputeFreezesJob' /\ CustodyChain' /\ CompletionEarned'
  BY BookkeepingRests, DisputeFreezesJobRests, CustodyChainRests, CompletionEarnedRests
     DEF IInv, RuledTo
<1>4. CommissionEarned' /\ BilledIsFinal' /\ EndExplained'
  BY CommissionEarnedRests, BilledIsFinalRests, EndExplainedRests DEF IInv
<1> QED
  BY <1>1, <1>2, <1>3, <1>4 DEF IInv

\* What is billed is complete and undisputed, so the bill cannot be undone.
LEMMA RunStatementKeeps == ASSUME IInv, RunStatement PROVE IInv'
<1> USE DEF RunStatement, jobRow, parties, custody
<1>1. TypeOK'
  BY DEF IInv, TypeOK
<1>2. BilledIsFinal'
  BY DEF IInv, BilledIsFinal, DisputeFreezesJob, RulingAwaited, AwaitsRuling
<1>3. Bookkeeping' /\ DisputeFreezesJob' /\ CustodyChain' /\ CompletionEarned'
  BY BookkeepingRests, DisputeFreezesJobRests, CustodyChainRests, CompletionEarnedRests
     DEF IInv, RuledTo
<1>4. CommissionEarned' /\ EndExplained' /\ HighValueSupervised'
  BY CommissionEarnedRests, EndExplainedRests, HighValueSupervisedRests DEF IInv
<1> QED
  BY <1>1, <1>2, <1>3, <1>4 DEF IInv

LEMMA WindowClosesKeeps == ASSUME IInv, WindowCloses PROVE IInv'
<1> USE DEF WindowCloses, jobRow, parties, custody, money
<1>1. TypeOK'
  BY DEF IInv, TypeOK
<1>2. BilledIsFinal'
  BY DEF IInv, BilledIsFinal, RulingAwaited, AwaitsRuling
<1>3. Bookkeeping' /\ DisputeFreezesJob' /\ CustodyChain' /\ CompletionEarned'
  BY BookkeepingRests, DisputeFreezesJobRests, CustodyChainRests, CompletionEarnedRests
     DEF IInv, RuledTo
<1>4. CommissionEarned' /\ EndExplained' /\ HighValueSupervised'
  BY CommissionEarnedRests, EndExplainedRests, HighValueSupervisedRests DEF IInv
<1> QED
  BY <1>1, <1>2, <1>3, <1>4 DEF IInv

-----------------------------------------------------------------------------
(* Steps that move a job which is not disputed and open no dispute. *)

Moves(to, tokens) ==
    /\ Transition(to, tokens)
    /\ status # "DISPUTED" /\ to # "DISPUTED"
    /\ UNCHANGED disputes

\* Such a step starts from a status a job can be moved from, and the dispute
\* table, which holds no ruling that ended the job, still agrees with the row.
LEMMA MovesKeep ==
    ASSUME IInv, NEW to, NEW tokens, Moves(to, tokens)
    PROVE  /\ status \in Status \ {"CANCELLED", "FAILED", "COMPLETED"}
           /\ status' = to /\ to \in Status \ {"DRAFT"}
           /\ Standpoint = status /\ Standpoint' = to
           /\ \A i \in DOMAIN disputes : disputes[i].routed \notin {"CANCELLED", "FAILED"}
           /\ ending.kind = "NONE"
           /\ ~billed
           /\ DisputeFreezesJob'
           /\ RuledTo("COMPLETED")' <=> RuledTo("COMPLETED")
<1> USE DEF Moves, Transition
<1>1. /\ status \in Status \ {"CANCELLED", "FAILED"} /\ to \in Status \ {"DRAFT"}
      /\ status # "COMPLETED"
  BY RuleTargets
<1>2. \A i \in DOMAIN disputes : disputes[i].routed \notin {"CANCELLED", "FAILED"}
  BY <1>1 DEF IInv, Bookkeeping
<1>3. ending.kind = "NONE"
  BY <1>1 DEF IInv, TypeOK, EndExplained
<1>4. Standpoint = status /\ Standpoint' = to
  BY DEF Standpoint
<1>5. DisputeFreezesJob'
  BY DEF IInv, DisputeFreezesJob, RulingAwaited, AwaitsRuling
<1> QED
  BY <1>1, <1>2, <1>3, <1>4, <1>5 DEF IInv, BilledIsFinal, RuledTo

\* Before the goods are picked up, and as long as nothing is paid or ruled,
\* no completion is on record.
LEMMA MovesStamp ==
    ASSUME IInv, NEW to, NEW tokens, Moves(to, tokens)
    PROVE  /\ "COMPLETED" \notin stamps
           /\ "COMPLETED" \in stamps' <=> to = "COMPLETED"
           /\ ~windowClosed /\ ~payment /\ ~commission.recorded
           /\ stamps' \subseteq StampedStatuses
           /\ to \in StampedStatuses => to \in stamps'
<1>1. Standpoint \notin TerminalStates
  BY MovesKeep DEF TerminalStates
<1>2. "COMPLETED" \notin stamps
  BY <1>1 DEF IInv, Bookkeeping
<1> QED
  BY <1>2 DEF IInv, TypeOK, Bookkeeping, CompletionEarned, CommissionEarned, Moves,
              Transition, StampedStatuses

LEMMA SubmitKeeps == ASSUME IInv, Submit PROVE IInv'
<1>1. PICK tokens : Transition("REQUESTED", tokens)
  BY DEF Submit
<1>2. status = "DRAFT" /\ Moves("REQUESTED", tokens)
  BY <1>1, RuleTargets DEF Submit, Transition, Moves
<1> USE <1>1, <1>2, MovesKeep, MovesStamp DEF Submit, parties, custody, money
<1>3. TypeOK'
  BY DEF IInv, TypeOK
<1>4. Bookkeeping'
  BY DEF IInv, Bookkeeping, TerminalStates
<1>5. CustodyChain'
  BY DEF IInv, CustodyChain, TerminalStates
<1>6. CompletionEarned'
  BY DEF IInv, CompletionEarned
<1>7. CommissionEarned'
  BY DEF IInv, CommissionEarned, AwaitsRuling
<1>8. BilledIsFinal'
  BY DEF BilledIsFinal
<1>9. EndExplained'
  BY DEF IInv, EndExplained
<1>10. HighValueSupervised'
  BY DEF IInv, Bookkeeping, HighValueSupervised
<1> QED
  BY <1>3, <1>4, <1>5, <1>6, <1>7, <1>8, <1>9, <1>10 DEF IInv

LEMMA OfferKeeps == ASSUME IInv, NEW side, Offer(side) PROVE IInv'
<1>1. status \in {"REQUESTED", "NEGOTIATING"} /\ Moves("NEGOTIATING", {side})
  BY RuleTargets DEF Offer, Transition, Moves
<1> USE <1>1, MovesKeep, MovesStamp DEF Offer, parties, custody, money
<1>2. TypeOK'
  BY DEF IInv, TypeOK
<1>3. Bookkeeping'
  BY DEF IInv, Bookkeeping, TerminalStates
<1>4. CustodyChain'
  BY DEF IInv, CustodyChain, TerminalStates
<1>5. CompletionEarned' /\ CommissionEarned'
  BY CompletionEarnedRests, CommissionEarnedRests DEF IInv
<1>6. BilledIsFinal'
  BY DEF BilledIsFinal
<1>7. EndExplained'
  BY DEF IInv, EndExplained
<1>8. HighValueSupervised'
  BY HighValueSupervisedRests DEF IInv
<1> QED
  BY <1>2, <1>3, <1>4, <1>5, <1>6, <1>7, <1>8 DEF IInv

LEMMA ConfirmKeeps ==
    ASSUME IInv, NEW side, NEW amount \in Prices, Confirm(side, amount) PROVE IInv'
<1>1. status = "NEGOTIATING" /\ Moves("CONFIRMED", {side})
  BY DEF Confirm, Transition, Moves
<1> USE <1>1, MovesKeep, MovesStamp DEF Confirm, custody, money
<1>2. TypeOK'
  BY DEF IInv, TypeOK
<1>3. Bookkeeping'
  BY DEF IInv, Bookkeeping, TerminalStates
<1>4. CustodyChain'
  BY DEF IInv, CustodyChain, TerminalStates
<1>5. CompletionEarned'
  BY CompletionEarnedRests DEF IInv
<1>6. CommissionEarned'
  BY DEF IInv, CommissionEarned, AwaitsRuling
<1>7. BilledIsFinal'
  BY DEF BilledIsFinal
<1>8. EndExplained'
  BY DEF IInv, EndExplained
<1>9. HighValueSupervised'
  BY HighValueSupervisedRests DEF IInv
<1> QED
  BY <1>2, <1>3, <1>4, <1>5, <1>6, <1>7, <1>8, <1>9 DEF IInv

\* The goods never left the sender when a job is cancelled.
LEMMA CancelKeeps ==
    ASSUME IInv, NEW tokens, NEW by \in {"BUSINESS", "STAFF"},
           Transition("CANCELLED", tokens), status # "DISPUTED",
           FreezeBand, EndsAs("CANCELLED", by),
           UNCHANGED <<parties, custody, money, disputes, windowClosed, listed>>
    PROVE  IInv'
<1>1. /\ Moves("CANCELLED", tokens)
      /\ status \in {"DRAFT", "REQUESTED", "NEGOTIATING", "CONFIRMED", "ASSIGNED",
                     "AT_PICKUP"}
  BY CancelTargets DEF Transition, Moves
<1> USE <1>1, MovesKeep, MovesStamp DEF parties, custody, money
<1>2. band' \in Bands /\ (band' = band \/ status = "DRAFT")
  BY DEF IInv, Bookkeeping, FreezeBand
<1>3. TypeOK'
  BY <1>2 DEF IInv, TypeOK, EndsAs
<1>4. Bookkeeping'
  BY <1>2 DEF IInv, Bookkeeping, TerminalStates
<1>5. CustodyChain'
  BY <1>2 DEF IInv, CustodyChain, TerminalStates
<1>6. CompletionEarned'
  BY DEF IInv, CompletionEarned
<1>7. CommissionEarned'
  BY DEF IInv, CommissionEarned, AwaitsRuling
<1>8. BilledIsFinal'
  BY DEF BilledIsFinal
<1>9. EndExplained'
  BY DEF IInv, TypeOK, EndExplained, EndsAs, CustodyChain
<1>10. HighValueSupervised'
  BY <1>2 DEF IInv, Bookkeeping, HighValueSupervised, HighValueApproved
<1> QED
  BY <1>3, <1>4, <1>5, <1>6, <1>7, <1>8, <1>9, <1>10 DEF IInv

LEMMA CancelByBusinessKeeps == ASSUME IInv, CancelByBusiness PROVE IInv'
<1>1. status # "DISPUTED"
  BY CancelTargets DEF CancelByBusiness, Transition
<1> QED
  BY <1>1, CancelKeeps DEF CancelByBusiness

LEMMA CancelByStaffKeeps ==
    ASSUME IInv, NEW role \in StaffRoles, CancelByStaff(role) PROVE IInv'
BY CancelKeeps DEF CancelByStaff

\* Whoever fails a job with the goods on the road is staff.
LEMMA FailKeeps ==
    ASSUME IInv, NEW tokens, NEW by \in {"STAFF", "DRIVER", "SCHEDULER"},
           Transition("FAILED", tokens), status # "DISPUTED",
           EndsAs("FAILED", by), listed' \in BOOLEAN,
           by # "STAFF" => status \in {"REQUESTED", "NEGOTIATING", "AT_PICKUP"},
           UNCHANGED <<band, parties, custody, money, disputes, windowClosed>>
    PROVE  IInv'
<1>1. /\ Moves("FAILED", tokens)
      /\ status \notin {"DRAFT", "CONFIRMED", "DELIVERED"}
  BY FailTargets DEF Transition, Moves
<1> USE <1>1, MovesKeep, MovesStamp DEF parties, custody, money
<1>2. TypeOK'
  BY DEF IInv, TypeOK, EndsAs
<1>3. Bookkeeping'
  BY DEF IInv, Bookkeeping, TerminalStates
<1>4. CustodyChain'
  BY DEF IInv, CustodyChain, TerminalStates
<1>5. CompletionEarned' /\ CommissionEarned'
  BY CompletionEarnedRests, CommissionEarnedRests DEF IInv
<1>6. BilledIsFinal'
  BY DEF BilledIsFinal
<1>7. EndExplained'
  BY DEF IInv, TypeOK, EndExplained, EndsAs, CustodyChain
<1>8. HighValueSupervised'
  BY HighValueSupervisedRests DEF IInv
<1> QED
  BY <1>2, <1>3, <1>4, <1>5, <1>6, <1>7, <1>8 DEF IInv

LEMMA ExpireCandidateKeeps == ASSUME IInv, ExpireCandidate PROVE IInv'
<1>1. CASE Expires
  <2>1. status \in {"REQUESTED", "NEGOTIATING"}
    BY <1>1, FailTargets DEF Expires, Transition
  <2>2. Transition("FAILED", {"SCHEDULER"}) /\ EndsAs("FAILED", "SCHEDULER")
    BY <1>1 DEF Expires
  <2>3. /\ listed' \in BOOLEAN
        /\ UNCHANGED <<band, parties, custody, money, disputes, windowClosed>>
    BY DEF ExpireCandidate
  <2> QED
    BY <2>1, <2>2, <2>3, FailKeeps
<1>2. CASE UNCHANGED <<status, stamps, ending>>
  <2>1. listed' = FALSE /\ UNCHANGED <<band, parties, custody, money, disputes, windowClosed>>
    BY DEF ExpireCandidate
  <2>2. UNCHANGED <<jobRow, parties, custody, money, disputes, ending, windowClosed>>
    BY <1>2, <2>1 DEF jobRow
  <2>3. TypeOK'
    BY <2>1, <2>2 DEF IInv, TypeOK, jobRow, parties, custody, money
  <2> QED
    BY <2>2, <2>3, AllRest DEF custody
<1> QED
  BY <1>1, <1>2 DEF ExpireCandidate

LEMMA FailAtPickupByDriverKeeps ==
    ASSUME IInv, FailAtPickup("DRIVER", DriverTokens) PROVE IInv'
<1>1. status \in {"NEGOTIATING", "AT_PICKUP"}
  BY DriverTargets DEF FailAtPickup, Transition
<1> QED
  BY <1>1, FailKeeps DEF FailAtPickup, IInv, TypeOK

LEMMA FailAtPickupByStaffKeeps ==
    ASSUME IInv, NEW role \in StaffRoles, FailAtPickup("STAFF", StaffTokens(role))
    PROVE  IInv'
BY FailKeeps DEF FailAtPickup, IInv, TypeOK

LEMMA AssignKeeps ==
    ASSUME IInv, NEW tokens, NEW driver \in Drivers, Assign(tokens, driver) PROVE IInv'
<1>1. status = "CONFIRMED" /\ Moves("ASSIGNED", tokens)
  BY DEF Assign, Transition, Moves
<1> USE <1>1, MovesKeep, MovesStamp DEF Assign, custody, money
<1>2. TypeOK'
  BY DEF IInv, TypeOK
<1>3. Bookkeeping'
  BY DEF IInv, Bookkeeping, TerminalStates
<1>4. CustodyChain'
  BY DEF IInv, CustodyChain, TerminalStates
<1>5. CompletionEarned' /\ CommissionEarned'
  BY CompletionEarnedRests, CommissionEarnedRests DEF IInv
<1>6. BilledIsFinal'
  BY DEF BilledIsFinal
<1>7. EndExplained'
  BY DEF IInv, EndExplained
<1>8. HighValueSupervised'
  BY DEF HighValueSupervised, HighValueApproved
<1> QED
  BY <1>2, <1>3, <1>4, <1>5, <1>6, <1>7, <1>8 DEF IInv

-----------------------------------------------------------------------------
(* The driver's steps and the sender's last one. *)

Leg(from, to) ==
    /\ status = from
    /\ <<from, to>> \in {<<"ASSIGNED", "AT_PICKUP">>, <<"PICKED_UP", "IN_TRANSIT">>,
                         <<"IN_TRANSIT", "AT_DESTINATION">>}

\* An arrival or a departure changes neither the goods' holder nor its proofs.
LEMMA DriveKeeps ==
    ASSUME IInv, NEW from, NEW to, Leg(from, to), Drive(to) PROVE IInv'
<1>1. Moves(to, DriverTokens)
  BY DEF Drive, Leg, Transition, Moves
<1> USE <1>1, MovesKeep, MovesStamp DEF Drive, Leg, parties, custody, money
<1>2. TypeOK'
  BY DEF IInv, TypeOK
<1>3. Bookkeeping'
  BY DEF IInv, Bookkeeping, TerminalStates
<1>4. CustodyChain'
  BY DEF IInv, CustodyChain, TerminalStates, ProofComplete
<1>5. CompletionEarned' /\ CommissionEarned'
  BY CompletionEarnedRests, CommissionEarnedRests DEF IInv
<1>6. BilledIsFinal'
  BY DEF BilledIsFinal
<1>7. EndExplained'
  BY DEF IInv, EndExplained
<1>8. HighValueSupervised'
  BY HighValueSupervisedRests DEF IInv
<1> QED
  BY <1>2, <1>3, <1>4, <1>5, <1>6, <1>7, <1>8 DEF IInv

LEMMA DrivesKeep ==
    ASSUME IInv, ArriveAtPickup \/ StartTransit \/ ArriveAtDestination PROVE IInv'
<1>1. CASE ArriveAtPickup
  <2>1. Leg("ASSIGNED", "AT_PICKUP")
    BY <1>1, DriverTargets DEF ArriveAtPickup, Drive, Transition, Leg
  <2> QED
    BY <1>1, <2>1, DriveKeeps DEF ArriveAtPickup
<1>2. CASE StartTransit
  <2>1. Leg("PICKED_UP", "IN_TRANSIT")
    BY <1>2, DriverTargets DEF StartTransit, Drive, Transition, Leg
  <2> QED
    BY <1>2, <2>1, DriveKeeps DEF StartTransit
<1>3. CASE ArriveAtDestination
  <2>1. Leg("IN_TRANSIT", "AT_DESTINATION")
    BY <1>3, DriverTargets DEF ArriveAtDestination, Drive, Transition, Leg
  <2> QED
    BY <1>3, <2>1, DriveKeeps DEF ArriveAtDestination
<1> QED
  BY <1>1, <1>2, <1>3

\* A pickup needs a proof that no step before could have left, and it is never
\* empty; a delivery finds the pickup's.
LEMMA HandOverKeeps ==
    ASSUME IInv, NEW given \in SUBSET Methods, NEW stage \in Stages, NEW to,
           \/ stage = "PICKUP" /\ to = "PICKED_UP"
           \/ stage = "DELIVERY" /\ to = "DELIVERED",
           HandOver(stage, to, given)
    PROVE  IInv'
<1>1. /\ Moves(to, DriverTokens)
      /\ to = "PICKED_UP" => status = "AT_PICKUP"
      /\ to = "DELIVERED" => status = "AT_DESTINATION"
  BY DriverTargets DEF HandOver, Transition, Moves
<1> DEFINE present == given \cup confirmed[stage]
<1>2. /\ present \in SUBSET Methods
      /\ ProofComplete(stage, present)
      /\ proof' = [proof EXCEPT ![stage] = present]
      /\ UNCHANGED <<band, parties, confirmed, money, disputes, ending, windowClosed, listed>>
  BY DEF HandOver, IInv, TypeOK
<1>3. present # {} /\ band \in Bands
  BY <1>1, <1>2, ProofsHaveMethods DEF IInv, Bookkeeping
<1>4. /\ proof' \in [Stages -> SUBSET Methods]
      /\ proof'[stage] = present
      /\ \A other \in Stages : other # stage => proof'[other] = proof[other]
  BY <1>2 DEF IInv, TypeOK
<1> HIDE DEF present
<1> USE <1>1, <1>2, MovesKeep, MovesStamp DEF parties, money
<1>5. TypeOK'
  BY <1>4 DEF IInv, TypeOK
<1>6. Bookkeeping'
  BY DEF IInv, Bookkeeping, TerminalStates
<1>7. CustodyChain'
  <2>1. "PICKUP" \in Stages /\ "DELIVERY" \in Stages
    BY DEF Stages
  <2>2. ProofComplete(stage, proof[stage])'
    BY <1>4 DEF ProofComplete
  <2>3. CASE stage = "PICKUP"
    BY <1>3, <1>4, <2>1, <2>2, <2>3 DEF IInv, CustodyChain, TerminalStates, ProofComplete
  <2>4. CASE stage = "DELIVERY"
    <3>1. ProofComplete("PICKUP", proof["PICKUP"])
      BY <2>4 DEF IInv, CustodyChain
    <3>2. proof["PICKUP"] # {}
      BY <1>3, <2>1, <3>1, ProofsHaveMethods
    <3> QED
      BY <1>4, <2>1, <2>2, <2>4, <3>1, <3>2 DEF CustodyChain, TerminalStates, ProofComplete
  <2> QED
    BY <2>3, <2>4
<1>8. CompletionEarned' /\ CommissionEarned'
  BY CommissionEarnedRests DEF IInv, CompletionEarned
<1>9. BilledIsFinal'
  BY DEF BilledIsFinal
<1>10. EndExplained'
  BY DEF IInv, EndExplained
<1>11. HighValueSupervised'
  BY HighValueSupervisedRests DEF IInv
<1> QED
  BY <1>5, <1>6, <1>7, <1>8, <1>9, <1>10, <1>11 DEF IInv

\* The sender closes a delivered job: both proofs are there, and the fee of
\* the agreed price becomes the job's commission.
LEMMA SenderCloseKeeps == ASSUME IInv, SenderClose PROVE IInv'
<1>1. status = "DELIVERED" /\ Moves("COMPLETED", {"BUSINESS_PARTY"})
  BY DEF SenderClose, Transition, Moves
<1> USE <1>1, MovesKeep, MovesStamp DEF SenderClose, parties, custody
<1>2. commission = NoCommission /\ price \in Prices
  BY DEF IInv, Bookkeeping
<1>3. Fee[price] \in Nat
  BY <1>2, FeeAssumption
<1>4. commission' = [recorded |-> TRUE, fee |-> Fee[price], reduced |-> 0]
  BY DEF Earned
<1>5. TypeOK'
  BY <1>3, <1>4 DEF IInv, TypeOK
<1>6. Bookkeeping'
  BY <1>4 DEF IInv, Bookkeeping, TerminalStates
<1>7. CustodyChain'
  BY DEF IInv, CustodyChain, TerminalStates, ProofComplete
<1>8. CompletionEarned'
  BY DEF IInv, CompletionEarned, CustodyChain, ProofComplete
<1>9. CommissionEarned'
  BY <1>3, <1>4 DEF CommissionEarned
<1>10. BilledIsFinal'
  BY DEF BilledIsFinal
<1>11. EndExplained'
  BY DEF IInv, EndExplained
<1>12. HighValueSupervised'
  BY HighValueSupervisedRests DEF IInv
<1> QED
  BY <1>5, <1>6, <1>7, <1>8, <1>9, <1>10, <1>11, <1>12 DEF IInv

-----------------------------------------------------------------------------
(* Disputes. *)

\* A dispute stands where the job stood, and a billed job is past disputing.
LEMMA OpenDisputeKeeps == ASSUME IInv, NEW tokens, OpenDispute(tokens) PROVE IInv'
<1> DEFINE row == [state |-> "OPEN", pre |-> status, routed |-> "NONE"]
<1>1. /\ status \in ResumableStatuses \cup {"COMPLETED"}
      /\ status \in Status \ {"DISPUTED", "CANCELLED", "FAILED"}
      /\ status' = "DISPUTED" /\ stamps' = stamps
  BY RuleTargets DEF OpenDispute, Transition, ResumableStatuses, StampedStatuses
<1>2. row \in DisputeRow
  BY <1>1 DEF DisputeRow
<1>3. disputes \in Seq(DisputeRow) /\ disputes' = Append(disputes, row)
  BY DEF OpenDispute, IInv, TypeOK
<1>4. /\ disputes' \in Seq(DisputeRow)
      /\ Len(disputes') = Len(disputes) + 1
      /\ DOMAIN disputes' = DOMAIN disputes \cup {Len(disputes')}
      /\ \A i \in DOMAIN disputes : disputes'[i] = disputes[i]
      /\ disputes'[Len(disputes')] = row
      /\ Len(disputes') \notin DOMAIN disputes
  BY <1>2, <1>3, TableWhenOpened
<1>5. /\ Len(disputes) < MaxDisputes /\ ~DisputeOpen
      /\ status = "COMPLETED" => ~windowClosed
      /\ UNCHANGED <<band, parties, custody, money, ending, windowClosed, listed>>
  BY DEF OpenDispute
<1>6. Standpoint = status /\ Standpoint' = status
  BY <1>1, <1>4 DEF Standpoint
<1>7. RuledTo("COMPLETED")' <=> RuledTo("COMPLETED")
  BY <1>4 DEF RuledTo
<1>8. ~billed
  BY <1>5 DEF IInv, BilledIsFinal
<1> HIDE DEF row
<1> USE DEF parties, custody, money
<1>9. TypeOK'
  <2>1. Len(disputes') \in 0..MaxDisputes
    BY <1>3, <1>4, <1>5, BoundAssumption
  <2> QED
    BY <1>1, <1>4, <1>5, <2>1 DEF IInv, TypeOK, Status
<1>10. Bookkeeping'
  <2>1. /\ band' \in Bands /\ price' \in Prices
        /\ "COMPLETED" \in stamps' => Standpoint' \in TerminalStates
        /\ Standpoint' \in StampedStatuses => Standpoint' \in stamps'
        /\ windowClosed' => "COMPLETED" \in stamps'
        /\ ~commission'.recorded => commission' = NoCommission
    BY <1>1, <1>5, <1>6 DEF IInv, Bookkeeping, ResumableStatuses
  <2>2. ASSUME NEW i \in DOMAIN disputes'
        PROVE  /\ disputes'[i].routed \in {"NONE"} \cup ResumableStatuses \cup RoutableStatuses
               /\ disputes'[i].routed \notin {"CANCELLED", "FAILED"}
    BY <1>1, <1>4 DEF IInv, Bookkeeping, row
  <2> QED
    BY <1>1, <2>1, <2>2 DEF Bookkeeping
<1>11. DisputeFreezesJob'
  BY <1>1, <1>4, <1>5 DEF IInv, DisputeFreezesJob, DisputeOpen, RulingAwaited, AwaitsRuling, row
<1>12. CustodyChain'
  BY <1>5, <1>6 DEF IInv, CustodyChain, ProofComplete
<1>13. CompletionEarned'
  BY <1>1, <1>5, <1>7, CompletionEarnedRests DEF IInv
<1>14. CommissionEarned'
  BY <1>1, <1>4, <1>5 DEF IInv, CommissionEarned, AwaitsRuling
<1>15. BilledIsFinal'
  BY <1>5, <1>8 DEF BilledIsFinal
<1>16. EndExplained'
  BY <1>1, <1>5 DEF IInv, TypeOK, EndExplained
<1>17. HighValueSupervised'
  BY <1>5, HighValueSupervisedRests DEF IInv
<1> QED
  BY <1>9, <1>10, <1>11, <1>12, <1>13, <1>14, <1>15, <1>16, <1>17 DEF IInv

\* Closing the open dispute and moving the job to where it was routed.
Unfreezes(i, routed, tokens) ==
    /\ Closes(i, routed)
    /\ Transition(routed, tokens)

\* The dispute that is closed is the newest one, so the row and the table
\* agree again.
LEMMA UnfreezesKeep ==
    ASSUME IInv, NEW i \in DOMAIN disputes, NEW tokens,
           NEW routed \in ResumableStatuses \cup RoutableStatuses,
           Unfreezes(i, routed, tokens)
    PROVE  /\ status = "DISPUTED" /\ status' = routed /\ routed \in Status
           /\ stamps' = stamps \cup ({routed} \cap StampedStatuses)
           /\ i = Len(disputes) /\ Standpoint = disputes[i].pre
           /\ Standpoint \in ResumableStatuses \cup {"COMPLETED"}
           /\ Standpoint' = routed
           /\ disputes' \in Seq(DisputeRow) /\ Len(disputes') \in 0..MaxDisputes
           /\ Len(disputes') = Len(disputes) /\ DOMAIN disputes' = DOMAIN disputes
           /\ \A k \in DOMAIN disputes : k # i => disputes'[k] = disputes[k]
           /\ disputes'[i].state = "RESOLVED" /\ disputes'[i].routed = routed
           /\ RuledTo("COMPLETED")' <=> routed = "COMPLETED" \/ RuledTo("COMPLETED")
           /\ \A k \in DOMAIN disputes : disputes[k].routed \notin {"CANCELLED", "FAILED"}
           /\ ending.kind = "NONE"
           /\ ~billed
           /\ DisputeFreezesJob'
<1>1. routed \in Status /\ routed # "DISPUTED"
  BY DEF ResumableStatuses, RoutableStatuses, Status
<1>2. disputes[i].state = "OPEN" /\ disputes[i].routed = "NONE"
  BY DEF Unfreezes, Closes
<1>3. status = "DISPUTED" /\ i = Len(disputes)
  BY <1>2 DEF IInv, DisputeFreezesJob, RulingAwaited, AwaitsRuling
<1>4. /\ disputes' \in Seq(DisputeRow)
      /\ Len(disputes') = Len(disputes)
      /\ DOMAIN disputes' = DOMAIN disputes
      /\ \A k \in DOMAIN disputes : k # i => disputes'[k] = disputes[k]
      /\ disputes'[i].pre = disputes[i].pre
      /\ disputes'[i].state = "RESOLVED"
      /\ disputes'[i].routed = routed
  BY <1>1, TableWhenClosed DEF Unfreezes, IInv
<1>5. status' = routed /\ stamps' = stamps \cup ({routed} \cap StampedStatuses)
  BY DEF Unfreezes, Transition
<1>6. /\ Standpoint = disputes[i].pre /\ Standpoint' = routed
      /\ Standpoint \in ResumableStatuses \cup {"COMPLETED"}
  BY <1>1, <1>3, <1>5 DEF Standpoint, IInv, DisputeFreezesJob
<1>7. \A k \in DOMAIN disputes : disputes[k].routed \notin {"CANCELLED", "FAILED"}
  BY <1>3 DEF IInv, Bookkeeping
<1>8. ending.kind = "NONE" /\ ~billed
  BY <1>3 DEF IInv, TypeOK, EndExplained, BilledIsFinal
<1>9. DisputeFreezesJob'
  <2>1. \A k \in DOMAIN disputes :
            /\ disputes'[k].routed # "NONE"
            /\ disputes'[k].pre \in ResumableStatuses \cup {"COMPLETED"}
            /\ disputes'[k].state # "OPEN"
    BY <1>1, <1>2, <1>3, <1>4 DEF IInv, DisputeFreezesJob, AwaitsRuling, ResumableStatuses,
       RoutableStatuses
  <2> QED
    BY <1>1, <1>4, <1>5, <2>1 DEF DisputeFreezesJob, RulingAwaited, AwaitsRuling
<1>10. RuledTo("COMPLETED")' <=> routed = "COMPLETED" \/ RuledTo("COMPLETED")
  BY <1>2, <1>4 DEF RuledTo
<1> QED
  BY <1>1, <1>3, <1>4, <1>5, <1>6, <1>7, <1>8, <1>9, <1>10 DEF IInv, TypeOK

CommissionRow == [recorded : BOOLEAN, fee : Nat, reduced : Nat]

\* The first completion records the fee of the price, a later one nothing.
LEMMA EarnedOnce ==
    ASSUME IInv, Fee[price] \in Nat, NEW completes \in BOOLEAN
    PROVE  LET earned == IF completes THEN Earned ELSE commission IN
           /\ earned \in CommissionRow
           /\ earned.recorded <=> commission.recorded \/ completes
           /\ earned.recorded => earned.fee = Fee[price]
           /\ earned.reduced = commission.reduced
           /\ ~earned.recorded => earned = NoCommission
<1>1. /\ commission \in CommissionRow
      /\ commission.recorded => commission.fee = Fee[price]
      /\ ~commission.recorded => commission = NoCommission
  BY DEF IInv, TypeOK, CommissionEarned, Bookkeeping, CommissionRow
<1>2. CASE commission.recorded
  BY <1>1, <1>2 DEF Earned
<1>3. CASE ~commission.recorded
  <2>1. NoCommission.reduced = 0 /\ NoCommission.recorded = FALSE
    BY DEF NoCommission
  <2>2. commission.reduced = 0
    BY <1>1, <1>3, <2>1
  <2>3. Earned = [recorded |-> TRUE, fee |-> Fee[price], reduced |-> 0]
    BY <1>3 DEF Earned
  <2>4. CASE completes
    BY <2>2, <2>3, <2>4 DEF CommissionRow
  <2>5. CASE ~completes
    BY <1>1, <1>3, <2>5
  <2> QED
    BY <2>4, <2>5
<1> QED
  BY <1>2, <1>3

\* An adjustment takes at most what is left, and of no record it takes nothing.
LEMMA ReducedBy ==
    ASSUME NEW row \in CommissionRow, NEW cut \in Nat, cut <= row.fee - row.reduced,
           ~row.recorded => row = NoCommission
    PROVE  LET adjusted == [row EXCEPT !.reduced = @ + cut] IN
           /\ adjusted \in CommissionRow
           /\ adjusted.recorded = row.recorded /\ adjusted.fee = row.fee
           /\ adjusted.reduced = row.reduced + cut
           /\ adjusted.reduced <= adjusted.fee
           /\ ~adjusted.recorded => adjusted = NoCommission
<1> DEFINE adjusted == [row EXCEPT !.reduced = @ + cut]
<1>1. /\ adjusted \in CommissionRow
      /\ adjusted.recorded = row.recorded /\ adjusted.fee = row.fee
      /\ adjusted.reduced = row.reduced + cut
  BY DEF CommissionRow
<1>2. adjusted.reduced <= adjusted.fee
  BY <1>1 DEF CommissionRow
<1>3. ASSUME ~row.recorded PROVE adjusted = NoCommission
  <2>1. row = NoCommission
    BY <1>3
  <2>2. cut = 0
    BY <2>1 DEF NoCommission
  <2> QED
    BY <2>1, <2>2 DEF NoCommission
<1> QED
  BY <1>1, <1>2, <1>3

\* A ruling ends the job with the dispute as its explanation.  It takes from
\* the commission at most what is left of it, and nothing of one never earned.
LEMMA ResolveDisputeKeeps ==
    ASSUME IInv, NEW i \in DOMAIN disputes, NEW role \in StaffRoles,
           NEW routed \in RoutableStatuses, NEW cut \in Nat,
           ResolveDispute(i, role, routed, cut)
    PROVE  IInv'
<1> DEFINE earned == IF routed = "COMPLETED" THEN Earned ELSE commission
           tokens == StaffTokens(role)
<1>1. Unfreezes(i, routed, tokens)
  BY DEF ResolveDispute, Unfreezes
<1>2. /\ cut <= earned.fee - earned.reduced
      /\ commission' = [earned EXCEPT !.reduced = @ + cut]
      /\ UNCHANGED <<band, parties, custody, payment, billed, ending, windowClosed, listed>>
  BY DEF ResolveDispute
<1> HIDE DEF tokens
<1>3. routed \in ResumableStatuses \cup RoutableStatuses
      /\ routed \in {"CANCELLED", "COMPLETED", "FAILED"}
  BY DEF RoutableStatuses
<1> USE <1>1, <1>3, UnfreezesKeep
<1>4. price \in Prices /\ Fee[price] \in Nat
  BY FeeAssumption DEF IInv, Bookkeeping
<1>5. /\ earned \in CommissionRow
      /\ earned.recorded <=> commission.recorded \/ routed = "COMPLETED"
      /\ earned.recorded => earned.fee = Fee[price]
      /\ earned.reduced = commission.reduced
      /\ ~earned.recorded => earned = NoCommission
  BY <1>4, EarnedOnce
<1> HIDE DEF earned
<1>6. /\ commission' \in CommissionRow
      /\ commission'.recorded = earned.recorded /\ commission'.fee = earned.fee
      /\ commission'.reduced = earned.reduced + cut
      /\ commission'.reduced <= commission'.fee
      /\ ~commission'.recorded => commission' = NoCommission
  BY <1>2, <1>5, ReducedBy
<1>7. "COMPLETED" \in stamps' <=> "COMPLETED" \in stamps \/ routed = "COMPLETED"
  BY DEF StampedStatuses
<1> USE DEF parties, custody
<1>8. TypeOK'
  BY <1>2, <1>6 DEF IInv, TypeOK, CommissionRow
<1>9. Bookkeeping'
  <2>1. band' \in Bands /\ price' \in Prices
    BY <1>2, <1>4 DEF IInv, Bookkeeping
  <2>2. /\ "COMPLETED" \in stamps' => Standpoint' \in TerminalStates
        /\ Standpoint' \in StampedStatuses => Standpoint' \in stamps'
        /\ windowClosed' => "COMPLETED" \in stamps'
    BY <1>2, <1>7 DEF IInv, Bookkeeping, TerminalStates
  <2>3. ASSUME NEW k \in DOMAIN disputes'
        PROVE  /\ disputes'[k].routed \in {"NONE"} \cup ResumableStatuses \cup RoutableStatuses
               /\ disputes'[k].routed \in {"CANCELLED", "FAILED"} =>
                      k = Len(disputes') /\ status' = disputes'[k].routed
    BY DEF IInv, Bookkeeping
  <2> QED
    BY <1>6, <2>1, <2>2, <2>3 DEF Bookkeeping
<1>10. CustodyChain'
  BY <1>2 DEF IInv, CustodyChain, TerminalStates
<1>11. CompletionEarned'
  BY <1>2, <1>7 DEF IInv, CompletionEarned, ProofComplete
<1>12. CommissionEarned'
  BY <1>2, <1>5, <1>6, <1>7 DEF IInv, CommissionEarned, AwaitsRuling
<1>13. BilledIsFinal'
  BY <1>2 DEF BilledIsFinal
<1>14. EndExplained'
  BY <1>2 DEF IInv, TypeOK, EndExplained
<1>15. HighValueSupervised'
  BY <1>2, HighValueSupervisedRests DEF IInv
<1> QED
  BY <1>8, <1>9, <1>10, <1>11, <1>12, <1>13, <1>14, <1>15 DEF IInv

\* A job goes on where it stood: no completion is on record, and its proofs
\* are those of where it stood.
LEMMA ResumeDisputeKeeps ==
    ASSUME IInv, NEW i \in DOMAIN disputes, ResumeDispute(i) PROVE IInv'
<1> DEFINE target == disputes[i].pre
           tokens == StaffTokens("PLATFORM_ADMIN")
<1>1. /\ Unfreezes(i, target, tokens)
      /\ target \in ResumableStatuses
      /\ confirmed' = [stage \in Stages |-> {}]
      /\ UNCHANGED <<band, parties, proof, money, ending, windowClosed, listed>>
  BY DEF ResumeDispute, Unfreezes
<1> HIDE DEF tokens
<1>2. target \in ResumableStatuses \cup RoutableStatuses
  BY <1>1
<1>3. Standpoint = target
  BY <1>1, <1>2, UnfreezesKeep
<1> HIDE DEF target
<1> USE <1>1, <1>2, <1>3, UnfreezesKeep DEF parties, money
<1>4. target \notin TerminalStates
  BY DEF ResumableStatuses, TerminalStates
<1>5. "COMPLETED" \notin stamps /\ "COMPLETED" \notin stamps'
  BY <1>4 DEF IInv, Bookkeeping, TerminalStates
<1>6. TypeOK'
  BY DEF IInv, TypeOK, Stages, Methods
<1>7. Bookkeeping'
  <2>1. band' \in Bands /\ price' \in Prices
    BY DEF IInv, Bookkeeping
  <2>2. target \notin {"DRAFT", "REQUESTED", "NEGOTIATING", "CONFIRMED", "COMPLETED"}
    BY DEF ResumableStatuses
  <2>3. ASSUME NEW k \in DOMAIN disputes'
        PROVE  /\ disputes'[k].routed \in {"NONE"} \cup ResumableStatuses \cup RoutableStatuses
               /\ disputes'[k].routed \notin {"CANCELLED", "FAILED"}
    BY DEF IInv, Bookkeeping, ResumableStatuses
  <2>4. commission' = commission /\ windowClosed' = windowClosed
    OBVIOUS
  <2> QED
    BY <1>5, <2>1, <2>2, <2>3, <2>4 DEF IInv, Bookkeeping
<1>8. CustodyChain'
  BY DEF IInv, CustodyChain, ProofComplete
<1>9. CompletionEarned'
  BY <1>4, <1>5, CompletionEarnedRests DEF IInv, TerminalStates
<1>10. CommissionEarned'
  BY <1>5 DEF IInv, TypeOK, CommissionEarned, AwaitsRuling, Bookkeeping, NoCommission
<1>11. BilledIsFinal'
  BY DEF BilledIsFinal
<1>12. EndExplained'
  BY DEF IInv, TypeOK, EndExplained, ResumableStatuses
<1>13. HighValueSupervised'
  BY HighValueSupervisedRests DEF IInv
<1> QED
  BY <1>6, <1>7, <1>8, <1>9, <1>10, <1>11, <1>12, <1>13 DEF IInv

\* An escalation changes the state of one dispute and nothing the ruling says.
LEMMA TableWhenEscalated ==
    ASSUME IInv, NEW i \in DOMAIN disputes, Escalate(i)
    PROVE  /\ disputes' \in Seq(DisputeRow)
           /\ Len(disputes') = Len(disputes) /\ DOMAIN disputes' = DOMAIN disputes
           /\ \A k \in DOMAIN disputes :
                  /\ disputes'[k].pre = disputes[k].pre
                  /\ disputes'[k].routed = disputes[k].routed
                  /\ k # i => disputes'[k].state = disputes[k].state
           /\ disputes[i].state = "RESOLVED" /\ disputes'[i].state = "OPEN"
<1>1. disputes \in Seq(DisputeRow) /\ disputes[i] \in DisputeRow
  BY DEF IInv, TypeOK
<1> DEFINE row == [disputes[i] EXCEPT !.state = "OPEN"]
<1>2. /\ row \in DisputeRow /\ row.state = "OPEN"
      /\ row.pre = disputes[i].pre /\ row.routed = disputes[i].routed
  BY <1>1 DEF DisputeRow
<1>3. disputes' = [disputes EXCEPT ![i] = row]
  BY DEF Escalate
<1> HIDE DEF row
<1>4. /\ disputes' \in Seq(DisputeRow)
      /\ Len(disputes') = Len(disputes) /\ DOMAIN disputes' = DOMAIN disputes
      /\ \A k \in DOMAIN disputes : k # i => disputes'[k] = disputes[k]
      /\ disputes'[i] = row
  BY <1>1, <1>2, <1>3
<1>5. disputes[i].state = "RESOLVED"
  BY <1>1 DEF Escalate, DisputeOpen, DisputeRow
<1> QED
  BY <1>2, <1>4, <1>5

\* So the job stands where it stood, and no ruling is awaited anew.
LEMMA EscalateRests ==
    ASSUME IInv, NEW i \in DOMAIN disputes, Escalate(i)
    PROVE  /\ UNCHANGED <<jobRow, parties, custody, money, ending, windowClosed, listed>>
           /\ Standpoint' = Standpoint
           /\ \A outcome : RuledTo(outcome)' <=> RuledTo(outcome)
           /\ \A k \in DOMAIN disputes : AwaitsRuling(k)' <=> AwaitsRuling(k)
           /\ ~RulingAwaited /\ ~RulingAwaited' /\ status # "DISPUTED"
           /\ DisputeOpen' /\ ~DisputeOpen
<1> USE TableWhenEscalated
<1>1. /\ UNCHANGED <<jobRow, parties, custody, money, ending, windowClosed, listed>>
      /\ ~DisputeOpen
  BY DEF Escalate
<1>2. \A k \in DOMAIN disputes : AwaitsRuling(k)' <=> AwaitsRuling(k)
  BY DEF AwaitsRuling
<1>3. ~RulingAwaited /\ ~RulingAwaited'
  BY <1>1, <1>2 DEF IInv, DisputeFreezesJob, RulingAwaited, DisputeOpen
<1>4. status # "DISPUTED"
  BY <1>3 DEF IInv, DisputeFreezesJob
<1>5. Standpoint' = Standpoint
  BY <1>1, <1>4 DEF Standpoint, jobRow
<1>6. \A outcome : RuledTo(outcome)' <=> RuledTo(outcome)
  BY DEF RuledTo
<1>7. DisputeOpen'
  BY DEF DisputeOpen
<1> QED
  BY <1>1, <1>2, <1>3, <1>4, <1>5, <1>6, <1>7

LEMMA EscalateKeeps == ASSUME IInv, NEW i \in DOMAIN disputes, Escalate(i) PROVE IInv'
<1> USE TableWhenEscalated, EscalateRests DEF jobRow, parties, custody, money
<1>1. TypeOK'
  BY DEF IInv, TypeOK
<1>2. Bookkeeping'
  <2>1. \A k \in DOMAIN disputes' :
            /\ disputes'[k].routed \in {"NONE"} \cup ResumableStatuses \cup RoutableStatuses
            /\ disputes'[k].routed \in {"CANCELLED", "FAILED"} =>
                   k = Len(disputes') /\ status' = disputes'[k].routed
    BY DEF IInv, Bookkeeping
  <2>2. status \notin {"DRAFT", "REQUESTED", "NEGOTIATING", "CONFIRMED"}
    BY DEF IInv, Bookkeeping
  <2> QED
    BY <2>1, <2>2 DEF IInv, Bookkeeping
<1>3. DisputeFreezesJob'
  <2>1. status' # "DISPUTED" /\ \A k \in DOMAIN disputes' : ~AwaitsRuling(k)'
    BY DEF RulingAwaited
  <2>2. \A k \in DOMAIN disputes' :
            disputes'[k].pre \in ResumableStatuses \cup {"COMPLETED"}
    BY DEF IInv, DisputeFreezesJob
  <2>3. \A k \in DOMAIN disputes' : disputes'[k].state = "OPEN" => k = i
    BY DEF DisputeOpen
  <2> QED
    BY <2>1, <2>2, <2>3 DEF DisputeFreezesJob
<1>4. CustodyChain'
  BY DEF IInv, CustodyChain, ProofComplete
<1>5. CompletionEarned'
  BY CompletionEarnedRests DEF IInv
<1>6. CommissionEarned'
  BY DEF IInv, CommissionEarned
<1>7. BilledIsFinal' /\ EndExplained'
  BY DEF IInv, BilledIsFinal, EndExplained
<1>8. HighValueSupervised'
  BY HighValueSupervisedRests DEF IInv
<1> QED
  BY <1>1, <1>2, <1>3, <1>4, <1>5, <1>6, <1>7, <1>8 DEF IInv

-----------------------------------------------------------------------------
(* The invariant, and what follows from it. *)

LEMMA StepKeeps == ASSUME IInv, [Next]_vars PROVE IInv'
<1>1. CASE Bargain
  BY <1>1, SubmitKeeps, OfferKeeps, ConfirmKeeps, CancelByBusinessKeeps, CancelByStaffKeeps
     DEF Bargain
<1>2. CASE Sweep
  BY <1>2, ListExpiredKeeps, ExpireCandidateKeeps DEF Sweep
<1>3. CASE Prepare
  BY <1>3, DecideHighValueKeeps, ReverseRejectionKeeps, AssignKeeps DEF Prepare
<1>4. CASE Carry
  <2>1. ASSUME NEW given \in Givens, ConfirmPickup(given) \/ ConfirmDelivery(given)
        PROVE  IInv'
    <3>1. given \in SUBSET Methods /\ "PICKUP" \in Stages /\ "DELIVERY" \in Stages
      BY BoundAssumption DEF Stages
    <3>2. CASE ConfirmPickup(given)
      BY <3>1, <3>2, HandOverKeeps DEF ConfirmPickup
    <3>3. CASE ConfirmDelivery(given)
      BY <3>1, <3>3, HandOverKeeps DEF ConfirmDelivery
    <3> QED
      BY <2>1, <3>2, <3>3
  <2> QED
    BY <1>4, <2>1, DrivesKeep, SenderConfirmPickupKeeps, ConfirmReceiptKeeps,
       FailAtPickupByDriverKeeps, FailAtPickupByStaffKeeps, SenderCloseKeeps DEF Carry
<1>5. CASE Settle
  <2>1. ASSUME NEW i \in DOMAIN disputes, NEW role \in StaffRoles,
               NEW routed \in RoutableStatuses, NEW cut \in 0..Earned.fee,
               ResolveDispute(i, role, routed, cut)
        PROVE  IInv'
    BY <2>1, ResolveDisputeKeeps
  <2> QED
    BY <1>5, <2>1, OpenDisputeKeeps, ResumeDisputeKeeps, EscalateKeeps,
       RunStatementKeeps DEF Settle
<1>6. CASE WindowCloses
  BY <1>6, WindowClosesKeeps
<1>7. CASE UNCHANGED vars
  BY <1>7, StutterKeeps
<1> QED
  BY <1>1, <1>2, <1>3, <1>4, <1>5, <1>6, <1>7 DEF Next

\* Every reachable state satisfies the inductive invariant.
THEOREM Invariance == Spec => []IInv
BY InitHolds, StepKeeps, PTL DEF Spec

\* Every table and column keeps its type.
THEOREM TypeCorrectness == Spec => []TypeOK
<1>1. IInv => TypeOK
  BY DEF IInv
<1> QED
  BY <1>1, Invariance, PTL

\* A job is DISPUTED exactly while its newest dispute awaits its ruling.
THEOREM DisputesFreezeJobs == Spec => []DisputeFreezesJob
<1>1. IInv => DisputeFreezesJob
  BY DEF IInv
<1> QED
  BY <1>1, Invariance, PTL

\* The proof rows are always those of where the job stands.
THEOREM CustodyIsProved == Spec => []CustodyChain
<1>1. IInv => CustodyChain
  BY DEF IInv
<1> QED
  BY <1>1, Invariance, PTL

\* Nothing completes without a payment for proved goods or a ruling.
THEOREM CompletionsAreEarned == Spec => []CompletionEarned
<1>1. IInv => CompletionEarned
  BY DEF IInv
<1> QED
  BY <1>1, Invariance, PTL

\* The commission record is that of the agreed price, reduced within bounds.
THEOREM CommissionsAreEarned == Spec => []CommissionEarned
<1>1. IInv => CommissionEarned
  BY DEF IInv
<1> QED
  BY <1>1, Invariance, PTL

\* What was billed can no longer be disputed.
THEOREM BillsAreFinal == Spec => []BilledIsFinal
<1>1. IInv => BilledIsFinal
  BY DEF IInv
<1> QED
  BY <1>1, Invariance, PTL

\* Every job that ended short of completion has exactly one explanation.
THEOREM EndsAreExplained == Spec => []EndExplained
<1>1. IInv => EndExplained
  BY DEF IInv
<1> QED
  BY <1>1, Invariance, PTL

\* No high-value job is assigned without its approval.
THEOREM HighValueIsSupervised == Spec => []HighValueSupervised
<1>1. IInv => HighValueSupervised
  BY DEF IInv
<1> QED
  BY <1>1, Invariance, PTL

-----------------------------------------------------------------------------
(* The job implements its consignment, step by step. *)

LEMMA AbstractInit == ASSUME Init PROVE Abstract!Init
<1>1. HolderOf = "SENDER"
  BY DEF Init, HolderOf, Stages
<1>2. OutcomeOf = "OPEN" /\ status # "DISPUTED"
  BY DEF Init, OutcomeOf, Standpoint
<1>3. DueOf = "NONE"
  BY DEF Init, DueOf, NoCommission
<1> QED
  BY <1>1, <1>2, <1>3 DEF Abstract!Init

\* What the abstract view does not see.
Unseen ==
    /\ UNCHANGED <<proof, commission, billed>>
    /\ status' = "DISPUTED" <=> status = "DISPUTED"
    /\ \/ Standpoint' = Standpoint
       \/ {Standpoint, Standpoint'} \cap TerminalStates = {}

LEMMA UnseenStutters == ASSUME Unseen PROVE UNCHANGED Abstract!vars
<1>1. HolderOf' = HolderOf /\ DueOf' = DueOf
  BY DEF Unseen, HolderOf, DueOf
<1>2. OutcomeOf' = OutcomeOf
  BY DEF Unseen, OutcomeOf, TerminalStates
<1> QED
  BY <1>1, <1>2 DEF Abstract!vars, Unseen

LEMMA RowKeptUnseen ==
    ASSUME UNCHANGED <<jobRow, disputes, proof, commission, billed>> PROVE Unseen
<1>1. status' = status /\ Standpoint' = Standpoint
  BY DEF jobRow, Standpoint
<1> QED
  BY <1>1 DEF Unseen

LEMMA MovesUnseen ==
    ASSUME IInv, NEW to, NEW tokens, Moves(to, tokens), to \notin TerminalStates,
           UNCHANGED <<proof, commission, billed>>
    PROVE  Unseen
<1>1. Standpoint \notin TerminalStates /\ Standpoint' \notin TerminalStates
  BY MovesKeep DEF TerminalStates
<1> QED
  BY <1>1 DEF Unseen, Moves, Transition

LEMMA GivesUp ==
    ASSUME IInv, NEW to \in {"CANCELLED", "FAILED"}, NEW tokens, Moves(to, tokens),
           status # "DELIVERED", UNCHANGED <<proof, commission, billed>>
    PROVE  Abstract!GiveUp
<1> USE MovesKeep
<1>1. HolderOf # "RECIPIENT" /\ HolderOf' = HolderOf
  BY DEF IInv, CustodyChain, TerminalStates, HolderOf
<1>2. OutcomeOf = "OPEN" /\ OutcomeOf' = "ENDED"
  BY DEF OutcomeOf
<1>3. DueOf' = DueOf
  BY DEF DueOf
<1>4. status # "DISPUTED" /\ status' # "DISPUTED"
  BY DEF Moves
<1> QED
  BY <1>1, <1>2, <1>3, <1>4 DEF Abstract!GiveUp, Abstract!Underway

LEMMA HandsOver ==
    ASSUME IInv, NEW given \in SUBSET Methods, NEW stage \in Stages, NEW to,
           \/ stage = "PICKUP" /\ to = "PICKED_UP"
           \/ stage = "DELIVERY" /\ to = "DELIVERED",
           HandOver(stage, to, given)
    PROVE  Abstract!HandOver
<1>1. /\ Moves(to, DriverTokens)
      /\ to = "PICKED_UP" => status = "AT_PICKUP"
      /\ to = "DELIVERED" => status = "AT_DESTINATION"
      /\ UNCHANGED money
  BY DriverTargets DEF HandOver, Transition, Moves
<1>2. OutcomeOf = "OPEN" /\ OutcomeOf' = "OPEN" /\ status # "DISPUTED"
      /\ status' # "DISPUTED"
  BY <1>1, MovesKeep DEF OutcomeOf
<1>3. DueOf' = DueOf
  BY <1>1 DEF DueOf, money
<1> DEFINE present == given \cup confirmed[stage]
<1>4. /\ proof' = [proof EXCEPT ![stage] = present]
      /\ ProofComplete(stage, present)
  BY DEF HandOver
<1>5. present # {} /\ "PICKUP" \in Stages /\ "DELIVERY" \in Stages
  BY <1>1, <1>4, ProofsHaveMethods DEF IInv, Bookkeeping, Stages
<1>6. /\ proof'[stage] # {}
      /\ \A other \in Stages : other # stage => proof'[other] = proof[other]
  BY <1>4, <1>5 DEF IInv, TypeOK
<1>7. CASE stage = "PICKUP"
  <2>1. proof["PICKUP"] = {} /\ proof["DELIVERY"] = {}
    BY <1>1, <1>7, MovesKeep DEF IInv, CustodyChain, TerminalStates
  <2>2. HolderOf = "SENDER" /\ HolderOf' = "CARRIER"
    BY <1>5, <1>6, <1>7, <2>1 DEF HolderOf
  <2> QED
    BY <1>2, <1>3, <2>2 DEF Abstract!HandOver, Abstract!Underway
<1>8. CASE stage = "DELIVERY"
  <2>1. proof["DELIVERY"] = {} /\ ProofComplete("PICKUP", proof["PICKUP"])
    BY <1>1, <1>8, MovesKeep DEF IInv, CustodyChain, TerminalStates
  <2>2. proof["PICKUP"] # {}
    BY <1>1, <1>5, <2>1, ProofsHaveMethods DEF IInv, Bookkeeping
  <2>3. HolderOf = "CARRIER" /\ HolderOf' = "RECIPIENT"
    BY <1>5, <1>6, <1>8, <2>1, <2>2 DEF HolderOf
  <2> QED
    BY <1>2, <1>3, <2>3 DEF Abstract!HandOver, Abstract!Underway
<1> QED
  BY <1>7, <1>8

LEMMA Completes == ASSUME IInv, SenderClose PROVE Abstract!Complete
<1>1. status = "DELIVERED" /\ Moves("COMPLETED", {"BUSINESS_PARTY"})
  BY DEF SenderClose, Transition, Moves
<1>2. proof["DELIVERY"] # {}
  <2>1. "DELIVERY" \in Stages /\ band \in Bands /\ ProofComplete("DELIVERY", proof["DELIVERY"])
    BY <1>1, MovesKeep DEF IInv, CustodyChain, Bookkeeping, Stages
  <2> QED
    BY <2>1, ProofsHaveMethods
<1>3. HolderOf = "RECIPIENT" /\ HolderOf' = "RECIPIENT"
  BY <1>2 DEF HolderOf, SenderClose, custody
<1>4. OutcomeOf = "OPEN" /\ OutcomeOf' = "DONE"
  BY <1>1, MovesKeep DEF OutcomeOf
<1>5. status # "DISPUTED" /\ status' # "DISPUTED"
  BY <1>1 DEF SenderClose, Transition
<1>6. DueOf' = "OWED"
  <2>1. ~billed' /\ commission'.recorded
    BY <1>1, MovesKeep, MovesStamp DEF SenderClose, Earned
  <2> QED
    BY <2>1 DEF DueOf
<1> QED
  BY <1>3, <1>4, <1>5, <1>6 DEF Abstract!Complete, Abstract!Underway

LEMMA Freezes == ASSUME IInv, NEW tokens, OpenDispute(tokens) PROVE Abstract!Freeze
<1>1. /\ status \in ResumableStatuses \cup {"COMPLETED"}
      /\ status' = "DISPUTED"
      /\ status = "COMPLETED" => ~windowClosed
      /\ UNCHANGED <<custody, money>>
  BY RuleTargets DEF OpenDispute, Transition
<1>2. status # "DISPUTED"
  BY <1>1 DEF ResumableStatuses
<1> DEFINE row == [state |-> "OPEN", pre |-> status, routed |-> "NONE"]
<1>3. disputes' = Append(disputes, row) /\ disputes \in Seq(DisputeRow)
  BY DEF OpenDispute, IInv, TypeOK
<1>4. row \in DisputeRow
  BY <1>1 DEF DisputeRow, ResumableStatuses, Status
<1>5. disputes'[Len(disputes')] = row
  BY <1>3, <1>4, TableWhenOpened
<1>6. Standpoint' = Standpoint
  BY <1>1, <1>2, <1>5 DEF Standpoint
<1>7. OutcomeOf # "ENDED" /\ OutcomeOf' = OutcomeOf
  BY <1>1, <1>2, <1>6 DEF OutcomeOf, Standpoint, ResumableStatuses
<1>8. HolderOf' = HolderOf /\ DueOf' = DueOf /\ DueOf # "BILLED"
  BY <1>1 DEF HolderOf, DueOf, custody, money, IInv, BilledIsFinal
<1> QED
  BY <1>1, <1>2, <1>7, <1>8 DEF Abstract!Freeze

LEMMA RulingRules ==
    ASSUME IInv, NEW i \in DOMAIN disputes, NEW role \in StaffRoles,
           NEW routed \in RoutableStatuses, NEW cut \in Nat,
           ResolveDispute(i, role, routed, cut)
    PROVE  Abstract!Rule
<1>1. /\ Unfreezes(i, routed, StaffTokens(role))
      /\ UNCHANGED <<custody, billed>>
  BY DEF ResolveDispute, Unfreezes
<1>2. /\ routed \in {"CANCELLED", "COMPLETED", "FAILED"}
      /\ routed \in ResumableStatuses \cup RoutableStatuses
  BY DEF RoutableStatuses
<1>3. status = "DISPUTED" /\ status' = routed /\ Standpoint' = routed /\ ~billed
  BY <1>1, <1>2, UnfreezesKeep
<1>4. HolderOf' = HolderOf
  BY <1>1 DEF HolderOf, custody
<1>5. /\ OutcomeOf' \in {"DONE", "ENDED"}
      /\ OutcomeOf' = "DONE" <=> routed = "COMPLETED"
  BY <1>2, <1>3 DEF OutcomeOf
<1>6. price \in Prices /\ Fee[price] \in Nat
  BY <1>3, FeeAssumption DEF IInv, Bookkeeping
<1>7. commission'.recorded <=> commission.recorded \/ routed = "COMPLETED"
  <2> DEFINE earned == IF routed = "COMPLETED" THEN Earned ELSE commission
  <2>1. earned \in CommissionRow
        /\ (earned.recorded <=> commission.recorded \/ routed = "COMPLETED")
    BY <1>6, EarnedOnce
  <2>2. commission' = [earned EXCEPT !.reduced = @ + cut]
    BY DEF ResolveDispute
  <2> QED
    BY <2>1, <2>2 DEF CommissionRow
<1>8. DueOf' = IF OutcomeOf' = "DONE" THEN "OWED" ELSE DueOf
  BY <1>1, <1>3, <1>5, <1>7 DEF DueOf
<1> QED
  BY <1>2, <1>3, <1>4, <1>5, <1>8 DEF Abstract!Rule

LEMMA Releases ==
    ASSUME IInv, NEW i \in DOMAIN disputes, ResumeDispute(i) PROVE Abstract!Release
<1> DEFINE target == disputes[i].pre
<1>1. /\ Unfreezes(i, target, StaffTokens("PLATFORM_ADMIN"))
      /\ target \in ResumableStatuses
      /\ UNCHANGED <<proof, money>>
  BY DEF ResumeDispute, Unfreezes
<1>2. /\ status = "DISPUTED" /\ status' = target
      /\ Standpoint = target /\ Standpoint' = target
  BY <1>1, UnfreezesKeep
<1>3. target \notin TerminalStates \cup {"DISPUTED"}
  BY <1>1 DEF ResumableStatuses, TerminalStates
<1> HIDE DEF target
<1>4. OutcomeOf = "OPEN" /\ OutcomeOf' = "OPEN"
  BY <1>2, <1>3 DEF OutcomeOf, TerminalStates
<1>5. HolderOf' = HolderOf /\ DueOf' = DueOf
  BY <1>1 DEF HolderOf, DueOf, money
<1> QED
  BY <1>2, <1>3, <1>4, <1>5 DEF Abstract!Release

LEMMA Bills == ASSUME IInv, RunStatement PROVE Abstract!Bill
<1>1. OutcomeOf = "DONE" /\ OutcomeOf' = "DONE"
  BY DEF RunStatement, jobRow, OutcomeOf, Standpoint
<1>2. DueOf = "OWED" /\ DueOf' = "BILLED"
  BY DEF RunStatement, DueOf
<1>3. HolderOf' = HolderOf
  BY DEF RunStatement, custody, HolderOf
<1> QED
  BY <1>1, <1>2, <1>3 DEF RunStatement, jobRow, Abstract!Bill

\* The three ways a job ends short of completion, apart from a ruling.
LEMMA EndsGiveUp ==
    ASSUME IInv,
           \/ CancelByBusiness
           \/ \E role \in StaffRoles : CancelByStaff(role)
           \/ \E by, tokens : FailAtPickup(by, tokens)
    PROVE  Abstract!GiveUp
<1>1. CASE CancelByBusiness
  <2>1. Moves("CANCELLED", {"BUSINESS_PARTY"}) /\ status # "DELIVERED"
    BY <1>1, CancelTargets DEF CancelByBusiness, Transition, Moves
  <2> QED
    BY <1>1, <2>1, GivesUp DEF CancelByBusiness, custody, money
<1>2. ASSUME NEW role \in StaffRoles, CancelByStaff(role) PROVE Abstract!GiveUp
  <2>1. Moves("CANCELLED", StaffTokens(role)) /\ status # "DELIVERED"
    BY <1>2, CancelTargets DEF CancelByStaff, Transition, Moves
  <2> QED
    BY <1>2, <2>1, GivesUp DEF CancelByStaff, custody, money
<1>3. ASSUME NEW by, NEW tokens, FailAtPickup(by, tokens) PROVE Abstract!GiveUp
  <2>1. Moves("FAILED", tokens) /\ status # "DELIVERED"
    BY <1>3, FailTargets DEF FailAtPickup, Transition, Moves
  <2> QED
    BY <1>3, <2>1, GivesUp DEF FailAtPickup, custody, money
<1> QED
  BY <1>1, <1>2, <1>3

LEMMA SweepRefines == ASSUME IInv, Sweep PROVE [Abstract!Next]_(Abstract!vars)
<1>1. CASE ListExpired
  <2>1. Unseen
    BY <1>1, RowKeptUnseen DEF ListExpired, custody, money
  <2> QED
    BY <2>1, UnseenStutters
<1>2. CASE ExpireCandidate /\ Expires
  <2>1. Moves("FAILED", {"SCHEDULER"}) /\ status # "DELIVERED"
    BY <1>2, FailTargets DEF ExpireCandidate, Expires, Transition, Moves
  <2>2. UNCHANGED <<proof, commission, billed>>
    BY <1>2 DEF ExpireCandidate, custody, money
  <2> QED
    BY <2>1, <2>2, GivesUp DEF Abstract!Next
<1>3. CASE ExpireCandidate /\ UNCHANGED <<status, stamps, ending>>
  <2>1. UNCHANGED <<band, custody, money, disputes>>
    BY <1>3 DEF ExpireCandidate
  <2>2. Unseen
    BY <1>3, <2>1, RowKeptUnseen DEF jobRow, custody, money
  <2> QED
    BY <2>2, UnseenStutters
<1> QED
  BY <1>1, <1>2, <1>3 DEF Sweep, ExpireCandidate

LEMMA BargainRefines == ASSUME IInv, Bargain PROVE [Abstract!Next]_(Abstract!vars)
<1>1. ASSUME NEW to \in {"REQUESTED", "NEGOTIATING", "CONFIRMED"}, NEW tokens,
             Transition(to, tokens), UNCHANGED <<custody, money, disputes>>
      PROVE  Unseen
  <2>1. Moves(to, tokens) /\ to \notin TerminalStates
    BY <1>1, RuleTargets DEF Transition, Moves, TerminalStates
  <2> QED
    BY <1>1, <2>1, MovesUnseen DEF custody, money
<1>2. CASE Submit
  BY <1>1, <1>2, UnseenStutters DEF Submit
<1>3. ASSUME NEW side, Offer(side) PROVE Unseen
  BY <1>1, <1>3 DEF Offer
<1>4. ASSUME NEW side, NEW amount, Confirm(side, amount) PROVE Unseen
  BY <1>1, <1>4 DEF Confirm
<1>5. CASE CancelByBusiness \/ \E role \in StaffRoles : CancelByStaff(role)
  BY <1>5, EndsGiveUp DEF Abstract!Next
<1> QED
  BY <1>2, <1>3, <1>4, <1>5, UnseenStutters DEF Bargain

LEMMA PrepareRefines == ASSUME IInv, Prepare PROVE [Abstract!Next]_(Abstract!vars)
<1>1. ASSUME NEW role, NEW approve, DecideHighValue(role, approve) PROVE Unseen
  BY <1>1, RowKeptUnseen DEF DecideHighValue, custody, money
<1>2. CASE ReverseRejection
  <2>1. Unseen
    BY <1>2, RowKeptUnseen DEF ReverseRejection, custody, money
  <2> QED
    BY <2>1, UnseenStutters
<1>3. ASSUME NEW tokens, NEW driver, Assign(tokens, driver) PROVE Unseen
  <2>1. Moves("ASSIGNED", tokens)
    BY <1>3 DEF Assign, Transition, Moves
  <2> QED
    BY <1>3, <2>1, MovesUnseen DEF Assign, custody, money, TerminalStates
<1> QED
  BY <1>1, <1>2, <1>3, UnseenStutters DEF Prepare

LEMMA CarryRefines == ASSUME IInv, Carry PROVE [Abstract!Next]_(Abstract!vars)
<1>1. ASSUME NEW to \in {"AT_PICKUP", "IN_TRANSIT", "AT_DESTINATION"}, Drive(to)
      PROVE  Unseen
  <2>1. status # "DISPUTED"
    <3>1. Permitted(status, to, DriverTokens)
      BY <1>1 DEF Drive, Transition
    <3> QED
      BY <3>1, DriverTargets
  <2>2. Moves(to, DriverTokens) /\ to \notin TerminalStates
    BY <1>1, <2>1 DEF Drive, Transition, Moves, TerminalStates
  <2> QED
    BY <1>1, <2>2, MovesUnseen DEF Drive, custody, money
<1>2. CASE ArriveAtPickup \/ StartTransit \/ ArriveAtDestination
  BY <1>1, <1>2, UnseenStutters DEF ArriveAtPickup, StartTransit, ArriveAtDestination
<1>3. CASE SenderConfirmPickup
  BY <1>3, RowKeptUnseen, UnseenStutters DEF SenderConfirmPickup, money
<1>4. ASSUME NEW signed, ConfirmReceipt(signed) PROVE Unseen
  BY <1>4, RowKeptUnseen DEF ConfirmReceipt, money
<1>5. ASSUME NEW given \in Givens, ConfirmPickup(given) \/ ConfirmDelivery(given)
      PROVE  Abstract!HandOver
  <2>1. given \in SUBSET Methods /\ "PICKUP" \in Stages /\ "DELIVERY" \in Stages
    BY BoundAssumption DEF Stages
  <2> QED
    BY <1>5, <2>1, HandsOver DEF ConfirmPickup, ConfirmDelivery
<1>6. CASE \/ FailAtPickup("DRIVER", DriverTokens)
           \/ \E role \in StaffRoles : FailAtPickup("STAFF", StaffTokens(role))
  BY <1>6, EndsGiveUp DEF Abstract!Next
<1>7. CASE SenderClose
  BY <1>7, Completes DEF Abstract!Next
<1> QED
  BY <1>2, <1>3, <1>4, <1>5, <1>6, <1>7, UnseenStutters DEF Carry, Abstract!Next

LEMMA SettleRefines == ASSUME IInv, Settle PROVE [Abstract!Next]_(Abstract!vars)
<1>1. CASE \E tokens \in Disputants : OpenDispute(tokens)
  BY <1>1, Freezes DEF Abstract!Next
<1>2. ASSUME NEW i \in DOMAIN disputes, NEW role \in StaffRoles,
             NEW routed \in RoutableStatuses, NEW cut \in 0..Earned.fee,
             ResolveDispute(i, role, routed, cut)
      PROVE  Abstract!Rule
  BY <1>2, RulingRules
<1>3. ASSUME NEW i \in DOMAIN disputes, ResumeDispute(i) PROVE Abstract!Release
  BY <1>3, Releases
<1>4. CASE RunStatement
  BY <1>4, Bills DEF Abstract!Next
<1>5. ASSUME NEW i \in DOMAIN disputes, Escalate(i) PROVE UNCHANGED Abstract!vars
  <2>1. Unseen
    BY <1>5, EscalateRests DEF Unseen, jobRow, custody, money
  <2> QED
    BY <2>1, UnseenStutters
<1> QED
  BY <1>1, <1>2, <1>3, <1>4, <1>5 DEF Settle, Abstract!Next

\* Whatever route a job takes, it keeps the promise of Consignment: goods
\* change hands once each way, only delivered goods or a ruling complete a
\* job, rulings move no goods, and what is billed stands.
THEOREM JobImplementsConsignment == Spec => ImplementsConsignment
<1>1. Init => Abstract!Init
  BY AbstractInit
<1>2. ASSUME IInv, [Next]_vars PROVE [Abstract!Next]_(Abstract!vars)
  <2>1. CASE WindowCloses \/ UNCHANGED vars
    <3>1. Unseen
      BY <2>1, RowKeptUnseen DEF WindowCloses, vars, custody, money
    <3> QED
      BY <3>1, UnseenStutters
  <2> QED
    BY <1>2, <2>1, BargainRefines, SweepRefines, PrepareRefines, CarryRefines,
       SettleRefines DEF Next
<1> QED
  BY <1>1, <1>2, Invariance, PTL DEF Spec, ImplementsConsignment, Abstract!Spec

-----------------------------------------------------------------------------
(* What a step may never do. *)

\* Every step is of one of five kinds.
Rests == UNCHANGED <<status, stamps, assignment, proof, payment, commission, disputes, ending>>
Advances == \E to, tokens : Moves(to, tokens)
Disputes == \E tokens : OpenDispute(tokens)
Decides ==
    \E i \in DOMAIN disputes :
        \/ \E role \in StaffRoles, routed \in RoutableStatuses, cut \in Nat :
               ResolveDispute(i, role, routed, cut)
        \/ ResumeDispute(i)
Reopens == \E i \in DOMAIN disputes : Escalate(i)

LEMMA Kinds ==
    ASSUME IInv, Next
    PROVE  Rests \/ Advances \/ Disputes \/ Decides \/ Reopens
<1>1. CASE Bargain
  <2>1. ASSUME NEW to \in {"REQUESTED", "NEGOTIATING", "CONFIRMED", "CANCELLED"}, NEW tokens,
               Transition(to, tokens), UNCHANGED disputes,
               to = "CANCELLED" => status # "DISPUTED"
        PROVE  Moves(to, tokens)
    BY <2>1, RuleTargets DEF Transition, Moves
  <2>2. CASE Submit
    BY <2>1, <2>2 DEF Submit, Advances
  <2>3. ASSUME NEW side, Offer(side) PROVE Advances
    BY <2>1, <2>3 DEF Offer, Advances
  <2>4. ASSUME NEW side, NEW amount, Confirm(side, amount) PROVE Advances
    BY <2>1, <2>4 DEF Confirm, Advances
  <2>5. CASE CancelByBusiness
    <3>1. status # "DISPUTED"
      BY <2>5, CancelTargets DEF CancelByBusiness, Transition
    <3> QED
      BY <2>1, <2>5, <3>1 DEF CancelByBusiness, Advances
  <2>6. ASSUME NEW role \in StaffRoles, CancelByStaff(role) PROVE Advances
    BY <2>1, <2>6 DEF CancelByStaff, Advances
  <2> QED
    BY <1>1, <2>2, <2>3, <2>4, <2>5, <2>6 DEF Bargain
<1>2. CASE Sweep
  <2>1. CASE ListExpired
    BY <2>1 DEF ListExpired, Rests, jobRow, parties, custody, money
  <2>2. CASE ExpireCandidate /\ Expires
    <3>1. Moves("FAILED", {"SCHEDULER"})
      BY <2>2, FailTargets DEF ExpireCandidate, Expires, Transition, Moves
    <3> QED
      BY <3>1 DEF Advances
  <2>3. CASE ExpireCandidate /\ UNCHANGED <<status, stamps, ending>>
    <3>1. UNCHANGED <<parties, custody, money, disputes>>
      BY <2>3 DEF ExpireCandidate
    <3> QED
      BY <2>3, <3>1 DEF Rests, parties, custody, money
  <2> QED
    BY <1>2, <2>1, <2>2, <2>3 DEF Sweep, ExpireCandidate
<1>3. CASE Prepare
  <2>1. ASSUME NEW role, NEW approve, DecideHighValue(role, approve) PROVE Rests
    BY <2>1 DEF DecideHighValue, Rests, jobRow, custody, money
  <2>2. CASE ReverseRejection
    BY <2>2 DEF ReverseRejection, Rests, jobRow, custody, money
  <2>3. ASSUME NEW tokens, NEW driver, Assign(tokens, driver) PROVE Advances
    BY <2>3 DEF Assign, Transition, Moves, Advances
  <2> QED
    BY <1>3, <2>1, <2>2, <2>3 DEF Prepare
<1>4. CASE Carry
  <2>1. ASSUME NEW to \in {"AT_PICKUP", "IN_TRANSIT", "AT_DESTINATION", "PICKED_UP",
                           "DELIVERED"},
               Transition(to, DriverTokens), UNCHANGED disputes
        PROVE  Advances
    <3>1. status # "DISPUTED"
      BY <2>1, DriverTargets DEF Transition
    <3> QED
      BY <2>1, <3>1 DEF Moves, Advances
  <2>2. ASSUME NEW to \in {"AT_PICKUP", "IN_TRANSIT", "AT_DESTINATION"}, Drive(to)
        PROVE  Advances
    BY <2>1, <2>2 DEF Drive
  <2>3. CASE ArriveAtPickup \/ StartTransit \/ ArriveAtDestination
    BY <2>2, <2>3 DEF ArriveAtPickup, StartTransit, ArriveAtDestination
  <2>4. CASE SenderConfirmPickup
    BY <2>4 DEF SenderConfirmPickup, Rests, jobRow, parties, money
  <2>5. ASSUME NEW signed, ConfirmReceipt(signed) PROVE Rests
    BY <2>5 DEF ConfirmReceipt, Rests, jobRow, parties, money
  <2>6. ASSUME NEW stage, NEW to \in {"PICKED_UP", "DELIVERED"}, NEW given,
               HandOver(stage, to, given)
        PROVE  Advances
    BY <2>1, <2>6 DEF HandOver
  <2>7. ASSUME NEW by, NEW tokens, FailAtPickup(by, tokens) PROVE Advances
    BY <2>7 DEF FailAtPickup, Transition, Moves, Advances
  <2>8. CASE SenderClose
    BY <2>8 DEF SenderClose, Transition, Moves, Advances
  <2> QED
    BY <1>4, <2>3, <2>4, <2>5, <2>6, <2>7, <2>8 DEF Carry, ConfirmPickup, ConfirmDelivery
<1>5. CASE Settle
  <2>1. CASE RunStatement
    BY <2>1 DEF RunStatement, Rests, jobRow, parties, custody
  <2>2. ASSUME NEW i \in DOMAIN disputes, NEW role \in StaffRoles,
               NEW routed \in RoutableStatuses, NEW cut \in 0..Earned.fee,
               ResolveDispute(i, role, routed, cut)
        PROVE  Decides
    BY <2>2 DEF Decides
  <2> QED
    BY <1>5, <2>1, <2>2 DEF Settle, Disputes, Decides, Reopens
<1>6. CASE WindowCloses
  BY <1>6 DEF WindowCloses, Rests, jobRow, parties, custody, money
<1> QED
  BY <1>1, <1>2, <1>3, <1>4, <1>5, <1>6 DEF Next

\* What closing a dispute finds and leaves.
LEMMA DecidesShape ==
    ASSUME IInv, Decides
    PROVE  /\ status = "DISPUTED" /\ ~billed /\ ~RulingAwaited'
           /\ Len(disputes') = Len(disputes)
           /\ disputes'[Len(disputes')].routed = status'
           /\ UNCHANGED <<proof, payment, ending, assignment>>
           /\ commission.recorded =>
                  /\ commission'.recorded
                  /\ commission'.fee = commission.fee
                  /\ commission'.reduced >= commission.reduced
           /\ \/ status' \in RoutableStatuses
              \/ /\ status' = Standpoint
                 /\ UNCHANGED <<proof, money, stamps>>
                 /\ \A stage \in Stages : confirmed'[stage] = {}
<1>1. PICK i \in DOMAIN disputes :
          \/ \E role \in StaffRoles, routed \in RoutableStatuses, cut \in Nat :
                 ResolveDispute(i, role, routed, cut)
          \/ ResumeDispute(i)
  BY DEF Decides
<1>2. ASSUME NEW routed \in ResumableStatuses \cup RoutableStatuses, NEW tokens,
             Unfreezes(i, routed, tokens)
      PROVE  /\ status = "DISPUTED" /\ ~billed /\ ~RulingAwaited'
             /\ Len(disputes') = Len(disputes)
             /\ disputes'[Len(disputes')].routed = status'
             /\ status' = routed /\ Standpoint = disputes[i].pre
  <2>1. status' # "DISPUTED"
    BY <1>2, UnfreezesKeep DEF ResumableStatuses, RoutableStatuses
  <2> QED
    BY <1>2, <2>1, UnfreezesKeep DEF DisputeFreezesJob
<1>3. ASSUME NEW role \in StaffRoles, NEW routed \in RoutableStatuses, NEW cut \in Nat,
             ResolveDispute(i, role, routed, cut)
      PROVE  /\ Unfreezes(i, routed, StaffTokens(role))
             /\ UNCHANGED <<proof, payment, ending, assignment>>
             /\ commission.recorded =>
                    /\ commission'.recorded
                    /\ commission'.fee = commission.fee
                    /\ commission'.reduced >= commission.reduced
  <2>1. /\ Unfreezes(i, routed, StaffTokens(role))
        /\ UNCHANGED <<proof, payment, ending, assignment>>
    BY <1>3 DEF ResolveDispute, Unfreezes, parties, custody
  <2>2. commission.recorded => commission' = [commission EXCEPT !.reduced = @ + cut]
    BY <1>3 DEF ResolveDispute, Earned
  <2>3. commission \in CommissionRow
    BY DEF IInv, TypeOK, CommissionRow
  <2> QED
    BY <2>1, <2>2, <2>3 DEF CommissionRow
<1>4. CASE \E role \in StaffRoles, routed \in RoutableStatuses, cut \in Nat :
               ResolveDispute(i, role, routed, cut)
  <2>1. PICK role \in StaffRoles, routed \in RoutableStatuses, cut \in Nat :
            ResolveDispute(i, role, routed, cut)
    BY <1>4
  <2>2. routed \in ResumableStatuses \cup RoutableStatuses
    OBVIOUS
  <2> QED
    BY <1>2, <1>3, <2>1, <2>2
<1>5. CASE ResumeDispute(i)
  <2>1. /\ Unfreezes(i, disputes[i].pre, StaffTokens("PLATFORM_ADMIN"))
        /\ disputes[i].pre \in ResumableStatuses
        /\ confirmed' = [stage \in Stages |-> {}]
        /\ UNCHANGED <<parties, proof, money, ending>>
    BY <1>5 DEF ResumeDispute, Unfreezes
  <2>2. /\ status = "DISPUTED" /\ ~billed /\ ~RulingAwaited'
        /\ Len(disputes') = Len(disputes)
        /\ disputes'[Len(disputes')].routed = status'
        /\ status' = disputes[i].pre /\ Standpoint = disputes[i].pre
    BY <1>2, <2>1
  <2>3. stamps' = stamps
    <3>1. status' \in StampedStatuses => status' \in stamps
      BY <2>2 DEF IInv, Bookkeeping
    <3>2. stamps' = stamps \cup ({status'} \cap StampedStatuses)
      BY <2>1 DEF Unfreezes, Transition
    <3> QED
      BY <3>1, <3>2
  <2>4. commission.recorded => commission'.reduced >= commission.reduced
    BY <2>1 DEF money, IInv, TypeOK
  <2> QED
    BY <2>1, <2>2, <2>3, <2>4 DEF parties, money
<1> QED
  BY <1>1, <1>4, <1>5

LEMMA OpensShape ==
    ASSUME IInv, Disputes
    PROVE  /\ ~DisputeOpen /\ ~RulingAwaited /\ ~billed
           /\ status \in ResumableStatuses \cup {"COMPLETED"}
           /\ status' = "DISPUTED" /\ commission' = commission
<1>1. PICK tokens : OpenDispute(tokens)
  BY DEF Disputes
<1>2. status \in ResumableStatuses \cup {"COMPLETED"} /\ status' = "DISPUTED"
  BY <1>1, RuleTargets DEF OpenDispute, Transition
<1> QED
  BY <1>1, <1>2 DEF OpenDispute, money, IInv, BilledIsFinal, DisputeFreezesJob,
     DisputeOpen, RulingAwaited

\* A step that advances the job finds it undisputed, short of an end and unbilled.
LEMMA AdvancesShape ==
    ASSUME IInv, Advances
    PROVE  /\ ~RulingAwaited /\ ~RulingAwaited' /\ status # "DISPUTED"
           /\ UNCHANGED disputes
           /\ status \notin TerminalStates /\ ~billed /\ ~commission.recorded
<1>1. PICK to, tokens : Moves(to, tokens)
  BY DEF Advances
<1>2. /\ DisputeFreezesJob' /\ status' # "DISPUTED" /\ status # "DISPUTED"
      /\ UNCHANGED disputes
  BY <1>1, MovesKeep DEF Moves
<1> QED
  BY <1>1, <1>2, MovesKeep, MovesStamp DEF IInv, DisputeFreezesJob, TerminalStates

\* An open dispute keeps the sender from closing the job.
LEMMA OpenUnpaid == ASSUME IInv, Next, DisputeOpen PROVE UNCHANGED payment
<1>1. ~SenderClose
  BY DEF SenderClose
<1> QED
  BY <1>1 DEF Next, Bargain, Submit, Offer, Confirm, CancelByBusiness, CancelByStaff, Sweep,
     ListExpired, ExpireCandidate, Prepare, DecideHighValue, ReverseRejection, Assign, Carry,
     ArriveAtPickup, StartTransit, ArriveAtDestination, Drive, SenderConfirmPickup,
     ConfirmReceipt, ConfirmPickup, ConfirmDelivery, HandOver, FailAtPickup, Settle,
     OpenDispute, ResolveDispute, ResumeDispute, Escalate, RunStatement, WindowCloses, money

\* While a dispute awaits its ruling nobody moves the job but those who give it;
\* while one is open nobody closes the job or disputes it again.
THEOREM OpenDisputesHold == Spec => OpenDisputeHolds
<1> DEFINE A == /\ RulingAwaited =>
                     /\ UNCHANGED <<proof, ending, assignment>>
                     /\ RulingAwaited' => UNCHANGED <<status, commission>>
                     /\ ~RulingAwaited' => status' = disputes'[Len(disputes')].routed
                /\ DisputeOpen => UNCHANGED payment /\ Len(disputes') = Len(disputes)
<1>1. ASSUME IInv, Next PROVE A
  <2>1. DisputeOpen => UNCHANGED payment
    BY <1>1, OpenUnpaid
  <2>2. CASE Rests
    BY <2>1, <2>2 DEF Rests, RulingAwaited, AwaitsRuling
  <2>3. CASE Advances
    BY <2>1, <2>3, <1>1, AdvancesShape
  <2>4. CASE Disputes
    BY <2>4, <1>1, OpensShape
  <2>5. CASE Decides
    BY <2>1, <2>5, <1>1, DecidesShape
  <2>6. CASE Reopens
    BY <2>6, <1>1, EscalateRests DEF Reopens
  <2> QED
    BY <1>1, <2>2, <2>3, <2>4, <2>5, <2>6, Kinds
<1>2. IInv /\ [Next]_vars => [A]_vars
  BY <1>1
<1>3. Spec => [][A]_vars
  BY <1>2, Invariance, PTL DEF Spec
<1> QED
  BY <1>3 DEF OpenDisputeHolds

\* A resumed job goes on exactly where it was, its confirmations forgotten.
THEOREM ResumingRestores == Spec => ResumeRestores
<1> DEFINE A == status = "DISPUTED" /\ status' \in ResumableStatuses =>
                  /\ status' = Standpoint
                  /\ UNCHANGED <<proof, money, stamps>>
                  /\ \A stage \in Stages : confirmed'[stage] = {}
<1>1. ASSUME IInv, Next PROVE A
  <2>1. CASE Rests
    BY <2>1 DEF Rests, ResumableStatuses
  <2>2. CASE Advances
    BY <2>2, <1>1, AdvancesShape
  <2>3. CASE Disputes
    BY <2>3, <1>1, OpensShape DEF ResumableStatuses
  <2>4. CASE Decides
    BY <2>4, <1>1, DecidesShape DEF ResumableStatuses, RoutableStatuses
  <2>5. CASE Reopens
    BY <2>5, <1>1, EscalateRests DEF Reopens
  <2> QED
    BY <1>1, <2>1, <2>2, <2>3, <2>4, <2>5, Kinds
<1>2. IInv /\ [Next]_vars => [A]_vars
  BY <1>1
<1>3. Spec => [][A]_vars
  BY <1>2, Invariance, PTL DEF Spec
<1> QED
  BY <1>3 DEF ResumeRestores

\* Ended jobs stay ended, and what was billed stands.
THEOREM EndsAreFinal == Spec => EndsStay
<1> DEFINE A == /\ status \in {"CANCELLED", "FAILED"} => status' = status
                /\ status = "COMPLETED" => status' \in {"COMPLETED", "DISPUTED"}
                /\ billed => UNCHANGED <<status, commission>> /\ Len(disputes') = Len(disputes)
<1>1. ASSUME IInv, Next PROVE A
  <2>1. CASE Rests
    BY <2>1 DEF Rests
  <2>2. CASE Advances
    BY <2>2, <1>1, AdvancesShape DEF TerminalStates
  <2>3. CASE Disputes
    BY <2>3, <1>1, OpensShape DEF ResumableStatuses
  <2>4. CASE Decides
    BY <2>4, <1>1, DecidesShape
  <2>5. CASE Reopens
    <3>1. PICK i \in DOMAIN disputes : Escalate(i)
      BY <2>5 DEF Reopens
    <3> QED
      BY <3>1, <1>1, EscalateRests, TableWhenEscalated DEF jobRow, money
  <2> QED
    BY <1>1, <2>1, <2>2, <2>3, <2>4, <2>5, Kinds
<1>2. IInv /\ [Next]_vars => [A]_vars
  BY <1>1
<1>3. Spec => [][A]_vars
  BY <1>2, Invariance, PTL DEF Spec
<1> QED
  BY <1>3 DEF EndsStay

\* The commission record survives every later dispute, ruling and completion.
THEOREM CommissionsAreKept == Spec => CommissionKept
<1> DEFINE A == commission.recorded =>
                  /\ commission'.recorded
                  /\ commission'.fee = commission.fee
                  /\ commission'.reduced >= commission.reduced
<1>1. ASSUME IInv, Next PROVE A
  <2>1. commission.reduced \in Nat
    BY <1>1 DEF IInv, TypeOK
  <2>2. CASE Rests
    BY <2>1, <2>2 DEF Rests
  <2>3. CASE Advances
    BY <2>3, <1>1, AdvancesShape
  <2>4. CASE Disputes
    BY <2>1, <2>4, <1>1, OpensShape
  <2>5. CASE Decides
    BY <2>5, <1>1, DecidesShape
  <2>6. CASE Reopens
    BY <2>1, <2>6, <1>1, EscalateRests DEF Reopens, money
  <2> QED
    BY <1>1, <2>2, <2>3, <2>4, <2>5, <2>6, Kinds
<1>2. IInv /\ [Next]_vars => [A]_vars
  BY <1>1
<1>3. Spec => [][A]_vars
  BY <1>2, Invariance, PTL DEF Spec
<1> QED
  BY <1>3 DEF CommissionKept
=============================================================================
