-------------------------- MODULE DisputeDeskProofs --------------------------
(***************************************************************************)
(* Proofs about DisputeDesk, for any number of incidents, of calls in      *)
(* flight and of disputes.                                                 *)
(***************************************************************************)
EXTENDS DisputeDesk, TLAPS, SequenceTheorems

\* An escalation under way names a dispute there is.
DeskNamesDisputes ==
    \A o \in Officers : desk[o].dispute # 0 => desk[o].dispute \in DOMAIN disputes

\* At most one dispute is unresolved, as the database has it; the one without a
\* ruling is unresolved and freezes the job.
OneUnresolved ==
    \A j, k \in DOMAIN disputes :
        disputes[j].status # "RESOLVED" /\ disputes[k].status # "RESOLVED" => j = k

UnruledFreezes ==
    \A k \in DOMAIN disputes :
        disputes[k].ruling = "NONE" => disputes[k].status # "RESOLVED" /\ job = "DISPUTED"

ResolvedHasClosure == \A i \in Incidents : incident[i] = "RESOLVED" => HasClosure(i)

ClosedOnce == \A c, d \in closures : c.incident = d.incident => c = d

ClosedByRuling ==
    \A c \in closures : c.dispute # 0 =>
        /\ c.dispute \in DOMAIN disputes
        /\ c.incident \in disputes[c.dispute].incidents
        /\ disputes[c.dispute].ruling # "NONE"

UnfoundedIsClosed == \A i \in unfounded : HasClosure(i)

ResumedOnFindings ==
    \A k \in DOMAIN disputes : disputes[k].ruling = "RESUMED" =>
        \A i \in disputes[k].incidents \cap Serious : finding[i] # "NONE"

Freezes == DeskNamesDisputes /\ OneUnresolved /\ UnruledFreezes /\ FrozenByOneDispute

Accounts ==
    /\ ResolvedHasClosure /\ ClosedOnce /\ ClosedByRuling
    /\ UnfoundedIsClosed /\ ResumedOnFindings

IInv == TypeOK /\ Freezes /\ Accounts

-----------------------------------------------------------------------------
(* The rows of the tables. *)

LEMMA DisputeRows ==
    ASSUME TypeOK, NEW k \in DOMAIN disputes
    PROVE  disputes[k] \in Dispute /\ k \in 1..MaxDisputes
<1> USE DisputesAssumption
<1>1. disputes \in Seq(Dispute) /\ Len(disputes) \in Nat /\ Len(disputes) <= MaxDisputes
  BY DEF TypeOK
<1> QED
  BY <1>1

LEMMA DeskRows == ASSUME TypeOK, NEW o \in Officers PROVE desk[o] \in Call
BY DEF TypeOK

LEMMA IdleIsCall == Idle \in Call
BY DisputesAssumption DEF Idle, Call

LEMMA ZeroIsNone == 0 \in 0..MaxDisputes
BY DisputesAssumption

LEMMA LeavingKeepsTypes ==
    ASSUME TypeOK, NEW o \in Officers, Leaves(o)
    PROVE  desk' \in [Officers -> Call]
BY IdleIsCall DEF TypeOK, Leaves

\* Leaving the desk names no dispute; the rest of it stays.
LEMMA LeavingKeepsNames ==
    ASSUME TypeOK, DeskNamesDisputes, NEW o \in Officers, Leaves(o),
           DOMAIN disputes \subseteq DOMAIN disputes'
    PROVE  DeskNamesDisputes'
<1>1. \A p \in Officers : desk'[p] = IF p = o THEN Idle ELSE desk[p]
  BY DEF TypeOK, Leaves
<1> QED
  BY <1>1 DEF DeskNamesDisputes, Idle

-----------------------------------------------------------------------------
(* What leaves a part of the invariant alone. *)

LEMMA FreezesRests ==
    ASSUME Freezes, DeskNamesDisputes', UNCHANGED <<job, disputes>>
    PROVE  Freezes'
BY DEF Freezes, OneUnresolved, UnruledFreezes, FrozenByOneDispute, Unresolved

LEMMA AccountsRests ==
    ASSUME Accounts, UNCHANGED <<incident, closures, disputes, finding, unfounded>>
    PROVE  Accounts'
BY DEF Accounts, ResolvedHasClosure, ClosedOnce, ClosedByRuling, UnfoundedIsClosed,
       ResumedOnFindings, HasClosure

\* A call that only reads.
LEMMA TakingKeeps ==
    ASSUME IInv, NEW o \in Officers, NEW call \in Call, Takes(o, call),
           call.dispute # 0 => call.dispute \in DOMAIN disputes
    PROVE  IInv'
<1>1. TypeOK'
  BY DEF IInv, TypeOK, Takes
<1>2. \A p \in Officers : desk'[p] = IF p = o THEN call ELSE desk[p]
  BY DEF IInv, TypeOK, Takes
<1>3. DeskNamesDisputes'
  BY <1>2 DEF IInv, Freezes, DeskNamesDisputes, Takes
<1> QED
  BY <1>1, <1>3, FreezesRests, AccountsRests DEF IInv, Takes

\* A status written that is not RESOLVED closes nothing and opens no gap.
LEMMA InHandRests ==
    ASSUME TypeOK, Accounts, NEW is, incident' = InHand(is),
           UNCHANGED <<closures, finding, unfounded>>
    PROVE  /\ incident' \in [Incidents -> IncidentStatus]
           /\ ResolvedHasClosure' /\ ClosedOnce' /\ UnfoundedIsClosed'
BY DEF TypeOK, Accounts, InHand, IncidentStatus, ResolvedHasClosure, ClosedOnce,
       UnfoundedIsClosed, HasClosure

\* Closing incidents with a record each, none of which had one.
LEMMA RecordsAccount ==
    ASSUME TypeOK, Accounts, NEW is \in SUBSET Incidents, NEW k \in 0..MaxDisputes,
           Records(is, k), UNCHANGED unfounded,
           incident' = [i \in Incidents |-> IF i \in is THEN "RESOLVED" ELSE incident[i]]
    PROVE  /\ incident' \in [Incidents -> IncidentStatus]
           /\ closures' \subseteq [incident : Incidents, dispute : 0..MaxDisputes]
           /\ ResolvedHasClosure' /\ ClosedOnce' /\ UnfoundedIsClosed'
           /\ \A c \in closures' : c \in closures \/ (c.incident \in is /\ c.dispute = k)
<1>1. closures' = closures \cup {[incident |-> i, dispute |-> k] : i \in is}
  BY DEF Records
<1>2. closures' \subseteq [incident : Incidents, dispute : 0..MaxDisputes]
  BY <1>1 DEF TypeOK
<1>3. incident' \in [Incidents -> IncidentStatus]
  BY DEF TypeOK, IncidentStatus
<1>4. ResolvedHasClosure'
  <2>1. ASSUME NEW i \in is PROVE HasClosure(i)'
    <3> [incident |-> i, dispute |-> k] \in closures'
      BY <1>1
    <3> QED
      BY DEF HasClosure
  <2>2. ASSUME NEW i \in Incidents \ is, incident'[i] = "RESOLVED" PROVE HasClosure(i)'
    BY <1>1, <2>2 DEF Accounts, ResolvedHasClosure, HasClosure
  <2> QED
    BY <2>1, <2>2 DEF ResolvedHasClosure
<1>5. \A c \in closures' : c \in closures \/ (c.incident \in is /\ c.dispute = k
                               /\ c = [incident |-> c.incident, dispute |-> k])
  BY <1>1
<1>6. ClosedOnce'
  BY <1>5 DEF Accounts, ClosedOnce, Records, HasClosure
<1>7. UnfoundedIsClosed'
  BY <1>1 DEF Accounts, UnfoundedIsClosed, HasClosure
<1> QED
  BY <1>2, <1>3, <1>4, <1>5, <1>6, <1>7

-----------------------------------------------------------------------------
LEMMA InitHolds == Init => IInv
<1> SUFFICES ASSUME Init PROVE IInv
  OBVIOUS
<1>1. TypeOK
  BY IdleIsCall, DisputesAssumption DEF Init, TypeOK, IncidentStatus, Dispute
<1>2. Freezes
  BY DEF Init, Freezes, DeskNamesDisputes, OneUnresolved, UnruledFreezes, FrozenByOneDispute,
         Idle
<1>3. Accounts
  BY DEF Init, Accounts, ResolvedHasClosure, ClosedOnce, ClosedByRuling, UnfoundedIsClosed,
         ResumedOnFindings
<1> QED
  BY <1>1, <1>2, <1>3 DEF IInv

LEMMA FailKeeps == ASSUME IInv, NEW o \in Officers, Fail(o) PROVE IInv'
<1>1. TypeOK'
  BY LeavingKeepsTypes DEF IInv, TypeOK, Fail
<1>2. DeskNamesDisputes'
  BY LeavingKeepsNames DEF IInv, Freezes, Fail
<1> QED
  BY <1>1, <1>2, FreezesRests, AccountsRests DEF IInv, Fail

LEMMA ReportKeeps == ASSUME IInv, NEW i \in Incidents, Report(i) PROVE IInv'
<1>1. TypeOK'
  BY DEF IInv, TypeOK, Report, IncidentStatus
<1>2. DeskNamesDisputes'
  BY DEF IInv, Freezes, DeskNamesDisputes, Report
<1>3. Accounts'
  BY DEF IInv, TypeOK, Accounts, ResolvedHasClosure, ClosedOnce, ClosedByRuling,
         UnfoundedIsClosed, ResumedOnFindings, HasClosure, Report
<1> QED
  BY <1>1, <1>2, <1>3, FreezesRests DEF IInv, Report

LEMMA TakeUpKeeps ==
    ASSUME IInv, NEW o \in Officers, NEW i \in Incidents,
           TakeUp(o, i) \/ TakeUpEscalation(o, i) \/ TakeUpClosing(o, i)
    PROVE  IInv'
<1>1. /\ [Idle EXCEPT !.doing = "REVIEW", !.about = {i}] \in Call
      /\ [Idle EXCEPT !.doing = "CLOSE", !.about = {i}] \in Call
  BY ZeroIsNone DEF Idle, Call
<1>2. CASE TakeUp(o, i)
  BY <1>1, <1>2, TakingKeeps DEF TakeUp, Idle
<1>3. CASE TakeUpClosing(o, i)
  BY <1>1, <1>3, TakingKeeps DEF TakeUpClosing, Idle
<1>4. CASE TakeUpEscalation(o, i)
  <2> DEFINE is == IF Eligible(i) THEN {i} ELSE {}
             call(k) == [Idle EXCEPT !.doing = "ESCALATE", !.about = is, !.dispute = k]
  <2> PICK k \in IF Unresolved = {} THEN {0} ELSE Unresolved : Takes(o, call(k))
    BY <1>4 DEF TakeUpEscalation
  <2>1. k = 0 \/ k \in DOMAIN disputes
    BY DEF Unresolved
  <2>2. k \in 0..MaxDisputes
    BY <2>1, DisputeRows, DisputesAssumption DEF IInv
  <2>3. call(k) \in Call /\ call(k).dispute = k
    BY <2>2 DEF Idle, Call
  <2> QED
    BY <2>1, <2>3, TakingKeeps
<1> QED
  BY <1>2, <1>3, <1>4

LEMMA TakeUpDisputeKeeps ==
    ASSUME IInv, NEW o \in Officers, NEW named \in SUBSET Incidents, TakeUpDispute(o, named)
    PROVE  IInv'
<1> PICK i \in named :
        Takes(o, [Idle EXCEPT !.doing = "OPEN", !.about = named, !.blocking = i])
  BY DEF TakeUpDispute
<1>1. [Idle EXCEPT !.doing = "OPEN", !.about = named, !.blocking = i] \in Call
  BY ZeroIsNone DEF Idle, Call
<1> QED
  BY <1>1, TakingKeeps DEF Idle

LEMMA SaveReviewKeeps == ASSUME IInv, NEW o \in Officers, SaveReview(o) PROVE IInv'
<1>1. TypeOK'
  BY LeavingKeepsTypes, InHandRests DEF IInv, TypeOK, SaveReview
<1>2. DeskNamesDisputes'
  BY LeavingKeepsNames DEF IInv, Freezes, SaveReview
<1>3. Accounts'
  BY InHandRests DEF IInv, Accounts, ClosedByRuling, ResumedOnFindings, SaveReview
<1> QED
  BY <1>1, <1>2, <1>3, FreezesRests DEF IInv, SaveReview

\* The escalation writes the dispute it read, resolved since or not.
LEMMA SaveEscalationKeeps == ASSUME IInv, NEW o \in Officers, SaveEscalation(o) PROVE IInv'
<1> DEFINE k == desk[o].dispute
<1>1. /\ DOMAIN disputes' = DOMAIN disputes
      /\ \A j \in DOMAIN disputes :
             /\ disputes'[j] = IF j = k THEN [disputes[j] EXCEPT !.status = "ESCALATED"]
                               ELSE disputes[j]
             /\ disputes'[j] \in Dispute
             /\ disputes'[j].incidents = disputes[j].incidents
             /\ disputes'[j].ruling = disputes[j].ruling
             /\ disputes'[j].status = IF j = k THEN "ESCALATED" ELSE disputes[j].status
  BY DisputeRows DEF SaveEscalation, IInv, Dispute
<1>2. disputes' \in Seq(Dispute) /\ Len(disputes') = Len(disputes)
  <2>1. DOMAIN disputes = 1..Len(disputes) /\ Len(disputes) \in Nat
    BY DEF IInv, TypeOK
  <2>2. disputes' = [j \in 1..Len(disputes) |-> disputes'[j]]
    BY <2>1 DEF SaveEscalation
  <2> QED
    BY <1>1, <2>1, <2>2, LenProperties
<1>3. TypeOK'
  BY <1>2, LeavingKeepsTypes, InHandRests DEF IInv, TypeOK, SaveEscalation
<1>4. DeskNamesDisputes'
  BY <1>1, LeavingKeepsNames DEF IInv, Freezes, SaveEscalation
<1>5. OneUnresolved'
  <2>1. CASE k = 0
    BY <1>1, <2>1, DisputeRows DEF IInv, Freezes, OneUnresolved
  <2>2. CASE k # 0
    BY <1>1, <2>2 DEF SaveEscalation, KeepsOneOpen, Unresolved, OneUnresolved
  <2> QED
    BY <2>1, <2>2
<1>6. UnruledFreezes'
  BY <1>1 DEF IInv, Freezes, UnruledFreezes, SaveEscalation
<1>7. FrozenByOneDispute'
  <2>1. CASE job # "DISPUTED"
    BY <2>1 DEF FrozenByOneDispute, SaveEscalation
  <2>2. CASE job = "DISPUTED"
    <3> PICK u \in DOMAIN disputes : Unresolved = {u} /\ disputes[u].ruling = "NONE"
      BY <2>2 DEF IInv, Freezes, FrozenByOneDispute
    <3>1. k # 0 => k = u
      BY DEF SaveEscalation, KeepsOneOpen
    <3>2. k = 0 => k \notin DOMAIN disputes
      BY DisputeRows DEF IInv
    <3>3. Unresolved' = {u}
      BY <1>1, <3>1, <3>2 DEF Unresolved
    <3> QED
      BY <1>1, <3>3 DEF FrozenByOneDispute
  <2> QED
    BY <2>1, <2>2
<1>8. ClosedByRuling' /\ ResumedOnFindings'
  BY <1>1 DEF IInv, Accounts, ClosedByRuling, ResumedOnFindings, SaveEscalation
<1>9. ResolvedHasClosure' /\ ClosedOnce' /\ UnfoundedIsClosed'
  BY InHandRests DEF IInv, SaveEscalation
<1> QED
  BY <1>3, <1>4, <1>5, <1>6, <1>7, <1>8, <1>9 DEF IInv, Freezes, Accounts

LEMMA CloseKeeps == ASSUME IInv, NEW o \in Officers, Close(o) PROVE IInv'
<1> DEFINE is == desk[o].about
<1>1. is \in SUBSET Incidents
  BY DeskRows DEF IInv, Call
<1>2. /\ incident' \in [Incidents -> IncidentStatus]
      /\ closures' \subseteq [incident : Incidents, dispute : 0..MaxDisputes]
      /\ ResolvedHasClosure' /\ ClosedOnce' /\ UnfoundedIsClosed'
      /\ \A c \in closures' : c \in closures \/ (c.incident \in is /\ c.dispute = 0)
  <2>1. /\ Records(is, 0) /\ UNCHANGED unfounded
        /\ incident' = [i \in Incidents |-> IF i \in is THEN "RESOLVED" ELSE incident[i]]
    BY DEF Close
  <2> HIDE DEF is
  <2> QED
    BY <1>1, <2>1, ZeroIsNone, RecordsAccount DEF IInv
<1>3. TypeOK'
  BY <1>2, LeavingKeepsTypes DEF IInv, TypeOK, Close
<1>4. DeskNamesDisputes'
  BY LeavingKeepsNames DEF IInv, Freezes, Close
<1>5. ClosedByRuling' /\ ResumedOnFindings'
  BY <1>2 DEF IInv, Accounts, ClosedByRuling, ResumedOnFindings, Close
<1> QED
  BY <1>2, <1>3, <1>4, <1>5, FreezesRests DEF IInv, Accounts, Close

LEMMA OpenDisputeKeeps == ASSUME IInv, NEW o \in Officers, OpenDispute(o) PROVE IInv'
<1> DEFINE row == [incidents |-> desk[o].about, status |-> "OPEN", pre |-> job,
                   ruling |-> "NONE"]
           n == Len(disputes) + 1
<1>1. row \in Dispute
  BY DeskRows DEF IInv, OpenDispute, Dispute, Call, Rulings
<1>2. disputes \in Seq(Dispute) /\ disputes' = Append(disputes, row)
  BY DEF IInv, TypeOK, OpenDispute
<1>3. /\ disputes' \in Seq(Dispute) /\ Len(disputes') = n
      /\ DOMAIN disputes' = DOMAIN disputes \cup {n} /\ n \notin DOMAIN disputes
      /\ disputes'[n] = row
      /\ \A k \in DOMAIN disputes : disputes'[k] = disputes[k]
  BY <1>1, <1>2, AppendProperties
<1>4. TypeOK'
  <2>1. n <= MaxDisputes
    BY <1>2, DisputesAssumption DEF OpenDispute
  <2> QED
    BY <1>3, <2>1, LeavingKeepsTypes DEF IInv, TypeOK, OpenDispute
<1>5. Unresolved = {}
  BY <1>3 DEF OpenDispute, KeepsOneOpen, Unresolved
<1>6. DeskNamesDisputes'
  BY <1>3, LeavingKeepsNames DEF IInv, Freezes, OpenDispute
<1>7. OneUnresolved' /\ UnruledFreezes'
  BY <1>3, <1>5 DEF IInv, Freezes, OneUnresolved, UnruledFreezes, Unresolved, OpenDispute
<1>8. FrozenByOneDispute'
  <2>1. Unresolved' = {n}
    BY <1>3, <1>5 DEF Unresolved
  <2> QED
    BY <1>3, <2>1 DEF FrozenByOneDispute
<1>9. Accounts'
  BY <1>3 DEF IInv, Accounts, ResolvedHasClosure, ClosedOnce, ClosedByRuling,
         UnfoundedIsClosed, ResumedOnFindings, HasClosure, OpenDispute
<1> QED
  BY <1>4, <1>6, <1>7, <1>8, <1>9 DEF IInv, Freezes

\* Resolving and resuming.
LEMMA RulesKeeps ==
    ASSUME IInv, NEW k \in DOMAIN disputes, NEW ruling \in {"ROUTED", "RESUMED"},
           NEW to \in {"UNDERWAY", "COMPLETED", "ENDED"}, Rules(k, ruling, to),
           ruling = "RESUMED" => MayResume(k)
    PROVE  IInv'
<1>1. /\ DOMAIN disputes' = DOMAIN disputes
      /\ \A j \in DOMAIN disputes :
             /\ disputes'[j] \in Dispute
             /\ disputes'[j].incidents = disputes[j].incidents
             /\ disputes'[j].ruling = IF j = k THEN ruling ELSE disputes[j].ruling
             /\ disputes'[j].status = IF j = k THEN "RESOLVED" ELSE disputes[j].status
  BY DisputeRows DEF Rules, IInv, Dispute, Rulings
<1>2. disputes' \in Seq(Dispute) /\ Len(disputes') = Len(disputes)
  <2>1. DOMAIN disputes = 1..Len(disputes) /\ Len(disputes) \in Nat
    BY DEF IInv, TypeOK
  <2>2. disputes' = [j \in 1..Len(disputes) |-> disputes'[j]]
    BY <2>1 DEF Rules
  <2> QED
    BY <1>1, <2>1, <2>2, LenProperties
<1>3. OpenOnes(k) \in SUBSET Incidents /\ k \in 0..MaxDisputes /\ k # 0
  BY DisputeRows DEF IInv, OpenOnes, Dispute
<1>4. /\ incident' \in [Incidents -> IncidentStatus]
      /\ closures' \subseteq [incident : Incidents, dispute : 0..MaxDisputes]
      /\ ResolvedHasClosure' /\ ClosedOnce' /\ UnfoundedIsClosed'
      /\ \A c \in closures' : c \in closures \/ (c.incident \in OpenOnes(k) /\ c.dispute = k)
  BY <1>3, RecordsAccount DEF IInv, Rules
<1>5. TypeOK'
  BY <1>2, <1>4 DEF IInv, TypeOK, Rules
<1>6. DeskNamesDisputes'
  BY <1>1 DEF IInv, Freezes, DeskNamesDisputes, Rules
<1>7. \A j \in DOMAIN disputes : disputes'[j].status = "RESOLVED"
  BY <1>1 DEF IInv, Freezes, OneUnresolved, Rules
<1>8. OneUnresolved' /\ UnruledFreezes' /\ FrozenByOneDispute'
  BY <1>1, <1>7 DEF IInv, Freezes, OneUnresolved, UnruledFreezes, FrozenByOneDispute, Rules
<1>9. ClosedByRuling'
  BY <1>1, <1>3, <1>4 DEF IInv, Accounts, ClosedByRuling, OpenOnes
<1>10. ResumedOnFindings'
  BY <1>1 DEF IInv, Accounts, ResumedOnFindings, MayResume, Rules
<1> QED
  BY <1>4, <1>5, <1>6, <1>8, <1>9, <1>10 DEF IInv, Freezes, Accounts

LEMMA FindingKeeps ==
    ASSUME IInv, NEW i \in Incidents, NEW outcome \in {"NO_FAULT", "OTHER"},
           RecordFinding(i, outcome)
    PROVE  IInv'
<1>1. TypeOK'
  BY DEF IInv, TypeOK, RecordFinding
<1>2. DeskNamesDisputes'
  BY DEF IInv, Freezes, DeskNamesDisputes, RecordFinding
<1>3. \A j \in Incidents : finding[j] # "NONE" => finding'[j] # "NONE"
  BY DEF IInv, TypeOK, RecordFinding
<1>4. ResumedOnFindings'
  BY <1>3, IncidentsAssumption DEF IInv, Accounts, ResumedOnFindings, RecordFinding
<1>5. Accounts'
  BY <1>4 DEF IInv, Accounts, ResolvedHasClosure, ClosedOnce, ClosedByRuling,
         UnfoundedIsClosed, HasClosure, RecordFinding
<1> QED
  BY <1>1, <1>2, <1>5, FreezesRests DEF IInv, RecordFinding

LEMMA UnfoundedKeeps == ASSUME IInv, NEW i \in Incidents, RecordUnfounded(i) PROVE IInv'
<1>1. TypeOK'
  BY DEF IInv, TypeOK, RecordUnfounded
<1>2. DeskNamesDisputes'
  BY DEF IInv, Freezes, DeskNamesDisputes, RecordUnfounded
<1>3. Accounts'
  BY DEF IInv, Accounts, ResolvedHasClosure, ClosedOnce, ClosedByRuling, UnfoundedIsClosed,
         ResumedOnFindings, HasClosure, RecordUnfounded, MayCallUnfounded
<1> QED
  BY <1>1, <1>2, <1>3, FreezesRests DEF IInv, RecordUnfounded

LEMMA JobMovesKeeps == ASSUME IInv, JobMoves PROVE IInv'
<1>1. TypeOK'
  BY DEF IInv, TypeOK, JobMoves
<1>2. job # "DISPUTED" /\ job' # "DISPUTED"
  BY DEF JobMoves
<1>3. Freezes'
  BY <1>2 DEF IInv, Freezes, DeskNamesDisputes, OneUnresolved, UnruledFreezes,
         FrozenByOneDispute, JobMoves
<1> QED
  BY <1>1, <1>3, AccountsRests DEF IInv, JobMoves

-----------------------------------------------------------------------------
LEMMA StepKeeps == IInv /\ [Next]_vars => IInv'
<1> SUFFICES ASSUME IInv, [Next]_vars PROVE IInv'
  OBVIOUS
<1>1. CASE ReportCalls
  BY <1>1, ReportKeeps DEF ReportCalls
<1>2. CASE IncidentCalls
  BY <1>2, TakeUpKeeps, SaveReviewKeeps, SaveEscalationKeeps, CloseKeeps, FindingKeeps,
     UnfoundedKeeps DEF IncidentCalls
<1>3. CASE DisputeCalls
  <2>1. ASSUME NEW k \in DOMAIN disputes, ResolveDispute(k) PROVE IInv'
    BY <2>1, RulesKeeps DEF ResolveDispute
  <2>2. ASSUME NEW k \in DOMAIN disputes, ResumeDispute(k) PROVE IInv'
    BY <2>2, RulesKeeps DEF ResumeDispute, MayResume
  <2> QED
    BY <1>3, <2>1, <2>2, TakeUpDisputeKeeps, OpenDisputeKeeps DEF DisputeCalls
<1>4. CASE UNCHANGED vars
  <2>1. TypeOK' /\ DeskNamesDisputes'
    BY <1>4 DEF IInv, TypeOK, Freezes, DeskNamesDisputes, vars
  <2> QED
    BY <1>4, <2>1, FreezesRests, AccountsRests DEF IInv, vars
<1> QED
  BY <1>1, <1>2, <1>3, <1>4, FailKeeps, JobMovesKeeps DEF Next

\* The inductive invariant of the desk.
THEOREM Invariance == Spec => []IInv
BY InitHolds, StepKeeps, PTL DEF Spec

\* A disputed job always has its one dispute to rule on, whatever escalations of
\* older disputes are written in between.
THEOREM DisputesCanBeRuled == Spec => []FrozenByOneDispute
<1>1. IInv => FrozenByOneDispute
  BY DEF IInv, Freezes
<1> QED
  BY <1>1, Invariance, PTL

\* Every closure is accounted for, whichever calls raced to close.
THEOREM ClosuresAreAccounted == Spec => []ClosuresAccounted
<1>1. IInv => ClosuresAccounted
  BY DEF IInv, Accounts, ResolvedHasClosure, ClosedOnce, ClosedByRuling, UnfoundedIsClosed,
         ResumedOnFindings, ClosuresAccounted
<1> QED
  BY <1>1, Invariance, PTL
=============================================================================
