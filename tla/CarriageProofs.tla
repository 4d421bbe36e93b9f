--------------------------- MODULE CarriageProofs ---------------------------
(***************************************************************************)
(* Proofs about what a job is carried with and how it is handed over: of   *)
(* Assignment, for every set of drivers, vehicles, tiers and bands, and    *)
(* whoever made the job; and of Handover, for any delivery rules, calls in *)
(* flight, wrong codes and resumed disputes.                               *)
(***************************************************************************)
EXTENDS Assignment, Handover, TLAPS, SequenceTheorems

(* Assignment. *)

\* A call that is under way was allowed: what it read of the tier covers the
\* goods, or staff made an exception.
CallChecked ==
    call # NoAssignment =>
        /\ call.level # "L0"
        /\ Covers(call.level) \/ (call.override /\ IsAdmin(call.by))

\* A vehicle staff ruled out is one that was registered, and is suspended still
\* or gone for good.
RuledOutKept ==
    \A v \in ruledOut :
        /\ v \in Registered
        /\ vehicle[v].gone \/ vehicle[v].status = "SUSPENDED"

IInv == TypeOK /\ CallChecked /\ RecordJustifies /\ RuledOutKept

-----------------------------------------------------------------------------
(* The three ways a step changes the tables. *)

VehicleRows == [status : VehicleStatuses, owner : {"OPERATOR", "GROUP"},
                gone : BOOLEAN, fit : BOOLEAN]

LEMMA RegisteredRows ==
    ASSUME TypeOK, NEW v \in Registered PROVE v \in Vehicles /\ vehicle[v] \in VehicleRows
BY DEF TypeOK, Registered, VehicleRows

\* The call itself.
CallSteps ==
    \/ \E p \in Actors, d \in Drivers, v \in Vehicles, reason \in BOOLEAN :
           AssignJob(p, d, v, reason)
    \/ Assign

\* The drivers, their group and the review.
PeopleSteps ==
    \/ \E p \in Actors : ReviewCalls(p)
    \/ \E d \in Drivers :
           \/ \E s \in Statuses : UpdateProfile(d, s)
           \/ StandingMoves(d) \/ MembershipMoves(d)
    \/ UpdateGroup

VehicleSteps ==
    \E v \in Vehicles : UpdateVehicle(v) \/ \E p \in Actors : VehicleCalls(p, v)

LEMMA Kinds == Next => CallSteps \/ PeopleSteps \/ VehicleSteps
BY DEF Next, CallSteps, PeopleSteps, VehicleSteps

LEMMA PeopleFrame ==
    ASSUME TypeOK, PeopleSteps
    PROVE  TypeOK' /\ UNCHANGED <<vehicle, ruledOut, jobVars>>
<1>1. CASE \E p \in Actors : ReviewCalls(p)
  BY <1>1 DEF TypeOK, ReviewCalls, DecideHighValue, ReverseRejection, jobVars
<1>2. ASSUME NEW d \in Drivers, NEW s \in Statuses, UpdateProfile(d, s)
      PROVE  TypeOK' /\ UNCHANGED <<vehicle, ruledOut, jobVars>>
  BY <1>2 DEF TypeOK, UpdateProfile, jobVars
<1>3. ASSUME NEW d \in Drivers, StandingMoves(d) \/ MembershipMoves(d)
      PROVE  TypeOK' /\ UNCHANGED <<vehicle, ruledOut, jobVars>>
  <2>1. CASE StandingMoves(d)
    BY <2>1 DEF TypeOK, StandingMoves, jobVars
  <2>2. CASE MembershipMoves(d)
    <3>1. driver[d].member \in BOOLEAN /\ (~driver[d].member) \in BOOLEAN
      BY DEF TypeOK
    <3>2. driver' = [driver EXCEPT ![d] = [driver[d] EXCEPT !.member = ~driver[d].member]]
      BY <2>2 DEF MembershipMoves
    <3>3. [driver[d] EXCEPT !.member = ~driver[d].member]
              \in [status : Statuses, level : Levels, member : BOOLEAN]
      BY <3>1 DEF TypeOK
    <3> QED
      BY <2>2, <3>2, <3>3 DEF TypeOK, MembershipMoves, jobVars
  <2> QED
    BY <1>3, <2>1, <2>2
<1>4. CASE UpdateGroup
  BY <1>4 DEF TypeOK, UpdateGroup, jobVars
<1>5. CASE \E d \in Drivers : \/ \E s \in Statuses : UpdateProfile(d, s)
                             \/ StandingMoves(d) \/ MembershipMoves(d)
  BY <1>2, <1>3, <1>5
<1> QED
  BY <1>1, <1>4, <1>5 DEF PeopleSteps

LEMMA VehicleFrame ==
    ASSUME TypeOK, RuledOutKept, VehicleSteps
    PROVE  TypeOK' /\ RuledOutKept' /\ UNCHANGED jobVars
<1> PICK v \in Vehicles : UpdateVehicle(v) \/ \E p \in Actors : VehicleCalls(p, v)
  BY DEF VehicleSteps
<1> USE RegisteredRows DEF RuledOutKept, Registered, VehicleRows
<1>1. CASE UpdateVehicle(v)
  BY <1>1 DEF TypeOK, UpdateVehicle, jobVars, Unregistered
<1>2. ASSUME NEW p \in Actors, RegisterVehicle(p, v)
      PROVE  TypeOK' /\ RuledOutKept' /\ UNCHANGED jobVars
  BY <1>2 DEF TypeOK, RegisterVehicle, jobVars, Unregistered, VehicleStatuses
<1>3. ASSUME NEW p \in Actors, NEW s \in VehicleStatuses, SetVehicleStatus(p, v, s)
      PROVE  TypeOK' /\ RuledOutKept' /\ UNCHANGED jobVars
  BY <1>3 DEF TypeOK, SetVehicleStatus, jobVars, Unregistered, VehicleStatuses
<1>4. ASSUME NEW p \in Actors, DeactivateVehicle(p, v)
      PROVE  TypeOK' /\ RuledOutKept' /\ UNCHANGED jobVars
  BY <1>4 DEF TypeOK, DeactivateVehicle, Deactivated, jobVars, Unregistered, VehicleStatuses
<1> QED
  BY <1>1, <1>2, <1>3, <1>4 DEF VehicleCalls

-----------------------------------------------------------------------------
LEMMA InitHolds == Init => IInv
BY AssignmentAssumption
   DEF Init, IInv, TypeOK, CallChecked, RecordJustifies, RuledOutKept, Statuses

LEMMA AssignJobKeeps ==
    ASSUME IInv, NEW p \in Actors, NEW d \in Drivers, NEW v \in Vehicles,
           NEW reason \in BOOLEAN, AssignJob(p, d, v, reason)
    PROVE  IInv'
<1>1. TypeOK' /\ RecordJustifies' /\ RuledOutKept'
  BY DEF IInv, TypeOK, RecordJustifies, RuledOutKept, Registered, AssignJob, factVars,
         Covers, IsAdmin
<1>2. CallChecked'
  BY DEF AssignJob, AssignAllowed, CallChecked, DriverVerified, TrustCeilingCovers,
         OverrideHeard, TrustLevel, Covers, IsAdmin, factVars
<1> QED
  BY <1>1, <1>2 DEF IInv

LEMMA AssignKeeps == ASSUME IInv, Assign PROVE IInv'
<1>1. TypeOK' /\ CallChecked' /\ RuledOutKept'
  BY DEF IInv, TypeOK, CallChecked, RuledOutKept, Registered, Assign, factVars
<1>2. RecordJustifies'
  BY DEF IInv, CallChecked, RecordJustifies, Assign, Covers, IsAdmin, TrustLevel, factVars
<1> QED
  BY <1>1, <1>2 DEF IInv

\* The steps of others leave the call and its record alone.
LEMMA JobRests ==
    ASSUME CallChecked, RecordJustifies, UNCHANGED jobVars
    PROVE  CallChecked' /\ RecordJustifies'
BY DEF CallChecked, RecordJustifies, jobVars, Covers, IsAdmin

LEMMA StepKeeps == IInv /\ [Next]_vars => IInv'
<1> SUFFICES ASSUME IInv, [Next]_vars PROVE IInv'
  OBVIOUS
<1>1. CASE CallSteps
  BY <1>1, AssignJobKeeps, AssignKeeps DEF CallSteps
<1>2. CASE PeopleSteps
  BY <1>2, PeopleFrame, JobRests DEF IInv, RuledOutKept, Registered
<1>3. CASE VehicleSteps
  BY <1>3, VehicleFrame, JobRests DEF IInv
<1>4. CASE UNCHANGED vars
  BY <1>4, JobRests DEF IInv, TypeOK, RuledOutKept, Registered, vars, factVars, jobVars
<1> QED
  BY <1>1, <1>2, <1>3, <1>4, Kinds

\* The inductive invariant of an assignment.
THEOREM Invariance == Spec => []IInv
BY InitHolds, StepKeeps, PTL DEF Spec

-----------------------------------------------------------------------------
\* An assignment's record justifies it, whatever tiers and bands there are and
\* however the tier moves between the check and the record.
THEOREM RecordsJustify == Spec => []RecordJustifies
<1>1. IInv => RecordJustifies
  BY DEF IInv
<1> QED
  BY <1>1, Invariance, PTL

\* A vehicle staff suspended comes back by their hand alone.
THEOREM SuspensionsAreStaffs == Spec => []SuspensionIsStaffs
<1>1. IInv => SuspensionIsStaffs
  BY DEF IInv, RuledOutKept, SuspensionIsStaffs, IsActive
<1> QED
  BY <1>1, Invariance, PTL

\* The screen hides no pair the call would accept, in any state at all.
THEOREM PreviewsHideNothing == Spec => []PreviewHidesNothing
<1>1. ASSUME NEW p \in Actors, NEW d \in Drivers, NEW v \in Vehicles,
             ~IsAdmin(p), AssignAllowed(p, d, v, FALSE)
      PROVE  <<d, v>> \in Candidates(p)
  <2>1. d \in Pool(p)
    BY <1>1 DEF AssignAllowed, ResolveAuthority, SelfAssigns, DriverAllowed, Pool
  <2>2. DriverRowEligible(d)
    BY <1>1 DEF AssignAllowed, DriverAllowed, DriverRowEligible, TrustCeilingCovers, OverrideHeard
  <2>3. v \in ListedVehicles /\ VehicleEligible(v)
    BY <1>1 DEF AssignAllowed, VehicleEligible, IsActive, ListedVehicles
  <2> QED
    BY <1>1, <2>1, <2>2, <2>3 DEF Candidates, AssignAllowed
<1>2. PreviewHidesNothing
  BY <1>1 DEF PreviewHidesNothing
<1> QED
  BY <1>2, PTL

-----------------------------------------------------------------------------
(* Handover. *)

\* The job has not reached its destination.
OnTheWay == status = "IN_TRANSIT" \/ (status = "DISPUTED" /\ before = "IN_TRANSIT")

\* The goods were not handed over yet.
InHand ==
    \/ status \in {"IN_TRANSIT", "AT_DESTINATION"}
    \/ status = "DISPUTED" /\ before \in {"IN_TRANSIT", "AT_DESTINATION"}

\* Codes and links are issued together, one on arrival and one per resume; before the
\* arrival there are none, and before the handover no proof.
Journey ==
    /\ status = "DISPUTED" => before # "NONE"
    /\ link.generation = Len(codes)
    /\ Len(codes) <= resumes + 1
    /\ OnTheWay => Len(codes) = 0 /\ receipts = {}
    /\ InHand => proof.code = 0

\* What was confirmed through the link there is now has used it.
LinksUsed ==
    \A r \in receipts :
        /\ r.epoch <= resumes /\ r.through <= link.generation
        /\ r.through = link.generation => link.used

HandoverInv ==
    HandoverTypeOK /\ Journey /\ LinksUsed /\ CodesAccounted /\ ReceiptsThroughLiveLink

-----------------------------------------------------------------------------
(* The codes. *)

LEMMA CodesTyped ==
    ASSUME HandoverTypeOK
    PROVE  /\ Len(codes) \in Nat /\ DOMAIN codes = 1..Len(codes)
           /\ \A i \in DOMAIN codes : codes[i] \in Code
BY LenProperties, ElementOfSeq DEF HandoverTypeOK

LEMMA CodeChanges ==
    ASSUME HandoverTypeOK, NEW i \in DOMAIN codes, NEW code \in Code,
           codes' = [codes EXCEPT ![i] = code]
    PROVE  /\ codes' \in Seq(Code) /\ Len(codes') = Len(codes) /\ DOMAIN codes' = DOMAIN codes
           /\ \A j \in DOMAIN codes : codes'[j] = IF j = i THEN code ELSE codes[j]
<1>1. codes \in Seq(Code) /\ i \in 1..Len(codes)
  BY CodesTyped DEF HandoverTypeOK
<1>2. codes' \in Seq(Code) /\ Len(codes') = Len(codes)
      /\ \A j \in 1..Len(codes) : codes'[j] = IF j = i THEN code ELSE codes[j]
  BY <1>1, ExceptSeq
<1> QED
  BY <1>2, CodesTyped

LEMMA CodeIssued ==
    ASSUME HandoverTypeOK, Issue
    PROVE  /\ codes' \in Seq(Code)
           /\ Len(codes') = Len(codes) + 1 /\ DOMAIN codes' = DOMAIN codes \cup {Len(codes')}
           /\ codes'[Len(codes')] = NewCode /\ Len(codes') \notin DOMAIN codes
           /\ \A j \in DOMAIN codes : codes'[j] = codes[j]
           /\ link' = [NoLink EXCEPT !.generation = link.generation + 1]
<1>1. NewCode \in Code
  BY AttemptsAssumption DEF NewCode, Code
<1>2. codes \in Seq(Code)
  BY DEF HandoverTypeOK
<1>3. codes' = Append(codes, NewCode)
  BY DEF Issue
<1>4. /\ codes' \in Seq(Code) /\ Len(codes') = Len(codes) + 1
      /\ \A j \in 1..Len(codes) : codes'[j] = codes[j]
      /\ codes'[Len(codes) + 1] = NewCode
  BY <1>1, <1>2, <1>3, AppendProperties
<1> QED
  BY <1>4, CodesTyped, LenProperties DEF Issue

LEMMA HandoverInitHolds == HandoverInit => HandoverInv
<1> SUFFICES ASSUME HandoverInit PROVE HandoverInv
  OBVIOUS
<1>1. codes \in Seq(Code) /\ Len(codes) = 0 /\ DOMAIN codes = {}
  BY EmptySeq DEF HandoverInit
<1>2. HandoverTypeOK
  BY <1>1, AttemptsAssumption DEF HandoverInit, HandoverTypeOK, NoLink, NoProof
<1> QED
  BY <1>1, <1>2 DEF HandoverInit, HandoverInv, Journey, LinksUsed, CodesAccounted,
         ReceiptsThroughLiveLink, Counted, NoLink, NoProof, InHand

-----------------------------------------------------------------------------
\* No code is consumed, and nothing else that was recorded changes.
Quiet ==
    /\ UNCHANGED <<receipts, resumes, proof>>
    /\ link'.generation = link.generation /\ link'.used = link.used
    /\ Len(codes') = Len(codes) /\ DOMAIN codes' = DOMAIN codes
    /\ \A i \in DOMAIN codes : codes'[i].consumed = codes[i].consumed

LEMMA QuietKeeps ==
    ASSUME HandoverInv, Quiet, UNCHANGED <<status, before>> PROVE
        Journey' /\ LinksUsed' /\ CodesAccounted' /\ ReceiptsThroughLiveLink'
<1>1. Journey' /\ LinksUsed'
  BY DEF HandoverInv, Quiet, Journey, LinksUsed, OnTheWay, InHand
<1>2. CodesAccounted'
  BY DEF HandoverInv, Quiet, CodesAccounted
<1>3. ReceiptsThroughLiveLink'
  BY DEF HandoverInv, Quiet, ReceiptsThroughLiveLink, Counted
<1> QED
  BY <1>1, <1>2, <1>3

\* Codes and links lapse, calls come and go.
LEMMA WaitingKeeps ==
    ASSUME HandoverInv, UNCHANGED <<status, before, rule, receipts, resumes, proof>>,
           UNCHANGED <<codes, link>>,
           held' \in 0..link.generation, issues' \subseteq 1..link.generation,
           verified' \in [Calls -> 0..Len(codes)]
    PROVE  HandoverInv'
<1>1. Quiet
  BY DEF Quiet
<1>2. HandoverTypeOK'
  BY DEF HandoverInv, HandoverTypeOK
<1> QED
  BY <1>1, <1>2, QuietKeeps DEF HandoverInv

LEMMA CodeKeeps ==
    ASSUME HandoverInv, NEW i \in DOMAIN codes, NEW code \in Code, code.consumed = codes[i].consumed,
           codes' = [codes EXCEPT ![i] = code],
           UNCHANGED <<status, before, rule, issues, link, held, receipts, verified, resumes, proof>>
    PROVE  HandoverInv'
<1>1. /\ codes' \in Seq(Code) /\ Len(codes') = Len(codes) /\ DOMAIN codes' = DOMAIN codes
      /\ \A j \in DOMAIN codes : codes'[j] = IF j = i THEN code ELSE codes[j]
  BY CodeChanges DEF HandoverInv
<1>2. Quiet
  BY <1>1 DEF Quiet
<1>3. HandoverTypeOK'
  BY <1>1 DEF HandoverInv, HandoverTypeOK
<1> QED
  BY <1>2, <1>3, QuietKeeps DEF HandoverInv

LEMMA LapseKeeps == ASSUME HandoverInv, CodeLapses \/ LinkLapses PROVE HandoverInv'
<1>1. CASE CodeLapses
  <2>1. PICK i \in DOMAIN codes : codes' = [codes EXCEPT ![i].lapsed = TRUE]
    BY <1>1 DEF CodeLapses
  <2>2. codes[i] \in Code /\ [codes[i] EXCEPT !.lapsed = TRUE] \in Code
        /\ [codes[i] EXCEPT !.lapsed = TRUE].consumed = codes[i].consumed
    BY CodesTyped DEF HandoverInv, Code
  <2>3. codes' = [codes EXCEPT ![i] = [codes[i] EXCEPT !.lapsed = TRUE]]
    BY <2>1
  <2> QED
    BY <1>1, <2>2, <2>3, CodeKeeps DEF CodeLapses
<1>2. CASE LinkLapses
  <2>1. Quiet /\ link' \in [generation : 0..(MaxResumes + 1), used : BOOLEAN, lapsed : BOOLEAN]
    BY <1>2 DEF LinkLapses, Quiet, HandoverInv, HandoverTypeOK
  <2>2. HandoverTypeOK'
    BY <1>2, <2>1 DEF LinkLapses, Quiet, HandoverInv, HandoverTypeOK
  <2> QED
    BY <1>2, <2>1, <2>2, QuietKeeps DEF HandoverInv, LinkLapses
<1> QED
  BY <1>1, <1>2

\* A wrong code is counted, up to the limits.
LEMMA MissKeeps ==
    ASSUME HandoverInv, ConfirmReceiptWrong \/ \E c \in Calls : VerifyWrong(c)
    PROVE  HandoverInv'
<1>1. PICK i \in DOMAIN codes :
          /\ IsOpen(codes[i]) /\ codes[i].missed < MaxMisses
          /\ codes' \in {[codes EXCEPT ![i] = Missed(codes[i])],
                         [codes EXCEPT ![i] = [codes[i] EXCEPT !.missed = @ + 1]]}
  BY DEF ConfirmReceiptWrong, VerifyWrong
<1>2. codes[i] \in Code /\ MaxAttempts \in Nat /\ MaxMisses \in Nat
  BY CodesTyped, AttemptsAssumption DEF HandoverInv
<1>3. /\ Missed(codes[i]) \in Code /\ Missed(codes[i]).consumed = codes[i].consumed
      /\ [codes[i] EXCEPT !.missed = @ + 1] \in Code
      /\ [codes[i] EXCEPT !.missed = @ + 1].consumed = codes[i].consumed
  <2>1. /\ codes[i].wrong \in Nat /\ codes[i].wrong + 1 \in 0..MaxAttempts
        /\ codes[i].missed \in Nat /\ codes[i].missed + 1 \in 0..MaxMisses
    BY <1>1, <1>2 DEF IsOpen, Code
  <2> QED
    BY <1>2, <2>1 DEF Missed, Code
<1>4. UNCHANGED <<status, before, rule, issues, link, held, receipts, verified, resumes, proof>>
  BY DEF ConfirmReceiptWrong, VerifyWrong
<1> QED
  BY <1>1, <1>3, <1>4, CodeKeeps

LEMMA CallsKeep ==
    ASSUME HandoverInv, NEW c \in Calls, Verify(c) \/ DeliverRefused(c) PROVE HandoverInv'
<1>1. Len(codes) \in Nat /\ DOMAIN codes = 1..Len(codes)
  BY CodesTyped DEF HandoverInv
<1>2. verified' \in [Calls -> 0..Len(codes)]
  BY <1>1 DEF Verify, DeliverRefused, IsNewest, HandoverInv, HandoverTypeOK
<1>3. held' \in 0..link.generation /\ issues' \subseteq 1..link.generation
  BY DEF Verify, DeliverRefused, HandoverInv, HandoverTypeOK
<1> QED
  BY <1>2, <1>3, WaitingKeeps DEF Verify, DeliverRefused

LEMMA RecipientWaits == ASSUME HandoverInv, OpenLink \/ ReportIssue PROVE HandoverInv'
<1>1. /\ link.generation \in Nat /\ held \in 0..link.generation
      /\ issues \subseteq 1..link.generation
  BY AttemptsAssumption DEF HandoverInv, HandoverTypeOK
<1>2. held' \in 0..link.generation
  BY <1>1 DEF OpenLink, ReportIssue
<1>3. issues' \subseteq 1..link.generation
  <2>1. CASE ReportIssue
    <3>1. held \in 1..link.generation
      BY <1>1, <2>1 DEF ReportIssue, LinkLives
    <3> QED
      BY <1>1, <2>1, <3>1 DEF ReportIssue
  <2> QED
    BY <1>1, <2>1 DEF OpenLink
<1> QED
  BY <1>2, <1>3, WaitingKeeps DEF OpenLink, ReportIssue, HandoverInv, HandoverTypeOK

LEMMA StandingKeeps == ASSUME HandoverInv, OpenDispute \/ End PROVE HandoverInv'
<1>1. HandoverTypeOK'
  BY DEF OpenDispute, End, HandoverInv, HandoverTypeOK
<1>2. Journey' /\ LinksUsed'
  BY DEF OpenDispute, End, HandoverInv, HandoverTypeOK, Journey, LinksUsed, OnTheWay, InHand
<1>3. CodesAccounted'
  BY DEF OpenDispute, End, HandoverInv, CodesAccounted
<1>4. ReceiptsThroughLiveLink'
  BY DEF OpenDispute, End, HandoverInv, ReceiptsThroughLiveLink, Counted
<1> QED
  BY <1>1, <1>2, <1>3, <1>4 DEF HandoverInv

\* Codes and a link are issued: nothing was confirmed through that link yet.
LEMMA IssuingKeeps ==
    ASSUME HandoverInv, Issue, Len(codes) <= resumes', resumes' \in 0..MaxResumes,
           resumes' = resumes + 1 \/ (resumes' = resumes /\ receipts = {}),
           proof.code = 0, status' = "AT_DESTINATION", before' \in {"NONE", before},
           UNCHANGED <<rule, issues, held, receipts, verified, proof>>
    PROVE  HandoverInv'
<1>1. /\ codes' \in Seq(Code) /\ Len(codes') = Len(codes) + 1
      /\ DOMAIN codes' = DOMAIN codes \cup {Len(codes')}
      /\ codes'[Len(codes')] = NewCode /\ Len(codes') \notin DOMAIN codes
      /\ \A j \in DOMAIN codes : codes'[j] = codes[j]
      /\ link' = [NoLink EXCEPT !.generation = link.generation + 1]
  BY CodeIssued DEF HandoverInv
<1>2. /\ Len(codes) \in Nat /\ DOMAIN codes = 1..Len(codes) /\ resumes \in Nat /\ MaxResumes \in Nat
      /\ link.generation = Len(codes)
  BY CodesTyped, AttemptsAssumption DEF HandoverInv, HandoverTypeOK, Journey
<1>3. /\ link' = [generation |-> link.generation + 1, used |-> FALSE, lapsed |-> FALSE]
      /\ link'.generation = link.generation + 1 /\ ~link'.used
      /\ link.generation + 1 \in 0..(MaxResumes + 1)
  <2>1. link.generation + 1 \in 0..(MaxResumes + 1)
    BY <1>2
  <2> QED
    BY <1>1, <2>1 DEF NoLink
<1>4. \A r \in receipts : /\ r.epoch <= resumes /\ r.epoch \in Nat
                          /\ r.through <= link.generation /\ r.through \in Nat
                          /\ r.code \in DOMAIN codes
  BY DEF HandoverInv, HandoverTypeOK, LinksUsed
<1>5. Counted' = {}
  BY <1>2, <1>4 DEF Counted
<1>6. HandoverTypeOK'
  <2>1. link' \in [generation : 0..(MaxResumes + 1), used : BOOLEAN, lapsed : BOOLEAN]
    BY <1>3
  <2>2. Len(codes') <= MaxResumes + 1
    BY <1>1, <1>2
  <2>3. held' \in 0..link'.generation /\ issues' \subseteq 1..link'.generation
    BY <1>2, <1>3 DEF HandoverInv, HandoverTypeOK
  <2>4. verified' \in [Calls -> 0..Len(codes')]
    BY <1>1, <1>2 DEF HandoverInv, HandoverTypeOK
  <2>5. proof' \in [methods : SUBSET Methods, code : 0..Len(codes')]
    BY <1>1, <1>2 DEF HandoverInv, HandoverTypeOK
  <2>6. receipts' \subseteq [method : {"OTP", "SIGNATURE"}, epoch : 0..MaxResumes,
                             through : 1..(MaxResumes + 1), code : DOMAIN codes']
    BY <1>1 DEF HandoverInv, HandoverTypeOK
  <2> QED
    BY <1>1, <2>1, <2>2, <2>3, <2>4, <2>5, <2>6 DEF HandoverInv, HandoverTypeOK
<1>7. Journey'
  BY <1>1, <1>2, <1>3 DEF Journey, OnTheWay, InHand
<1>8. LinksUsed'
  BY <1>2, <1>3, <1>4 DEF LinksUsed
<1>9. CodesAccounted'
  <2>1. ~NewCode.consumed
    BY DEF NewCode
  <2>2. proof'.code # Len(codes') /\ \A r \in receipts' : r.code # Len(codes')
    BY <1>1, <1>2, <1>4
  <2> QED
    BY <1>1, <2>1, <2>2 DEF HandoverInv, CodesAccounted
<1>10. ReceiptsThroughLiveLink'
  BY <1>5 DEF HandoverInv, ReceiptsThroughLiveLink
<1> QED
  BY <1>1, <1>3, <1>5, <1>6, <1>7, <1>8, <1>9, <1>10 DEF HandoverInv

LEMMA ArrivingKeeps == ASSUME HandoverInv, Arrive PROVE HandoverInv'
<1>1. Len(codes) = 0 /\ receipts = {} /\ proof.code = 0 /\ resumes \in 0..MaxResumes
  BY DEF Arrive, HandoverInv, HandoverTypeOK, Journey, OnTheWay, InHand
<1> QED
  BY <1>1, IssuingKeeps, AttemptsAssumption DEF Arrive

LEMMA ResumeIssues ==
    ASSUME HandoverInv, Resume, before = "AT_DESTINATION"
    PROVE  HandoverInv'
<1>1. proof.code = 0 /\ Len(codes) <= resumes + 1 /\ resumes \in 0..MaxResumes
  BY DEF Resume, HandoverInv, HandoverTypeOK, Journey, InHand
<1>2. resumes' = resumes + 1 /\ resumes' \in 0..MaxResumes
  BY <1>1, AttemptsAssumption DEF Resume
<1> QED
  BY <1>1, <1>2, IssuingKeeps DEF Resume

\* Resumed on the way, or after the handover: no codes, and nothing at the destination.
LEMMA ResumeElsewhere ==
    ASSUME HandoverInv, Resume, before # "AT_DESTINATION" PROVE HandoverInv'
<1>1. /\ UNCHANGED <<codes, link, rule, issues, held, receipts, verified, proof>>
      /\ status = "DISPUTED" /\ status' = before /\ before' = "NONE" /\ resumes' = resumes + 1
      /\ resumes < MaxResumes /\ before \in {"IN_TRANSIT", "DELIVERED"}
  BY DEF Resume, HandoverInv, HandoverTypeOK, Journey
<1>2. resumes \in Nat /\ MaxResumes \in Nat /\ Len(codes) \in Nat
  BY CodesTyped, AttemptsAssumption DEF HandoverInv, HandoverTypeOK
<1>3. HandoverTypeOK'
  BY <1>1, <1>2 DEF HandoverInv, HandoverTypeOK
<1>4. Journey'
  BY <1>1, <1>2 DEF HandoverInv, Journey, OnTheWay, InHand
<1>5. LinksUsed'
  BY <1>1, <1>2 DEF HandoverInv, HandoverTypeOK, LinksUsed
<1>6. CodesAccounted' /\ ReceiptsThroughLiveLink'
  BY <1>1 DEF HandoverInv, CodesAccounted, ReceiptsThroughLiveLink
<1> QED
  BY <1>3, <1>4, <1>5, <1>6 DEF HandoverInv

\* The handover: the code verified before is consumed with the proof that rests on it.
LEMMA DeliverKeeps ==
    ASSUME HandoverInv, NEW c \in Calls, NEW given \in SUBSET {"SIGNATURE", "PHOTO"},
           Deliver(c, given)
    PROVE  HandoverInv'
<1> DEFINE v == verified[c]
           served(i) == IF i = v THEN Consumed(codes[i]) ELSE codes[i]
<1>1. /\ status = "AT_DESTINATION" /\ status' = "DELIVERED"
      /\ proof' = [methods |-> Present(c, given), code |-> v]
      /\ codes' = [i \in DOMAIN codes |-> served(i)]
      /\ verified' = [verified EXCEPT ![c] = 0]
      /\ UNCHANGED <<before, rule, issues, link, held, receipts, resumes>>
  BY DEF Deliver
<1>2. /\ Len(codes) \in Nat /\ DOMAIN codes = 1..Len(codes)
      /\ \A i \in DOMAIN codes : codes[i] \in Code
  BY CodesTyped DEF HandoverInv
<1>3. v \in 0..Len(codes) /\ verified' \in [Calls -> 0..Len(codes)]
  BY <1>1, <1>2 DEF HandoverInv, HandoverTypeOK
<1> HIDE DEF v
<1>4. \A i \in 1..Len(codes) : served(i) \in Code
  BY <1>2 DEF Consumed, Code
<1>5. codes' \in [1..Len(codes) -> Code] /\ \A i \in 1..Len(codes) : codes'[i] = served(i)
  BY <1>1, <1>2, <1>4
<1>6. codes' \in Seq(Code) /\ Len(codes') = Len(codes) /\ DOMAIN codes' = DOMAIN codes
  <2>1. codes' \in Seq(Code)
    BY <1>2, <1>5, SeqDef
  <2> QED
    BY <1>2, <1>5, <2>1, LenProperties
<1>7. Present(c, given) \in SUBSET Methods
  BY DEF Present, Methods, Counted, HandoverInv, HandoverTypeOK
<1>8. HandoverTypeOK'
  BY <1>1, <1>3, <1>6, <1>7 DEF HandoverInv, HandoverTypeOK
<1>9. Journey' /\ LinksUsed'
  BY <1>1, <1>6 DEF HandoverInv, Journey, LinksUsed, OnTheWay, InHand
<1>10. CodesAccounted'
  <2>1. proof.code = 0
    BY <1>1 DEF HandoverInv, Journey, InHand
  <2>2. \A i \in DOMAIN codes : codes'[i].consumed <=> i = v \/ codes[i].consumed
    BY <1>2, <1>5 DEF Consumed, Code
  <2> QED
    BY <1>1, <1>2, <1>6, <2>1, <2>2 DEF HandoverInv, CodesAccounted
<1>11. ReceiptsThroughLiveLink'
  BY <1>1 DEF HandoverInv, ReceiptsThroughLiveLink
<1> QED
  BY <1>8, <1>9, <1>10, <1>11 DEF HandoverInv

\* The recipient confirms: the link was not used before.
LEMMA ConfirmKeeps ==
    ASSUME HandoverInv, NEW signed \in BOOLEAN, ConfirmReceipt(signed) PROVE HandoverInv'
<1> DEFINE Rows(i) == {[method |-> m, epoch |-> resumes, through |-> held, code |-> i] :
                           m \in {"OTP"} \cup (IF signed THEN {"SIGNATURE"} ELSE {})}
<1>1. PICK i \in DOMAIN codes :
          receipts' = receipts \cup Rows(i) /\ codes' = [codes EXCEPT ![i] = Consumed(codes[i])]
  BY DEF ConfirmReceipt
<1>2. /\ held > 0 /\ held = link.generation /\ ~link.used /\ status = "AT_DESTINATION"
      /\ link' = [link EXCEPT !.used = TRUE]
      /\ UNCHANGED <<status, before, rule, issues, held, verified, resumes, proof>>
  BY DEF ConfirmReceipt, MayConfirm, LinkLives
<1>3. codes[i] \in Code /\ Consumed(codes[i]) \in Code /\ Consumed(codes[i]).consumed
  BY CodesTyped DEF HandoverInv, Consumed, Code
<1>4. /\ codes' \in Seq(Code) /\ Len(codes') = Len(codes) /\ DOMAIN codes' = DOMAIN codes
      /\ \A j \in DOMAIN codes : codes'[j] = IF j = i THEN Consumed(codes[i]) ELSE codes[j]
  BY <1>1, <1>3, CodeChanges DEF HandoverInv
<1>5. /\ link' \in [generation : 0..(MaxResumes + 1), used : BOOLEAN, lapsed : BOOLEAN]
      /\ link'.generation = link.generation /\ link'.used
      /\ held \in 1..(MaxResumes + 1) /\ resumes \in 0..MaxResumes
  <2>1. /\ link \in [generation : 0..(MaxResumes + 1), used : BOOLEAN, lapsed : BOOLEAN]
        /\ resumes \in 0..MaxResumes
    BY DEF HandoverInv, HandoverTypeOK
  <2>2. /\ link' \in [generation : 0..(MaxResumes + 1), used : BOOLEAN, lapsed : BOOLEAN]
        /\ link'.generation = link.generation /\ link'.used
    BY <1>2, <2>1
  <2>3. link.generation \in 0..(MaxResumes + 1)
    BY <2>1
  <2>4. held \in 1..(MaxResumes + 1)
    BY <1>2, <2>3, AttemptsAssumption
  <2> QED
    BY <2>1, <2>2, <2>4
<1>6. \A r \in Rows(i) : /\ r.method \in {"OTP", "SIGNATURE"} /\ r.epoch = resumes
                         /\ r.through = held /\ r.code = i
                         /\ r \in [method : {"OTP", "SIGNATURE"}, epoch : 0..MaxResumes,
                                   through : 1..(MaxResumes + 1), code : DOMAIN codes]
  BY <1>5
<1>7. \A r, s \in Rows(i) : r.method = s.method => r = s
  OBVIOUS
<1>8. \E r \in Rows(i) : r.code = i
  <2>1. [method |-> "OTP", epoch |-> resumes, through |-> held, code |-> i] \in Rows(i)
    OBVIOUS
  <2> QED
    BY <2>1
<1> HIDE DEF Rows
<1>9. \A r \in receipts : r.through # held
  BY <1>2 DEF HandoverInv, LinksUsed
<1>10. HandoverTypeOK'
  BY <1>1, <1>2, <1>4, <1>5, <1>6 DEF HandoverInv, HandoverTypeOK
<1>11. Journey' /\ LinksUsed'
  <2>1. Journey'
    BY <1>2, <1>4, <1>5 DEF HandoverInv, Journey, OnTheWay, InHand
  <2>2. LinksUsed'
    BY <1>1, <1>2, <1>5, <1>6 DEF HandoverInv, LinksUsed
  <2> QED
    BY <2>1, <2>2
<1>12. CodesAccounted'
  <2>1. \A j \in DOMAIN codes : codes'[j].consumed <=> j = i \/ codes[j].consumed
    BY <1>3, <1>4
  <2>2. \A j : (\E r \in receipts' : r.code = j) <=> j = i \/ \E r \in receipts : r.code = j
    BY <1>1, <1>6, <1>8
  <2> QED
    BY <1>2, <1>4, <2>1, <2>2 DEF HandoverInv, CodesAccounted
<1>13. ReceiptsThroughLiveLink'
  <2>1. \A r, s \in receipts' : r.method = s.method /\ r.through = s.through => r = s
    BY <1>1, <1>6, <1>7, <1>9 DEF HandoverInv, ReceiptsThroughLiveLink
  <2>2. \A r \in Counted' : r.through = link'.generation /\ link'.used
    BY <1>1, <1>2, <1>5, <1>6 DEF HandoverInv, ReceiptsThroughLiveLink, Counted
  <2> QED
    BY <2>1, <2>2 DEF ReceiptsThroughLiveLink
<1> QED
  BY <1>10, <1>11, <1>12, <1>13 DEF HandoverInv

-----------------------------------------------------------------------------
LEMMA HandoverKept == ASSUME HandoverInv, [HandoverNext]_handoverVars PROVE HandoverInv'
<1>1. CASE UNCHANGED handoverVars
  BY <1>1, WaitingKeeps DEF handoverVars, HandoverInv, HandoverTypeOK
<1>2. CASE Drive
  BY <1>2, ArrivingKeeps, CallsKeep, MissKeeps, DeliverKeeps DEF Drive
<1>3. CASE Receive
  BY <1>3, RecipientWaits, ConfirmKeeps, MissKeeps DEF Receive
<1>4. CASE CodeLapses \/ LinkLapses \/ OpenDispute \/ End
  BY <1>4, LapseKeeps, StandingKeeps
<1>5. CASE Resume
  BY <1>5, ResumeIssues, ResumeElsewhere
<1> QED
  BY <1>1, <1>2, <1>3, <1>4, <1>5 DEF HandoverNext

\* The inductive invariant of a handover.
THEOREM HandoverInvariance == HandoverSpec => []HandoverInv
<1>1. HandoverInv /\ [HandoverNext]_handoverVars => HandoverInv'
  BY HandoverKept
<1> QED
  BY HandoverInitHolds, <1>1, PTL DEF HandoverSpec

\* No code takes more wrong attempts than its limit, and every column keeps its type.
THEOREM HandoverTyped == HandoverSpec => []HandoverTypeOK
<1>1. HandoverInv => HandoverTypeOK
  BY DEF HandoverInv
<1> QED
  BY <1>1, HandoverInvariance, PTL

\* A code is consumed exactly when it served, whatever fails or races on the way.
THEOREM CodesAreAccounted == HandoverSpec => []CodesAccounted
<1>1. HandoverInv => CodesAccounted
  BY DEF HandoverInv
<1> QED
  BY <1>1, HandoverInvariance, PTL

\* What counts was confirmed through the live link, once.
THEOREM ReceiptsAreLive == HandoverSpec => []ReceiptsThroughLiveLink
<1>1. HandoverInv => ReceiptsThroughLiveLink
  BY DEF HandoverInv
<1> QED
  BY <1>1, HandoverInvariance, PTL

=============================================================================
