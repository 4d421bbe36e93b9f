---------------------------- MODULE OfficeProofs ----------------------------
(***************************************************************************)
(* Proofs about the platform's offices: Vetting, for any records,          *)
(* documents, people and roles; Console, for any sessions, categories,     *)
(* keywords and settings; Billing, for any jobs, payees, fees and bounds.  *)
(***************************************************************************)
EXTENDS Vetting, Console, Billing, TLAPS, SequenceTheorems, FiniteSetTheorems,
    WellFoundedInduction

\* Open to reviewers is submitted and not ruled on.
AskedIsOpen == \A r \in Records : asked[r] <=> Open(r)

Safe == ReviewerIndependent /\ EvidenceUnderReviewStands /\ AskedIsOpen /\ FlagIsLastRuling

IInv == TypeOK /\ Safe

LEMMA RowIsTyped == ASSUME TypeOK, NEW r \in Records PROVE record[r] \in RecordRows
BY DEF TypeOK

-----------------------------------------------------------------------------
LEMMA InitHolds == Init => IInv
<1> SUFFICES ASSUME Init PROVE IInv
  OBVIOUS
<1> PICK founder \in [Records -> People] :
        LET registers(r) == DomainOf[r] \in EvidenceOptional
        IN /\ \A r \in Records : Holders[r] # {} => founder[r] \in Holders[r]
           /\ record = [r \in Records |->
                 [NewRecord EXCEPT !.state = IF registers(r) THEN "SUBMITTED" ELSE @]]
           /\ document = [r \in Records |-> [k \in Kinds[r] |-> "NONE"]]
           /\ submitters = [r \in Records |-> IF registers(r) THEN {founder[r]} ELSE {}]
           /\ organisation = [r \in Records |-> "UNVERIFIED"]
           /\ locations = [r \in Records |-> NoLocations]
           /\ asked = [r \in Records |-> registers(r)]
           /\ ruling = [r \in Records |-> "NONE"]
           /\ unseen = [r \in Records |-> FALSE]
  BY DEF Init
<1>1. \A r \in Records :
          /\ record[r] \in RecordRows
          /\ record[r].state = IF DomainOf[r] \in EvidenceOptional
                               THEN "SUBMITTED" ELSE "NOT_SUBMITTED"
  BY DEF NewRecord, RecordRows, States, Dates
<1>2. record \in [Records -> RecordRows]
  BY <1>1
<1>3. asked \in [Records -> BOOLEAN]
  OBVIOUS
<1>4. NoLocations \in LocationRows
  BY BranchesAssumption DEF NoLocations, LocationRows
<1>5. TypeOK
  BY <1>2, <1>3, <1>4 DEF TypeOK, DocumentSlots
<1>6. Safe
  <2> \A r \in Records : record[r].state \in {"SUBMITTED", "NOT_SUBMITTED"}
    BY <1>1
  <2>1. ReviewerIndependent
    BY DEF ReviewerIndependent
  <2>2. EvidenceUnderReviewStands
    BY <1>1 DEF EvidenceUnderReviewStands
  <2>3. AskedIsOpen
    <3>1. ASSUME NEW r \in Records PROVE asked[r] <=> DomainOf[r] \in EvidenceOptional
      BY Zenon
    <3>2. ASSUME NEW r \in Records PROVE Open(r) <=> DomainOf[r] \in EvidenceOptional
      <4>1. CASE DomainOf[r] \in EvidenceOptional
        <5>1. record[r].state = "SUBMITTED"
          BY <1>1, <4>1
        <5> QED
          BY <4>1, <5>1 DEF Open
      <4>2. CASE DomainOf[r] \notin EvidenceOptional
        <5>1. record[r].state = "NOT_SUBMITTED"
          BY <1>1, <4>2
        <5> QED
          BY <4>2, <5>1 DEF Open
      <4> QED
        BY <4>1, <4>2
    <3> QED
      BY <3>1, <3>2 DEF AskedIsOpen
  <2>4. FlagIsLastRuling
    BY DEF FlagIsLastRuling
  <2> QED
    BY <2>1, <2>2, <2>3, <2>4 DEF Safe
<1> QED
  BY <1>5, <1>6 DEF IInv

-----------------------------------------------------------------------------
(* The calls of those who act for the subject. *)

LEMMA UploadKeeps ==
    ASSUME IInv, NEW p \in People, NEW r \in Records, UploadEvidence(p, r)
    PROVE  IInv'
<1> PICK k \in Kinds[r], date \in {"NEVER", "AHEAD"} : AddEvidence(r, k, date)
  BY DEF UploadEvidence
<1>1. record[r].state # "IN_REVIEW"
  BY DEF AddEvidence, AwaitsReview, EffectiveState
<1>2. TypeOK'
  BY DEF IInv, TypeOK, AddEvidence, DocumentSlots, Dates
<1>3. Safe'
  <2>1. ReviewerIndependent'
    BY <1>1 DEF IInv, TypeOK, Safe, ReviewerIndependent, AddEvidence
  <2>2. EvidenceUnderReviewStands'
    BY <1>1 DEF IInv, TypeOK, Safe, EvidenceUnderReviewStands, AddEvidence
  <2>3. AskedIsOpen'
    BY <1>1 DEF IInv, TypeOK, Safe, AskedIsOpen, Open, AddEvidence
  <2>4. FlagIsLastRuling'
    BY <1>1 DEF IInv, TypeOK, Safe, FlagIsLastRuling, AddEvidence
  <2> QED
    BY <2>1, <2>2, <2>3, <2>4 DEF Safe
<1> QED
  BY <1>2, <1>3 DEF IInv

LEMMA SubmitKeeps ==
    ASSUME IInv, NEW p \in People, NEW r \in Records, SubmitRecord(p, r)
    PROVE  IInv'
<1> DEFINE row == [record[r] EXCEPT !.state = "SUBMITTED", !.reviewer = None, !.owner = None]
<1>1. row \in RecordRows /\ row.state = "SUBMITTED"
  BY RowIsTyped DEF IInv, RecordRows, States
<1>2. record' = [record EXCEPT ![r] = row]
  BY DEF SubmitRecord, MarkSubmitted
<1> HIDE DEF row
<1>3. TypeOK'
  BY <1>1, <1>2 DEF IInv, TypeOK, SubmitRecord, MarkSubmitted
<1>4. Safe'
  <2>1. ReviewerIndependent'
    BY <1>1, <1>2 DEF IInv, TypeOK, Safe, ReviewerIndependent, SubmitRecord, MarkSubmitted
  <2>2. EvidenceUnderReviewStands'
    BY <1>1, <1>2 DEF IInv, TypeOK, Safe, EvidenceUnderReviewStands, SubmitRecord,
                      MarkSubmitted
  <2>3. AskedIsOpen'
    BY <1>1, <1>2 DEF IInv, TypeOK, Safe, AskedIsOpen, Open, SubmitRecord, MarkSubmitted
  <2>4. FlagIsLastRuling'
    BY <1>1, <1>2 DEF IInv, TypeOK, Safe, FlagIsLastRuling, SubmitRecord, MarkSubmitted
  <2> QED
    BY <2>1, <2>2, <2>3, <2>4 DEF Safe
<1> QED
  BY <1>3, <1>4 DEF IInv

-----------------------------------------------------------------------------
(* The calls of the reviewers. *)

LEMMA StartReviewKeeps ==
    ASSUME IInv, NEW p \in People, NEW r \in Records, StartReview(p, r)
    PROVE  IInv'
<1> DEFINE row == [record[r] EXCEPT !.state = "IN_REVIEW", !.owner = p]
<1>1. row \in RecordRows /\ row.state = "IN_REVIEW" /\ row.owner = p
  BY RowIsTyped DEF IInv, RecordRows, States
<1>2. record' = [record EXCEPT ![r] = row] /\ UNCHANGED <<ruling, asked>>
  BY DEF StartReview, RecordDecision
<1> HIDE DEF row
<1>3. TypeOK'
  BY <1>1, <1>2 DEF IInv, TypeOK, StartReview
<1>4. p \notin submitters[r] /\ Open(r)
  BY DEF StartReview, MayReview, Open
<1>5. Safe'
  <2>1. ReviewerIndependent'
    BY <1>1, <1>2, <1>4 DEF IInv, TypeOK, Safe, ReviewerIndependent, StartReview
  <2>2. EvidenceUnderReviewStands'
    BY <1>1, <1>2, <1>4 DEF IInv, TypeOK, Safe, EvidenceUnderReviewStands, StartReview
  <2>3. AskedIsOpen'
    BY <1>1, <1>2, <1>4 DEF IInv, TypeOK, Safe, AskedIsOpen, Open, StartReview
  <2>4. FlagIsLastRuling'
    BY <1>1, <1>2, <1>4 DEF IInv, TypeOK, Safe, FlagIsLastRuling, StartReview
  <2> QED
    BY <2>1, <2>2, <2>3, <2>4 DEF Safe
<1> QED
  BY <1>3, <1>5 DEF IInv

LEMMA RequestInfoKeeps ==
    ASSUME IInv, NEW p \in People, NEW r \in Records, RequestInfo(p, r)
    PROVE  IInv'
<1> DEFINE row == [record[r] EXCEPT !.state = "INFO_REQUESTED"]
<1>1. row \in RecordRows /\ row.state = "INFO_REQUESTED"
  BY RowIsTyped DEF IInv, RecordRows, States
<1>2. record' = [record EXCEPT ![r] = row] /\ UNCHANGED <<ruling, asked>>
  BY DEF RequestInfo, RecordDecision
<1> HIDE DEF row
<1>3. TypeOK'
  BY <1>1, <1>2 DEF IInv, TypeOK, RequestInfo
<1>4. Safe'
  <2>1. ReviewerIndependent'
    BY <1>1, <1>2 DEF IInv, TypeOK, Safe, ReviewerIndependent, RequestInfo
  <2>2. EvidenceUnderReviewStands'
    BY <1>1, <1>2 DEF IInv, TypeOK, Safe, EvidenceUnderReviewStands, RequestInfo
  <2>3. AskedIsOpen'
    BY <1>1, <1>2 DEF IInv, TypeOK, Safe, AskedIsOpen, Open, RequestInfo
  <2>4. FlagIsLastRuling'
    BY <1>1, <1>2 DEF IInv, TypeOK, Safe, FlagIsLastRuling, RequestInfo
  <2> QED
    BY <2>1, <2>2, <2>3, <2>4 DEF Safe
<1> QED
  BY <1>3, <1>4 DEF IInv

LEMMA SuggestedIsADate ==
    ASSUME NEW r \in Records PROVE SuggestedExpiry(r) \in Dates
BY DEF SuggestedExpiry, Dates

LEMMA ApproveKeeps ==
    ASSUME IInv, NEW p \in People, NEW r \in Records, NEW given \in {"NEVER", "AHEAD"},
           Approve(p, r, given)
    PROVE  IInv'
<1> DEFINE expires == IF given = "NEVER" THEN SuggestedExpiry(r) ELSE given
           row == [record[r] EXCEPT !.state = "VERIFIED", !.reviewer = p, !.expires = expires]
<1>1. row \in RecordRows /\ row.state = "VERIFIED" /\ row.reviewer = p
  BY RowIsTyped, SuggestedIsADate DEF IInv, RecordRows, States, Dates
<1>2. /\ record' = [record EXCEPT ![r] = row]
      /\ ruling' = [ruling EXCEPT ![r] = "APPROVE"]
      /\ asked' = [asked EXCEPT ![r] = FALSE]
  BY DEF Approve, RecordDecision
<1> HIDE DEF row
<1>3. organisation' = IF DomainOf[r] \in EvidenceOptional
                      THEN [organisation EXCEPT ![r] = "VERIFIED"] ELSE organisation
  BY DEF Approve, SyncFlag, SetVerificationStatus
<1>4. TypeOK'
  BY <1>1, <1>2, <1>3 DEF IInv, TypeOK, Approve
<1>5. p \in Reviewers \ submitters[r]
  BY DEF Approve, MayReview, IsReviewer
<1>6. Safe'
  <2>1. ReviewerIndependent'
    BY <1>1, <1>2, <1>3, <1>5 DEF IInv, TypeOK, Safe, ReviewerIndependent, Approve
  <2>2. EvidenceUnderReviewStands'
    BY <1>1, <1>2, <1>3, <1>5 DEF IInv, TypeOK, Safe, EvidenceUnderReviewStands, Approve
  <2>3. AskedIsOpen'
    BY <1>1, <1>2, <1>3, <1>5 DEF IInv, TypeOK, Safe, AskedIsOpen, Open, Approve
  <2>4. FlagIsLastRuling'
    BY <1>1, <1>2, <1>3, <1>5 DEF IInv, TypeOK, Safe, FlagIsLastRuling, Approve
  <2> QED
    BY <2>1, <2>2, <2>3, <2>4 DEF Safe
<1> QED
  BY <1>4, <1>6 DEF IInv

LEMMA RejectKeeps ==
    ASSUME IInv, NEW p \in People, NEW r \in Records, Reject(p, r)
    PROVE  IInv'
<1> DEFINE row == [record[r] EXCEPT !.state = "REJECTED", !.reviewer = p]
<1>1. row \in RecordRows /\ row.state = "REJECTED" /\ row.reviewer = p
  BY RowIsTyped DEF IInv, RecordRows, States
<1>2. /\ record' = [record EXCEPT ![r] = row]
      /\ ruling' = [ruling EXCEPT ![r] = "REJECT"]
      /\ asked' = [asked EXCEPT ![r] = FALSE]
  BY DEF Reject, RecordDecision
<1> HIDE DEF row
<1>3. organisation' = IF DomainOf[r] \in EvidenceOptional
                      THEN [organisation EXCEPT ![r] = "UNVERIFIED"] ELSE organisation
  BY DEF Reject, SyncFlag, SetVerificationStatus
<1>4. TypeOK'
  BY <1>1, <1>2, <1>3 DEF IInv, TypeOK, Reject
<1>5. p \in Reviewers \ submitters[r]
  BY DEF Reject, MayReview, IsReviewer
<1>6. Safe'
  <2>1. ReviewerIndependent'
    BY <1>1, <1>2, <1>3, <1>5 DEF IInv, TypeOK, Safe, ReviewerIndependent, Reject
  <2>2. EvidenceUnderReviewStands'
    BY <1>1, <1>2, <1>3, <1>5 DEF IInv, TypeOK, Safe, EvidenceUnderReviewStands, Reject
  <2>3. AskedIsOpen'
    BY <1>1, <1>2, <1>3, <1>5 DEF IInv, TypeOK, Safe, AskedIsOpen, Open, Reject
  <2>4. FlagIsLastRuling'
    BY <1>1, <1>2, <1>3, <1>5 DEF IInv, TypeOK, Safe, FlagIsLastRuling, Reject
  <2> QED
    BY <2>1, <2>2, <2>3, <2>4 DEF Safe
<1> QED
  BY <1>4, <1>6 DEF IInv

-----------------------------------------------------------------------------
(* Time, the sweep and the locations of a business. *)

LEMMA ExpireDueKeeps == ASSUME IInv, ExpireDue PROVE IInv'
<1>1. \A r \in Records :
          /\ record'[r] \in RecordRows
          /\ record'[r].reviewer = record[r].reviewer
          /\ record'[r].owner = record[r].owner
          /\ \/ record'[r].state = record[r].state
             \/ record[r].state = "VERIFIED" /\ record'[r].state = "EXPIRED"
  BY DEF IInv, TypeOK, RecordRows, ExpireDue, Lapsed, States
<1>2. record' \in [Records -> RecordRows]
  BY <1>1 DEF ExpireDue
<1>3. TypeOK'
  BY <1>2 DEF IInv, TypeOK, ExpireDue
<1>4. Safe'
  <2>1. ReviewerIndependent'
    BY <1>1 DEF IInv, TypeOK, Safe, ReviewerIndependent, ExpireDue
  <2>2. EvidenceUnderReviewStands'
    BY <1>1 DEF IInv, TypeOK, Safe, EvidenceUnderReviewStands, ExpireDue
  <2>3. AskedIsOpen'
    BY <1>1 DEF IInv, TypeOK, Safe, AskedIsOpen, Open, ExpireDue
  <2>4. FlagIsLastRuling'
    BY <1>1 DEF IInv, TypeOK, Safe, FlagIsLastRuling, ExpireDue
  <2> QED
    BY <2>1, <2>2, <2>3, <2>4 DEF Safe
<1> QED
  BY <1>3, <1>4 DEF IInv

LEMMA LocationsFrame ==
    ASSUME NEW r \in Records, TypeOK, LocationCalls(r)
    PROVE  TypeOK' /\ UNCHANGED <<record, submitters, organisation, asked, ruling, unseen>>
<1> PICK main \in BOOLEAN, branches \in 0..MaxBranches : SaveLocations(r, main, branches)
  BY DEF LocationCalls, CreateLocation, UpdateLocation, DeactivateLocation, SaveLocations,
         TypeOK, LocationRows
<1>1. [main |-> main, branches |-> branches] \in LocationRows
  BY DEF SaveLocations, LocationRows
<1> QED
  BY <1>1 DEF TypeOK, SaveLocations

LEMMA PassingKeeps == ASSUME IInv, Passing PROVE IInv'
<1> PICK r \in Records :
        RecordLapses(r) \/ (\E k \in Kinds[r] : DocumentLapses(r, k)) \/ LocationCalls(r)
  BY DEF Passing
<1>1. CASE RecordLapses(r)
  <2>1. /\ [record[r] EXCEPT !.expires = "PAST"] \in RecordRows
        /\ record' = [record EXCEPT ![r] = [record[r] EXCEPT !.expires = "PAST"]]
    BY <1>1 DEF IInv, TypeOK, RecordRows, Dates, RecordLapses
  <2>2. TypeOK'
    BY <1>1, <2>1 DEF IInv, TypeOK, RecordLapses
  <2>3. \A s \in Records : /\ record'[s].state = record[s].state
                           /\ record'[s].reviewer = record[s].reviewer
                           /\ record'[s].owner = record[s].owner
    BY <2>1 DEF IInv, TypeOK, RecordRows
  <2> QED
    BY <1>1, <2>2, <2>3 DEF IInv, Safe, ReviewerIndependent, EvidenceUnderReviewStands,
           AskedIsOpen, FlagIsLastRuling, Open, RecordLapses
<1>2. ASSUME NEW k \in Kinds[r], DocumentLapses(r, k) PROVE IInv'
  BY <1>2 DEF IInv, TypeOK, Safe, ReviewerIndependent, EvidenceUnderReviewStands,
         AskedIsOpen, FlagIsLastRuling, Open, DocumentLapses, DocumentSlots, Dates
<1>3. CASE LocationCalls(r)
  BY <1>3, LocationsFrame DEF IInv, Safe, ReviewerIndependent,
         EvidenceUnderReviewStands, AskedIsOpen, FlagIsLastRuling, Open
<1> QED
  BY <1>1, <1>2, <1>3

-----------------------------------------------------------------------------
LEMMA StepKeeps == IInv /\ [Next]_vars => IInv'
<1> SUFFICES ASSUME IInv, [Next]_vars PROVE IInv'
  OBVIOUS
<1>1. ASSUME NEW p \in People, NEW r \in Records,
             UploadEvidence(p, r) \/ SubmitRecord(p, r) \/ Review(p, r)
      PROVE  IInv'
  BY <1>1, UploadKeeps, SubmitKeeps, StartReviewKeeps, RequestInfoKeeps, ApproveKeeps,
     RejectKeeps DEF Review
<1>2. CASE UNCHANGED vars
  BY <1>2 DEF IInv, TypeOK, Safe, ReviewerIndependent, EvidenceUnderReviewStands,
         AskedIsOpen, FlagIsLastRuling, Open, vars
<1> QED
  BY <1>1, <1>2, PassingKeeps, ExpireDueKeeps DEF Next

\* The inductive invariant of the review.
THEOREM Invariance == Spec => []IInv
BY InitHolds, StepKeeps, PTL DEF Spec

\* Nobody rules on what they submitted, over any number of submissions.
THEOREM ReviewersAreIndependent == Spec => []ReviewerIndependent
<1>1. IInv => ReviewerIndependent
  BY DEF IInv, Safe
<1> QED
  BY <1>1, Invariance, PTL

\* No document enters a review that has begun.
THEOREM ReviewedEvidenceStands == Spec => []EvidenceUnderReviewStands
<1>1. IInv => EvidenceUnderReviewStands
  BY DEF IInv, Safe
<1> QED
  BY <1>1, Invariance, PTL

\* The flag of an organisation is the last ruling on its details.
THEOREM FlagsFollowRulings == Spec => []FlagIsLastRuling
<1>1. IInv => FlagIsLastRuling
  BY DEF IInv, Safe
<1> QED
  BY <1>1, Invariance, PTL

\* Whatever waits for a ruling is in the queue, under its applicant.
THEOREM WaitingIsFound == Spec => []WaitingIsListed
<1>1. ASSUME IInv PROVE WaitingIsListed
  <2>1. Queue = {r \in Records : asked[r]}
    BY <1>1 DEF IInv, Safe, AskedIsOpen, Queue
  <2>2. ASSUME NEW r \in Records, asked[r], ApplicantOf[r] # None
        PROVE  \E a \in Applicants : r \in Scope(a)
    <3>1. Open(r) /\ r \in Scope(ApplicantOf[r])
      BY <1>1, <2>2 DEF IInv, Safe, AskedIsOpen, Scope
    <3>2. ApplicantOf[r] \in Applicants
      BY <2>2, <3>1 DEF Applicants
    <3> QED
      BY <3>1, <3>2
  <2> QED
    BY <2>1, <2>2 DEF WaitingIsListed
<1> QED
  BY <1>1, Invariance, PTL

-----------------------------------------------------------------------------
Interventions ==
    [request : {"INTERVENE"}, action : {"SUSPEND", "REINSTATE", "OFFBOARD"},
     target : AccountStates, read : AccountStates]

\* The categories a patch names are none of the original ones, or all of them with no
\* keyword in two.
Apart(patch) ==
    \/ DOMAIN patch \cap Original = {}
    \/ /\ Original \subseteq DOMAIN patch
       /\ \A c, d \in Original : c # d => patch[c] \cap patch[d] = {}

\* What a request to change the configuration keeps from its reading to its writing.
Sound(request) ==
    /\ request.patch.settings = request.asks
    /\ \A x \in DOMAIN request.asks : request.asks[x] \in Values
    /\ \A c \in DOMAIN request.patch.words : request.patch.words[c] \subseteq Keywords
    /\ Apart(request.patch.words)
    /\ request.patch.listed \subseteq Categories
    /\ request.patch.listed # {} => Original \subseteq request.patch.listed

Request(what) ==
    \/ what = Idle
    \/ what \in Interventions
    \/ what.request = "CONFIGURE" /\ Sound(what)

RequestsSound == DOMAIN call = Sessions /\ \A s \in Sessions : Request(call[s])

ConsoleInv == ConsoleTypeOK /\ RequestsSound /\ KeywordsStayApart /\ InterventionsChain

-----------------------------------------------------------------------------
(* The account's history, row by row. *)

\* Where an account of this kind is after its first n interventions.
After(who, history, n) == IF n = 0 THEN Created[who] ELSE history[n].after

Chained ==
    /\ \A i \in DOMAIN rows : i - 1 \notin patched => rows[i].before = After(kind, rows, i - 1)
    /\ Len(rows) \notin patched => state = After(kind, rows, Len(rows))
    /\ kind = "USER" => patched = {}

LEMMA CreatedTyped == \A who \in DOMAIN Suspendable : Created[who] \in AccountStates
BY DEF Created, Default, AccountStates, OperatorStatus, BusinessStanding, Suspendable

LEMMA ChainIs == ASSUME ConsoleTypeOK PROVE InterventionsChain <=> Chained
<1> DEFINE afters == [i \in DOMAIN rows |-> rows[i].after]
           ends == <<Created[kind]>> \o afters
<1>1. /\ rows \in Seq(Intervention) /\ Len(rows) \in Nat /\ DOMAIN rows = 1..Len(rows)
      /\ \A i \in 1..Len(rows) : rows[i] \in Intervention
  BY DEF ConsoleTypeOK
<1>2. afters \in Seq(AccountStates) /\ Len(afters) = Len(rows)
  BY <1>1 DEF Intervention
<1>3. Created[kind] \in AccountStates
  BY CreatedTyped DEF ConsoleTypeOK
<1>4. \A i \in 1..Len(rows) : afters[i] = rows[i].after
  BY <1>1
<1> HIDE DEF afters
<1>5. Len(ends) = Len(rows) + 1 /\ \A i \in 1..(Len(rows) + 1) : ends[i] = After(kind, rows, i - 1)
  BY <1>1, <1>2, <1>3, <1>4 DEF After
<1>6. Last(ends) = After(kind, rows, Len(rows))
  BY <1>1, <1>5 DEF Last
<1>7. \A i \in DOMAIN rows : ends[i] = After(kind, rows, i - 1)
  BY <1>1, <1>5
<1>8. InterventionsChain <=>
          /\ \A i \in DOMAIN rows : i - 1 \notin patched => rows[i].before = ends[i]
          /\ Len(rows) \notin patched => state = Last(ends)
          /\ kind = "USER" => patched = {}
  BY DEF InterventionsChain, ends, afters
<1> HIDE DEF ends
<1> QED
  BY <1>6, <1>7, <1>8 DEF Chained

-----------------------------------------------------------------------------
LEMMA ConsoleInitHolds == ConsoleInit => ConsoleInv
<1> SUFFICES ASSUME ConsoleInit PROVE ConsoleInv
  OBVIOUS
<1>1. state \in AccountStates
  BY CreatedTyped DEF ConsoleInit
<1>2. ConsoleTypeOK
  BY <1>1, ConsoleAssumption DEF ConsoleInit, ConsoleTypeOK, Categories
<1>3. RequestsSound
  BY DEF ConsoleInit, RequestsSound, Request
<1>4. KeywordsStayApart
  BY DEF ConsoleInit, KeywordsStayApart, Categories
<1>5. Chained
  BY DEF ConsoleInit, Chained, After
<1> QED
  BY <1>2, <1>3, <1>4, <1>5, ChainIs DEF ConsoleInv

-----------------------------------------------------------------------------
(* A request begins. *)

LEMMA BeginsKeeps ==
    ASSUME ConsoleInv, NEW s \in Sessions, NEW what, Request(what), Begins(s, what)
    PROVE  ConsoleInv'
<1>1. /\ fresh' = fresh /\ kind' = kind /\ state' = state /\ rows' = rows /\ patched' = patched
      /\ listed' = listed /\ words' = words /\ settings' = settings
      /\ call' = [call EXCEPT ![s] = what]
  BY DEF Begins, accountVars, configVars
<1>2. ConsoleTypeOK'
  BY <1>1 DEF ConsoleInv, ConsoleTypeOK
<1>3. RequestsSound'
  BY <1>1 DEF ConsoleInv, RequestsSound, Request
<1>4. KeywordsStayApart' /\ InterventionsChain'
  BY <1>1 DEF ConsoleInv, KeywordsStayApart, InterventionsChain
<1> QED
  BY <1>2, <1>3, <1>4 DEF ConsoleInv

LEMMA InterveneKeeps ==
    ASSUME ConsoleInv, NEW s \in Sessions, NEW action \in {"SUSPEND", "REINSTATE", "OFFBOARD"},
           NEW target \in AccountStates, Intervene(s, action, target)
    PROVE  ConsoleInv'
<1> DEFINE what == [request |-> "INTERVENE", action |-> action, target |-> target,
                    read |-> state]
<1>1. what \in Interventions
  BY DEF Interventions, ConsoleInv, ConsoleTypeOK
<1>2. Begins(s, what)
  BY DEF Intervene
<1> HIDE DEF what
<1> QED
  BY <1>1, <1>2, BeginsKeeps DEF Request

LEMMA ChangeIsSound ==
    ASSUME NEW asks, NEW ofWords, NEW ofListed,
           \A x \in DOMAIN asks : asks[x] \in Values,
           \A c \in DOMAIN ofWords : ofWords[c] \subseteq Keywords,
           Apart(ofWords), ofListed \subseteq Categories,
           ofListed # {} => Original \subseteq ofListed
    PROVE  Request(Change(asks, asks, ofWords, ofListed))
BY DEF Request, Sound, Change

LEMMA NothingIsApart ==
    /\ \A x \in DOMAIN NoSetting : NoSetting[x] \in Values
    /\ \A c \in DOMAIN NoSetting : NoSetting[c] \subseteq Keywords
    /\ Apart(NoSetting)
BY DEF NoSetting, Apart

LEMMA ApplyConfigChangeKeeps ==
    ASSUME ConsoleInv, NEW s \in Sessions, NEW X \in SUBSET Settings, NEW changes \in [X -> Values],
           ApplyConfigChange(s, changes)
    PROVE  ConsoleInv'
<1>1. Request(Change(changes, changes, NoSetting, {}))
  BY NothingIsApart, ChangeIsSound
<1>2. Begins(s, Change(changes, changes, NoSetting, {}))
  BY DEF ApplyConfigChange, PatchFrom
<1> QED
  BY <1>1, <1>2, BeginsKeeps

\* The patch for a category carries what the request knew of all the others.
LEMMA PatchIsApart ==
    ASSUME ConsoleInv, NEW c \in Categories, NEW added \in SUBSET Keywords,
           \A k \in added : ~Taken(k)
    PROVE  /\ \A d \in DOMAIN Patch(c, added) : Patch(c, added)[d] \subseteq Keywords
           /\ Apart(Patch(c, added))
<1>1. /\ Original \subseteq listed /\ listed \subseteq Categories
      /\ words \in [Categories -> SUBSET Keywords]
  BY DEF ConsoleInv, ConsoleTypeOK
<1>2. DOMAIN Patch(c, added) = listed \cup {c}
  BY DEF Patch
<1>3. \A d \in listed : /\ d # c => Patch(c, added)[d] = words[d]
                        /\ d = c => Patch(c, added)[d] = words[d] \cup added
  BY <1>1 DEF Patch, Known
<1>4. c \notin listed => Patch(c, added)[c] = added
  BY DEF Patch
<1>5. \A d \in DOMAIN Patch(c, added) : Patch(c, added)[d] \subseteq Keywords
  BY <1>1, <1>2, <1>3, <1>4
<1>6. ASSUME NEW d \in Original, NEW e \in Original, d # e
      PROVE  Patch(c, added)[d] \cap Patch(c, added)[e] = {}
  <2>1. words[d] \cap words[e] = {}
    BY <1>6 DEF ConsoleInv, KeywordsStayApart
  <2>2. words[d] \cap added = {} /\ words[e] \cap added = {}
    BY <1>1, <1>6 DEF Taken
  <2> QED
    BY <1>1, <1>3, <1>6, <2>1, <2>2
<1> QED
  BY <1>1, <1>2, <1>5, <1>6 DEF Apart

LEMMA AddCargoKeywordKeeps ==
    ASSUME ConsoleInv, NEW s \in Sessions, NEW c \in listed, NEW k \in Keywords,
           AddCargoKeyword(s, c, k)
    PROVE  ConsoleInv'
<1>1. c \in Categories /\ {k} \in SUBSET Keywords /\ \A j \in {k} : ~Taken(j)
  BY DEF ConsoleInv, ConsoleTypeOK, AddCargoKeyword
<1>2. Request(Change(NoSetting, NoSetting, Patch(c, {k}), {}))
  BY <1>1, NothingIsApart, PatchIsApart, ChangeIsSound
<1>3. Begins(s, Change(NoSetting, NoSetting, Patch(c, {k}), {}))
  BY DEF AddCargoKeyword
<1> QED
  BY <1>2, <1>3, BeginsKeeps

LEMMA AddCargoCategoryKeeps ==
    ASSUME ConsoleInv, NEW s \in Sessions, NEW c \in Added, NEW K \in SUBSET Keywords,
           AddCargoCategory(s, c, K)
    PROVE  ConsoleInv'
<1>1. c \in Categories /\ \A k \in K : ~Taken(k)
  BY DEF AddCargoCategory, Categories
<1>2. listed \cup {c} \subseteq Categories /\ Original \subseteq listed \cup {c}
  BY <1>1 DEF ConsoleInv, ConsoleTypeOK
<1>3. Request(Change(NoSetting, NoSetting, Patch(c, K), listed \cup {c}))
  BY <1>1, <1>2, NothingIsApart, PatchIsApart, ChangeIsSound
<1>4. Begins(s, Change(NoSetting, NoSetting, Patch(c, K), listed \cup {c}))
  BY DEF AddCargoCategory
<1> QED
  BY <1>3, <1>4, BeginsKeeps

-----------------------------------------------------------------------------
(* A request is carried out. *)

\* A row that starts where the account is and ends where it is put.
LEMMA RecordingChains ==
    ASSUME ConsoleInv, NEW action \in {"SUSPEND", "REINSTATE", "OFFBOARD", "APPROVE"},
           NEW after \in AccountStates, Recorded(action, state, after),
           state' = after, kind' = kind, patched' = patched
    PROVE  rows' \in Seq(Intervention) /\ Chained'
<1> DEFINE row == [action |-> action, before |-> state, after |-> after]
<1>1. row \in Intervention /\ rows \in Seq(Intervention)
  BY DEF ConsoleInv, ConsoleTypeOK, Intervention
<1>2. rows' = Append(rows, row)
  BY DEF Recorded
<1>3. row.before = state /\ row.after = after
  OBVIOUS
<1> HIDE DEF row
<1>4. /\ rows' \in Seq(Intervention) /\ Len(rows') = Len(rows) + 1 /\ Len(rows) \in Nat
      /\ DOMAIN rows = 1..Len(rows) /\ DOMAIN rows' = 1..(Len(rows) + 1)
      /\ \A i \in 1..Len(rows) : rows'[i] = rows[i]
      /\ rows'[Len(rows) + 1] = row
  BY <1>1, <1>2
<1>5. Chained'
  <2>1. Chained
    BY ChainIs DEF ConsoleInv
  <2>2. ASSUME NEW n \in 0..Len(rows) PROVE After(kind, rows', n) = After(kind, rows, n)
    <3>1. CASE n = 0
      <4>1. After(kind, rows', n) = Created[kind] /\ After(kind, rows, n) = Created[kind]
        BY <3>1 DEF After
      <4> QED
        BY <4>1
    <3>2. CASE n # 0
      <4>1. n \in 1..Len(rows)
        BY <3>2, <1>4
      <4>2. After(kind, rows', n) = rows'[n].after /\ After(kind, rows, n) = rows[n].after
        BY <3>2 DEF After
      <4> QED
        BY <4>1, <4>2, <1>4
    <3> QED
      BY <3>1, <3>2
  <2>3. After(kind, rows', Len(rows) + 1) = after
    BY <1>3, <1>4 DEF After
  <2>4. ASSUME NEW i \in DOMAIN rows', i - 1 \notin patched
        PROVE  rows'[i].before = After(kind, rows', i - 1)
    <3>1. CASE i = Len(rows) + 1
      <4>1. rows'[i] = row /\ i - 1 = Len(rows) /\ Len(rows) \in 0..Len(rows)
        BY <3>1, <1>4
      <4>2. After(kind, rows', i - 1) = state
        BY <4>1, <2>1, <2>2, <2>4 DEF Chained
      <4> QED
        BY <4>1, <4>2, <1>3
    <3>2. CASE i \in 1..Len(rows)
      <4>1. rows'[i] = rows[i] /\ rows[i].before = After(kind, rows, i - 1)
        BY <3>2, <2>1, <2>4, <1>4 DEF Chained
      <4>2. i - 1 \in 0..Len(rows)
        BY <3>2, <1>4
      <4>3. After(kind, rows', i - 1) = After(kind, rows, i - 1)
        BY <4>2, <2>2
      <4> QED
        BY <4>1, <4>3
    <3> QED
      BY <1>4, <3>1, <3>2
  <2>5. Len(rows') = Len(rows) + 1 /\ kind' = kind /\ state' = after
    BY <1>4
  <2> QED
    BY <2>1, <2>3, <2>4, <2>5 DEF Chained
<1> QED
  BY <1>4, <1>5

\* Where the account had been patched stays among the numbers of rows there were.
LEMMA RecordedGrows ==
    ASSUME ConsoleInv, NEW action, NEW after, Recorded(action, state, after)
    PROVE  patched \subseteq 0..Len(rows')
<1>1. Len(rows) \in Nat /\ Len(rows') = Len(rows) + 1 /\ patched \subseteq 0..Len(rows)
  BY DEF ConsoleInv, ConsoleTypeOK, Recorded
<1> QED
  BY <1>1

LEMMA SetStateKeeps == ASSUME ConsoleInv, NEW s \in Sessions, SetState(s) PROVE ConsoleInv'
<1>1. /\ call[s].request = "INTERVENE" /\ state' = call[s].target
      /\ Recorded(call[s].action, state, call[s].target)
      /\ call' = [call EXCEPT ![s] = Idle]
      /\ fresh' = fresh /\ kind' = kind /\ patched' = patched
      /\ listed' = listed /\ words' = words /\ settings' = settings
  BY DEF SetState, Replaced, configVars
<1>2. call[s] \in Interventions
  BY <1>1 DEF ConsoleInv, RequestsSound, Request, Idle
<1>3. /\ call[s].action \in {"SUSPEND", "REINSTATE", "OFFBOARD", "APPROVE"}
      /\ call[s].target \in AccountStates
  BY <1>2 DEF Interventions
<1>4. rows' \in Seq(Intervention) /\ Chained'
  BY <1>1, <1>3, RecordingChains
<1>5. ConsoleTypeOK'
  BY <1>1, <1>3, <1>4, RecordedGrows DEF ConsoleInv, ConsoleTypeOK
<1>6. RequestsSound'
  BY <1>1 DEF ConsoleInv, RequestsSound, Request
<1>7. ConsoleTypeOK' /\ Chained' => InterventionsChain'
  BY ChainIs, PTL
<1>8. KeywordsStayApart'
  BY <1>1 DEF ConsoleInv, KeywordsStayApart
<1> QED
  BY <1>4, <1>5, <1>6, <1>7, <1>8 DEF ConsoleInv

LEMMA ApproveOperatorKeeps == ASSUME ConsoleInv, ApproveOperator PROVE ConsoleInv'
<1>1. /\ state' = "ACTIVE" /\ Recorded("APPROVE", state, "ACTIVE")
      /\ fresh' = fresh /\ kind' = kind /\ patched' = patched /\ call' = call
      /\ listed' = listed /\ words' = words /\ settings' = settings
  BY DEF ApproveOperator, configVars
<1>2. "ACTIVE" \in AccountStates
  BY DEF AccountStates, OperatorStatus
<1>3. rows' \in Seq(Intervention) /\ Chained'
  BY <1>1, <1>2, RecordingChains
<1>4. ConsoleTypeOK'
  BY <1>1, <1>2, <1>3, RecordedGrows DEF ConsoleInv, ConsoleTypeOK
<1>5. ConsoleTypeOK' /\ Chained' => InterventionsChain'
  BY ChainIs, PTL
<1>6. RequestsSound' /\ KeywordsStayApart'
  BY <1>1 DEF ConsoleInv, RequestsSound, Request, KeywordsStayApart
<1> QED
  BY <1>3, <1>4, <1>5, <1>6 DEF ConsoleInv

\* A PATCH leaves the rows as they are and is remembered at their number.
LEMMA PatchStatusKeeps ==
    ASSUME ConsoleInv, NEW target \in AccountStates, PatchStatus(target)
    PROVE  ConsoleInv'
<1>1. /\ kind # "USER" /\ state' = target /\ rows' = rows /\ patched' = patched \cup {Len(rows)}
      /\ fresh' = fresh /\ kind' = kind /\ call' = call
      /\ listed' = listed /\ words' = words /\ settings' = settings
  BY DEF PatchStatus, Patchable, configVars
<1>2. Len(rows) \in 0..Len(rows)
  BY DEF ConsoleInv, ConsoleTypeOK
<1>3. ConsoleTypeOK'
  BY <1>1, <1>2 DEF ConsoleInv, ConsoleTypeOK
<1>4. Chained
  BY ChainIs DEF ConsoleInv
<1>5. Chained'
  BY <1>1, <1>4 DEF Chained
<1>6. ConsoleTypeOK' /\ Chained' => InterventionsChain'
  BY ChainIs, PTL
<1>7. RequestsSound' /\ KeywordsStayApart'
  BY <1>1 DEF ConsoleInv, RequestsSound, Request, KeywordsStayApart
<1> QED
  BY <1>3, <1>5, <1>6, <1>7 DEF ConsoleInv

LEMMA ApplyChangeKeeps == ASSUME ConsoleInv, NEW s \in Sessions, ApplyChange(s) PROVE ConsoleInv'
<1> DEFINE patch == call[s].patch
<1>1. /\ call[s].request = "CONFIGURE"
      /\ settings' = Merge(settings, patch.settings)
      /\ words' = Merge(words, patch.words)
      /\ listed' = IF patch.listed = {} THEN listed ELSE patch.listed
      /\ call' = [call EXCEPT ![s] = Idle]
      /\ fresh' = fresh /\ kind' = kind /\ state' = state /\ rows' = rows /\ patched' = patched
  BY DEF ApplyChange, accountVars
<1>2. Sound(call[s])
  BY <1>1 DEF ConsoleInv, RequestsSound, Request, Idle, Interventions
<1>3. settings' \in [Settings -> Values]
  BY <1>1, <1>2 DEF ConsoleInv, ConsoleTypeOK, Merge, Sound
<1>4. /\ words' \in [Categories -> SUBSET Keywords]
      /\ \A c \in Categories : words'[c] = IF c \in DOMAIN patch.words THEN patch.words[c]
                                           ELSE words[c]
  BY <1>1, <1>2 DEF ConsoleInv, ConsoleTypeOK, Merge, Sound
<1>5. ConsoleTypeOK'
  BY <1>1, <1>2, <1>3, <1>4 DEF ConsoleInv, ConsoleTypeOK, Sound
<1>6. RequestsSound'
  BY <1>1 DEF ConsoleInv, RequestsSound, Request
<1>7. KeywordsStayApart'
  BY <1>2, <1>4 DEF ConsoleInv, KeywordsStayApart, Sound, Apart, Categories
<1>8. InterventionsChain'
  BY <1>1 DEF ConsoleInv, InterventionsChain
<1> QED
  BY <1>5, <1>6, <1>7, <1>8 DEF ConsoleInv

LEMMA StepUpKeeps ==
    ASSUME ConsoleInv, NEW s \in Sessions, StepUp(s) \/ StepUpLapses(s)
    PROVE  ConsoleInv'
<1>1. /\ fresh' \subseteq Sessions
      /\ UNCHANGED <<kind, state, rows, patched, listed, words, settings, call>>
  BY DEF StepUp, StepUpLapses, accountVars, configVars, ConsoleInv, ConsoleTypeOK
<1> QED
  BY <1>1 DEF ConsoleInv, ConsoleTypeOK, RequestsSound, Request, KeywordsStayApart, InterventionsChain

LEMMA NextKeeps == ASSUME ConsoleInv, [ConsoleNext]_consoleVars PROVE ConsoleInv'
<1>1. CASE UNCHANGED consoleVars
  BY <1>1 DEF consoleVars, accountVars, configVars, ConsoleInv, ConsoleTypeOK, RequestsSound, Request,
              KeywordsStayApart, InterventionsChain
<1>2. ASSUME NEW s \in Sessions, AccountRequests(s) PROVE ConsoleInv'
  BY <1>2, InterveneKeeps, SetStateKeeps DEF AccountRequests
<1>3. ASSUME NEW s \in Sessions, CargoRequests(s) PROVE ConsoleInv'
  BY <1>3, AddCargoKeywordKeeps, AddCargoCategoryKeeps DEF CargoRequests
<1>4. ASSUME NEW s \in Sessions, ConfigRequests(s) PROVE ConsoleInv'
  BY <1>4, ApplyConfigChangeKeeps, ApplyChangeKeeps DEF ConfigRequests
<1>5. CASE ConsoleNext
  BY <1>2, <1>3, <1>4, <1>5, StepUpKeeps, ApproveOperatorKeeps, PatchStatusKeeps DEF ConsoleNext
<1> QED
  BY <1>1, <1>5

-----------------------------------------------------------------------------
\* The strengthened invariant holds in every reachable state.
THEOREM ConsoleInvariance == ConsoleSpec => []ConsoleInv
<1>1. ConsoleInv /\ [ConsoleNext]_consoleVars => ConsoleInv'
  BY NextKeeps
<1> QED
  BY ConsoleInitHolds, <1>1, PTL DEF ConsoleSpec

\* Whatever requests race, the interventions on a user tell its whole history, and those
\* on an operator, business or group leave a gap only where its own resource was patched.
THEOREM InterventionsAreAHistory == ConsoleSpec => []InterventionsChain
<1>1. ConsoleInv => InterventionsChain
  BY DEF ConsoleInv
<1> QED
  BY ConsoleInvariance, <1>1, PTL

\* Keywords added at once never end up in two of the original categories, because a patch
\* names every category its request saw.
THEOREM OriginalKeywordsStayApart == ConsoleSpec => []KeywordsStayApart
<1>1. ConsoleInv => KeywordsStayApart
  BY DEF ConsoleInv
<1> QED
  BY ConsoleInvariance, <1>1, PTL

\* The configuration changes in what a request asked for and in nothing else, whatever was
\* applied since the request read it.
THEOREM ChangesAreAsAsked == ConsoleSpec => ChangesWhatWasAsked
<1> DEFINE AsAsked ==
        \A s \in Sessions :
            call[s].request = "CONFIGURE" /\ call'[s] = Idle =>
                \A x \in Settings :
                    settings'[x] = IF x \in DOMAIN call[s].asks
                                   THEN call[s].asks[x] ELSE settings[x]
<1>1. ASSUME ConsoleInv, ConsoleNext PROVE AsAsked
  <2> SUFFICES ASSUME NEW s \in Sessions, call[s].request = "CONFIGURE", call'[s] = Idle,
                      NEW x \in Settings
               PROVE  settings'[x] = IF x \in DOMAIN call[s].asks
                                     THEN call[s].asks[x] ELSE settings[x]
    OBVIOUS
  <2>1. Sound(call[s]) /\ call[s] # Idle /\ DOMAIN call = Sessions
    <3>1. DOMAIN call = Sessions /\ Request(call[s])
      BY <1>1 DEF ConsoleInv, RequestsSound
    <3> QED
      BY <3>1 DEF Request, Idle, Interventions
  <2>2. ASSUME NEW r \in Sessions, NEW what, Begins(r, what) PROVE FALSE
    BY <2>1, <2>2 DEF Begins
  <2>3. CASE UNCHANGED call
    BY <2>1, <2>3
  <2>4. CASE \E r \in Sessions : SetState(r)
    BY <2>1, <2>4 DEF SetState, Idle
  <2>5. CASE \E r \in Sessions : ApplyChange(r)
    <3>1. PICK r \in Sessions : ApplyChange(r)
      BY <2>5
    <3>2. r = s
      BY <2>1, <3>1 DEF ApplyChange
    <3>3. settings' = Merge(settings, call[s].asks)
      BY <2>1, <3>1, <3>2 DEF ApplyChange, Sound
    <3> QED
      BY <1>1, <3>3 DEF Merge, ConsoleInv, ConsoleTypeOK
  <2>6. ASSUME NEW r \in Sessions, AccountRequests(r)
        PROVE  SetState(r)
    BY <2>2, <2>6 DEF AccountRequests, Intervene
  <2>7. ASSUME NEW r \in Sessions, CargoRequests(r) PROVE FALSE
    BY <2>2, <2>7 DEF CargoRequests, AddCargoKeyword, AddCargoCategory
  <2>8. ASSUME NEW r \in Sessions, ConfigRequests(r) PROVE ApplyChange(r)
    BY <2>2, <2>8 DEF ConfigRequests, ApplyConfigChange
  <2>9. ASSUME NEW r \in Sessions, StepUp(r) \/ StepUpLapses(r) PROVE UNCHANGED call
    BY <2>9 DEF StepUp, StepUpLapses
  <2>10. ASSUME ApproveOperator \/ \E target \in AccountStates : PatchStatus(target)
         PROVE  UNCHANGED call
    BY <2>10 DEF ApproveOperator, PatchStatus
  <2> QED
    BY <1>1, <2>3, <2>4, <2>5, <2>6, <2>7, <2>8, <2>9, <2>10 DEF ConsoleNext
<1>2. ASSUME ConsoleInv, [ConsoleNext]_consoleVars PROVE [AsAsked]_consoleVars
  BY <1>1, <1>2
<1> HIDE DEF AsAsked
<1>3. ConsoleSpec => [][AsAsked]_consoleVars
  BY ConsoleInvariance, <1>2, PTL DEF ConsoleSpec
<1> QED
  BY <1>3 DEF AsAsked, ChangesWhatWasAsked

-----------------------------------------------------------------------------
(* Totals: what the sum of a column over a finite set of rows is. *)

Some(s) == CHOOSE x \in s : TRUE

\* g holds the totals of f over the subsets of S.
Adds(g, f, S) ==
    g = [s \in SUBSET S |-> IF s = {} THEN 0 ELSE f[Some(s)] + g[s \ {Some(s)}]]

LEMMA SomeIs == ASSUME NEW s, s # {} PROVE Some(s) \in s
BY DEF Some

LEMMA SmallestSubset ==
    ASSUME NEW S, IsFiniteSet(S), NEW D \in SUBSET SUBSET S, D # {}
    PROVE  \E T \in D : \A U \in D : U \subseteq T => U = T
<1>1. D \subseteq FiniteSubsetsOf(S)
  BY FS_Subset DEF FiniteSubsetsOf
<1>2. IsWellFoundedOn(StrictSubsetOrdering(S), FiniteSubsetsOf(S))
  BY FS_StrictSubsetOrderingWellFounded
<1>3. PICK T \in D : \A U \in D : ~(<<U, T>> \in StrictSubsetOrdering(S))
  BY <1>1, <1>2, WFMin
<1>4. \A U \in D : U \subseteq T /\ U # T => <<U, T>> \in StrictSubsetOrdering(S)
  BY <1>1 DEF StrictSubsetOrdering, FiniteSubsetsOf
<1>5. \A U \in D : U \subseteq T => U = T
  BY <1>3, <1>4
<1> QED
  BY <1>5

LEMMA AddsAt ==
    ASSUME NEW f, NEW S, NEW g, Adds(g, f, S), NEW T \in SUBSET S
    PROVE  /\ g[{}] = 0
           /\ T # {} => g[T] = f[Some(T)] + g[T \ {Some(T)}] /\ T \ {Some(T)} \in SUBSET S
BY DEF Adds

LEMMA AddsUnique ==
    ASSUME NEW f, NEW S, IsFiniteSet(S), NEW g, NEW h, Adds(g, f, S), Adds(h, f, S)
    PROVE  g = h
<1> DEFINE D == {T \in SUBSET S : g[T] # h[T]}
<1>1. SUFFICES ASSUME D # {} PROVE FALSE
  BY DEF Adds
<1>2. PICK T \in D : \A U \in D : U \subseteq T => U = T
  <2>1. D \in SUBSET SUBSET S
    OBVIOUS
  <2> HIDE DEF D
  <2> QED
    BY <1>1, <2>1, SmallestSubset
<1>3. T # {}
  <2>1. g[{}] = 0 /\ h[{}] = 0
    <3>1. {} \in SUBSET S
      OBVIOUS
    <3> HIDE DEF D
    <3> QED
      BY <3>1 DEF Adds
  <2>2. g[T] # h[T]
    OBVIOUS
  <2> QED
    BY <2>1, <2>2
<1>4. Some(T) \in T
  BY <1>3, SomeIs
<1>5. g[T \ {Some(T)}] = h[T \ {Some(T)}]
  BY <1>2, <1>4
<1> QED
  BY <1>3, <1>5, AddsAt

LEMMA AddsWithin ==
    ASSUME NEW f, NEW S, NEW g, Adds(g, f, S), NEW T \in SUBSET S
    PROVE  Adds([s \in SUBSET T |-> g[s]], f, T)
<1> DEFINE h == [s \in SUBSET T |-> g[s]]
<1>1. ASSUME NEW s \in SUBSET T
      PROVE  h[s] = IF s = {} THEN 0 ELSE f[Some(s)] + h[s \ {Some(s)}]
  <2>1. h[s] = g[s] /\ h[s \ {Some(s)}] = g[s \ {Some(s)}] /\ s \in SUBSET S
    OBVIOUS
  <2> QED
    BY <2>1 DEF Adds
<1>2. h = [s \in SUBSET T |-> IF s = {} THEN 0 ELSE f[Some(s)] + h[s \ {Some(s)}]]
  BY <1>1
<1> QED
  BY <1>2 DEF Adds

LEMMA AddsExists ==
    ASSUME NEW f, NEW S, IsFiniteSet(S) PROVE \E g : Adds(g, f, S)
<1> DEFINE D == {T \in SUBSET S : ~\E g : Adds(g, f, T)}
           V(s) == (CHOOSE g : Adds(g, f, s))[s]
<1>1. SUFFICES ASSUME D # {} PROVE FALSE
  OBVIOUS
<1>2. PICK T \in D : \A U \in D : U \subseteq T => U = T
  <2>1. D \in SUBSET SUBSET S
    OBVIOUS
  <2> HIDE DEF D
  <2> QED
    BY <1>1, <2>1, SmallestSubset
<1> DEFINE h == [s \in SUBSET T |-> IF s = {} THEN 0 ELSE f[Some(s)] + V(s \ {Some(s)})]
<1>3. ASSUME NEW s \in SUBSET T, s # T
      PROVE  V(s) = IF s = {} THEN 0 ELSE f[Some(s)] + V(s \ {Some(s)})
  <2>1. s \notin D
    BY <1>2, <1>3
  <2> DEFINE g == CHOOSE g : Adds(g, f, s)
  <2>2. Adds(g, f, s)
    BY <2>1
  <2>3. ASSUME s # {} PROVE V(s \ {Some(s)}) = g[s \ {Some(s)}]
    <3> DEFINE u == s \ {Some(s)}
               gu == CHOOSE k : Adds(k, f, u)
               r == [t \in SUBSET u |-> g[t]]
    <3>1. Adds(r, f, u)
      BY <2>2, AddsWithin
    <3>2. Adds(gu, f, u)
      BY <3>1
    <3>3. IsFiniteSet(u)
      BY FS_Subset
    <3>4. gu = r
      <4> HIDE DEF gu, r, u
      <4> QED
        BY <3>1, <3>2, <3>3, AddsUnique
    <3> QED
      BY <3>4
  <2>4. g[s] = IF s = {} THEN 0 ELSE f[Some(s)] + g[s \ {Some(s)}]
    <3>1. s \in SUBSET s
      OBVIOUS
    <3> HIDE DEF g, h, D, V
    <3> QED
      BY <2>2, <3>1 DEF Adds
  <2> QED
    BY <2>3, <2>4
<1>4. \A s \in SUBSET T : s # {} => s \ {Some(s)} \in SUBSET T /\ s \ {Some(s)} # T
  BY SomeIs
<1>5. \A s \in SUBSET T : s # {} => h[s \ {Some(s)}] = V(s \ {Some(s)})
  <2> HIDE DEF V
  <2> QED
    BY <1>3, <1>4
<1>6. \A s \in SUBSET T : h[s] = IF s = {} THEN 0 ELSE f[Some(s)] + h[s \ {Some(s)}]
  <2> HIDE DEF V
  <2> QED
    BY <1>5
<1>7. Adds(h, f, T)
  <2>1. h = [s \in SUBSET T |-> IF s = {} THEN 0 ELSE f[Some(s)] + h[s \ {Some(s)}]]
    <3> HIDE DEF V
    <3> QED
      BY <1>6
  <2> HIDE DEF h
  <2> QED
    BY <2>1 DEF Adds
<1> QED
  BY <1>7

LEMMA TotalIs ==
    ASSUME NEW f, NEW S
    PROVE  Total(f, S) = (CHOOSE g : Adds(g, f, S))[S]
BY DEF Total, MapThenSumSet, MapThenFoldSet, Adds, Some

LEMMA TotalUnfolds ==
    ASSUME NEW f, NEW S, IsFiniteSet(S)
    PROVE  /\ S = {} => Total(f, S) = 0
           /\ S # {} => Total(f, S) = f[Some(S)] + Total(f, S \ {Some(S)})
<1> DEFINE g == CHOOSE g : Adds(g, f, S)
           T == S \ {Some(S)}
           h == CHOOSE h : Adds(h, f, T)
           r == [t \in SUBSET T |-> g[t]]
<1>1. Adds(g, f, S)
  BY AddsExists
<1>2. Adds(h, f, T) /\ IsFiniteSet(T)
  BY AddsExists, FS_Subset
<1>3. Adds(r, f, T)
  BY <1>1, AddsWithin
<1>4. h = r
  <2> HIDE DEF h, r, T
  <2> QED
    BY <1>2, <1>3, AddsUnique
<1>5. Total(f, S) = g[S] /\ Total(f, T) = h[T] /\ h[T] = g[T]
  BY <1>4, TotalIs
<1>6. /\ g[{}] = 0
      /\ S # {} => g[S] = f[Some(S)] + g[T]
  BY <1>1, AddsAt
<1> QED
  BY <1>5, <1>6

LEMMA TotalEmpty == ASSUME NEW f PROVE Total(f, {}) = 0
BY TotalUnfolds, FS_EmptySet

LEMMA TotalTyped ==
    ASSUME NEW f, NEW S, IsFiniteSet(S), NEW N \in {Nat, Int}, \A x \in S : f[x] \in N
    PROVE  Total(f, S) \in N
<1> DEFINE D == {T \in SUBSET S : Total(f, T) \notin N}
<1>1. SUFFICES ASSUME D # {} PROVE FALSE
  OBVIOUS
<1>2. PICK T \in D : \A U \in D : U \subseteq T => U = T
  <2>1. D \in SUBSET SUBSET S
    OBVIOUS
  <2> HIDE DEF D
  <2> QED
    BY <1>1, <2>1, SmallestSubset
<1>3. IsFiniteSet(T) /\ T \in SUBSET S /\ Total(f, T) \notin N
  BY FS_Subset
<1>4. T # {}
  <2>1. 0 \in N
    OBVIOUS
  <2> HIDE DEF D
  <2> QED
    BY <1>3, <2>1, TotalUnfolds
<1>5. Some(T) \in T
  BY <1>4, SomeIs
<1>6. Total(f, T \ {Some(T)}) \in N
  BY <1>2, <1>5
<1> QED
  BY <1>3, <1>4, <1>5, <1>6, TotalUnfolds

LEMMA TotalSame ==
    ASSUME NEW f, NEW g, NEW S, IsFiniteSet(S), \A x \in S : f[x] = g[x]
    PROVE  Total(f, S) = Total(g, S)
<1> DEFINE D == {T \in SUBSET S : Total(f, T) # Total(g, T)}
<1>1. SUFFICES ASSUME D # {} PROVE FALSE
  OBVIOUS
<1>2. PICK T \in D : \A U \in D : U \subseteq T => U = T
  <2>1. D \in SUBSET SUBSET S
    OBVIOUS
  <2> HIDE DEF D
  <2> QED
    BY <1>1, <2>1, SmallestSubset
<1>3. IsFiniteSet(T) /\ T \in SUBSET S /\ Total(f, T) # Total(g, T)
  BY FS_Subset
<1>4. T # {}
  BY <1>3, TotalUnfolds
<1>5. Some(T) \in T
  BY <1>4, SomeIs
<1>6. Total(f, T \ {Some(T)}) = Total(g, T \ {Some(T)})
  BY <1>2, <1>5
<1> QED
  BY <1>3, <1>4, <1>5, <1>6, TotalUnfolds

LEMMA TotalRemove ==
    ASSUME NEW f, NEW S, IsFiniteSet(S), \A x \in S : f[x] \in Int, NEW y \in S
    PROVE  Total(f, S) = f[y] + Total(f, S \ {y})
<1> DEFINE D == {T \in SUBSET S : \E z \in T : Total(f, T) # f[z] + Total(f, T \ {z})}
<1>1. SUFFICES ASSUME D # {} PROVE FALSE
  OBVIOUS
<1>2. PICK T \in D : \A U \in D : U \subseteq T => U = T
  <2>1. D \in SUBSET SUBSET S
    OBVIOUS
  <2> HIDE DEF D
  <2> QED
    BY <1>1, <2>1, SmallestSubset
<1>3. PICK z \in T : Total(f, T) # f[z] + Total(f, T \ {z})
  OBVIOUS
<1> DEFINE x == Some(T)
<1>4. IsFiniteSet(T) /\ T \in SUBSET S /\ x \in T
  BY FS_Subset, SomeIs
<1> HIDE DEF x
<1>5. Total(f, T) = f[x] + Total(f, T \ {x})
  BY <1>4, TotalUnfolds DEF x
<1>6. x # z
  BY <1>3, <1>5
<1>7. Total(f, T \ {x}) = f[z] + Total(f, (T \ {x}) \ {z})
  <2>1. T \ {x} \notin D
    BY <1>2, <1>4
  <2> QED
    BY <2>1, <1>4, <1>6
<1>8. Total(f, T \ {z}) = f[x] + Total(f, (T \ {z}) \ {x})
  <2>1. T \ {z} \notin D
    BY <1>2, <1>4
  <2> QED
    BY <2>1, <1>4, <1>6
<1>9. (T \ {z}) \ {x} = (T \ {x}) \ {z}
  OBVIOUS
<1>10. Total(f, (T \ {x}) \ {z}) \in Int /\ f[x] \in Int /\ f[z] \in Int
  <2>1. IsFiniteSet((T \ {x}) \ {z})
    BY <1>4, FS_Subset
  <2> QED
    BY <1>4, <2>1, TotalTyped
<1> DEFINE R == Total(f, (T \ {x}) \ {z})
<1>11. Total(f, T) = f[x] + (f[z] + R) /\ Total(f, T \ {z}) = f[x] + R
  BY <1>5, <1>7, <1>8, <1>9
<1>12. Total(f, T) # f[z] + Total(f, T \ {z})
  BY <1>3
<1> HIDE DEF D, R
<1> QED
  BY <1>10, <1>11, <1>12 DEF R

LEMMA TotalInsert ==
    ASSUME NEW f, NEW S, IsFiniteSet(S), NEW y, y \notin S, \A x \in S \cup {y} : f[x] \in Int
    PROVE  Total(f, S \cup {y}) = f[y] + Total(f, S)
<1>1. IsFiniteSet(S \cup {y}) /\ (S \cup {y}) \ {y} = S
  BY FS_AddElement
<1> QED
  BY <1>1, TotalRemove

-----------------------------------------------------------------------------
(* Billing. *)

\* A run has read records that were never billed, of a week that has passed.
RunReads ==
    run # NoRun => /\ run.week \in 1..MaxWeek
                   /\ \A j \in run.records : charged[j] = 0

\* A statement's totals are those of its lines, and a payee has one for a week.
StatementsAdd ==
    /\ \A s \in statements :
           /\ s.week # 0
           /\ s.gross = Total(Fee, ChargesOn(s)) /\ s.off = Amounts(CreditsOn(s))
    /\ \A s, t \in statements : Key(s) = Key(t) => s = t

\* What is billed is on a statement, and a credit's charge was billed before it or with it.
BilledOnce ==
    /\ \A j \in Jobs : charged[j] # 0 => HasStatement(PayeeOf[j], charged[j])
    /\ \A i \in DOMAIN adjustments :
           adjustments[i].billed # 0 =>
               /\ charged[adjustments[i].job] # 0
               /\ HasStatement(PayeeOf[adjustments[i].job], adjustments[i].billed)

\* No commission is cut by more than there was of it.
CutsWithinFees == \A j \in Jobs : Amounts(AdjustmentsOf(j)) <= Fee[j]

\* The payments in effect on a statement, and what each of the rows adds.
Effects(k) == {i \in InEffect : settlements[i].statement = k}
Paid == [i \in DOMAIN settlements |-> settlements[i].amount]
StatementKeys == {Key(s) : s \in statements}

\* A payment is on a statement there is and for more than nothing; a reversal takes back
\* its payment, so what is settled is what the payments in effect add up to.
PaymentsStand ==
    /\ \A i \in DOMAIN settlements :
           /\ settlements[i].statement \in StatementKeys
           /\ settlements[i].reverses \in 0..Len(settlements)
           /\ settlements[i].reverses = 0 => settlements[i].amount > 0
    /\ \A k \in StatementKeys : Settled(k) = Total(Paid, Effects(k))

\* A payment read and not yet written has its statement to itself and fits what is due.
Reserved ==
    \A o \in Officers :
        desk[o] # NoPayment =>
            /\ desk[o].reverses = 0 /\ desk[o].amount > 0
            /\ \E s \in statements :
                   /\ desk[o].statement = Key(s)
                   /\ Settled(Key(s)) + desk[o].amount <= NetDue(s)
            /\ \A p \in Officers : desk[p].statement = desk[o].statement => p = o
\* Nothing is paid beyond what is due.
WithinDue == \A s \in statements : Settled(Key(s)) <= Max({NetDue(s), 0})

BillingInv ==
    /\ BillingTypeOK /\ RunReads /\ StatementsAdd /\ BilledOnce /\ CutsWithinFees
    /\ PaymentsStand /\ Reserved /\ WithinDue

-----------------------------------------------------------------------------
(* The tables. *)

Adjustment == [job : Jobs, amount : Nat \ {0}, week : Weeks, billed : Weeks]

StatementRow == [payee : Payees, week : Weeks, gross : Nat, off : Nat]

LEMMA WeeksAre == Weeks \subseteq Nat /\ 0 \in Weeks /\ 1..MaxWeek \subseteq Weeks
BY BoundsAssumption DEF Weeks

LEMMA MaxIs == ASSUME NEW n \in Int PROVE Max({n, 0}) = IF n >= 0 THEN n ELSE 0
BY DEF Max

LEMMA KeysAre ==
    ASSUME NEW s, NEW t
    PROVE  /\ Key(s) # <<>>
           /\ Key(s) = Key(t) <=> s.payee = t.payee /\ s.week = t.week
<1>1. Len(Key(s)) = 2 /\ Len(<<>>) = 0
  BY DEF Key
<1>2. Key(s) # <<>>
  BY <1>1
<1> QED
  BY <1>2 DEF Key

LEMMA AdjustmentsTyped ==
    ASSUME BillingTypeOK
    PROVE  /\ adjustments \in Seq(Adjustment)
           /\ Len(adjustments) \in Nat /\ DOMAIN adjustments = 1..Len(adjustments)
           /\ \A i \in DOMAIN adjustments : adjustments[i] \in Adjustment
           /\ IsFiniteSet(DOMAIN adjustments)
<1>1. adjustments \in Seq(Adjustment)
  BY DEF BillingTypeOK, Adjustment
<1>2. /\ Len(adjustments) \in Nat /\ DOMAIN adjustments = 1..Len(adjustments)
      /\ \A i \in DOMAIN adjustments : adjustments[i] \in Adjustment
  BY <1>1, LenProperties, ElementOfSeq
<1> QED
  BY <1>1, <1>2, FS_Interval

LEMMA AmountsTyped ==
    ASSUME BillingTypeOK, NEW I \in SUBSET DOMAIN adjustments
    PROVE  IsFiniteSet(I) /\ Amounts(I) \in Nat
<1> DEFINE off == [i \in DOMAIN adjustments |-> adjustments[i].amount]
<1>1. IsFiniteSet(I)
  BY AdjustmentsTyped, FS_Subset
<1>2. \A i \in I : off[i] \in Nat
  BY AdjustmentsTyped DEF Adjustment
<1>3. Total(off, I) \in Nat
  <2> HIDE DEF off
  <2> QED
    BY <1>1, <1>2, TotalTyped
<1> QED
  BY <1>1, <1>3 DEF Amounts

LEMMA FeesTyped ==
    ASSUME NEW J \in SUBSET Jobs PROVE IsFiniteSet(J) /\ Total(Fee, J) \in Nat
<1>1. IsFiniteSet(J)
  BY PayeesAssumption, FS_Subset
<1>2. \A j \in J : Fee[j] \in Nat
  BY FeesAssumption
<1> QED
  BY <1>1, <1>2, TotalTyped

\* The amounts of the adjustments there are do not change.
LEMMA AmountsStand ==
    ASSUME BillingTypeOK, DOMAIN adjustments \subseteq DOMAIN adjustments',
           \A i \in DOMAIN adjustments : adjustments'[i].amount = adjustments[i].amount,
           NEW I \in SUBSET DOMAIN adjustments
    PROVE  Amounts(I)' = Amounts(I)
<1> DEFINE off == [i \in DOMAIN adjustments |-> adjustments[i].amount]
           then == [i \in DOMAIN adjustments' |-> adjustments'[i].amount]
<1>1. IsFiniteSet(I)
  BY AmountsTyped
<1>2. \A i \in I : off[i] = then[i]
  OBVIOUS
<1>3. Total(off, I) = Total(then, I)
  <2> HIDE DEF off, then
  <2> QED
    BY <1>1, <1>2, TotalSame
<1> QED
  BY <1>3 DEF Amounts

LEMMA AdjustmentAdded ==
    ASSUME BillingTypeOK, NEW a \in Adjustment, adjustments' = Append(adjustments, a),
           NEW n \in Nat, n = Len(adjustments) + 1
    PROVE  /\ adjustments' \in Seq(Adjustment)
           /\ DOMAIN adjustments' = DOMAIN adjustments \cup {n} /\ n \notin DOMAIN adjustments
           /\ \A i \in DOMAIN adjustments : adjustments'[i] = adjustments[i]
           /\ adjustments'[n] = a
           /\ \A I \in SUBSET DOMAIN adjustments :
                  /\ Amounts(I)' = Amounts(I)
                  /\ Amounts(I \cup {n})' = a.amount + Amounts(I)
<1> DEFINE then == [i \in DOMAIN adjustments' |-> adjustments'[i].amount]
<1>1. /\ adjustments' \in Seq(Adjustment) /\ Len(adjustments') = n
      /\ \A i \in 1..Len(adjustments) : adjustments'[i] = adjustments[i]
      /\ adjustments'[n] = a
  BY AdjustmentsTyped, AppendProperties
<1>2. DOMAIN adjustments' = DOMAIN adjustments \cup {n} /\ n \notin DOMAIN adjustments
  BY <1>1, AdjustmentsTyped, LenProperties
<1>3. \A i \in DOMAIN adjustments : adjustments'[i] = adjustments[i]
  BY <1>1, AdjustmentsTyped
<1>4. ASSUME NEW I \in SUBSET DOMAIN adjustments
      PROVE  /\ Amounts(I)' = Amounts(I)
             /\ Amounts(I \cup {n})' = a.amount + Amounts(I)
  <2>1. Amounts(I)' = Amounts(I)
    BY <1>2, <1>3, AmountsStand
  <2>2. IsFiniteSet(I) /\ n \notin I
    BY <1>2, AmountsTyped
  <2>3. then[n] = a.amount /\ \A i \in I \cup {n} : then[i] \in Int
    BY <1>1, <1>2, <1>3, AdjustmentsTyped DEF Adjustment
  <2>4. Total(then, I \cup {n}) = then[n] + Total(then, I)
    <3> HIDE DEF then
    <3> QED
      BY <2>2, <2>3, TotalInsert
  <2>5. Amounts(I)' = Total(then, I) /\ Amounts(I \cup {n})' = Total(then, I \cup {n})
    BY DEF Amounts
  <2> QED
    BY <2>1, <2>3, <2>4, <2>5
<1> QED
  BY <1>1, <1>2, <1>3, <1>4

-----------------------------------------------------------------------------
(* What leaves the ledger, or the payments, alone. *)

LEMMA BillingInitHolds == BillingInit => BillingInv
<1> SUFFICES ASSUME BillingInit PROVE BillingInv
  OBVIOUS
<1>1. /\ adjustments \in Seq(Adjustment) /\ DOMAIN adjustments = {}
      /\ settlements \in Seq(Settlement) /\ DOMAIN settlements = {}
  BY EmptySeq DEF BillingInit
<1>2. BillingTypeOK
  <2>1. week \in Weeks /\ 0 \in Weeks
    BY BoundsAssumption DEF BillingInit, Weeks
  <2>2. NoRun \in [week : Weeks, records : SUBSET Jobs]
    BY <2>1 DEF NoRun
  <2> QED
    BY <1>1, <2>1, <2>2 DEF BillingInit, BillingTypeOK, Adjustment
<1>3. CutsWithinFees
  <2> SUFFICES ASSUME NEW j \in Jobs PROVE Amounts(AdjustmentsOf(j)) <= Fee[j]
    BY DEF CutsWithinFees
  <2>1. AdjustmentsOf(j) = {}
    BY <1>1 DEF AdjustmentsOf
  <2>2. Amounts(AdjustmentsOf(j)) = 0
    BY <2>1, TotalEmpty DEF Amounts
  <2> QED
    BY <2>2, FeesAssumption
<1> QED
  BY <1>1, <1>2, <1>3 DEF BillingInit, BillingInv, RunReads, StatementsAdd, BilledOnce,
     PaymentsStand, Reserved, WithinDue, StatementKeys

LEMMA LedgerRests ==
    ASSUME BillingInv, UNCHANGED <<adjustments, charged, statements>>
    PROVE  StatementsAdd' /\ BilledOnce' /\ CutsWithinFees'
<1>1. StatementsAdd'
  BY DEF BillingInv, StatementsAdd, Amounts, ChargesOn, CreditsOn, Key
<1>2. BilledOnce'
  BY DEF BillingInv, BilledOnce, HasStatement
<1>3. CutsWithinFees'
  BY DEF BillingInv, CutsWithinFees, Amounts, AdjustmentsOf
<1> QED
  BY <1>1, <1>2, <1>3

LEMMA PaymentsRest ==
    ASSUME BillingInv, UNCHANGED <<statements, settlements, desk>>
    PROVE  PaymentsStand' /\ Reserved' /\ WithinDue'
<1>1. PaymentsStand'
  BY DEF BillingInv, PaymentsStand, StatementKeys, Key, Settled, Paid, Effects, InEffect, Reversed
<1>2. Reserved'
  BY DEF BillingInv, Reserved, Key, Settled, NetDue
<1>3. WithinDue'
  BY DEF BillingInv, WithinDue, Key, Settled, NetDue
<1> QED
  BY <1>1, <1>2, <1>3

LEMMA RunRests ==
    ASSUME BillingInv, UNCHANGED <<run, charged>> PROVE RunReads'
BY DEF BillingInv, RunReads

-----------------------------------------------------------------------------
(* The job and its commission. *)

\* The job moves, and no commission does.
LEMMA JobKeeps ==
    ASSUME BillingInv, BillingTypeOK', UNCHANGED <<adjustments, billVars, payVars>>
    PROVE  BillingInv'
<1>1. StatementsAdd' /\ BilledOnce' /\ CutsWithinFees'
  BY LedgerRests DEF billVars
<1>2. PaymentsStand' /\ Reserved' /\ WithinDue'
  BY PaymentsRest DEF billVars, payVars
<1>3. RunReads'
  BY RunRests DEF billVars
<1> QED
  BY <1>1, <1>2, <1>3 DEF BillingInv

LEMMA CompletesTyped ==
    ASSUME BillingTypeOK, NEW j \in Jobs, Complete(j) PROVE completed' \in [Jobs -> Weeks]
BY DEF BillingTypeOK, Complete

LEMMA TradeKeeps ==
    ASSUME BillingInv,
           (\E j \in Jobs : CloseJob(j) \/ OpenDispute(j)) \/ Configure \/ WeekPasses
    PROVE  BillingInv'
<1>1. ASSUME NEW j \in Jobs, CloseJob(j) PROVE BillingInv'
  <2>1. completed' \in [Jobs -> Weeks]
    BY <1>1, CompletesTyped DEF CloseJob, BillingInv
  <2>2. BillingTypeOK'
    BY <1>1, <2>1 DEF CloseJob, BillingInv, BillingTypeOK, billVars, payVars
  <2> QED
    BY <1>1, <2>2, JobKeeps DEF CloseJob
<1>2. ASSUME NEW j \in Jobs, OpenDispute(j) PROVE BillingInv'
  <2>1. BillingTypeOK'
    BY <1>2 DEF OpenDispute, BillingInv, BillingTypeOK, billVars, payVars
  <2> QED
    BY <1>2, <2>1, JobKeeps DEF OpenDispute
<1>3. CASE Configure
  <2>1. BillingTypeOK'
    BY <1>3 DEF Configure, BillingInv, BillingTypeOK, billVars, payVars, jobVars
  <2> QED
    BY <1>3, <2>1, JobKeeps DEF Configure
<1>4. CASE WeekPasses
  <2>1. week' \in Weeks
    BY <1>4, BoundsAssumption DEF WeekPasses, BillingInv, BillingTypeOK, Weeks
  <2>2. BillingTypeOK'
    BY <1>4, <2>1 DEF WeekPasses, BillingInv, BillingTypeOK, billVars, payVars, jobVars
  <2> QED
    BY <1>4, <2>2, JobKeeps DEF WeekPasses
<1> QED
  BY <1>1, <1>2, <1>3, <1>4

\* A ruling takes at most what is left of the commission.
LEMMA CutKeeps ==
    ASSUME BillingInv, NEW j \in Jobs, NEW cut \in Cut(j) \ {0},
           adjustments' = Append(adjustments,
               [job |-> j, amount |-> cut, week |-> week, billed |-> 0]),
           UNCHANGED <<charged, statements>>
    PROVE  /\ adjustments' \in Seq(Adjustment)
           /\ StatementsAdd' /\ BilledOnce' /\ CutsWithinFees'
<1> DEFINE new == [job |-> j, amount |-> cut, week |-> week, billed |-> 0]
<1> PICK n \in Nat : n = Len(adjustments) + 1
  BY AdjustmentsTyped DEF BillingInv
<1>1. Amounts(AdjustmentsOf(j)) \in Nat /\ Fee[j] \in Nat
  BY AmountsTyped, FeesAssumption DEF BillingInv, AdjustmentsOf
<1>2. cut \in Nat \ {0} /\ cut + Amounts(AdjustmentsOf(j)) <= Fee[j]
  BY <1>1 DEF Cut, Effective
<1>3. PICK a \in Adjustment : a = new
  <2>1. new \in Adjustment
    BY <1>2, WeeksAre DEF BillingInv, BillingTypeOK, Adjustment
  <2> QED
    BY <2>1
<1>4. /\ adjustments' \in Seq(Adjustment)
      /\ DOMAIN adjustments' = DOMAIN adjustments \cup {n} /\ n \notin DOMAIN adjustments
      /\ \A i \in DOMAIN adjustments : adjustments'[i] = adjustments[i]
      /\ adjustments'[n] = new
      /\ \A I \in SUBSET DOMAIN adjustments :
             /\ Amounts(I)' = Amounts(I)
             /\ Amounts(I \cup {n})' = cut + Amounts(I)
  <2>1. BillingTypeOK /\ adjustments' = Append(adjustments, a) /\ a.amount = cut
    BY <1>3 DEF BillingInv
  <2>2. /\ adjustments' \in Seq(Adjustment)
        /\ DOMAIN adjustments' = DOMAIN adjustments \cup {n} /\ n \notin DOMAIN adjustments
        /\ \A i \in DOMAIN adjustments : adjustments'[i] = adjustments[i]
        /\ adjustments'[n] = a
        /\ \A I \in SUBSET DOMAIN adjustments :
               /\ Amounts(I)' = Amounts(I)
               /\ Amounts(I \cup {n})' = a.amount + Amounts(I)
    <3> HIDE DEF new
    <3> QED
      BY <2>1, AdjustmentAdded
  <2> QED
    BY <1>3, <2>1, <2>2
<1>5. StatementsAdd'
  <2>1. ASSUME NEW s \in statements
        PROVE  ChargesOn(s)' = ChargesOn(s) /\ CreditsOn(s)' = CreditsOn(s)
    <3>1. ChargesOn(s)' = ChargesOn(s)
      BY DEF ChargesOn
    <3>2. s.week # 0
      BY DEF BillingInv, StatementsAdd
    <3>3. CreditsOn(s)' = CreditsOn(s)
      BY <1>4, <3>2 DEF CreditsOn
    <3> QED
      BY <3>1, <3>3
  <2>2. ASSUME NEW s \in statements PROVE Amounts(CreditsOn(s))' = Amounts(CreditsOn(s))
    <3>1. PICK I \in SUBSET DOMAIN adjustments : I = CreditsOn(s)
      BY DEF CreditsOn
    <3>2. Amounts(CreditsOn(s))' = Amounts(I)'
      BY <2>1, <3>1
    <3> QED
      BY <1>4, <3>1, <3>2
  <2> QED
    BY <2>1, <2>2 DEF BillingInv, StatementsAdd, Key
<1>6. BilledOnce'
  BY <1>4 DEF BillingInv, BilledOnce, HasStatement
<1>7. CutsWithinFees'
  <2> SUFFICES ASSUME NEW k \in Jobs PROVE Amounts(AdjustmentsOf(k))' <= Fee[k]
    BY DEF CutsWithinFees
  <2>1. PICK I \in SUBSET DOMAIN adjustments : I = AdjustmentsOf(k)
    BY DEF AdjustmentsOf
  <2>2. AdjustmentsOf(k)' = IF k = j THEN I \cup {n} ELSE I
    BY <1>4, <2>1 DEF AdjustmentsOf
  <2>3. CASE k = j
    <3>1. Amounts(AdjustmentsOf(k))' = Amounts(I \cup {n})'
      BY <2>2, <2>3
    <3> QED
      BY <1>2, <1>4, <2>1, <2>3, <3>1
  <2>4. CASE k # j
    <3>1. Amounts(AdjustmentsOf(k))' = Amounts(I)'
      BY <2>2, <2>4
    <3>2. Amounts(I) <= Fee[k]
      BY <2>1 DEF BillingInv, CutsWithinFees
    <3>3. Amounts(I)' = Amounts(I)
      BY <1>4
    <3> QED
      BY <3>1, <3>2, <3>3
  <2> QED
    BY <2>3, <2>4
<1> QED
  BY <1>4, <1>5, <1>6, <1>7

LEMMA ResolveKeeps ==
    ASSUME BillingInv, NEW j \in Jobs, NEW to \in {"COMPLETED", "ENDED"}, Resolve(j, to)
    PROVE  BillingInv'
<1>1. /\ job' = [job EXCEPT ![j] = to]
      /\ UNCHANGED <<week, window, charged, statements, run, settlements, desk>>
  BY DEF Resolve, billVars, payVars
<1>2. completed' \in [Jobs -> Weeks]
  BY CompletesTyped DEF Resolve, BillingInv, BillingTypeOK
<1>3. CASE UNCHANGED adjustments
  <2>1. BillingTypeOK'
    BY <1>1, <1>2, <1>3 DEF BillingInv, BillingTypeOK
  <2> QED
    BY <1>1, <1>3, <2>1, JobKeeps DEF billVars, payVars
<1>4. CASE ~UNCHANGED adjustments
  <2>1. PICK cut \in Cut(j) \ {0} :
            adjustments' = Append(adjustments,
                [job |-> j, amount |-> cut, week |-> week, billed |-> 0])
    BY <1>4 DEF Resolve
  <2>2. /\ adjustments' \in Seq(Adjustment)
        /\ StatementsAdd' /\ BilledOnce' /\ CutsWithinFees'
    BY <1>1, <2>1, CutKeeps
  <2>3. BillingTypeOK'
    BY <1>1, <1>2, <2>2 DEF BillingInv, BillingTypeOK, Adjustment
  <2> QED
    BY <1>1, <2>2, <2>3, PaymentsRest, RunRests DEF BillingInv
<1> QED
  BY <1>3, <1>4

-----------------------------------------------------------------------------
(* The run. *)

LEMMA StartRunKeeps ==
    ASSUME BillingInv, NEW w \in 1..MaxWeek, StartRun(w) PROVE BillingInv'
<1>1. /\ run' = [week |-> w, records |-> Billable(w)]
      /\ UNCHANGED <<week, window, job, completed, adjustments, charged, statements, settlements, desk>>
  BY DEF StartRun, jobVars, payVars
<1>2. Billable(w) \subseteq Jobs /\ \A j \in Billable(w) : charged[j] = 0
  BY DEF Billable
<1>3. BillingTypeOK'
  BY <1>1, <1>2, WeeksAre DEF BillingInv, BillingTypeOK
<1>4. RunReads'
  BY <1>1, <1>2 DEF RunReads
<1> QED
  BY <1>1, <1>3, <1>4, LedgerRests, PaymentsRest DEF BillingInv

\* What a run that writes adds: a statement of each payee it serves, none of whom
\* had one for the week, with the items that get its week.
Writes(w, served) ==
    LET found == Unbilled(w, run.records)
        Waiting(p) == {j \in run.records : PayeeOf[j] = p}
        Credits(p) == {i \in found : PayeeOf[adjustments[i].job] = p}
    IN
    /\ \A p \in served : ~HasStatement(p, w)
    /\ statements' = statements \cup {Statement(p, w, Waiting(p), Credits(p)) : p \in served}
    /\ charged' = [j \in Jobs |->
                      IF j \in run.records /\ PayeeOf[j] \in served THEN w ELSE charged[j]]
    /\ adjustments' = [i \in DOMAIN adjustments |->
                          IF i \in found /\ PayeeOf[adjustments[i].job] \in served
                          THEN [adjustments[i] EXCEPT !.billed = w] ELSE adjustments[i]]
    /\ run' = NoRun
    /\ UNCHANGED <<week, window, job, completed, settlements, desk>>

LEMMA FinishRunWrites ==
    ASSUME BillingInv, FinishRun
    PROVE  \E w \in 1..MaxWeek, served \in SUBSET Payees : w = run.week /\ Writes(w, served)
<1>1. run.week \in 1..MaxWeek
  BY DEF FinishRun, BillingInv, RunReads
<1> DEFINE served == {p \in Payees :
                        /\ ~HasStatement(p, run.week)
                        /\ {j \in run.records : PayeeOf[j] = p}
                           \cup {i \in Unbilled(run.week, run.records) :
                                    PayeeOf[adjustments[i].job] = p} # {}}
<1>2. Writes(run.week, served)
  BY DEF FinishRun, Writes, jobVars, payVars
<1>3. served \in SUBSET Payees
  OBVIOUS
<1> HIDE DEF served
<1> QED
  BY <1>1, <1>2, <1>3

\* The tables after the run has written.
LEMMA WritesTyped ==
    ASSUME BillingInv, NEW w \in 1..MaxWeek, NEW served \in SUBSET Payees, w = run.week,
           Writes(w, served)
    PROVE  /\ adjustments' \in Seq(Adjustment) /\ DOMAIN adjustments' = DOMAIN adjustments
           /\ \A i \in DOMAIN adjustments :
                  /\ adjustments'[i].job = adjustments[i].job
                  /\ adjustments'[i].amount = adjustments[i].amount
                  /\ adjustments'[i].billed =
                         IF i \in Unbilled(w, run.records) /\ PayeeOf[adjustments[i].job] \in served
                         THEN w ELSE adjustments[i].billed
           /\ charged' \in [Jobs -> Weeks]
           /\ statements' \subseteq StatementRow
           /\ \A I \in SUBSET DOMAIN adjustments : Amounts(I)' = Amounts(I)
<1>1. BillingTypeOK /\ w \in Weeks /\ run.records \in SUBSET Jobs
  BY WeeksAre DEF BillingInv, BillingTypeOK
<1>2. /\ DOMAIN adjustments' = DOMAIN adjustments
      /\ \A i \in DOMAIN adjustments : adjustments'[i] =
             IF i \in Unbilled(w, run.records) /\ PayeeOf[adjustments[i].job] \in served
             THEN [adjustments[i] EXCEPT !.billed = w] ELSE adjustments[i]
  BY DEF Writes
<1>3. ASSUME NEW i \in DOMAIN adjustments
      PROVE  /\ adjustments'[i] \in Adjustment
             /\ adjustments'[i].job = adjustments[i].job
             /\ adjustments'[i].amount = adjustments[i].amount
             /\ adjustments'[i].billed =
                    IF i \in Unbilled(w, run.records) /\ PayeeOf[adjustments[i].job] \in served
                    THEN w ELSE adjustments[i].billed
  <2>1. adjustments[i] \in Adjustment
    BY <1>1, AdjustmentsTyped
  <2> QED
    BY <1>1, <1>2, <2>1 DEF Adjustment
<1>4. adjustments' \in Seq(Adjustment)
  <2>1. Len(adjustments) \in Nat /\ DOMAIN adjustments = 1..Len(adjustments)
    BY <1>1, AdjustmentsTyped
  <2>2. adjustments' = [i \in 1..Len(adjustments) |-> adjustments'[i]]
    BY <1>2, <2>1 DEF Writes
  <2>3. adjustments' \in [1..Len(adjustments) -> Adjustment]
    BY <1>3, <2>1, <2>2
  <2> QED
    BY <2>1, <2>3, SeqDef
<1>5. charged' \in [Jobs -> Weeks]
  BY <1>1 DEF Writes, BillingTypeOK
<1>6. statements' \subseteq StatementRow
  <2> DEFINE Waiting(p) == {j \in run.records : PayeeOf[j] = p}
             Credits(p) == {i \in Unbilled(w, run.records) : PayeeOf[adjustments[i].job] = p}
  <2>1. ASSUME NEW p \in served PROVE Statement(p, w, Waiting(p), Credits(p)) \in StatementRow
    <3>1. Total(Fee, Waiting(p)) \in Nat
      BY <1>1, FeesTyped
    <3>2. Amounts(Credits(p)) \in Nat
      BY <1>1, AmountsTyped DEF Unbilled
    <3> HIDE DEF Waiting, Credits
    <3> QED
      BY <1>1, <3>1, <3>2 DEF Statement, StatementRow
  <2>2. statements' = statements \cup {Statement(p, w, Waiting(p), Credits(p)) : p \in served}
    BY DEF Writes
  <2>3. statements \subseteq StatementRow
    BY <1>1 DEF BillingTypeOK, StatementRow
  <2> HIDE DEF Waiting, Credits
  <2> QED
    BY <2>1, <2>2, <2>3
<1>7. \A I \in SUBSET DOMAIN adjustments : Amounts(I)' = Amounts(I)
  BY <1>1, <1>2, <1>3, AmountsStand
<1> QED
  BY <1>2, <1>3, <1>4, <1>5, <1>6, <1>7

\* An older statement keeps its lines: its payee is not served for its week.
LEMMA OlderLinesStand ==
    ASSUME BillingInv, NEW w \in 1..MaxWeek, NEW served \in SUBSET Payees, w = run.week,
           Writes(w, served), run # NoRun, NEW s \in statements
    PROVE  ChargesOn(s)' = ChargesOn(s) /\ CreditsOn(s)' = CreditsOn(s)
<1>1. s.payee \in served => s.week # w
  BY DEF Writes, HasStatement
<1>2. s.week # 0
  BY DEF BillingInv, StatementsAdd
<1>3. \A j \in run.records : charged[j] = 0
  BY DEF BillingInv, RunReads
<1>4. ChargesOn(s)' = ChargesOn(s)
  BY <1>1, <1>2, <1>3 DEF ChargesOn, Writes
<1>5. \A i \in DOMAIN adjustments :
          adjustments'[i].billed = s.week /\ PayeeOf[adjustments[i].job] = s.payee
              <=> adjustments[i].billed = s.week /\ PayeeOf[adjustments[i].job] = s.payee
  BY <1>1, <1>2, WritesTyped DEF Unbilled
<1>6. CreditsOn(s)' = CreditsOn(s)
  <2>1. /\ DOMAIN adjustments' = DOMAIN adjustments
        /\ \A i \in DOMAIN adjustments : adjustments'[i].job = adjustments[i].job
    BY WritesTyped
  <2> QED
    BY <1>5, <2>1 DEF CreditsOn
<1> QED
  BY <1>4, <1>6

\* A new statement has the lines it was computed from.
LEMMA NewLinesStand ==
    ASSUME BillingInv, NEW w \in 1..MaxWeek, NEW served \in SUBSET Payees, w = run.week,
           Writes(w, served), run # NoRun, NEW s, s.payee \in served, s.week = w
    PROVE  /\ ChargesOn(s)' = {j \in run.records : PayeeOf[j] = s.payee}
           /\ CreditsOn(s)' =
                  {i \in Unbilled(w, run.records) : PayeeOf[adjustments[i].job] = s.payee}
<1>1. ~HasStatement(s.payee, w) /\ w # 0
  BY DEF Writes
<1>2. run.records \subseteq Jobs
  BY DEF BillingInv, BillingTypeOK
<1>3. \A j \in Jobs : PayeeOf[j] = s.payee => charged[j] # w
  BY <1>1 DEF BillingInv, BilledOnce
<1>4. ChargesOn(s)' = {j \in run.records : PayeeOf[j] = s.payee}
  BY <1>2, <1>3 DEF ChargesOn, Writes
<1>5. \A i \in DOMAIN adjustments :
          PayeeOf[adjustments[i].job] = s.payee => adjustments[i].billed # w
  BY <1>1 DEF BillingInv, BilledOnce
<1>6. CreditsOn(s)' =
          {i \in Unbilled(w, run.records) : PayeeOf[adjustments[i].job] = s.payee}
  <2>1. /\ DOMAIN adjustments' = DOMAIN adjustments
        /\ \A i \in DOMAIN adjustments :
               /\ adjustments'[i].job = adjustments[i].job
               /\ adjustments'[i].billed =
                      IF i \in Unbilled(w, run.records) /\ PayeeOf[adjustments[i].job] \in served
                      THEN w ELSE adjustments[i].billed
    BY WritesTyped
  <2>2. CreditsOn(s)' = {i \in DOMAIN adjustments :
                            PayeeOf[adjustments[i].job] = s.payee /\ adjustments'[i].billed = w}
    BY <2>1 DEF CreditsOn
  <2>3. Unbilled(w, run.records) \subseteq DOMAIN adjustments
    BY DEF Unbilled
  <2> QED
    BY <1>5, <2>1, <2>2, <2>3
<1> QED
  BY <1>4, <1>6

LEMMA WritesLedger ==
    ASSUME BillingInv, NEW w \in 1..MaxWeek, NEW served \in SUBSET Payees, w = run.week,
           Writes(w, served), run # NoRun
    PROVE  StatementsAdd' /\ BilledOnce' /\ CutsWithinFees'
<1> DEFINE Waiting(p) == {j \in run.records : PayeeOf[j] = p}
           Credits(p) == {i \in Unbilled(w, run.records) : PayeeOf[adjustments[i].job] = p}
<1>1. /\ statements' = statements \cup {Statement(p, w, Waiting(p), Credits(p)) : p \in served}
      /\ \A p \in served : ~HasStatement(p, w)
  BY DEF Writes
<1>2. ASSUME NEW s \in statements' \ statements
      PROVE  /\ s.payee \in served /\ s.week = w
             /\ s = Statement(s.payee, w, Waiting(s.payee), Credits(s.payee))
  <2> HIDE DEF Waiting, Credits
  <2>1. PICK p \in served : s = Statement(p, w, Waiting(p), Credits(p))
    BY <1>1, <1>2
  <2> QED
    BY <2>1 DEF Statement
<1>3. ASSUME NEW I \in SUBSET DOMAIN adjustments PROVE Amounts(I)' = Amounts(I)
  BY WritesTyped
<1>4. ASSUME NEW s \in statements'
      PROVE  /\ s.week # 0
             /\ s.gross = Total(Fee, ChargesOn(s)')
             /\ s.off = Amounts(CreditsOn(s))'
  <2>1. CASE s \in statements
    <3>1. ChargesOn(s)' = ChargesOn(s) /\ CreditsOn(s)' = CreditsOn(s)
      BY <2>1, OlderLinesStand
    <3>2. PICK I \in SUBSET DOMAIN adjustments : I = CreditsOn(s)
      BY DEF CreditsOn
    <3>3. Amounts(CreditsOn(s))' = Amounts(I)'
      BY <3>1, <3>2
    <3> QED
      BY <1>3, <2>1, <3>1, <3>2, <3>3 DEF BillingInv, StatementsAdd
  <2>2. CASE s \notin statements
    <3>1. s.payee \in served /\ s.week = w
          /\ s.gross = Total(Fee, Waiting(s.payee)) /\ s.off = Amounts(Credits(s.payee))
      BY <1>2, <2>2 DEF Statement
    <3>2. ChargesOn(s)' = Waiting(s.payee) /\ CreditsOn(s)' = Credits(s.payee)
      BY <3>1, NewLinesStand
    <3>3. PICK I \in SUBSET DOMAIN adjustments : I = Credits(s.payee)
      BY DEF Unbilled
    <3>4. Amounts(CreditsOn(s))' = Amounts(I)'
      BY <3>2, <3>3
    <3> HIDE DEF Waiting, Credits
    <3> QED
      BY <1>3, <3>1, <3>2, <3>3, <3>4
  <2> QED
    BY <2>1, <2>2
<1>5. ASSUME NEW s \in statements', NEW t \in statements', Key(s) = Key(t) PROVE s = t
  <2>1. s.payee = t.payee /\ s.week = t.week
    BY <1>5, KeysAre
  <2> HIDE DEF Waiting, Credits
  <2>2. CASE s \in statements /\ t \in statements
    BY <1>5, <2>2 DEF BillingInv, StatementsAdd
  <2>3. CASE s \notin statements /\ t \notin statements
    BY <1>2, <2>1, <2>3
  <2>4. CASE s \in statements /\ t \notin statements
    BY <1>1, <1>2, <2>1, <2>4 DEF HasStatement
  <2>5. CASE s \notin statements /\ t \in statements
    BY <1>1, <1>2, <2>1, <2>5 DEF HasStatement
  <2> QED
    BY <2>2, <2>3, <2>4, <2>5
<1>6. StatementsAdd'
  BY <1>4, <1>5 DEF StatementsAdd, Key
<1> DEFINE Has(p, v) == \E s \in statements' : s.payee = p /\ s.week = v
<1>7. /\ \A p \in served : Has(p, w)
      /\ \A p, v : HasStatement(p, v) => Has(p, v)
  <2>1. ASSUME NEW p \in served PROVE Has(p, w)
    <3>1. Statement(p, w, Waiting(p), Credits(p)) \in statements'
      BY <1>1
    <3> QED
      BY <3>1 DEF Statement
  <2> QED
    BY <1>1, <2>1 DEF HasStatement
<1>8. BilledOnce'
  <2>1. ASSUME NEW j \in Jobs, charged'[j] # 0 PROVE Has(PayeeOf[j], charged'[j])
    <3> HIDE DEF Has
    <3>1. charged'[j] = IF j \in run.records /\ PayeeOf[j] \in served THEN w ELSE charged[j]
      BY DEF Writes
    <3> QED
      BY <1>7, <2>1, <3>1 DEF BillingInv, BilledOnce
  <2>2. ASSUME NEW i \in DOMAIN adjustments, adjustments'[i].billed # 0
        PROVE  /\ charged'[adjustments[i].job] # 0
               /\ Has(PayeeOf[adjustments[i].job], adjustments'[i].billed)
    <3>1. adjustments[i].job \in Jobs /\ w # 0
      BY AdjustmentsTyped DEF BillingInv, Adjustment
    <3>2. adjustments'[i].billed =
              IF i \in Unbilled(w, run.records) /\ PayeeOf[adjustments[i].job] \in served
              THEN w ELSE adjustments[i].billed
      BY WritesTyped
    <3>3. charged'[adjustments[i].job] =
              IF adjustments[i].job \in run.records /\ PayeeOf[adjustments[i].job] \in served
              THEN w ELSE charged[adjustments[i].job]
      BY <3>1 DEF Writes
    <3> HIDE DEF Has
    <3>4. CASE i \in Unbilled(w, run.records) /\ PayeeOf[adjustments[i].job] \in served
      BY <1>7, <3>1, <3>2, <3>3, <3>4 DEF Unbilled
    <3>5. CASE ~(i \in Unbilled(w, run.records) /\ PayeeOf[adjustments[i].job] \in served)
      <4>1. charged[adjustments[i].job] # 0
            /\ HasStatement(PayeeOf[adjustments[i].job], adjustments[i].billed)
        BY <2>2, <3>2, <3>5 DEF BillingInv, BilledOnce
      <4> QED
        BY <1>7, <3>1, <3>2, <3>3, <3>5, <4>1
    <3> QED
      BY <3>4, <3>5
  <2>3. /\ DOMAIN adjustments' = DOMAIN adjustments
        /\ \A i \in DOMAIN adjustments : adjustments'[i].job = adjustments[i].job
    BY WritesTyped
  <2>4. \A i \in DOMAIN adjustments' :
            adjustments'[i].billed # 0 =>
                /\ charged'[adjustments'[i].job] # 0
                /\ Has(PayeeOf[adjustments'[i].job], adjustments'[i].billed)
    <3> HIDE DEF Has
    <3> QED
      BY <2>2, <2>3
  <2> QED
    BY <2>1, <2>4 DEF BilledOnce, HasStatement
<1>9. CutsWithinFees'
  <2> SUFFICES ASSUME NEW j \in Jobs PROVE Amounts(AdjustmentsOf(j))' <= Fee[j]
    BY DEF CutsWithinFees
  <2>1. PICK I \in SUBSET DOMAIN adjustments : I = AdjustmentsOf(j)
    BY DEF AdjustmentsOf
  <2>2. AdjustmentsOf(j)' = I
    <3>1. /\ DOMAIN adjustments' = DOMAIN adjustments
          /\ \A i \in DOMAIN adjustments : adjustments'[i].job = adjustments[i].job
      BY WritesTyped
    <3> QED
      BY <2>1, <3>1 DEF AdjustmentsOf
  <2>3. Amounts(AdjustmentsOf(j))' = Amounts(I)'
    BY <2>2
  <2>4. Amounts(I) <= Fee[j]
    BY <2>1 DEF BillingInv, CutsWithinFees
  <2> QED
    BY <1>3, <2>3, <2>4
<1> QED
  BY <1>6, <1>8, <1>9

\* A statement that is new has no payment on it.
LEMMA NewStatementsUnpaid ==
    ASSUME BillingInv, statements \subseteq statements', statements' \subseteq StatementRow,
           StatementsAdd',
           UNCHANGED <<settlements, desk>>
    PROVE  PaymentsStand' /\ Reserved' /\ WithinDue'
<1>1. StatementKeys \subseteq StatementKeys'
  BY DEF StatementKeys, Key
<1>2. \A k : Settled(k)' = Settled(k) /\ Paid' = Paid /\ Effects(k)' = Effects(k)
  BY DEF Settled, Paid, Effects, InEffect, Reversed
<1>3. ASSUME NEW k, k \notin StatementKeys PROVE Settled(k) = 0 /\ Total(Paid, Effects(k)) = 0
  <2>1. /\ {i \in DOMAIN settlements : settlements[i].statement = k} = {}
        /\ Effects(k) = {}
    BY <1>3 DEF BillingInv, PaymentsStand, Effects, InEffect
  <2> QED
    BY <2>1, TotalEmpty DEF Settled
<1>4. PaymentsStand'
  <2>1. \A k \in StatementKeys' : Settled(k)' = Total(Paid, Effects(k))'
    BY <1>2, <1>3 DEF BillingInv, PaymentsStand
  <2> QED
    BY <1>1, <2>1 DEF BillingInv, PaymentsStand
<1>5. Reserved'
  BY <1>2 DEF BillingInv, Reserved, Key, NetDue
<1>6. WithinDue'
  <2> SUFFICES ASSUME NEW s \in statements' PROVE Settled(Key(s))' <= Max({NetDue(s), 0})
    BY DEF WithinDue, Key, NetDue
  <2>1. CASE Key(s) \in StatementKeys
    <3>1. PICK t \in statements : Key(t) = Key(s)
      BY <2>1 DEF StatementKeys
    <3>2. t = s
      BY <3>1 DEF StatementsAdd, Key
    <3> QED
      BY <1>2, <3>1, <3>2 DEF BillingInv, WithinDue
  <2>2. CASE Key(s) \notin StatementKeys
    <3>1. NetDue(s) \in Int
      BY DEF NetDue, StatementRow
    <3> QED
      BY <1>2, <1>3, <2>2, <3>1, MaxIs
  <2> QED
    BY <2>1, <2>2
<1> QED
  BY <1>4, <1>5, <1>6

LEMMA FinishRunKeeps == ASSUME BillingInv, FinishRun PROVE BillingInv'
<1>1. PICK w \in 1..MaxWeek, served \in SUBSET Payees : w = run.week /\ Writes(w, served)
  BY FinishRunWrites
<1>2. run # NoRun
  BY DEF FinishRun
<1>3. StatementsAdd' /\ BilledOnce' /\ CutsWithinFees'
  BY <1>1, <1>2, WritesLedger
<1>4. /\ adjustments' \in Seq(Adjustment) /\ charged' \in [Jobs -> Weeks]
      /\ statements' \subseteq StatementRow
  BY <1>1, WritesTyped
<1>5. /\ statements \subseteq statements' /\ run' = NoRun
      /\ UNCHANGED <<week, window, job, completed, settlements, desk>>
  BY <1>1 DEF Writes
<1>6. PaymentsStand' /\ Reserved' /\ WithinDue'
  BY <1>3, <1>4, <1>5, NewStatementsUnpaid
<1>7. NoRun \in [week : Weeks, records : SUBSET Jobs]
  BY WeeksAre DEF NoRun
<1>8. BillingTypeOK'
  BY <1>4, <1>5, <1>7 DEF BillingInv, BillingTypeOK, Adjustment, StatementRow
<1>9. RunReads'
  BY <1>5 DEF RunReads
<1> QED
  BY <1>3, <1>6, <1>8, <1>9 DEF BillingInv

-----------------------------------------------------------------------------
(* Payments. *)

LEMMA SettlementsTyped ==
    ASSUME BillingTypeOK
    PROVE  /\ settlements \in Seq(Settlement)
           /\ Len(settlements) \in Nat /\ DOMAIN settlements = 1..Len(settlements)
           /\ \A i \in DOMAIN settlements : settlements[i] \in Settlement
           /\ IsFiniteSet(DOMAIN settlements)
<1>1. settlements \in Seq(Settlement)
  BY DEF BillingTypeOK
<1>2. /\ Len(settlements) \in Nat /\ DOMAIN settlements = 1..Len(settlements)
      /\ \A i \in DOMAIN settlements : settlements[i] \in Settlement
  BY <1>1, LenProperties, ElementOfSeq
<1> QED
  BY <1>1, <1>2, FS_Interval

LEMMA PaidTyped ==
    ASSUME BillingTypeOK, NEW I \in SUBSET DOMAIN settlements
    PROVE  IsFiniteSet(I) /\ (\A i \in I : Paid[i] \in Int) /\ Total(Paid, I) \in Int
<1>1. IsFiniteSet(I)
  BY SettlementsTyped, FS_Subset
<1>2. \A i \in I : Paid[i] \in Int
  BY SettlementsTyped DEF Paid, Settlement
<1> QED
  BY <1>1, <1>2, TotalTyped

LEMMA SettledTyped ==
    ASSUME BillingTypeOK, NEW k
    PROVE  /\ Settled(k) \in Int
           /\ Settled(k) = Total(Paid, {i \in DOMAIN settlements : settlements[i].statement = k})
BY PaidTyped DEF Settled, Paid

LEMMA SumsAreInts ==
    ASSUME BillingTypeOK
    PROVE  (\A k : Settled(k) \in Int) /\ (\A s \in statements : NetDue(s) \in Int)
<1>1. \A k : Settled(k) \in Int
  BY SettledTyped
<1>2. \A s \in statements : s.gross \in Nat /\ s.off \in Nat
  BY DEF BillingTypeOK
<1>3. \A s \in statements : NetDue(s) \in Int
  BY <1>2 DEF NetDue
<1> QED
  BY <1>1, <1>3

\* Whatever was paid and not reversed adds up to no less than nothing.
LEMMA SettledNotNegative ==
    ASSUME BillingInv, NEW k \in StatementKeys PROVE Settled(k) >= 0
<1>1. IsFiniteSet(Effects(k))
  BY PaidTyped DEF BillingInv, Effects, InEffect
<1>2. \A i \in Effects(k) : Paid[i] \in Nat
  <2>1. \A i \in DOMAIN settlements : settlements[i].amount \in Int
    BY SettlementsTyped DEF BillingInv, Settlement
  <2> QED
    BY <2>1 DEF BillingInv, PaymentsStand, Effects, InEffect, Paid
<1>3. Total(Paid, Effects(k)) \in Nat
  BY <1>1, <1>2, TotalTyped
<1> QED
  BY <1>3 DEF BillingInv, PaymentsStand

\* One more row adds its amount to its statement.
LEMMA SettlementAdded ==
    ASSUME BillingTypeOK, NEW e \in Settlement, settlements' = Append(settlements, e),
           NEW n \in Nat, n = Len(settlements) + 1
    PROVE  /\ settlements' \in Seq(Settlement) /\ Len(settlements') = n
           /\ DOMAIN settlements' = DOMAIN settlements \cup {n} /\ n \notin DOMAIN settlements
           /\ \A i \in DOMAIN settlements : settlements'[i] = settlements[i]
           /\ settlements'[n] = e
           /\ \A I \in SUBSET DOMAIN settlements :
                  /\ Total(Paid', I) = Total(Paid, I)
                  /\ Total(Paid', I \cup {n}) = e.amount + Total(Paid, I)
           /\ \A k : Settled(k)' = Settled(k) + (IF e.statement = k THEN e.amount ELSE 0)
<1>1. /\ settlements' \in Seq(Settlement) /\ Len(settlements') = n
      /\ \A i \in 1..Len(settlements) : settlements'[i] = settlements[i]
      /\ settlements'[n] = e
  BY SettlementsTyped, AppendProperties
<1>2. DOMAIN settlements' = DOMAIN settlements \cup {n} /\ n \notin DOMAIN settlements
  BY <1>1, SettlementsTyped, LenProperties
<1>3. \A i \in DOMAIN settlements : settlements'[i] = settlements[i]
  BY <1>1, SettlementsTyped
<1>4. /\ \A i \in DOMAIN settlements : Paid'[i] = Paid[i]
      /\ Paid'[n] = e.amount /\ e.amount \in Int
  BY <1>1, <1>2, <1>3 DEF Paid, Settlement
<1>5. ASSUME NEW I \in SUBSET DOMAIN settlements
      PROVE  /\ Total(Paid', I) = Total(Paid, I)
             /\ Total(Paid', I \cup {n}) = e.amount + Total(Paid, I)
  <2>1. IsFiniteSet(I) /\ n \notin I /\ \A i \in I : Paid[i] \in Int
    BY <1>2, PaidTyped
  <2>2. Total(Paid', I) = Total(Paid, I)
    BY <1>4, <2>1, TotalSame
  <2>3. Total(Paid', I \cup {n}) = Paid'[n] + Total(Paid', I)
    BY <1>4, <2>1, TotalInsert
  <2> QED
    BY <1>4, <2>2, <2>3
<1>6. ASSUME NEW k
      PROVE  Settled(k)' = Settled(k) + (IF e.statement = k THEN e.amount ELSE 0)
  <2> DEFINE On == {i \in DOMAIN settlements : settlements[i].statement = k}
  <2>1. Settled(k) = Total(Paid, On) /\ Settled(k) \in Int
    BY SettledTyped
  <2>2. Settled(k)' = Total(Paid', {i \in DOMAIN settlements' : settlements'[i].statement = k})
    BY DEF Settled, Paid
  <2>3. {i \in DOMAIN settlements' : settlements'[i].statement = k}
            = IF e.statement = k THEN On \cup {n} ELSE On
    BY <1>1, <1>2, <1>3
  <2>4. On \in SUBSET DOMAIN settlements
    OBVIOUS
  <2> HIDE DEF On
  <2>5. Total(Paid', On) = Total(Paid, On) /\ Total(Paid', On \cup {n}) = e.amount + Total(Paid, On)
    BY <1>5, <2>4
  <2>6. CASE e.statement = k
    <3>1. Settled(k)' = e.amount + Settled(k)
      BY <2>1, <2>2, <2>3, <2>5, <2>6
    <3> QED
      BY <1>4, <2>1, <2>6, <3>1
  <2>7. CASE e.statement # k
    <3>1. Settled(k)' = Settled(k)
      BY <2>1, <2>2, <2>3, <2>5, <2>7
    <3> QED
      BY <2>1, <2>7, <3>1
  <2> QED
    BY <2>6, <2>7
<1> QED
  BY <1>1, <1>2, <1>3, <1>5, <1>6

LEMMA TakePaymentKeeps ==
    ASSUME BillingInv, NEW o \in Officers, NEW s \in statements, NEW ref \in Refs,
           NEW amount \in 1..s.gross, TakePayment(o, s, amount, ref)
    PROVE  BillingInv'
<1> DEFINE row == [statement |-> Key(s), amount |-> amount, ref |-> ref, reverses |-> 0]
<1>1. /\ desk' = [desk EXCEPT ![o] = row]
      /\ ~Locked(Key(s)) /\ amount <= Outstanding(s)
      /\ UNCHANGED <<week, window, job, completed, adjustments, charged, statements, run, settlements>>
  BY DEF TakePayment, jobVars, billVars
<1>2. /\ s.payee \in Payees /\ s.week \in Weeks /\ s.gross \in Nat /\ s.off \in Nat
      /\ amount \in Nat /\ amount > 0
  BY DEF BillingInv, BillingTypeOK
<1>3. row \in Settlement
  BY <1>2, BoundsAssumption DEF Settlement, Key
<1>4. BillingTypeOK'
  <2> HIDE DEF row
  <2> QED
    BY <1>1, <1>3 DEF BillingInv, BillingTypeOK
<1>5. NetDue(s) \in Int /\ Settled(Key(s)) \in Int
  BY SumsAreInts DEF BillingInv
<1>6. Settled(Key(s)) + amount <= NetDue(s)
  BY <1>1, <1>2, <1>5, MaxIs DEF Outstanding
<1>7. /\ Settled(Key(s))' = Settled(Key(s))
      /\ \A k : Settled(k)' = Settled(k)
      /\ PaymentsStand' /\ WithinDue'
  <2>1. \A k : Settled(k)' = Settled(k)
    BY <1>1 DEF Settled
  <2>2. PaymentsStand'
    BY <1>1 DEF BillingInv, PaymentsStand, StatementKeys, Key, Settled, Paid, Effects, InEffect, Reversed
  <2>3. WithinDue'
    BY <1>1 DEF BillingInv, WithinDue, Key, Settled, NetDue
  <2> QED
    BY <1>1, <2>1, <2>2, <2>3 DEF Key
<1>8. Reserved'
  <2>1. /\ desk'[o] = row /\ row.reverses = 0 /\ row.amount = amount /\ row.statement = Key(s)
        /\ \A p \in Officers : p # o => desk'[p] = desk[p] /\ desk[p].statement # Key(s)
    BY <1>1 DEF BillingInv, BillingTypeOK, Locked
  <2> HIDE DEF row
  <2> SUFFICES ASSUME NEW q \in Officers, desk'[q] # NoPayment
               PROVE  /\ desk'[q].reverses = 0 /\ desk'[q].amount > 0
                      /\ \E t \in statements :
                             /\ desk'[q].statement = Key(t)
                             /\ Settled(Key(t)) + desk'[q].amount <= NetDue(t)
                      /\ \A p \in Officers : desk'[p].statement = desk'[q].statement => p = q
    BY <1>1, <1>7 DEF Reserved, Key, NetDue
  <2>2. CASE q = o
    BY <1>2, <1>6, <2>1, <2>2
  <2>3. CASE q # o
    <3>1. /\ desk[q].reverses = 0 /\ desk[q].amount > 0
          /\ \E t \in statements :
                 /\ desk[q].statement = Key(t)
                 /\ Settled(Key(t)) + desk[q].amount <= NetDue(t)
          /\ \A p \in Officers : desk[p].statement = desk[q].statement => p = q
      BY <2>1, <2>3 DEF BillingInv, Reserved
    <3> QED
      BY <2>1, <2>3, <3>1
  <2> QED
    BY <2>2, <2>3
<1> QED
  BY <1>1, <1>4, <1>7, <1>8, LedgerRests, RunRests DEF BillingInv

\* A row is written that nobody else has reserved on the statement of: the other
\* statements, and what is reserved on them, stay.
LEMMA RowKeepsDues ==
    ASSUME BillingInv, NEW e \in Settlement, NEW k0 \in StatementKeys, e.statement = k0,
           settlements' = Append(settlements, e), UNCHANGED statements,
           desk' \in [Officers -> Settlement \cup {NoPayment}],
           \A p \in Officers : desk'[p] \in {desk[p], NoPayment} /\ desk'[p].statement # k0,
           \A s \in statements : Key(s) = k0 => Settled(k0) + e.amount <= Max({NetDue(s), 0})
    PROVE  Reserved' /\ WithinDue'
<1> PICK n \in Nat : n = Len(settlements) + 1
  BY SettlementsTyped DEF BillingInv
<1>1. \A k : Settled(k)' = Settled(k) + (IF k0 = k THEN e.amount ELSE 0)
  BY SettlementAdded DEF BillingInv
<1>2. \A k : Settled(k) \in Int
  BY SettledTyped DEF BillingInv
<1>3. \A k : k # k0 => Settled(k)' = Settled(k)
  BY <1>1, <1>2
<1>4. Reserved'
  <2> SUFFICES ASSUME NEW q \in Officers, desk'[q] # NoPayment
               PROVE  /\ desk'[q].reverses = 0 /\ desk'[q].amount > 0
                      /\ \E t \in statements :
                             /\ desk'[q].statement = Key(t)
                             /\ Settled(Key(t))' + desk'[q].amount <= NetDue(t)
                      /\ \A p \in Officers : desk'[p].statement = desk'[q].statement => p = q
    BY DEF Reserved, Key, NetDue
  <2>1. desk'[q] = desk[q] /\ desk[q] # NoPayment
    OBVIOUS
  <2>2. /\ desk[q].reverses = 0 /\ desk[q].amount > 0
        /\ \A p \in Officers : desk[p].statement = desk[q].statement => p = q
    BY <2>1 DEF BillingInv, Reserved
  <2>3. PICK t \in statements : /\ desk[q].statement = Key(t)
                                /\ Settled(Key(t)) + desk[q].amount <= NetDue(t)
    BY <2>1 DEF BillingInv, Reserved
  <2>4. Key(t) # k0
    BY <2>1, <2>3
  <2>5. Settled(Key(t))' = Settled(Key(t))
    <3>1. PICK k : k = Key(t)
      OBVIOUS
    <3>2. Settled(k)' = Settled(k)
      BY <1>3, <2>4, <3>1
    <3> QED
      BY <3>1, <3>2 DEF Key
  <2>6. desk[q].statement # <<>> /\ NoPayment.statement = <<>>
    BY <2>3, KeysAre DEF NoPayment
  <2>7. \A p \in Officers : desk'[p].statement = desk'[q].statement => p = q
    BY <2>1, <2>2, <2>6
  <2> QED
    BY <2>1, <2>2, <2>3, <2>5, <2>7
<1>5. WithinDue'
  <2> SUFFICES ASSUME NEW s \in statements PROVE Settled(Key(s))' <= Max({NetDue(s), 0})
    BY DEF WithinDue, Key, NetDue
  <2>1. PICK k : k = Key(s)
    OBVIOUS
  <2>2. Settled(Key(s))' = Settled(k)'
    BY <2>1 DEF Key
  <2>3. CASE k = k0
    BY <1>1, <1>2, <2>1, <2>2, <2>3
  <2>4. CASE k # k0
    BY <1>3, <2>1, <2>2, <2>4 DEF BillingInv, WithinDue
  <2> QED
    BY <2>3, <2>4
<1> QED
  BY <1>4, <1>5

LEMMA SavePaymentKeeps ==
    ASSUME BillingInv, NEW o \in Officers, SavePayment(o) PROVE BillingInv'
<1>1. /\ desk[o] # NoPayment
      /\ settlements' = Append(settlements, desk[o])
      /\ desk' = [desk EXCEPT ![o] = NoPayment]
      /\ UNCHANGED <<week, window, job, completed, adjustments, charged, statements, run>>
  BY DEF SavePayment, jobVars, billVars
<1> PICK n \in Nat : n = Len(settlements) + 1
  BY SettlementsTyped DEF BillingInv
<1>2. PICK e \in Settlement : e = desk[o]
  BY <1>1 DEF BillingInv, BillingTypeOK
<1>3. /\ e.reverses = 0 /\ e.amount > 0
      /\ \A p \in Officers : desk[p].statement = e.statement => p = o
  BY <1>1, <1>2 DEF BillingInv, Reserved
<1>4. PICK s \in statements : e.statement = Key(s) /\ Settled(Key(s)) + e.amount <= NetDue(s)
  BY <1>1, <1>2 DEF BillingInv, Reserved
<1>5. e.statement \in StatementKeys /\ e.statement # <<>>
  BY <1>4, KeysAre DEF StatementKeys
<1>6. settlements' = Append(settlements, e)
  BY <1>1, <1>2
<1>7. /\ settlements' \in Seq(Settlement) /\ Len(settlements') = n
      /\ DOMAIN settlements' = DOMAIN settlements \cup {n} /\ n \notin DOMAIN settlements
      /\ \A i \in DOMAIN settlements : settlements'[i] = settlements[i]
      /\ settlements'[n] = e
      /\ \A I \in SUBSET DOMAIN settlements :
             /\ Total(Paid', I) = Total(Paid, I)
             /\ Total(Paid', I \cup {n}) = e.amount + Total(Paid, I)
      /\ \A k : Settled(k)' = Settled(k) + (IF e.statement = k THEN e.amount ELSE 0)
  BY <1>6, SettlementAdded DEF BillingInv
<1>8. desk' \in [Officers -> Settlement \cup {NoPayment}]
  BY <1>1 DEF BillingInv, BillingTypeOK
<1>9. BillingTypeOK'
  BY <1>1, <1>7, <1>8 DEF BillingInv, BillingTypeOK
<1>10. Reserved' /\ WithinDue'
  <2>1. \A p \in Officers : desk'[p] \in {desk[p], NoPayment} /\ desk'[p].statement # e.statement
    BY <1>1, <1>3, <1>5 DEF NoPayment, BillingInv, BillingTypeOK
  <2>2. \A t \in statements : Key(t) = e.statement => t = s
    BY <1>4 DEF BillingInv, StatementsAdd
  <2>4. NetDue(s) \in Int /\ e.amount \in Int /\ Settled(e.statement) \in Int
    <3>1. (\A k : Settled(k) \in Int) /\ NetDue(s) \in Int
      BY SumsAreInts DEF BillingInv
    <3> QED
      BY <3>1 DEF Settlement
  <2>5. \A t \in statements :
            Key(t) = e.statement => Settled(e.statement) + e.amount <= Max({NetDue(t), 0})
    BY <1>4, <2>2, <2>4, MaxIs
  <2> QED
    BY <1>1, <1>5, <1>6, <1>8, <2>1, <2>5, RowKeepsDues
<1>11. PaymentsStand'
  <2>1. \A i \in DOMAIN settlements : Reversed(i)' <=> Reversed(i)
    BY <1>3, <1>7, SettlementsTyped DEF Reversed, BillingInv
  <2>2. ~Reversed(n)'
    BY <1>3, <1>7, SettlementsTyped DEF Reversed, BillingInv, PaymentsStand
  <2>3. InEffect' = InEffect \cup {n}
    BY <1>3, <1>7, <2>1, <2>2 DEF InEffect
  <2>4. \A k : Effects(k)' = IF e.statement = k THEN Effects(k) \cup {n} ELSE Effects(k)
    BY <1>7, <2>3 DEF Effects, InEffect
  <2>5. ASSUME NEW k \in StatementKeys PROVE Settled(k)' = Total(Paid', Effects(k)')
    <3>1. Settled(k) = Total(Paid, Effects(k)) /\ Settled(k) \in Int /\ e.amount \in Int
      BY SettledTyped DEF BillingInv, PaymentsStand, Settlement
    <3>2. PICK I \in SUBSET DOMAIN settlements : I = Effects(k)
      BY DEF Effects, InEffect
    <3>3. Total(Paid', I) = Total(Paid, I) /\ Total(Paid', I \cup {n}) = e.amount + Total(Paid, I)
      BY <1>7
    <3>4. CASE e.statement = k
      <4>1. Effects(k)' = I \cup {n}
        BY <2>4, <3>2, <3>4
      <4>2. Settled(k)' = Settled(k) + e.amount /\ Settled(k) = Total(Paid, I)
        BY <1>7, <3>1, <3>2, <3>4
      <4>3. Total(Paid', Effects(k)') = e.amount + Settled(k)
        BY <3>3, <4>1, <4>2
      <4> QED
        BY <3>1, <4>2, <4>3
    <3>5. CASE e.statement # k
      <4>1. Effects(k)' = I
        BY <2>4, <3>2, <3>5
      <4>2. Settled(k)' = Settled(k) + 0 /\ Settled(k) = Total(Paid, I)
        BY <1>7, <3>1, <3>2, <3>5
      <4>3. Total(Paid', Effects(k)') = Settled(k)
        BY <3>3, <4>1, <4>2
      <4> QED
        BY <3>1, <4>2, <4>3
    <3> QED
      BY <3>4, <3>5
  <2>6. StatementKeys' = StatementKeys
    BY <1>1 DEF StatementKeys, Key
  <2>7. \A i \in DOMAIN settlements' :
            /\ settlements'[i].statement \in StatementKeys
            /\ settlements'[i].reverses \in 0..Len(settlements')
            /\ settlements'[i].reverses = 0 => settlements'[i].amount > 0
    BY <1>3, <1>5, <1>7, SettlementsTyped DEF BillingInv, PaymentsStand
  <2> QED
    BY <2>5, <2>6, <2>7 DEF PaymentsStand
<1> QED
  BY <1>1, <1>9, <1>10, <1>11, LedgerRests, RunRests DEF BillingInv

LEMMA ReversePaymentKeeps ==
    ASSUME BillingInv, NEW i \in DOMAIN settlements, ReversePayment(i) PROVE BillingInv'
<1> DEFINE row == [settlements[i] EXCEPT !.amount = 0 - @, !.reverses = i]
<1>1. /\ i \in InEffect /\ ~Locked(settlements[i].statement)
      /\ Len(settlements) < MaxSettlements
      /\ settlements' = Append(settlements, row)
      /\ UNCHANGED <<week, window, job, completed, adjustments, charged, statements, run, desk>>
  BY DEF ReversePayment, jobVars, billVars
<1> PICK n \in Nat : n = Len(settlements) + 1
  BY SettlementsTyped DEF BillingInv
<1>2. settlements[i] \in Settlement /\ i \in 1..Len(settlements) /\ Len(settlements) \in Nat
  BY SettlementsTyped DEF BillingInv
<1>3. /\ settlements[i].statement \in StatementKeys /\ settlements[i].reverses = 0
      /\ settlements[i].amount > 0 /\ settlements[i].amount \in Int
  BY <1>1, <1>2 DEF BillingInv, PaymentsStand, InEffect, Settlement
<1>4. PICK e \in Settlement : e = row
  <2>1. i \in 0..MaxSettlements
    BY <1>1, <1>2, BoundsAssumption
  <2>2. PICK x \in Settlement : x = settlements[i]
    BY <1>2
  <2>3. PICK m \in Int : m = 0 - x.amount
    BY <1>3, <2>2
  <2>4. [x EXCEPT !.amount = m, !.reverses = i] \in Settlement
    BY <2>1 DEF Settlement
  <2> QED
    BY <2>2, <2>3, <2>4
<1>5. /\ e.reverses = i /\ e.statement = settlements[i].statement
      /\ e.amount = 0 - settlements[i].amount
  BY <1>2, <1>4 DEF Settlement
<1>6. settlements' = Append(settlements, e)
  BY <1>1, <1>4
<1> HIDE DEF row
<1>7. /\ settlements' \in Seq(Settlement) /\ Len(settlements') = n
      /\ DOMAIN settlements' = DOMAIN settlements \cup {n} /\ n \notin DOMAIN settlements
      /\ \A j \in DOMAIN settlements : settlements'[j] = settlements[j]
      /\ settlements'[n] = e
      /\ \A I \in SUBSET DOMAIN settlements :
             /\ Total(Paid', I) = Total(Paid, I)
             /\ Total(Paid', I \cup {n}) = e.amount + Total(Paid, I)
      /\ \A k : Settled(k)' = Settled(k) + (IF e.statement = k THEN e.amount ELSE 0)
  BY <1>6, SettlementAdded DEF BillingInv
<1>8. BillingTypeOK'
  BY <1>1, <1>7 DEF BillingInv, BillingTypeOK
<1>9. Reserved' /\ WithinDue'
  <2>1. \A p \in Officers : desk'[p] \in {desk[p], NoPayment} /\ desk'[p].statement # e.statement
    BY <1>1, <1>5 DEF Locked
  <2>2. \A s \in statements : NetDue(s) \in Int /\ Settled(Key(s)) <= Max({NetDue(s), 0})
    BY SumsAreInts DEF BillingInv, WithinDue
  <2>3. Settled(e.statement) \in Int
    BY SumsAreInts DEF BillingInv
  <2>4. \A s \in statements :
            Key(s) = e.statement => Settled(e.statement) + e.amount <= Max({NetDue(s), 0})
    BY <1>3, <1>5, <2>2, <2>3, MaxIs
  <2>5. desk' \in [Officers -> Settlement \cup {NoPayment}]
    BY <1>1 DEF BillingInv, BillingTypeOK
  <2> QED
    BY <1>1, <1>3, <1>5, <1>6, <2>1, <2>4, <2>5, RowKeepsDues
<1>10. PaymentsStand'
  <2>1. \A j \in DOMAIN settlements : Reversed(j)' <=> j = i \/ Reversed(j)
    BY <1>5, <1>7 DEF Reversed
  <2>2. i # 0
    BY <1>2
  <2>3. InEffect' = InEffect \ {i}
    BY <1>5, <1>7, <2>1, <2>2 DEF InEffect
  <2>4. \A k : Effects(k)' = IF e.statement = k THEN Effects(k) \ {i} ELSE Effects(k)
    BY <1>5, <1>7, <2>3 DEF Effects, InEffect
  <2>5. ASSUME NEW k \in StatementKeys PROVE Settled(k)' = Total(Paid', Effects(k)')
    <3>1. Settled(k) = Total(Paid, Effects(k)) /\ Settled(k) \in Int
      BY SettledTyped DEF BillingInv, PaymentsStand
    <3>2. /\ Effects(k) \in SUBSET DOMAIN settlements
          /\ Effects(k) \ {i} \in SUBSET DOMAIN settlements
      BY DEF Effects, InEffect
    <3>3. CASE e.statement = k
      <4>1. i \in Effects(k) /\ Paid[i] = settlements[i].amount
        BY <1>1, <1>5, <3>3 DEF Effects, Paid
      <4>2. Total(Paid, Effects(k)) = Paid[i] + Total(Paid, Effects(k) \ {i})
        BY <3>2, <4>1, PaidTyped, TotalRemove DEF BillingInv
      <4>3. Total(Paid, Effects(k) \ {i}) \in Int
        BY <3>2, PaidTyped DEF BillingInv
      <4>4. Total(Paid', Effects(k) \ {i}) = Total(Paid, Effects(k) \ {i})
        BY <1>7, <3>2
      <4>5. Settled(k)' = Settled(k) + e.amount /\ Effects(k)' = Effects(k) \ {i}
        BY <1>7, <2>4, <3>3
      <4> QED
        BY <1>3, <1>5, <3>1, <4>1, <4>2, <4>3, <4>4, <4>5
    <3>4. CASE e.statement # k
      <4>1. PICK I \in SUBSET DOMAIN settlements : I = Effects(k)
        BY <3>2
      <4>2. Effects(k)' = I /\ Total(Paid', I) = Total(Paid, I)
        BY <1>7, <2>4, <3>4, <4>1
      <4>3. Settled(k)' = Settled(k) + 0 /\ Settled(k) = Total(Paid, I)
        BY <1>7, <3>1, <3>4, <4>1
      <4>4. Total(Paid', Effects(k)') = Settled(k)
        BY <4>2, <4>3
      <4> QED
        BY <3>1, <4>3, <4>4
    <3> QED
      BY <3>3, <3>4
  <2>6. StatementKeys' = StatementKeys
    BY <1>1 DEF StatementKeys, Key
  <2>7. \A j \in DOMAIN settlements' :
            /\ settlements'[j].statement \in StatementKeys
            /\ settlements'[j].reverses \in 0..Len(settlements')
            /\ settlements'[j].reverses = 0 => settlements'[j].amount > 0
    <3>1. CASE TRUE
      <4>1. ASSUME NEW j \in DOMAIN settlements
            PROVE  /\ settlements'[j].statement \in StatementKeys
                   /\ settlements'[j].reverses \in 0..n
                   /\ settlements'[j].reverses = 0 => settlements'[j].amount > 0
        BY <1>2, <1>7 DEF BillingInv, PaymentsStand
      <4>2. i \in 0..n /\ i # 0
        BY <1>2
      <4> QED
        BY <1>3, <1>5, <1>7, <4>1, <4>2
    <3> QED
      BY <3>1
  <2> QED
    BY <2>5, <2>6, <2>7 DEF PaymentsStand
<1> QED
  BY <1>1, <1>8, <1>9, <1>10, LedgerRests, RunRests DEF BillingInv

-----------------------------------------------------------------------------
LEMMA BillingKept == ASSUME BillingInv, [BillingNext]_billingVars PROVE BillingInv'
<1>1. CASE UNCHANGED billingVars
  <2>1. BillingTypeOK'
    BY <1>1 DEF billingVars, jobVars, billVars, payVars, BillingInv, BillingTypeOK
  <2> QED
    BY <1>1, <2>1, JobKeeps DEF billingVars
<1>2. CASE Trade
  BY <1>2, TradeKeeps, ResolveKeeps DEF Trade
<1>3. CASE Bill
  BY <1>3, StartRunKeeps, FinishRunKeeps DEF Bill
<1>4. CASE Collect
  BY <1>4, TakePaymentKeeps, SavePaymentKeeps, ReversePaymentKeeps DEF Collect
<1> QED
  BY <1>1, <1>2, <1>3, <1>4 DEF BillingNext

\* The inductive invariant of the statements, for any jobs, payees, fees and bounds.
THEOREM BillingInvariance == BillingSpec => []BillingInv
<1>1. BillingInv /\ [BillingNext]_billingVars => BillingInv'
  BY BillingKept
<1> QED
  BY BillingInitHolds, <1>1, PTL DEF BillingSpec

\* However runs, rulings, payments and reversals interleave, a statement's totals are
\* those of its lines, and what was paid on it is neither negative nor too much.
THEOREM StatementsReconcile == BillingSpec => []Reconciled
<1>1. BillingInv => Reconciled
  <2> SUFFICES ASSUME BillingInv PROVE Reconciled
    OBVIOUS
  <2>1. ASSUME NEW s \in statements PROVE ~Mismatch(s)
    <3>1. Key(s) \in StatementKeys
      BY DEF StatementKeys
    <3>2. Settled(Key(s)) >= 0
      BY <3>1, SettledNotNegative
    <3>3. Settled(Key(s)) \in Int /\ NetDue(s) \in Int
      BY SumsAreInts DEF BillingInv
    <3> QED
      BY <3>2, <3>3, MaxIs DEF Mismatch, BillingInv, StatementsAdd, WithinDue
  <2> QED
    BY <2>1 DEF Reconciled, BillingInv, StatementsAdd
<1> QED
  BY <1>1, BillingInvariance, PTL

\* Nobody is credited before being charged, nor for more than the charge.
THEOREM CreditsAreCharged == BillingSpec => []CreditsFollowCharges
<1>1. BillingInv => CreditsFollowCharges
  BY DEF BillingInv, BilledOnce, CutsWithinFees, CreditsFollowCharges, AdjustmentsOf, HasStatement
<1> QED
  BY <1>1, BillingInvariance, PTL

=============================================================================
