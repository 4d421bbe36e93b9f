------------------------------- MODULE Vetting -------------------------------
(***************************************************************************)
(* Review of what operators, vehicles, bases, businesses and groups claim: *)
(* one record for a subject and a domain, the documents attached to it,    *)
(* the decisions taken on it and the sweep that records what has lapsed.   *)
(*                                                                         *)
(* Every call locks its record before it reads it, so a call is one step.  *)
(* The documents of a record are one slot for each kind: a new one         *)
(* supersedes the last of its kind.  Of a date the model keeps whether     *)
(* there is one and whether it has passed.                                 *)
(***************************************************************************)
EXTENDS Naturals, FiniteSets

CONSTANTS
    Records,      \* pairs of a subject and a domain
    TypeOf,       \* record -> the type of its subject
    DomainOf,     \* record -> its domain
    Kinds,        \* record -> the kinds of document it takes
    People,
    Holders,      \* record -> those who act for its subject
    ApplicantOf,  \* record -> the operator, business or group it is reviewed with, or None
    Admins,       \* platform administrators: they may submit for anyone
    Reviewers,    \* those with the permission verification.decide
    MaxBranches,  \* bound: active locations of a business other than its main one
    None

ValidDomains ==
    [OPERATOR |-> {"IDENTITY", "LICENCE", "GOOD_CONDUCT", "DOCUMENT"},
     VEHICLE  |-> {"VEHICLE", "HEAVY_CLASS_COMPLIANCE", "ASSOCIATION", "DOCUMENT"},
     BASE     |-> {"BASE", "DOCUMENT"},
     BUSINESS |-> {"BUSINESS", "DOCUMENT"},
     GROUP    |-> {"GROUP", "DOCUMENT"}]

ASSUME RecordsAssumption ==
    /\ IsFiniteSet(Records) /\ IsFiniteSet(People)
    /\ \A r \in Records : TypeOf[r] \in DOMAIN ValidDomains
    /\ \A r \in Records : DomainOf[r] \in ValidDomains[TypeOf[r]]
ASSUME PeopleAssumption ==
    /\ Admins \subseteq People /\ Reviewers \subseteq People /\ None \notin People
    /\ \A r \in Records : Holders[r] \subseteq People
ASSUME BranchesAssumption == MaxBranches \in Nat

States == {"NOT_SUBMITTED", "SUBMITTED", "IN_REVIEW", "INFO_REQUESTED",
           "VERIFIED", "REJECTED", "EXPIRED"}

\* Dates: none given, still to come, in the past.
Dates == {"NEVER", "AHEAD", "PAST"}

VARIABLES
    record,       \* state, expiry, reviewer and owner of each record
    document,     \* record -> kind -> "NONE" or the date the current one expires
    submitters,   \* record -> the actors of its SUBMIT decisions
    organisation, \* record of an organisation -> its verification_status flag
    locations,    \* record -> the active locations of its business
    asked,        \* history: submitted and not ruled on since
    ruling,       \* history: the last approval or rejection
    unseen        \* history: documents were attached since the review started

vars == <<record, document, submitters, organisation, locations, asked, ruling, unseen>>

RecordRows == [state : States, expires : Dates,
               reviewer : People \cup {None}, owner : People \cup {None}]

\* The current document of a kind: none, or when it expires.
DocumentSlots == Dates \cup {"NONE"}

\* An unsubmitted record: get_or_create_record makes it when it is first asked for.
NewRecord == [state |-> "NOT_SUBMITTED", expires |-> "NEVER",
              reviewer |-> None, owner |-> None]

\* One main location at most; all others count alike.
LocationRows == [main : BOOLEAN, branches : 0..MaxBranches]

NoLocations == [main |-> FALSE, branches |-> 0]

EvidenceOptional == {"BUSINESS", "GROUP"}

\* Registering a business or a group submits its details.
Init ==
    \E founder \in [Records -> People] :
        LET registers(r) == DomainOf[r] \in EvidenceOptional
        IN /\ \A r \in Records : Holders[r] # {} => founder[r] \in Holders[r]
           /\ record = [r \in Records |->
                 [NewRecord EXCEPT !.state = IF registers(r) THEN "SUBMITTED" ELSE @]]
           /\ document = [r \in Records |-> [k \in Kinds[r] |-> "NONE"]]
           /\ submitters = [r \in Records |-> IF registers(r) THEN {founder[r]} ELSE {}]
           /\ organisation = [r \in Records |-> "UNVERIFIED"]
           /\ locations = [r \in Records |-> NoLocations]
           /\ asked = [r \in Records |-> registers(r)]
           /\ ruling = [r \in Records |-> "NONE"]
           /\ unseen = [r \in Records |-> FALSE]

-----------------------------------------------------------------------------
\* A verified record past its expiry counts as expired before the sweep says so.
EffectiveState(r) ==
    IF record[r].state = "VERIFIED" /\ record[r].expires = "PAST"
    THEN "EXPIRED" ELSE record[r].state

\* Mutant of AwaitsReview: only a record nobody has taken up is closed to changes.
AwaitsStart(r) == record[r].state = "SUBMITTED"

AwaitsReview(r) == EffectiveState(r) \in {"SUBMITTED", "IN_REVIEW"}

\* Mutant of Open: a record sent back for information leaves the queue.
OpenToReviewers(r) == record[r].state \in {"SUBMITTED", "IN_REVIEW"}

Open(r) == record[r].state \in {"SUBMITTED", "IN_REVIEW", "INFO_REQUESTED"}

\* Whoever holds the subject, and an administrator on their behalf.
MaySubmit(p, r) == p \in Holders[r] \cup Admins

IsReviewer(p) == p \in Reviewers

HasActiveLocation(r) == locations[r] # NoLocations

HasEvidence(r) == \E k \in Kinds[r] : document[r][k] # "NONE"

\* The earliest date among the current documents, else the recheck of good conduct.
SuggestedExpiry(r) ==
    LET dates == {document[r][k] : k \in Kinds[r]}
    IN CASE "PAST" \in dates  -> "PAST"
         [] "AHEAD" \in dates -> "AHEAD"
         [] DomainOf[r] = "GOOD_CONDUCT" -> "AHEAD"
         [] OTHER -> "NEVER"

\* The records a reviewer has to look at, and the applicants they are shown by: an
\* operator with its vehicles and bases, a group with its vehicles, a business.
Queue == {r \in Records : Open(r)}

Scope(a) == {r \in Records : ApplicantOf[r] = a}

Applicants ==
    {a \in {ApplicantOf[r] : r \in Records} \ {None} : \E r \in Scope(a) : Open(r)}

\* Mutant of MayReview: only those who hold the subject are kept from reviewing.
MayReviewUnheld(p, r) == IsReviewer(p) /\ p \notin Holders[r]

\* Only those who never submitted this record may review it.
MayReview(p, r) == IsReviewer(p) /\ p \notin submitters[r]

\* The flag jobs are published under.
SetVerificationStatus(r, verified) ==
    organisation' =
        [organisation EXCEPT ![r] = IF verified THEN "VERIFIED" ELSE "UNVERIFIED"]

\* Mutant of SyncFlag: the flag is set by an approval and never taken back.
SyncFlagOnce(r, verified) ==
    IF DomainOf[r] \in EvidenceOptional /\ verified
    THEN SetVerificationStatus(r, TRUE) ELSE UNCHANGED organisation

\* An organisation's own flag follows the ruling on its details.
SyncFlag(r, verified) ==
    IF DomainOf[r] \in EvidenceOptional
    THEN SetVerificationStatus(r, verified) ELSE UNCHANGED organisation

-----------------------------------------------------------------------------
\* A document is attached, and supersedes the current one of its kind.
AddEvidence(r, k, date) ==
    /\ ~AwaitsReview(r)
    /\ document' = [document EXCEPT ![r][k] = date]
    /\ unseen' = [unseen EXCEPT ![r] = TRUE]
    /\ UNCHANGED <<record, submitters, organisation, locations, asked, ruling>>

\* Sent to the reviewers, for the first time or again; the expiry stays as it was.
MarkSubmitted(p, r) ==
    /\ ~AwaitsReview(r)
    /\ DomainOf[r] \in EvidenceOptional \/ HasEvidence(r)
    /\ record' = [record EXCEPT ![r] =
           [@ EXCEPT !.state = "SUBMITTED", !.reviewer = None, !.owner = None]]
    /\ submitters' = [submitters EXCEPT ![r] = @ \cup {p}]
    /\ asked' = [asked EXCEPT ![r] = TRUE]
    /\ UNCHANGED <<document, organisation, locations, ruling, unseen>>

\* The calls of the API: the right to submit is asked before the service is called.
UploadEvidence(p, r) ==
    /\ MaySubmit(p, r)
    /\ \E k \in Kinds[r], date \in {"NEVER", "AHEAD"} : AddEvidence(r, k, date)

SubmitRecord(p, r) == MaySubmit(p, r) /\ MarkSubmitted(p, r)

\* A decision is appended and the record follows it; a verdict closes the submission.
RecordDecision(r, row, verdict) ==
    /\ record' = [record EXCEPT ![r] = row]
    /\ ruling' = IF verdict = "NONE" THEN ruling ELSE [ruling EXCEPT ![r] = verdict]
    /\ asked' = IF verdict = "NONE" THEN asked ELSE [asked EXCEPT ![r] = FALSE]

StartReview(p, r) ==
    /\ MayReview(p, r)
    /\ record[r].state \in {"SUBMITTED", "INFO_REQUESTED"}
    /\ RecordDecision(r, [record[r] EXCEPT !.state = "IN_REVIEW", !.owner = p], "NONE")
    /\ unseen' = [unseen EXCEPT ![r] = FALSE]
    /\ UNCHANGED <<document, submitters, organisation, locations>>

\* The one decision that does not ask who submitted.
RequestInfo(p, r) ==
    /\ IsReviewer(p)
    /\ record[r].state = "IN_REVIEW"
    /\ RecordDecision(r, [record[r] EXCEPT !.state = "INFO_REQUESTED"], "NONE")
    /\ UNCHANGED <<document, submitters, organisation, locations, unseen>>

\* The reviewer gives an expiry or takes the suggested one.
Approve(p, r, given) ==
    /\ MayReview(p, r)
    /\ record[r].state = "IN_REVIEW"
    /\ DomainOf[r] = "BUSINESS" => HasActiveLocation(r)
    /\ LET expires == IF given = "NEVER" THEN SuggestedExpiry(r) ELSE given
           row == [record[r] EXCEPT !.state = "VERIFIED", !.reviewer = p,
                                    !.expires = expires]
       IN RecordDecision(r, row, "APPROVE")
    /\ SyncFlag(r, TRUE)
    /\ UNCHANGED <<document, submitters, locations, unseen>>

Reject(p, r) ==
    /\ MayReview(p, r)
    /\ record[r].state = "IN_REVIEW"
    /\ RecordDecision(r, [record[r] EXCEPT !.state = "REJECTED", !.reviewer = p], "REJECT")
    /\ SyncFlag(r, FALSE)
    /\ UNCHANGED <<document, submitters, locations, unseen>>

\* The sweep, a command somebody runs or does not: every verified record past its
\* expiry, together.  The flag of an organisation stays as it is.
Lapsed(r) == record[r].state = "VERIFIED" /\ record[r].expires = "PAST"

ExpireDue ==
    /\ \E r \in Records : Lapsed(r)
    /\ record' = [r \in Records |->
           IF Lapsed(r) THEN [record[r] EXCEPT !.state = "EXPIRED"] ELSE record[r]]
    /\ UNCHANGED <<document, submitters, organisation, locations, asked, ruling, unseen>>

\* A date passes: of a record, or of a document attached to it.
RecordLapses(r) ==
    /\ record[r].expires = "AHEAD"
    /\ record' = [record EXCEPT ![r].expires = "PAST"]
    /\ UNCHANGED <<document, submitters, organisation, locations, asked, ruling, unseen>>

DocumentLapses(r, k) ==
    /\ document[r][k] = "AHEAD"
    /\ document' = [document EXCEPT ![r][k] = "PAST"]
    /\ UNCHANGED <<record, submitters, organisation, locations, asked, ruling, unseen>>

SaveLocations(r, main, branches) ==
    /\ TypeOf[r] = "BUSINESS" /\ branches \in 0..MaxBranches
    /\ locations' = [locations EXCEPT ![r] = [main |-> main, branches |-> branches]]
    /\ UNCHANGED <<record, document, submitters, organisation, asked, ruling, unseen>>

\* A new main location makes a branch of the main one there is.
DemoteExistingMain(r) == locations[r].branches + (IF locations[r].main THEN 1 ELSE 0)

CreateLocation(r) ==
    \/ SaveLocations(r, TRUE, DemoteExistingMain(r))
    \/ SaveLocations(r, locations[r].main, locations[r].branches + 1)

\* A branch becomes the main location, or the main one a branch.
UpdateLocation(r) ==
    \/ /\ locations[r].branches > 0
       /\ SaveLocations(r, TRUE, DemoteExistingMain(r) - 1)
    \/ locations[r].main /\ SaveLocations(r, FALSE, locations[r].branches + 1)

\* Nothing keeps the last location of a verified business.
DeactivateLocation(r) ==
    \/ /\ locations[r].branches > 0
       /\ SaveLocations(r, locations[r].main, locations[r].branches - 1)
    \/ locations[r].main /\ SaveLocations(r, FALSE, locations[r].branches)

LocationCalls(r) == CreateLocation(r) \/ UpdateLocation(r) \/ DeactivateLocation(r)

\* The reviewer's four calls.
Review(p, r) ==
    \/ StartReview(p, r)
    \/ RequestInfo(p, r)
    \/ \E given \in {"NEVER", "AHEAD"} : Approve(p, r, given)
    \/ Reject(p, r)

Passing ==
    \E r \in Records :
        \/ RecordLapses(r)
        \/ \E k \in Kinds[r] : DocumentLapses(r, k)
        \/ LocationCalls(r)

Next ==
    \/ \E p \in People, r \in Records :
           UploadEvidence(p, r) \/ SubmitRecord(p, r) \/ Review(p, r)
    \/ Passing
    \/ ExpireDue

\* Nobody has to do anything: the sweep is not among the scheduled tasks.
Spec == Init /\ [][Next]_vars

-----------------------------------------------------------------------------
(* Properties. *)

TypeOK ==
    /\ record \in [Records -> RecordRows]
    /\ \A r \in Records : document[r] \in [Kinds[r] -> DocumentSlots]
    /\ submitters \in [Records -> SUBSET People]
    /\ organisation \in [Records -> {"UNVERIFIED", "VERIFIED"}]
    /\ locations \in [Records -> LocationRows]
    /\ asked \in [Records -> BOOLEAN]
    /\ ruling \in [Records -> {"NONE", "APPROVE", "REJECT"}]
    /\ unseen \in [Records -> BOOLEAN]

\* Whatever was ruled on stands on the word of somebody who never submitted it, over
\* any number of submissions by the subject, its co-owners and administrators
\* (_assert_reviewer_not_submitter looks at every submission, mark_submitted forgets
\* the reviewer).
ReviewerIndependent ==
    \A r \in Records :
        /\ record[r].state \in {"VERIFIED", "REJECTED", "EXPIRED"} =>
               record[r].reviewer \in Reviewers \ submitters[r]
        /\ record[r].state = "IN_REVIEW" => record[r].owner \notin submitters[r]

\* The documents under review are those the reviewer saw when taking it up: whoever
\* attaches one to a record sent back for information makes a reviewer start again.
EvidenceUnderReviewStands ==
    \A r \in Records : record[r].state = "IN_REVIEW" => ~unseen[r]

\* A record submitted and not ruled on is in the queue, and only such a record is; its
\* applicant is listed as long as one of the records reviewed together waits.
WaitingIsListed ==
    /\ Queue = {r \in Records : asked[r]}
    /\ \A r \in Records :
           asked[r] /\ ApplicantOf[r] # None => \E a \in Applicants : r \in Scope(a)

\* A business or group works under the last ruling on its details, also while a new
\* submission is looked at and after the record has lapsed.
FlagIsLastRuling ==
    \A r \in Records :
        organisation[r] = "VERIFIED" <=>
            DomainOf[r] \in EvidenceOptional /\ ruling[r] = "APPROVE"
=============================================================================
