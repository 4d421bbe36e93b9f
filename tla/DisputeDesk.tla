----------------------------- MODULE DisputeDesk -----------------------------
(***************************************************************************)
(* The incidents of one job, the disputes opened on them and the staff who *)
(* review, escalate, close and resolve.                                    *)
(*                                                                         *)
(* start_review, start_amicable_window and escalate read a row without a   *)
(* lock and write it back; close_incident locks its incident and reads the *)
(* disputes beside it; open_dispute locks the job and reads the incidents  *)
(* beside it.  Each of these is two steps here: what it reads, kept on the *)
(* desk, and what it writes.  resolve_dispute, resume_dispute and the      *)
(* findings hold every lock they need and are one step.                    *)
(***************************************************************************)
EXTENDS Naturals, Sequences, FiniteSets

CONSTANTS
    Incidents,    \* the incidents that may be reported
    Serious,      \* those of a serious type
    Officers,     \* calls in flight
    None,         \* no incident
    MaxDisputes   \* bound on the disputes of the job

ASSUME IncidentsAssumption == Serious \subseteq Incidents /\ None \notin Incidents
ASSUME DisputesAssumption == MaxDisputes \in Nat

VARIABLES
    job,        \* under way, disputed, complete within its window, or ended
    incident,   \* the status of each incident
    closures,   \* the closure records: an incident, the dispute that closed it (0: none)
    disputes,   \* the job's disputes in order, each with its ruling
    finding,    \* Fikisha's current finding on each incident: no fault, or another
    unfounded,  \* the reports recorded as unfounded
    desk        \* officer -> the call that has read and not yet written

vars == <<job, incident, closures, disputes, finding, unfounded, desk>>

Idle == [doing |-> "NOTHING", about |-> {}, blocking |-> None, dispute |-> 0]

Init ==
    /\ job = "UNDERWAY"
    /\ incident = [i \in Incidents |-> "NONE"]
    /\ closures = {}
    /\ disputes = <<>>
    /\ finding = [i \in Incidents |-> "NONE"]
    /\ unfounded = {}
    /\ desk = [o \in Officers |-> Idle]

-----------------------------------------------------------------------------
\* Not yet resolved: what a review, a closure or a dispute may be about.
Eligible(i) == incident[i] \notin {"NONE", "RESOLVED"}

HasClosure(i) == \E c \in closures : c.incident = i

Unresolved == {k \in DOMAIN disputes : disputes[k].status # "RESOLVED"}

\* The rows a call in flight has locked.
LocksIncident(i) == \E o \in Officers : desk[o].doing = "CLOSE" /\ i \in desk[o].about
LocksJob == \E o \in Officers : desk[o].doing = "OPEN"

Takes(o, call) ==
    /\ desk[o] = Idle
    /\ desk' = [desk EXCEPT ![o] = call]
    /\ UNCHANGED <<job, incident, closures, disputes, finding, unfounded>>

Leaves(o) == desk' = [desk EXCEPT ![o] = Idle]

\* A call fails: refused, a constraint of the database, a deadlock.
Fail(o) ==
    /\ desk[o] # Idle
    /\ Leaves(o)
    /\ UNCHANGED <<job, incident, closures, disputes, finding, unfounded>>

\* The parties or staff report an incident.  What the recipient reports through
\* its link is kept apart: nothing turns it into an incident.
Report(i) ==
    /\ incident[i] = "NONE"
    /\ incident' = [incident EXCEPT ![i] = "OPEN"]
    /\ UNCHANGED <<job, closures, disputes, finding, unfounded, desk>>

-----------------------------------------------------------------------------
(* Review and escalation: read, then write whatever happened meanwhile. *)

\* start_review and start_amicable_window.
TakeUp(o, i) ==
    /\ Eligible(i)
    /\ Takes(o, [Idle EXCEPT !.doing = "REVIEW", !.about = {i}])

\* UNDER_REVIEW, AMICABLE_PENDING and ESCALATED count alike: in hand.
InHand(is) == [i \in Incidents |-> IF i \in is THEN "IN_HAND" ELSE incident[i]]

SaveReview(o) ==
    /\ desk[o].doing = "REVIEW"
    /\ \A i \in desk[o].about : ~LocksIncident(i)
    /\ incident' = InHand(desk[o].about)
    /\ Leaves(o)
    /\ UNCHANGED <<job, closures, disputes, finding, unfounded>>

\* A resolved incident may be escalated; its status then stays.
TakeUpEscalation(o, i) ==
    /\ incident[i] # "NONE"
    /\ \E k \in IF Unresolved = {} THEN {0} ELSE Unresolved :
           Takes(o, [Idle EXCEPT !.doing = "ESCALATE",
                                 !.about = IF Eligible(i) THEN {i} ELSE {},
                                 !.dispute = k])

\* Mutant: no constraint keeps a second dispute from being open.
KeepsOneOpenAlways(k) == TRUE

\* uq_dispute_one_open_per_job.
KeepsOneOpen(k) == Unresolved \subseteq {k}

SaveEscalation(o) ==
    LET k == desk[o].dispute IN
    /\ desk[o].doing = "ESCALATE"
    /\ \A i \in desk[o].about : ~LocksIncident(i)
    /\ k # 0 => KeepsOneOpen(k)
    /\ incident' = InHand(desk[o].about)
    /\ disputes' = [j \in DOMAIN disputes |->
                       IF j = k THEN [disputes[j] EXCEPT !.status = "ESCALATED"] ELSE disputes[j]]
    /\ Leaves(o)
    /\ UNCHANGED <<job, closures, finding, unfounded>>

-----------------------------------------------------------------------------
(* Closing an incident outside a dispute. *)

TakeUpClosing(o, i) ==
    /\ Eligible(i)
    /\ ~LocksIncident(i)
    /\ \A k \in Unresolved : i \notin disputes[k].incidents
    /\ Takes(o, [Idle EXCEPT !.doing = "CLOSE", !.about = {i}])

\* Mutant: the closure record of a reopened incident is not unique.
RecordsTwice(is, k) == closures' = closures \cup {[incident |-> i, dispute |-> k] : i \in is}

\* One closure record per incident: the database refuses a second.
Records(is, k) ==
    /\ \A i \in is : ~HasClosure(i)
    /\ closures' = closures \cup {[incident |-> i, dispute |-> k] : i \in is}

Close(o) ==
    /\ desk[o].doing = "CLOSE"
    /\ Records(desk[o].about, 0)
    /\ incident' = [i \in Incidents |-> IF i \in desk[o].about THEN "RESOLVED" ELSE incident[i]]
    /\ Leaves(o)
    /\ UNCHANGED <<job, disputes, finding, unfounded>>

-----------------------------------------------------------------------------
(* Disputes. *)

TakeUpDispute(o, named) ==
    /\ ~LocksJob
    /\ Unresolved = {}
    /\ \A i \in named : incident[i] # "NONE"
    /\ \E i \in named :
           /\ Eligible(i)
           /\ Takes(o, [Idle EXCEPT !.doing = "OPEN", !.about = named, !.blocking = i])

\* The transition's guard asks again whether the incident is open.
BlockingIncidentExists(o) == Eligible(desk[o].blocking)

\* For a job that is under way or completed within its window.
OpenDispute(o) ==
    /\ desk[o].doing = "OPEN"
    /\ BlockingIncidentExists(o)
    /\ job \in {"UNDERWAY", "COMPLETED"}
    /\ Len(disputes) < MaxDisputes /\ KeepsOneOpen(Len(disputes) + 1)
    /\ disputes' = Append(disputes,
           [incidents |-> desk[o].about, status |-> "OPEN", pre |-> job, ruling |-> "NONE"])
    /\ job' = "DISPUTED"
    /\ Leaves(o)
    /\ UNCHANGED <<incident, closures, finding, unfounded>>

\* The dispute has its one ruling.
ResolutionRecorded(k) == disputes[k].ruling # "NONE"

OpenOnes(k) == {i \in disputes[k].incidents : Eligible(i)}

\* What resolving and resuming have in common: one ruling per dispute, every
\* incident of it that is still open closed with a record, the job moved on.
Rules(k, ruling, to) ==
    /\ disputes[k].status # "RESOLVED" /\ ~ResolutionRecorded(k)
    /\ job = "DISPUTED" /\ ~LocksJob
    /\ \A i \in disputes[k].incidents : ~LocksIncident(i)
    /\ disputes' = [disputes EXCEPT ![k].status = "RESOLVED", ![k].ruling = ruling]
    /\ job' = to
    /\ Records(OpenOnes(k), k)
    /\ incident' = [i \in Incidents |-> IF i \in OpenOnes(k) THEN "RESOLVED" ELSE incident[i]]
    /\ UNCHANGED <<finding, unfounded, desk>>

ResolveDispute(k) == \E to \in {"COMPLETED", "ENDED"} : Rules(k, "ROUTED", to)

\* Within its time, with an assignment that is still good, and with a finding
\* on every serious incident.
MayResume(k) ==
    /\ disputes[k].pre = "UNDERWAY"
    /\ \A i \in disputes[k].incidents \cap Serious : finding[i] # "NONE"

ResumeDispute(k) ==
    /\ MayResume(k)
    /\ Rules(k, "RESUMED", disputes[k].pre)

-----------------------------------------------------------------------------
(* Findings. *)

RecordFinding(i, outcome) ==
    /\ incident[i] # "NONE" /\ ~LocksIncident(i)
    /\ finding' = [finding EXCEPT ![i] = outcome]
    /\ UNCHANGED <<job, incident, closures, disputes, unfounded, desk>>

\* A closed incident that Fikisha found no fault in, once.
MayCallUnfounded(i) ==
    incident[i] = "RESOLVED" /\ finding[i] = "NO_FAULT" /\ i \notin unfounded

RecordUnfounded(i) ==
    /\ MayCallUnfounded(i) /\ ~LocksIncident(i)
    /\ unfounded' = unfounded \cup {i}
    /\ UNCHANGED <<job, incident, closures, disputes, finding, desk>>

-----------------------------------------------------------------------------
(* The job. *)

\* The parties complete or end the job, or its dispute window closes.  The
\* sender's closing asks for no unresolved dispute.
JobMoves ==
    /\ ~LocksJob
    /\ \/ job = "UNDERWAY" /\ Unresolved = {} /\ job' = "COMPLETED"
       \/ job \in {"UNDERWAY", "COMPLETED"} /\ job' = "ENDED"
    /\ UNCHANGED <<incident, closures, disputes, finding, unfounded, desk>>

-----------------------------------------------------------------------------
ReportCalls == \E i \in Incidents : Report(i)

IncidentCalls ==
    \/ \E o \in Officers :
           \/ \E i \in Incidents : TakeUp(o, i) \/ TakeUpEscalation(o, i) \/ TakeUpClosing(o, i)
           \/ SaveReview(o) \/ SaveEscalation(o) \/ Close(o)
    \/ \E i \in Incidents :
           \/ \E outcome \in {"NO_FAULT", "OTHER"} : RecordFinding(i, outcome)
           \/ RecordUnfounded(i)

DisputeCalls ==
    \/ \E o \in Officers :
           \/ \E named \in SUBSET Incidents : TakeUpDispute(o, named)
           \/ OpenDispute(o)
    \/ \E k \in DOMAIN disputes : ResolveDispute(k) \/ ResumeDispute(k)

Next ==
    \/ ReportCalls \/ IncidentCalls \/ DisputeCalls
    \/ \E o \in Officers : Fail(o)
    \/ JobMoves

Spec == Init /\ [][Next]_vars

-----------------------------------------------------------------------------
(* Properties. *)

IncidentStatus == {"NONE", "OPEN", "IN_HAND", "RESOLVED"}
Rulings == {"NONE", "ROUTED", "RESUMED"}
Dispute ==
    [incidents : SUBSET Incidents, status : {"OPEN", "ESCALATED", "RESOLVED"},
     pre : {"UNDERWAY", "COMPLETED"}, ruling : Rulings]
Call ==
    [doing : {"NOTHING", "REVIEW", "ESCALATE", "CLOSE", "OPEN"},
     about : SUBSET Incidents, blocking : Incidents \cup {None}, dispute : 0..MaxDisputes]

\* Every column keeps its type.
TypeOK ==
    /\ job \in {"UNDERWAY", "DISPUTED", "COMPLETED", "ENDED"}
    /\ incident \in [Incidents -> IncidentStatus]
    /\ closures \subseteq [incident : Incidents, dispute : 0..MaxDisputes]
    /\ disputes \in Seq(Dispute) /\ Len(disputes) <= MaxDisputes
    /\ finding \in [Incidents -> {"NONE", "NO_FAULT", "OTHER"}]
    /\ unfounded \subseteq Incidents
    /\ desk \in [Officers -> Call]

\* A disputed job has exactly one dispute to resolve, and it can be: no
\* escalation of an older dispute comes between.
FrozenByOneDispute ==
    job = "DISPUTED" =>
        \E k \in DOMAIN disputes : Unresolved = {k} /\ disputes[k].ruling = "NONE"

\* Every resolved incident has its one closure record, whichever of staff and
\* disputes closed it; what a dispute closed it named and ruled on; a report
\* stays called unfounded of a closed incident alone; and a job was resumed
\* after a serious incident only with a finding on it.
ClosuresAccounted ==
    /\ \A i \in Incidents : incident[i] = "RESOLVED" => HasClosure(i)
    /\ \A c, d \in closures : c.incident = d.incident => c = d
    /\ \A c \in closures : c.dispute # 0 =>
           /\ c.incident \in disputes[c.dispute].incidents
           /\ disputes[c.dispute].ruling # "NONE"
    /\ \A i \in unfounded : HasClosure(i)
    /\ \A k \in DOMAIN disputes : disputes[k].ruling = "RESUMED" =>
           \A i \in disputes[k].incidents \cap Serious : finding[i] # "NONE"
=============================================================================
