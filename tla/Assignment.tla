----------------------------- MODULE Assignment -----------------------------
(***************************************************************************)
(* A confirmed job is given a driver and a vehicle.  The screen that offers *)
(* them and the call that assigns them read the same facts, which others   *)
(* change in between and meanwhile: verification lapses, tiers move, staff  *)
(* suspend, owners take vehicles off the road.                             *)
(*                                                                         *)
(* The call holds the job's row only: it reads the driver, the vehicle and *)
(* the review once to check them and the tier once more to record it.      *)
(***************************************************************************)
EXTENDS Integers, FiniteSets

CONSTANTS
    Drivers,     \* operators with a profile
    Confirmed,   \* the operator of the agreement, when it is not a group's
    Requester,   \* who created the job
    Vehicles,
    admin,       \* a Platform Admin
    officer,     \* an Operations Officer
    manager,     \* manages the group and drives nothing
    Bands,       \* the value bands the job may have
    Levels       \* the tiers the drivers move between

ASSUME AssignmentAssumption ==
    /\ IsFiniteSet(Drivers) /\ IsFiniteSet(Vehicles) /\ Confirmed \in Drivers
    /\ Cardinality({admin, officer, manager}) = 3
    /\ {admin, officer, manager} \cap Drivers = {}
    /\ Bands \subseteq {"STANDARD", "ELEVATED", "HIGH", "VERY_HIGH"}
    /\ "L1" \in Levels /\ Levels \subseteq {"L0", "L1", "L2", "L3"}

Actors == Drivers \cup {admin, officer, manager}

\* ACTIVE stands for every status but PENDING: assignment asks for no more.
Statuses == {"PENDING", "ACTIVE"}

\* INACTIVE stands for UNDER_REPAIR too: neither is active, the owner sets both.
VehicleStatuses == {"ACTIVE", "INACTIVE", "SUSPENDED"}

Unregistered == [status |-> "NONE"]

HighValueBands == {"HIGH", "VERY_HIGH"}

\* What a tier reaches and what a band asks; RESTRICTED reaches what L1 does.
LevelOrder == [L0 |-> 0, L1 |-> 1, L2 |-> 2, L3 |-> 3]

BandNeeds == [STANDARD |-> 1, ELEVATED |-> 2, HIGH |-> 3, VERY_HIGH |-> 3]

NoAssignment == [driver |-> "none"]

VARIABLES
    driver,      \* driver -> status, tier, member of the group
    vehicle,     \* vehicle -> status, owner, gone for good, fit for this job
    group,       \* suspended; drivers take its work themselves
    party, band, \* whose agreement, and what the goods are worth
    review,      \* the high-value decision, and its reversal
    job, call, assignment,
    ruledOut     \* history: vehicles staff suspended and did not release

factVars == <<driver, vehicle, group, review, ruledOut>>
jobVars == <<party, band, job, call, assignment>>
vars == <<factVars, jobVars>>

Init ==
    /\ driver = [d \in Drivers |-> [status |-> "ACTIVE", level |-> "L1", member |-> TRUE]]
    /\ party \in {"OPERATOR", "GROUP"} /\ band \in Bands
    /\ vehicle = [v \in Vehicles |-> Unregistered]
    /\ group = [suspended |-> FALSE, driverAccepts |-> FALSE]
    /\ review = [decision |-> "NONE", byPlatformAdmin |-> FALSE, reversed |-> FALSE]
    /\ job = "CONFIRMED" /\ call = NoAssignment /\ assignment = NoAssignment
    /\ ruledOut = {}

-----------------------------------------------------------------------------
(* What the guards and the screen read. *)

IsAdmin(p) == p \in {admin, officer}

Manages(p) == p = manager

\* The tier as trust gives it: L0 without the verification under every tier.
TrustLevel(d) == driver[d].level

Covers(level) == LevelOrder[level] >= BandNeeds[band]

DriverVerified(d) == TrustLevel(d) # "L0"

TrustCeilingCovers(d, override) == Covers(TrustLevel(d)) \/ override

Registered == {v \in Vehicles : vehicle[v] # Unregistered}

IsActive(v) == v \in Registered /\ vehicle[v].status = "ACTIVE" /\ ~vehicle[v].gone

VehicleEligible(v) == IsActive(v) /\ vehicle[v].owner = party /\ vehicle[v].fit

\* The standing decision: a reversal approves as a Platform Admin's decision.
EffectiveDecision ==
    IF review.reversed
    THEN [decision |-> "APPROVED", byPlatformAdmin |-> TRUE]
    ELSE [decision |-> review.decision, byPlatformAdmin |-> review.byPlatformAdmin]

HighValueApproved ==
    band \in HighValueBands =>
        /\ EffectiveDecision.decision = "APPROVED"
        /\ band = "VERY_HIGH" => EffectiveDecision.byPlatformAdmin

\* Nobody carries their own goods, nor has those carry them whom they lead.
RequesterIsNotProvider(d) ==
    Requester # d /\ Requester # IF party = "OPERATOR" THEN Confirmed ELSE manager

DriverAllowed(d) ==
    /\ driver[d].status # "PENDING"
    /\ IF party = "OPERATOR" THEN d = Confirmed
       ELSE ~group.suspended /\ driver[d].member

SelfAssigns(p, d) ==
    IF party = "OPERATOR" THEN p = Confirmed
    ELSE group.driverAccepts /\ p = d /\ driver[d].member

ResolveAuthority(p, d) ==
    \/ IsAdmin(p)
    \/ party = "GROUP" /\ Manages(p)
    \/ SelfAssigns(p, d)

\* Mutant of OverrideHeard: whoever sends a reason for an exception is heard.
OverrideSent(p, reason) == reason

\* Only staff may make an exception.
OverrideHeard(p, reason) == reason /\ IsAdmin(p)

AssignAllowed(p, d, v, reason) ==
    /\ job = "CONFIRMED"
    /\ ResolveAuthority(p, d)
    /\ RequesterIsNotProvider(d)
    /\ DriverAllowed(d)
    /\ VehicleEligible(v)
    /\ DriverVerified(d) /\ TrustCeilingCovers(d, OverrideHeard(p, reason))
    /\ HighValueApproved

-----------------------------------------------------------------------------
(* The screen before the call. *)

\* Mutant of Pool: the group's screen is its manager's only.
ManagersPool(p) ==
    IF party = "OPERATOR" THEN {d \in {Confirmed} : IsAdmin(p) \/ p = Confirmed}
    ELSE {d \in Drivers : driver[d].member /\ (IsAdmin(p) \/ Manages(p))}

\* Whom the screen lists: a manager sees every member, a driver only herself.
Pool(p) ==
    IF party = "OPERATOR" THEN {d \in {Confirmed} : IsAdmin(p) \/ p = Confirmed}
    ELSE {d \in Drivers : driver[d].member
              /\ (IsAdmin(p) \/ Manages(p) \/ (group.driverAccepts /\ p = d))}

DriverRowEligible(d) ==
    /\ DriverVerified(d) /\ TrustCeilingCovers(d, FALSE)
    /\ party = "GROUP" => ~group.suspended

ListedVehicles == {v \in Registered : vehicle[v].owner = party /\ ~vehicle[v].gone}

\* The pairs the screen lets an actor pick.
Candidates(p) ==
    IF ~HighValueApproved THEN {}
    ELSE {d \in Pool(p) : DriverRowEligible(d)} \X {v \in ListedVehicles : VehicleEligible(v)}

-----------------------------------------------------------------------------
(* The call: checked, then written; no other call touches the job meanwhile. *)

AssignJob(p, d, v, reason) ==
    /\ call = NoAssignment
    /\ AssignAllowed(p, d, v, reason)
    /\ call' = [driver |-> d, vehicle |-> v, by |-> p,
                override |-> OverrideHeard(p, reason), level |-> TrustLevel(d)]
    /\ UNCHANGED <<factVars, party, band, job, assignment>>

\* The tier is read again for the record; one that is gone is recorded as L1.
Assign ==
    /\ call # NoAssignment
    /\ assignment' =
           [driver |-> call.driver, vehicle |-> call.vehicle, by |-> call.by,
            override |-> call.override, moved |-> TrustLevel(call.driver) # call.level,
            level |-> IF TrustLevel(call.driver) = "L0" THEN "L1" ELSE TrustLevel(call.driver)]
    /\ job' = "ASSIGNED" /\ call' = NoAssignment
    /\ UNCHANGED <<factVars, party, band>>

-----------------------------------------------------------------------------
(* The high-value review: one decision for a job, whatever its status. *)

MayDecide(p) == IF band = "VERY_HIGH" THEN p = admin ELSE IsAdmin(p)

DecideHighValue(p, decision) ==
    /\ band \in HighValueBands /\ MayDecide(p)
    /\ review.decision = "NONE"
    /\ review' = [review EXCEPT !.decision = decision, !.byPlatformAdmin = (p = admin)]
    /\ UNCHANGED <<driver, vehicle, group, ruledOut, jobVars>>

ReverseRejection(p) ==
    /\ p = admin /\ review.decision = "REJECTED" /\ ~review.reversed
    /\ review' = [review EXCEPT !.reversed = TRUE]
    /\ UNCHANGED <<driver, vehicle, group, ruledOut, jobVars>>

-----------------------------------------------------------------------------
(* What others change meanwhile. *)

UpdateProfile(d, status) ==
    /\ driver[d].status # status
    /\ driver' = [driver EXCEPT ![d].status = status]
    /\ UNCHANGED <<vehicle, group, review, ruledOut, jobVars>>

\* A review of the driver's papers or their expiry, and a change of tier.
StandingMoves(d) ==
    /\ \E l \in Levels : driver' = [driver EXCEPT ![d].level = l]
    /\ UNCHANGED <<vehicle, group, review, ruledOut, jobVars>>

\* Members of the group of the agreement come and go.
MembershipMoves(d) ==
    /\ party = "GROUP"
    /\ driver' = [driver EXCEPT ![d].member = ~@]
    /\ UNCHANGED <<vehicle, group, review, ruledOut, jobVars>>

\* Its standing is the staff's to change, its mode the manager's.
UpdateGroup ==
    /\ party = "GROUP"
    /\ \/ group' = [group EXCEPT !.suspended = ~@]
       \/ group' = [group EXCEPT !.driverAccepts = ~@]
    /\ UNCHANGED <<driver, vehicle, review, ruledOut, jobVars>>

ControlsVehicle(p, v) ==
    IF vehicle[v].owner = "GROUP" THEN Manages(p) ELSE p = Confirmed

MayManageVehicle(p, v) == p = admin \/ ControlsVehicle(p, v)

\* By the operator for herself or by the group's manager for the group.
RegisterVehicle(p, v) ==
    /\ vehicle[v] = Unregistered /\ (p = Confirmed \/ Manages(p))
    /\ vehicle' = [vehicle EXCEPT ![v] =
           [status |-> "INACTIVE", owner |-> IF Manages(p) THEN "GROUP" ELSE "OPERATOR",
            gone |-> FALSE, fit |-> TRUE]]
    /\ UNCHANGED <<driver, group, review, ruledOut, jobVars>>

\* Another capacity or class, or a verification that lapses or is renewed.
UpdateVehicle(v) ==
    /\ v \in Registered /\ ~vehicle[v].gone
    /\ vehicle' = [vehicle EXCEPT ![v].fit = ~@]
    /\ UNCHANGED <<driver, group, review, ruledOut, jobVars>>

SetVehicleStatus(p, v, status) ==
    /\ v \in Registered /\ MayManageVehicle(p, v)
    /\ status # vehicle[v].status
    /\ "SUSPENDED" \in {status, vehicle[v].status} => p = admin
    /\ vehicle' = [vehicle EXCEPT ![v].status = status]
    /\ ruledOut' = IF p # admin THEN ruledOut
                   ELSE IF status = "SUSPENDED" THEN ruledOut \cup {v} ELSE ruledOut \ {v}
    /\ UNCHANGED <<driver, group, review, jobVars>>

\* Mutant of Deactivated: a vehicle taken away is only put out of use.
PutAway(v) == [vehicle[v] EXCEPT !.status = "INACTIVE"]

Deactivated(v) == [vehicle[v] EXCEPT !.status = "INACTIVE", !.gone = TRUE]

\* Whatever its status was.
DeactivateVehicle(p, v) ==
    /\ v \in Registered /\ MayManageVehicle(p, v)
    /\ ~vehicle[v].gone
    /\ vehicle' = [vehicle EXCEPT ![v] = Deactivated(v)]
    /\ UNCHANGED <<driver, group, review, ruledOut, jobVars>>

ReviewCalls(p) ==
    \/ \E decision \in {"APPROVED", "REJECTED"} : DecideHighValue(p, decision)
    \/ ReverseRejection(p)

VehicleCalls(p, v) ==
    \/ RegisterVehicle(p, v)
    \/ \E status \in VehicleStatuses : SetVehicleStatus(p, v, status)
    \/ DeactivateVehicle(p, v)

Next ==
    \/ \E p \in Actors :
          \/ \E d \in Drivers, v \in Vehicles, reason \in BOOLEAN : AssignJob(p, d, v, reason)
          \/ ReviewCalls(p)
          \/ \E v \in Vehicles : VehicleCalls(p, v)
    \/ Assign
    \/ \E d \in Drivers :
          \/ \E status \in Statuses : UpdateProfile(d, status)
          \/ StandingMoves(d)
          \/ MembershipMoves(d)
    \/ \E v \in Vehicles : UpdateVehicle(v)
    \/ UpdateGroup

Spec == Init /\ [][Next]_vars

-----------------------------------------------------------------------------
\* The fields of the rows.
TypeOK ==
    /\ driver \in [Drivers -> [status : Statuses, level : Levels, member : BOOLEAN]]
    /\ vehicle \in [Vehicles -> {Unregistered} \cup
                                [status : VehicleStatuses, owner : {"OPERATOR", "GROUP"},
                                 gone : BOOLEAN, fit : BOOLEAN]]
    /\ party \in {"OPERATOR", "GROUP"} /\ band \in Bands
    /\ job \in {"CONFIRMED", "ASSIGNED"}
    /\ ruledOut \subseteq Vehicles

\* The screen hides no pair the call would accept: whoever is not staff finds on it
\* every driver and vehicle of hers that could be assigned, under either agreement and
\* either way a group hands out its work.
PreviewHidesNothing ==
    \A p \in Actors, d \in Drivers, v \in Vehicles :
        ~IsAdmin(p) /\ AssignAllowed(p, d, v, FALSE) => <<d, v>> \in Candidates(p)

\* The assignment's record justifies it: its tier covers the goods, or a member of
\* staff made an exception; only a tier that moved under the call is written as it
\* became, since nothing locks it.
RecordJustifies ==
    assignment # NoAssignment =>
        \/ Covers(assignment.level)
        \/ assignment.override /\ IsAdmin(assignment.by)
        \/ assignment.moved

\* A vehicle staff suspended is not put back to work by its owner, by whatever
\* sequence of status changes and deactivation: only staff releases it.
SuspensionIsStaffs == \A v \in ruledOut : ~IsActive(v)
=============================================================================
