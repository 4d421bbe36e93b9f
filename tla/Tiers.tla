-------------------------------- MODULE Tiers --------------------------------
(***************************************************************************)
(* The tier of one driver: proposed by the platform from what is measured, *)
(* decided by a manager.  The log of changes is append-only; whether a     *)
(* proposal is open is computed from it and from the current level.        *)
(*                                                                         *)
(* Every evaluation and every decision locks the driver's level before it  *)
(* reads the log, so each is one step.                                     *)
(***************************************************************************)
EXTENDS Integers, Sequences, FiniteSets, FiniteSetsExt

CONSTANTS
    Jobs,         \* the driver's completed jobs
    Scores,       \* scores a business gives
    OverLast,     \* the ratings a drop is measured over
    MinCounted,   \* the ratings an average needs
    LiveCriteria, \* ratings and findings count towards tiers
    MaxFaults,    \* at-fault findings the next tier allows
    Managers,     \* those with the permission trust.change.apply
    Self,         \* the driver's own account
    MaxChanges,   \* bound: rows of the log
    MaxFindings   \* bound: findings on the driver's incident

ASSUME TiersAssumption ==
    /\ IsFiniteSet(Jobs) /\ Scores \subseteq 1..5
    /\ OverLast \in Nat \ {0} /\ MinCounted \in Nat \ {0}
    /\ LiveCriteria \in BOOLEAN
    /\ MaxFaults \in Nat /\ MaxChanges \in Nat /\ MaxFindings \in Nat

Levels == {"L1", "L2", "L3", "RESTRICTED"}

Order == [L0 |-> 0, RESTRICTED |-> 1, L1 |-> 1, L2 |-> 2, L3 |-> 3]

NextTier == [L1 |-> "L2", L2 |-> "L3"]

Lower == [L1 |-> "RESTRICTED", L2 |-> "L1", L3 |-> "L2"]

DemotionTriggers == {"INCIDENT", "RATING_DROP"}

\* A row of the log; a decision points at the proposal it decides.
ChangeRows ==
    [from : Levels, to : Levels, status : {"PROPOSED", "APPLIED", "REJECTED"},
     trigger : DemotionTriggers \cup {"AUTO_PROPOSED", "ADMIN_CONFIRMED", "ADMIN_REJECTED",
                                      "ADMIN_OVERRIDE", "REMEDIATION_EXIT"},
     decides : 0..MaxChanges, key : SUBSET (Jobs \cup 1..MaxFindings)]

\* What the two sides of a job said of each other: 0 for nothing yet.
RatingRows == [business : Scores \cup {0}, operator : BOOLEAN]

VARIABLES
    level,
    changes,   \* the log
    cooling,   \* rejections younger than the cooldown
    floor,     \* the driver's verification is current
    enough,    \* jobs, days and incidents are as the next tier asks
    rating,    \* job -> its two ratings
    order,     \* the jobs in the order their businesses rated them
    status,    \* job -> COMPLETED or DISPUTED
    elapsed,   \* jobs whose time to rate has passed
    findings,  \* the findings on the incident: the last one stands
    cleared    \* the findings recorded before the last restriction was lifted

tierVars == <<level, changes, cooling>>
factVars == <<floor, enough, rating, order, status, elapsed, findings, cleared>>
vars == <<tierVars, factVars>>

Init ==
    /\ level = "L1" /\ changes = <<>> /\ cooling = {}
    /\ floor \in BOOLEAN /\ enough = FALSE
    /\ rating = [j \in Jobs |-> [business |-> 0, operator |-> FALSE]]
    /\ order = <<>>
    /\ status = [j \in Jobs |-> "COMPLETED"]
    /\ elapsed = {}
    /\ findings = <<>> /\ cleared = 0

-----------------------------------------------------------------------------
(* Ratings: published once both sides rated or the time to rate has passed. *)

\* Mutant of RatingOpen: a job can be rated for as long as it is completed.
RatingOpenEver(j) == status[j] = "COMPLETED"

RatingOpen(j) == status[j] = "COMPLETED" /\ j \notin elapsed

Published(j) == j \in elapsed \/ (rating[j].business # 0 /\ rating[j].operator)

Counted == {j \in Jobs : rating[j].business # 0 /\ Published(j) /\ status[j] = "COMPLETED"}

RatedAfter(j, k) ==
    \E a, b \in DOMAIN order : a < b /\ order[a] = j /\ order[b] = k

\* The newest ratings that count, a number of them.
Newest(n) == {j \in Counted : Cardinality({k \in Counted : RatedAfter(j, k)}) < n}

Total(S) == MapThenSumSet(LAMBDA j : rating[j].business, S)

\* The mean of the last ratings is below 3.5: the ratings it rests on, else none.
RatingDropEvidence ==
    LET last == Newest(OverLast)
    IN IF LiveCriteria /\ Cardinality(last) = OverLast /\ 2 * Total(last) < 7 * OverLast
       THEN last ELSE {}

SubmitBusinessRating(j, score) ==
    /\ RatingOpen(j) /\ rating[j].business = 0
    /\ rating' = [rating EXCEPT ![j].business = score]
    /\ order' = Append(order, j)
    /\ UNCHANGED <<tierVars, floor, enough, status, elapsed, findings, cleared>>

SubmitOperatorRating(j) ==
    /\ RatingOpen(j) /\ ~rating[j].operator
    /\ rating' = [rating EXCEPT ![j].operator = TRUE]
    /\ UNCHANGED <<tierVars, floor, enough, order, status, elapsed, findings, cleared>>

\* The time a job spent completed runs on while it is; a dispute stops it.
WindowPasses(j) ==
    /\ status[j] = "COMPLETED" /\ j \notin elapsed
    /\ elapsed' = elapsed \cup {j}
    /\ UNCHANGED <<tierVars, floor, enough, rating, order, status, findings, cleared>>

DisputeOrRuling(j) ==
    /\ status' = [status EXCEPT ![j] = IF @ = "COMPLETED" THEN "DISPUTED" ELSE "COMPLETED"]
    /\ UNCHANGED <<tierVars, floor, enough, rating, order, elapsed, findings, cleared>>

-----------------------------------------------------------------------------
(* What the tiers rest on. *)

CurrentFinding == Len(findings)

\* A finding stands while nothing replaced it.
FindingStillRestricts(f) == f = CurrentFinding /\ f # 0 /\ findings[f] = "AT_FAULT"

AtFault == Cardinality({f \in DOMAIN findings : FindingStillRestricts(f)})

SeriousAtFault ==
    Cardinality({f \in DOMAIN findings : FindingStillRestricts(f) /\ f > cleared})

RatingRow ==
    LET last == Newest(OverLast)
    IN LiveCriteria =>
           Cardinality(last) >= MinCounted /\ 2 * Total(last) >= 8 * Cardinality(last)

FaultRow(target) ==
    LiveCriteria => IF target = "L2" THEN AtFault <= MaxFaults ELSE SeriousAtFault = 0

\* Every measured criterion of the next tier is met.
Ready(target) == enough /\ floor /\ RatingRow /\ FaultRow(target)

IsDemotion(c) == Order[c.to] < Order[c.from] \/ c.to = "RESTRICTED"

Undecided(i) == \A d \in DOMAIN changes : changes[d].decides # i

\* Mutant of Open: a proposal is open until it is decided.
OpenSomehow(i) == changes[i].status = "PROPOSED" /\ Undecided(i)

\* Undecided, and made from the level the driver has now.
Open(i) == changes[i].status = "PROPOSED" /\ changes[i].from = level /\ Undecided(i)

\* Mutant of OpenProposal: a promotion proposed earlier is not looked for.
OpenDrop == \E i \in DOMAIN changes : Open(i) /\ changes[i].trigger = "RATING_DROP"

OpenProposal == \E i \in DOMAIN changes : Open(i)

OpenDemotion == \E i \in DOMAIN changes : Open(i) /\ changes[i].trigger \in DemotionTriggers

OpenProposals == {i \in DOMAIN changes : Open(i)}

RecentlyRejected(to) ==
    \E i \in cooling : changes[i].from = level /\ changes[i].to = to

\* The same evidence is never proposed twice.
ProposedOn(trigger, key) ==
    \E i \in DOMAIN changes : changes[i].trigger = trigger /\ changes[i].key = key

Proposal(to, trigger, key) ==
    [from |-> level, to |-> to, status |-> "PROPOSED", trigger |-> trigger,
     decides |-> 0, key |-> key]

-----------------------------------------------------------------------------
\* The average has fallen: one tier down is proposed.
DropDue ==
    /\ level \in DOMAIN Lower /\ ~OpenDemotion
    /\ RatingDropEvidence # {}
    /\ ~ProposedOn("RATING_DROP", RatingDropEvidence)
    /\ ~RecentlyRejected(Lower[level])

PromotionDue ==
    /\ ~DropDue /\ ~OpenDemotion /\ level \in {"L1", "L2"}
    /\ Ready(NextTier[level])
    /\ ~OpenProposal
    /\ ~RecentlyRejected(NextTier[level])

\* After a completion or a rating, and every night: at most one proposal.
Evaluate ==
    /\ floor /\ Len(changes) < MaxChanges
    /\ \/ /\ DropDue
          /\ changes' = Append(changes,
                 Proposal(Lower[level], "RATING_DROP", RatingDropEvidence))
       \/ /\ PromotionDue
          /\ changes' = Append(changes, Proposal(NextTier[level], "AUTO_PROPOSED", {}))
    /\ UNCHANGED <<level, cooling, factVars>>

\* Whatever else is open, and once for a finding; a restricted driver is left alone.
ProposeRestriction(finding) ==
    changes' = IF level = "RESTRICTED" \/ ProposedOn("INCIDENT", {finding}) THEN changes
               ELSE Append(changes, Proposal("RESTRICTED", "INCIDENT", {finding}))

\* A finding replaces the one before; one that blames the driver proposes a
\* restriction in the same transaction.
RecordFinding(outcome) ==
    /\ Len(findings) < MaxFindings /\ Len(changes) < MaxChanges
    /\ findings' = Append(findings, outcome)
    /\ IF outcome = "AT_FAULT" THEN ProposeRestriction(CurrentFinding + 1)
       ELSE UNCHANGED changes
    /\ UNCHANGED <<level, cooling, floor, enough, rating, order, status, elapsed, cleared>>

RequireManager(p) == p \in Managers \ {Self}

Apply(to, trigger, decides) ==
    /\ Len(changes) < MaxChanges
    /\ changes' = Append(changes, [from |-> level, to |-> to, status |-> "APPLIED",
                                   trigger |-> trigger, decides |-> decides, key |-> {}])
    /\ level' = to
    /\ cleared' = IF trigger = "REMEDIATION_EXIT" THEN CurrentFinding ELSE cleared
    /\ UNCHANGED <<cooling, floor, enough, rating, order, status, elapsed, findings>>

\* A manager sets the level outright; a restriction is only lifted, to L1.
SetLevel(p, to) ==
    /\ RequireManager(p) /\ to # level
    /\ \/ level = "RESTRICTED" /\ to = "L1" /\ Apply(to, "REMEDIATION_EXIT", 0)
       \/ level # "RESTRICTED" /\ Apply(to, "ADMIN_OVERRIDE", 0)

\* The evidence of a demotion is looked at again.
StillHolds(i) ==
    CASE changes[i].trigger = "INCIDENT"    -> FindingStillRestricts(Max(changes[i].key))
      [] changes[i].trigger = "RATING_DROP" -> RatingDropEvidence # {}
      [] OTHER -> TRUE

ConfirmProposal(p, i) ==
    /\ RequireManager(p) /\ Open(i)
    /\ IsDemotion(changes[i]) \/ floor
    /\ StillHolds(i)
    /\ Apply(changes[i].to, "ADMIN_CONFIRMED", i)

RejectProposal(p, i) ==
    /\ RequireManager(p) /\ Open(i) /\ Len(changes) < MaxChanges
    /\ changes' = Append(changes,
           [from |-> level, to |-> changes[i].to, status |-> "REJECTED",
            trigger |-> "ADMIN_REJECTED", decides |-> i, key |-> {}])
    /\ cooling' = cooling \cup {Len(changes) + 1}
    /\ UNCHANGED <<level, factVars>>

CooldownEnds(i) ==
    /\ i \in cooling
    /\ cooling' = cooling \ {i}
    /\ UNCHANGED <<level, changes, factVars>>

\* Verification lapses and is renewed; the driver completes jobs.
FactsChange ==
    /\ \/ floor' = ~floor /\ UNCHANGED enough
       \/ enough' = ~enough /\ UNCHANGED floor
    /\ UNCHANGED <<tierVars, rating, order, status, elapsed, findings, cleared>>

Next ==
    \/ \E j \in Jobs :
          \/ \E score \in Scores : SubmitBusinessRating(j, score)
          \/ SubmitOperatorRating(j)
          \/ WindowPasses(j)
          \/ DisputeOrRuling(j)
    \/ Evaluate
    \/ \E outcome \in {"AT_FAULT", "NO_FAULT"} : RecordFinding(outcome)
    \/ \E p \in Managers, to \in Levels : SetLevel(p, to)
    \/ \E p \in Managers, i \in OpenProposals : ConfirmProposal(p, i) \/ RejectProposal(p, i)
    \/ \E i \in cooling : CooldownEnds(i)
    \/ FactsChange

Spec == Init /\ [][Next]_vars

-----------------------------------------------------------------------------
\* The fields of the tables, and a level that is one of the stored ones.
TypeOK ==
    /\ level \in Levels
    /\ changes \in Seq(ChangeRows) /\ Len(changes) <= MaxChanges
    /\ cooling \subseteq DOMAIN changes
    /\ floor \in BOOLEAN /\ enough \in BOOLEAN
    /\ rating \in [Jobs -> RatingRows]
    /\ status \in [Jobs -> {"COMPLETED", "DISPUTED"}]
    /\ elapsed \subseteq Jobs
    /\ findings \in Seq({"AT_FAULT", "NO_FAULT"}) /\ cleared \in 0..Len(findings)

\* Neither side of a job rates it knowing what the other said: nothing is written on
\* a job whose ratings are out, whatever disputes stop and restart its window.
RatesBlind == [][\A j \in Jobs : rating'[j] # rating[j] => ~Published(j)]_vars

\* A manager is never asked the same thing twice at once: one promotion and one drop
\* at most are open, also when a level comes back that older proposals were made from.
OneOpenOfAKind ==
    \A i, k \in OpenProposals :
        changes[i].trigger = changes[k].trigger /\ changes[i].trigger # "INCIDENT" => i = k

\* A restriction is left only by lifting it, to L1: nothing proposed before it, and
\* nothing decided during it, moves the driver anywhere else.
RestrictionHolds ==
    [][level = "RESTRICTED" /\ level' # level =>
          level' = "L1" /\ changes'[Len(changes')].trigger = "REMEDIATION_EXIT"]_vars

=============================================================================
