--------------------------- MODULE StandingProofs ---------------------------
(***************************************************************************)
(* Proofs about standing: of Tiers, for any jobs, scores and thresholds,   *)
(* and however long the log of changes grows; and of JobAccess, on the     *)
(* memberships of Organisations, for any people, organisations and job.    *)
(***************************************************************************)
EXTENDS Tiers, JobAccess, TLAPS, SequenceTheorems

(* Tiers. *)

\* What the log holds: its rows are typed, no proposal was made from a
\* restriction, and of those made from one level at most one of a kind waits.
LogRow == [from : Levels, to : Levels, status : {"PROPOSED", "APPLIED", "REJECTED"},
           trigger : DemotionTriggers \cup {"AUTO_PROPOSED", "ADMIN_CONFIRMED",
                         "ADMIN_REJECTED", "ADMIN_OVERRIDE", "REMEDIATION_EXIT"},
           decides : Int, key : SUBSET (Jobs \cup Int)]

LogTyped == changes \in Seq(LogRow) /\ level \in Levels

NoneFromRestriction ==
    \A i \in DOMAIN changes :
        changes[i].status = "PROPOSED" => changes[i].from # "RESTRICTED"

Waits(i) == changes[i].status = "PROPOSED" /\ Undecided(i)

OneOfAKindWaits ==
    \A i, k \in DOMAIN changes :
        /\ Waits(i) /\ Waits(k)
        /\ changes[i].from = changes[k].from
        /\ changes[i].trigger = changes[k].trigger
        /\ changes[i].trigger # "INCIDENT"
        => i = k

RatingsTyped == rating \in [Jobs -> [business : Int, operator : BOOLEAN]]

FindingsTyped == findings \in Seq({"AT_FAULT", "NO_FAULT"})

IInv == LogTyped /\ NoneFromRestriction /\ OneOfAKindWaits /\ RatingsTyped /\ FindingsTyped

-----------------------------------------------------------------------------
(* The log grows by one row at a time. *)

LEMMA Appended ==
    ASSUME LogTyped, NEW row \in LogRow, changes' = Append(changes, row)
    PROVE  /\ changes' \in Seq(LogRow) /\ Len(changes') = Len(changes) + 1
           /\ DOMAIN changes' = DOMAIN changes \cup {Len(changes) + 1}
           /\ Len(changes) + 1 \notin DOMAIN changes
           /\ changes'[Len(changes) + 1] = row
           /\ \A i \in DOMAIN changes : changes'[i] = changes[i]
BY AppendProperties DEF LogTyped

\* What is decided stays decided.
LEMMA DecidedStays ==
    ASSUME LogTyped, NEW row \in LogRow, changes' = Append(changes, row),
           NEW i \in DOMAIN changes, Waits(i)'
    PROVE  Waits(i)
BY Appended DEF Waits, Undecided

\* A row that is no proposal leaves no more waiting than before.
LEMMA DecisionKeepsLog ==
    ASSUME LogTyped, NoneFromRestriction, OneOfAKindWaits,
           NEW row \in LogRow, row.status # "PROPOSED", changes' = Append(changes, row)
    PROVE  NoneFromRestriction' /\ OneOfAKindWaits'
<1>1. NoneFromRestriction'
  BY Appended DEF NoneFromRestriction
<1>2. \A i \in DOMAIN changes' : Waits(i)' => i \in DOMAIN changes /\ Waits(i)
  BY Appended, DecidedStays DEF Waits
<1>3. OneOfAKindWaits'
  BY <1>2, Appended DEF OneOfAKindWaits
<1> QED
  BY <1>1, <1>3

\* A proposal is made from the level the driver has, and of its kind no other
\* waits that was made from it.
LEMMA ProposalKeepsLog ==
    ASSUME LogTyped, NoneFromRestriction, OneOfAKindWaits,
           NEW row \in LogRow, changes' = Append(changes, row),
           row.from = level, level # "RESTRICTED",
           \A i \in DOMAIN changes :
               Open(i) /\ row.trigger # "INCIDENT" => changes[i].trigger # row.trigger
    PROVE  NoneFromRestriction' /\ OneOfAKindWaits'
<1> DEFINE n == Len(changes) + 1
<1>1. NoneFromRestriction'
  BY Appended DEF NoneFromRestriction
<1>2. ASSUME NEW i \in DOMAIN changes, Waits(i)', changes[i].from = row.from,
             changes[i].trigger = row.trigger, row.trigger # "INCIDENT"
      PROVE  FALSE
  BY <1>2, DecidedStays DEF Waits, Open
<1>3. ASSUME NEW i \in DOMAIN changes', NEW k \in DOMAIN changes', Waits(i)', Waits(k)',
             changes'[i].from = changes'[k].from, changes'[i].trigger = changes'[k].trigger,
             changes'[i].trigger # "INCIDENT"
      PROVE  i = k
  <2>1. CASE i \in DOMAIN changes /\ k \in DOMAIN changes
    BY <1>3, <2>1, Appended, DecidedStays DEF OneOfAKindWaits
  <2>2. CASE i = n \/ k = n
    BY <1>2, <1>3, <2>2, Appended
  <2> QED
    BY <2>1, <2>2, Appended
<1> QED
  BY <1>1, <1>3 DEF OneOfAKindWaits

-----------------------------------------------------------------------------
LEMMA InitHolds == Init => IInv
<1> SUFFICES ASSUME Init PROVE IInv
  OBVIOUS
<1>1. LogTyped /\ NoneFromRestriction /\ OneOfAKindWaits /\ FindingsTyped
  BY DEF Init, LogTyped, NoneFromRestriction, OneOfAKindWaits, FindingsTyped, Levels
<1>2. RatingsTyped
  BY DEF Init, RatingsTyped
<1> QED
  BY <1>1, <1>2 DEF IInv

\* Steps that write neither the level nor the log.
Facts ==
    \/ \E j \in Jobs :
          \/ \E score \in Scores : SubmitBusinessRating(j, score)
          \/ SubmitOperatorRating(j) \/ WindowPasses(j) \/ DisputeOrRuling(j)
    \/ \E i \in cooling : CooldownEnds(i)
    \/ FactsChange

LEMMA LogRests ==
    ASSUME IInv, UNCHANGED <<level, changes>>
    PROVE  LogTyped' /\ NoneFromRestriction' /\ OneOfAKindWaits'
BY DEF IInv, LogTyped, NoneFromRestriction, OneOfAKindWaits, Waits, Undecided

LEMMA FactsKeep == ASSUME IInv, Facts PROVE IInv' /\ UNCHANGED <<level, changes>>
<1>1. ASSUME NEW j \in Jobs, NEW score \in Scores, SubmitBusinessRating(j, score)
      PROVE  RatingsTyped' /\ FindingsTyped' /\ UNCHANGED <<level, changes>>
  <2>1. score \in Int
    BY TiersAssumption
  <2>2. rating' = [rating EXCEPT ![j].business = score]
    BY <1>1 DEF SubmitBusinessRating
  <2>3. RatingsTyped'
    BY <2>1, <2>2 DEF IInv, RatingsTyped
  <2> QED
    BY <1>1, <2>3 DEF IInv, FindingsTyped, SubmitBusinessRating, tierVars
<1>2. ASSUME NEW j \in Jobs, SubmitOperatorRating(j)
      PROVE  RatingsTyped' /\ FindingsTyped' /\ UNCHANGED <<level, changes>>
  BY <1>2 DEF IInv, RatingsTyped, FindingsTyped, SubmitOperatorRating, tierVars
<1>3. ASSUME NEW j \in Jobs, WindowPasses(j) \/ DisputeOrRuling(j)
      PROVE  RatingsTyped' /\ FindingsTyped' /\ UNCHANGED <<level, changes>>
  BY <1>3 DEF IInv, RatingsTyped, FindingsTyped, WindowPasses, DisputeOrRuling, tierVars
<1>4. ASSUME NEW i \in cooling, CooldownEnds(i)
      PROVE  RatingsTyped' /\ FindingsTyped' /\ UNCHANGED <<level, changes>>
  BY <1>4 DEF IInv, RatingsTyped, FindingsTyped, CooldownEnds, factVars
<1>5. CASE FactsChange
  BY <1>5, LogRests DEF IInv, RatingsTyped, FindingsTyped, FactsChange, tierVars
<1> QED
  BY <1>1, <1>2, <1>3, <1>4, <1>5, LogRests DEF Facts, IInv

LEMMA EvaluateKeeps == ASSUME IInv, Evaluate PROVE IInv' /\ level' = level
<1>1. /\ UNCHANGED <<level, rating, findings>>
      /\ level # "RESTRICTED" /\ level \in Levels
      /\ \E row \in LogRow :
            /\ changes' = Append(changes, row)
            /\ row.from = level
            /\ \A i \in DOMAIN changes : Open(i) => changes[i].trigger # row.trigger
  <2>1. CASE DropDue /\ changes' = Append(changes,
                 Proposal(Lower[level], "RATING_DROP", RatingDropEvidence))
    <3>1. level \in {"L1", "L2", "L3"} /\ Lower[level] \in Levels
      BY <2>1 DEF DropDue, Lower, Levels
    <3>2. RatingDropEvidence \in SUBSET (Jobs \cup Int)
      BY DEF RatingDropEvidence, Newest, Counted
    <3> QED
      BY <2>1, <3>1, <3>2 DEF Evaluate, factVars, Proposal, LogRow, Levels, DemotionTriggers,
             DropDue, OpenDemotion
  <2>2. CASE PromotionDue /\ changes' = Append(changes,
                 Proposal(NextTier[level], "AUTO_PROPOSED", {}))
    <3>1. level \in {"L1", "L2"} /\ NextTier[level] \in Levels
      BY <2>2 DEF PromotionDue, NextTier, Levels
    <3> QED
      BY <2>2, <3>1 DEF Evaluate, factVars, Proposal, LogRow, Levels, PromotionDue, OpenProposal
  <2> QED
    BY <2>1, <2>2 DEF Evaluate
<1> PICK row \in LogRow :
        /\ changes' = Append(changes, row)
        /\ row.from = level
        /\ \A i \in DOMAIN changes : Open(i) => changes[i].trigger # row.trigger
  BY <1>1
<1>2. NoneFromRestriction' /\ OneOfAKindWaits'
  BY <1>1, ProposalKeepsLog DEF IInv
<1>3. LogTyped'
  BY <1>1, Appended DEF IInv, LogTyped
<1>4. RatingsTyped' /\ FindingsTyped'
  BY <1>1 DEF IInv, RatingsTyped, FindingsTyped
<1> QED
  BY <1>1, <1>2, <1>3, <1>4 DEF IInv

LEMMA FindingKeeps ==
    ASSUME IInv, NEW outcome \in {"AT_FAULT", "NO_FAULT"}, RecordFinding(outcome)
    PROVE  IInv' /\ level' = level
<1>1. RatingsTyped' /\ FindingsTyped' /\ level' = level
  BY AppendProperties DEF IInv, RatingsTyped, FindingsTyped, RecordFinding
<1>2. CASE changes' = changes
  BY <1>1, <1>2, LogRests DEF IInv
<1>3. CASE changes' # changes
  <2> DEFINE row == Proposal("RESTRICTED", "INCIDENT", {CurrentFinding + 1})
  <2>1. level # "RESTRICTED" /\ changes' = Append(changes, row)
    BY <1>3 DEF RecordFinding, ProposeRestriction
  <2>2. CurrentFinding + 1 \in Int
    BY DEF IInv, FindingsTyped, CurrentFinding
  <2>3. row \in LogRow /\ row.from = level /\ row.trigger = "INCIDENT"
    BY <2>2 DEF IInv, LogTyped, Proposal, LogRow, Levels, DemotionTriggers
  <2> HIDE DEF row
  <2>4. NoneFromRestriction' /\ OneOfAKindWaits'
    BY <2>1, <2>3, ProposalKeepsLog DEF IInv
  <2>5. LogTyped'
    BY <1>1, <2>1, <2>3, Appended DEF IInv, LogTyped
  <2> QED
    BY <1>1, <2>4, <2>5 DEF IInv
<1> QED
  BY <1>2, <1>3

\* A level that is applied is the last row of the log.
LEMMA ApplyKeeps ==
    ASSUME IInv, NEW to \in Levels, NEW decides \in Int,
           NEW trigger \in {"ADMIN_CONFIRMED", "ADMIN_OVERRIDE", "REMEDIATION_EXIT"},
           Apply(to, trigger, decides)
    PROVE  /\ IInv' /\ level' = to
           /\ changes'[Len(changes')].trigger = trigger
<1> DEFINE row == [from |-> level, to |-> to, status |-> "APPLIED",
                   trigger |-> trigger, decides |-> decides, key |-> {}]
<1>1. /\ changes' = Append(changes, row) /\ level' = to
      /\ UNCHANGED <<rating, findings>>
  BY DEF Apply
<1>2. row \in LogRow /\ row.status # "PROPOSED" /\ row.trigger = trigger
  BY DEF IInv, LogTyped, LogRow
<1> HIDE DEF row
<1>3. NoneFromRestriction' /\ OneOfAKindWaits'
  BY <1>1, <1>2, DecisionKeepsLog DEF IInv
<1>4. LogTyped' /\ changes'[Len(changes')].trigger = trigger
  BY <1>1, <1>2, Appended DEF IInv, LogTyped
<1>5. RatingsTyped' /\ FindingsTyped'
  BY <1>1 DEF IInv, RatingsTyped, FindingsTyped
<1> QED
  BY <1>1, <1>3, <1>4, <1>5 DEF IInv

LEMMA RejectKeeps ==
    ASSUME IInv, NEW p \in Managers, NEW i \in OpenProposals, RejectProposal(p, i)
    PROVE  IInv' /\ level' = level
<1> DEFINE row == [from |-> level, to |-> changes[i].to, status |-> "REJECTED",
                   trigger |-> "ADMIN_REJECTED", decides |-> i, key |-> {}]
<1>1. changes' = Append(changes, row) /\ UNCHANGED <<level, rating, findings>>
  BY DEF RejectProposal, factVars
<1>2. row \in LogRow /\ row.status # "PROPOSED"
  <2>1. i \in Int /\ changes[i] \in LogRow
    BY DEF IInv, LogTyped, OpenProposals
  <2> QED
    BY <2>1 DEF IInv, LogTyped, LogRow
<1> HIDE DEF row
<1>3. NoneFromRestriction' /\ OneOfAKindWaits'
  BY <1>1, <1>2, DecisionKeepsLog DEF IInv
<1>4. LogTyped'
  BY <1>1, <1>2, Appended DEF IInv, LogTyped
<1>5. RatingsTyped' /\ FindingsTyped'
  BY <1>1 DEF IInv, RatingsTyped, FindingsTyped
<1> QED
  BY <1>1, <1>3, <1>4, <1>5 DEF IInv

\* No proposal made from a restriction waits, so none is confirmed in one.
LEMMA ConfirmKeeps ==
    ASSUME IInv, NEW p \in Managers, NEW i \in OpenProposals, ConfirmProposal(p, i)
    PROVE  IInv' /\ level # "RESTRICTED"
<1>1. i \in DOMAIN changes /\ i \in Int /\ changes[i] \in LogRow
  BY DEF IInv, LogTyped, OpenProposals
<1>2. IInv'
  BY <1>1, ApplyKeeps DEF ConfirmProposal, LogRow
<1> QED
  BY <1>1, <1>2 DEF ConfirmProposal, Open, IInv, NoneFromRestriction

LEMMA SetLevelKeeps ==
    ASSUME IInv, NEW p \in Managers, NEW to \in Levels, SetLevel(p, to)
    PROVE  /\ IInv'
           /\ level = "RESTRICTED" =>
                  level' = "L1" /\ changes'[Len(changes')].trigger = "REMEDIATION_EXIT"
BY ApplyKeeps DEF SetLevel

LEMMA Kinds ==
    Next => \/ Facts \/ Evaluate
            \/ \E outcome \in {"AT_FAULT", "NO_FAULT"} : RecordFinding(outcome)
            \/ \E p \in Managers, to \in Levels : SetLevel(p, to)
            \/ \E p \in Managers, i \in OpenProposals :
                   ConfirmProposal(p, i) \/ RejectProposal(p, i)
BY DEF Next, Facts

LEMMA StepKeeps == IInv /\ [Next]_vars => IInv'
<1> SUFFICES ASSUME IInv, [Next]_vars PROVE IInv'
  OBVIOUS
<1>1. CASE UNCHANGED vars
  BY <1>1, LogRests DEF IInv, RatingsTyped, FindingsTyped, vars, tierVars, factVars
<1> QED
  BY <1>1, Kinds, FactsKeep, EvaluateKeeps, FindingKeeps, SetLevelKeeps, ConfirmKeeps,
     RejectKeeps

\* The inductive invariant of the log.
THEOREM Invariance == Spec => []IInv
BY InitHolds, StepKeeps, PTL DEF Spec

-----------------------------------------------------------------------------
\* One promotion and one drop at most are open, over any history of levels.
THEOREM OneIsOpenOfAKind == Spec => []OneOpenOfAKind
<1>1. IInv => OneOpenOfAKind
  BY DEF IInv, OneOfAKindWaits, Waits, OneOpenOfAKind, OpenProposals, Open
<1> QED
  BY <1>1, Invariance, PTL

\* A restriction is left by lifting it alone.
THEOREM RestrictionsHold == Spec => RestrictionHolds
<1> DEFINE A == level = "RESTRICTED" /\ level' # level =>
                    level' = "L1" /\ changes'[Len(changes')].trigger = "REMEDIATION_EXIT"
<1>1. ASSUME IInv, Next PROVE A
  BY <1>1, Kinds, FactsKeep, EvaluateKeeps, FindingKeeps, SetLevelKeeps, ConfirmKeeps,
     RejectKeeps
<1>2. IInv /\ [Next]_vars => [A]_vars
  BY <1>1
<1>3. Spec => [][A]_vars
  BY <1>2, Invariance, PTL DEF Spec
<1> QED
  BY <1>3 DEF RestrictionHolds

\* Nobody rates a job whose ratings are out.
THEOREM RatingsAreBlind == Spec => RatesBlind
<1> DEFINE A == \A j \in Jobs : rating'[j] # rating[j] => ~Published(j)
<1>1. ASSUME IInv, Next PROVE A
  <2>1. ASSUME NEW j \in Jobs, NEW score \in Scores, SubmitBusinessRating(j, score) PROVE A
    BY <1>1, <2>1 DEF IInv, RatingsTyped, SubmitBusinessRating, RatingOpen, Published
  <2>2. ASSUME NEW j \in Jobs, SubmitOperatorRating(j) PROVE A
    BY <1>1, <2>2 DEF IInv, RatingsTyped, SubmitOperatorRating, RatingOpen, Published
  <2>3. CASE UNCHANGED rating
    BY <2>3
  <2>4. Next => \/ \E j \in Jobs, score \in Scores : SubmitBusinessRating(j, score)
                \/ \E j \in Jobs : SubmitOperatorRating(j)
                \/ UNCHANGED rating
    BY DEF Next, WindowPasses, DisputeOrRuling, Evaluate, RecordFinding, SetLevel, Apply,
           ConfirmProposal, RejectProposal, CooldownEnds, FactsChange, factVars
  <2> QED
    BY <1>1, <2>1, <2>2, <2>3, <2>4
<1>2. IInv /\ [Next]_vars => [A]_vars
  BY <1>1
<1>3. Spec => [][A]_vars
  BY <1>2, Invariance, PTL DEF Spec
<1> QED
  BY <1>3 DEF RatesBlind

-----------------------------------------------------------------------------
(* JobAccess. *)

\* Who may change an organisation was asked about one that has members, which
\* it keeps.
RightsStand ==
    \A p \in People, o \in Organisations : allowed[p] = o => Registered(o)

\* The call of p is about to end the ownership of q in o.
HoldsRow(p, o, q) == leaving[p] # None /\ leaving[p].org = o /\ leaving[p].who = q

\* Such a row is an owner's, and no two calls hold the same one.
OwnersHeld ==
    \A p, r \in People, o \in Organisations : \A q \in Eligible(o) :
        HoldsRow(p, o, q) => IsOwner(q, o) /\ (HoldsRow(r, o, q) => p = r)

\* Where no owners left together there is an owner, and one besides each who leaves.
OwnersRemain ==
    \A o \in Organisations \ raced :
        /\ Registered(o) => \E p \in Eligible(o) : IsOwner(p, o)
        /\ \A p \in People : \A q \in Eligible(o) :
               HoldsRow(p, o, q) => OtherOwners(o, q) # {}

OrgInv == OrgTypeOK /\ RightsStand /\ OwnersHeld /\ OwnersRemain

LEMMA Members ==
    /\ \A o \in Organisations : Eligible(o) \subseteq People
    /\ \A b \in Businesses : b \in Organisations /\ Eligible(b) = People /\ Rows(b) = BusinessRows
    /\ \A g \in Groups : g \in Organisations /\ Eligible(g) = Operators /\ Rows(g) = GroupRows
    /\ \A o \in Organisations : None \notin Rows(o)
BY OrganisationsAssumption DEF Eligible, Rows, Organisations

LEMMA OrgInitHolds == OrgInit => OrgInv
<1> SUFFICES ASSUME OrgInit PROVE OrgInv
  OBVIOUS
<1>1. OrgTypeOK
  BY OrganisationsAssumption DEF OrgInit, OrgTypeOK
<1>2. \A o \in Organisations : ~Registered(o)
  BY DEF OrgInit, Registered
<1>3. \A p \in People : allowed[p] \notin Organisations /\ \A o, q : ~HoldsRow(p, o, q)
  BY OrganisationsAssumption DEF OrgInit, HoldsRow
<1> QED
  BY <1>1, <1>2, <1>3 DEF OrgInv, RightsStand, OwnersHeld, OwnersRemain

-----------------------------------------------------------------------------
\* A row is written that nobody holds, and no owner is lost by it.
Written(o, q, row) ==
    /\ o \in Organisations /\ q \in Eligible(o) /\ row \in Rows(o)
    /\ \A p \in People : ~HoldsRow(p, o, q)
    /\ member' = [member EXCEPT ![o][q] = row]
    /\ IsOwner(q, o) => row = member[o][q]
    /\ Registered(o) \/ (row.role = "OWNER" /\ row.status = "ACTIVE")
    /\ UNCHANGED <<leaving, raced>>

\* The rights asked for are used up, or asked about an organisation with members.
RightsMove ==
    /\ allowed' \in [People -> Organisations \cup {None}]
    /\ \A p \in People, o \in Organisations :
           allowed'[p] = o => allowed[p] = o \/ Registered(o)

LEMMA WrittenRows ==
    ASSUME OrgTypeOK, NEW o, NEW q, NEW row, Written(o, q, row)
    PROVE  /\ DOMAIN member' = Organisations
           /\ \A x \in Organisations : member'[x] \in [Eligible(x) -> Rows(x) \cup {None}]
           /\ \A x \in Organisations : \A p \in Eligible(x) :
                  member'[x][p] = IF x = o /\ p = q THEN row ELSE member[x][p]
<1>1. /\ DOMAIN member' = Organisations
      /\ member'[o] = [member[o] EXCEPT ![q] = row]
      /\ \A x \in Organisations \ {o} : member'[x] = member[x]
  BY DEF OrgTypeOK, Written
<1> QED
  BY <1>1 DEF OrgTypeOK, Written

LEMMA WrittenOwners ==
    ASSUME OrgTypeOK, NEW o, NEW q, NEW row, Written(o, q, row)
    PROVE  /\ \A x \in Organisations : \A p : IsOwner(p, x) => IsOwner(p, x)'
           /\ \A x \in Organisations : Registered(x) => Registered(x)'
           /\ \A x \in Organisations : Registered(x)' =>
                  Registered(x) \/ (IsOwner(q, x)' /\ x = o)
<1>1. \A x \in Organisations : \A p \in Eligible(x) :
          member'[x][p] = IF x = o /\ p = q THEN row ELSE member[x][p]
  BY WrittenRows
<1>2. row # None
  BY Members DEF Written
<1>3. \A x \in Organisations : \A p : IsOwner(p, x) => IsOwner(p, x)'
  BY <1>1, <1>2 DEF IsOwner, ActiveIn, Written
<1>4. \A x \in Organisations : Registered(x) => Registered(x)'
  BY <1>1, <1>2 DEF Registered
<1>5. \A x \in Organisations : Registered(x)' => Registered(x) \/ (IsOwner(q, x)' /\ x = o)
  BY <1>1, <1>2 DEF IsOwner, ActiveIn, Written, Registered
<1> QED
  BY <1>3, <1>4, <1>5

LEMMA WritingKeepsOrg ==
    ASSUME OrgInv, NEW o, NEW q, NEW row, Written(o, q, row), RightsMove, made' \in 0..MaxCalls
    PROVE  OrgInv'
<1>1. /\ \A x \in Organisations : \A p : IsOwner(p, x) => IsOwner(p, x)'
      /\ \A x \in Organisations : Registered(x) => Registered(x)'
      /\ \A x \in Organisations : Registered(x)' => Registered(x) \/ (IsOwner(q, x)' /\ x = o)
  BY WrittenOwners DEF OrgInv
<1>2. UNCHANGED <<leaving, raced>> /\ q \in Eligible(o)
  BY DEF Written
<1>3. \A p, x, r : HoldsRow(p, x, r)' <=> HoldsRow(p, x, r)
  BY <1>2 DEF HoldsRow
<1>4. OrgTypeOK'
  BY <1>2, WrittenRows DEF OrgInv, OrgTypeOK, RightsMove
<1>5. RightsStand'
  BY <1>1 DEF OrgInv, RightsStand, RightsMove
<1>6. OwnersHeld'
  BY <1>1, <1>3 DEF OrgInv, OwnersHeld
<1>7. OwnersRemain'
  BY <1>1, <1>2, <1>3 DEF OrgInv, OwnersRemain, OtherOwners
<1> QED
  BY <1>4, <1>5, <1>6, <1>7 DEF OrgInv

\* Only rights change.
LEMMA RightsKeepOrg ==
    ASSUME OrgInv, RightsMove, UNCHANGED <<member, leaving, raced>>, made' \in 0..MaxCalls
    PROVE  OrgInv'
<1>1. /\ \A p, x : IsOwner(p, x)' <=> IsOwner(p, x)
      /\ \A x : Registered(x)' <=> Registered(x)
      /\ \A p, x, r : HoldsRow(p, x, r)' <=> HoldsRow(p, x, r)
  BY DEF IsOwner, ActiveIn, Registered, HoldsRow
<1> QED
  BY <1>1 DEF OrgInv, OrgTypeOK, RightsMove, RightsStand, OwnersHeld, OwnersRemain, OtherOwners

\* An owner's row is held, when there are other owners.
LEMMA HoldingKeepsOrg ==
    ASSUME OrgInv, NEW p \in People, NEW o \in Organisations, NEW q, NEW row \in Rows(o),
           IsOwner(q, o), OtherOwners(o, q) # {}, \A r \in People : ~HoldsRow(r, o, q),
           RightsMove, leaving' = [leaving EXCEPT ![p] = [org |-> o, who |-> q, row |-> row]],
           UNCHANGED <<member, raced, made>>
    PROVE  OrgInv'
<1>1. /\ \A r, x : IsOwner(r, x)' <=> IsOwner(r, x)
      /\ \A x : Registered(x)' <=> Registered(x)
      /\ q \in Eligible(o)
  BY DEF IsOwner, ActiveIn, Registered
<1>2. /\ DOMAIN leaving' = People
      /\ \A r \in People : leaving'[r] = IF r = p THEN [org |-> o, who |-> q, row |-> row]
                                         ELSE leaving[r]
  BY DEF OrgInv, OrgTypeOK
<1>3. \A r \in People : \A x, s :
          HoldsRow(r, x, s)' => HoldsRow(r, x, s) \/ (r = p /\ x = o /\ s = q)
  BY <1>2 DEF HoldsRow
<1>4. OrgTypeOK'
  BY <1>1, <1>2 DEF OrgInv, OrgTypeOK, RightsMove
<1>5. RightsStand' /\ OwnersHeld'
  BY <1>1, <1>3 DEF OrgInv, RightsStand, RightsMove, OwnersHeld
<1>6. OwnersRemain'
  BY <1>1, <1>3 DEF OrgInv, OwnersRemain, OtherOwners
<1> QED
  BY <1>4, <1>5, <1>6 DEF OrgInv

\* An owner leaves; the others who are leaving the same organisation saw that one too.
LEMMA LeavingKeepsOrg == ASSUME OrgInv, NEW p \in People, Leave(p) PROVE OrgInv'
<1>1. PICK l : l = leaving[p]
  OBVIOUS
<1>2. /\ l # None /\ member' = [member EXCEPT ![l.org][l.who] = l.row]
      /\ leaving' = [leaving EXCEPT ![p] = None]
      /\ raced' = raced \cup {o \in {l.org} : \E r \in People \ {p} :
                                  leaving[r] # None /\ leaving[r].org = o}
      /\ UNCHANGED <<allowed, made>>
  BY <1>1 DEF Leave
<1>3. /\ l.org \in Organisations /\ l.who \in Eligible(l.org) /\ l.row \in Rows(l.org)
      /\ l.row # None /\ HoldsRow(p, l.org, l.who)
  BY <1>1, <1>2, Members DEF OrgInv, OrgTypeOK, HoldsRow
<1>4. /\ DOMAIN member' = Organisations
      /\ \A x \in Organisations : member'[x] \in [Eligible(x) -> Rows(x) \cup {None}]
      /\ \A x \in Organisations : \A q \in Eligible(x) :
             member'[x][q] = IF x = l.org /\ q = l.who THEN l.row ELSE member[x][q]
  <2>1. /\ DOMAIN member' = Organisations
        /\ member'[l.org] = [member[l.org] EXCEPT ![l.who] = l.row]
        /\ \A x \in Organisations \ {l.org} : member'[x] = member[x]
    BY <1>2, <1>3 DEF OrgInv, OrgTypeOK
  <2> QED
    BY <1>3, <2>1 DEF OrgInv, OrgTypeOK
<1>5. /\ DOMAIN leaving' = People
      /\ \A r \in People : leaving'[r] = IF r = p THEN None ELSE leaving[r]
  BY <1>2 DEF OrgInv, OrgTypeOK
<1>6. \A x \in Organisations : \A q :
          IsOwner(q, x) /\ ~(x = l.org /\ q = l.who) => IsOwner(q, x)'
  BY <1>4 DEF IsOwner, ActiveIn
<1>7. \A x \in Organisations : Registered(x)' <=> Registered(x)
  <2>1. Registered(l.org)
    BY <1>3 DEF OrgInv, OwnersHeld, IsOwner, ActiveIn, Registered
  <2>2. \A x \in Organisations \ {l.org} : Registered(x)' <=> Registered(x)
    BY <1>4 DEF Registered
  <2>3. Registered(l.org)'
    BY <1>3, <1>4 DEF Registered
  <2> QED
    BY <2>1, <2>2, <2>3
<1>8. ASSUME NEW r \in People, NEW x \in Organisations, NEW q \in Eligible(x), HoldsRow(r, x, q)'
      PROVE  r # p /\ HoldsRow(r, x, q) /\ ~(x = l.org /\ q = l.who)
             /\ (x = l.org => l.org \in raced')
  <2>1. r # p /\ HoldsRow(r, x, q)
    BY <1>5, <1>8 DEF HoldsRow
  <2> QED
    BY <1>2, <1>3, <2>1 DEF OrgInv, OwnersHeld, HoldsRow
<1>9. OrgTypeOK'
  BY <1>2, <1>3, <1>4, <1>5 DEF OrgInv, OrgTypeOK
<1>10. RightsStand' /\ OwnersHeld'
  BY <1>2, <1>6, <1>7, <1>8 DEF OrgInv, RightsStand, OwnersHeld
<1>11. OwnersRemain'
  <2> SUFFICES ASSUME NEW x \in Organisations, x \notin raced'
               PROVE  /\ Registered(x)' => \E q \in Eligible(x) : IsOwner(q, x)'
                      /\ \A r \in People : \A q \in Eligible(x) :
                             HoldsRow(r, x, q)' => OtherOwners(x, q)' # {}
    BY DEF OwnersRemain
  <2>1. x \in Organisations \ raced
    BY <1>2
  <2>2. CASE x = l.org
    <3>1. OtherOwners(x, l.who) # {}
      BY <1>3, <2>1, <2>2 DEF OrgInv, OwnersRemain
    <3>2. \E q \in Eligible(x) : IsOwner(q, x)'
      BY <1>6, <3>1 DEF OtherOwners
    <3> QED
      BY <1>8, <2>2, <3>2
  <2>3. CASE x # l.org
    <3>1. \A q : IsOwner(q, x) => IsOwner(q, x)'
      BY <1>6, <2>3
    <3> QED
      BY <1>7, <1>8, <2>1, <3>1 DEF OrgInv, OwnersRemain, OtherOwners
  <2> QED
    BY <2>2, <2>3
<1> QED
  BY <1>9, <1>10, <1>11 DEF OrgInv

-----------------------------------------------------------------------------
(* The calls. *)

\* A call that got its lock has used up its right.
LEMMA LockFrees ==
    ASSUME OrgInv, NEW p \in People, NEW o \in Organisations, NEW q, Locks(p, o, q)
    PROVE  RightsMove /\ q \in Eligible(o) /\ \A r \in People : ~HoldsRow(r, o, q)
BY OrganisationsAssumption DEF OrgInv, OrgTypeOK, Locks, RowFree, RightsMove, HoldsRow

LEMMA RefusalKeepsOrg ==
    ASSUME OrgInv, NEW p \in People, NEW o \in Organisations, NEW q, Refused(p, o, q)
    PROVE  OrgInv'
BY LockFrees, RightsKeepOrg DEF Refused, OrgInv, OrgTypeOK

\* A row written on behalf of an organisation with members.
LEMMA WriteKeepsOrg ==
    ASSUME OrgInv, NEW p \in People, NEW o \in Organisations, allowed[p] = o,
           NEW q, NEW row \in Rows(o), Writes(p, o, q, row),
           IsOwner(q, o) => row = member[o][q]
    PROVE  OrgInv'
<1>1. RightsMove /\ Written(o, q, row)
  BY LockFrees DEF Writes, Written, OrgInv, RightsStand
<1>2. made' \in 0..MaxCalls
  BY DEF Writes, OrgInv, OrgTypeOK
<1> QED
  BY <1>1, <1>2, WritingKeepsOrg

LEMMA ChangeKeepsOrg ==
    ASSUME OrgInv, NEW p \in People, NEW o \in Organisations, allowed[p] = o,
           NEW q, NEW row \in Rows(o), Change(p, o, q, row)
    PROVE  OrgInv'
<1>1. CASE ~(IsOwner(q, o) /\ row # member[o][q])
  BY <1>1, WriteKeepsOrg DEF Change
<1>2. CASE (IsOwner(q, o) /\ row # member[o][q]) /\ OtherOwners(o, q) = {}
  BY <1>2, RefusalKeepsOrg DEF Change
<1>3. CASE (IsOwner(q, o) /\ row # member[o][q]) /\ OtherOwners(o, q) # {}
  <2>1. /\ Locks(p, o, q) /\ UNCHANGED <<member, raced, made>>
        /\ leaving' = [leaving EXCEPT ![p] = [org |-> o, who |-> q, row |-> row]]
    BY <1>3 DEF Change
  <2>2. RightsMove /\ \A r \in People : ~HoldsRow(r, o, q)
    BY <2>1, LockFrees
  <2> QED
    BY <1>3, <2>1, <2>2, HoldingKeepsOrg
<1> QED
  BY <1>1, <1>2, <1>3

\* Whoever is not active there is no owner.
LEMMA AddKeepsOrg ==
    ASSUME OrgInv, NEW p \in People, NEW o \in Organisations, allowed[p] = o,
           NEW q, NEW row \in Rows(o), ~ActiveIn(q, o), Writes(p, o, q, row)
    PROVE  OrgInv'
BY WriteKeepsOrg DEF IsOwner

\* Registering: the organisation has no rows yet.
LEMMA CreateKeepsOrg ==
    ASSUME OrgInv, NEW o \in Organisations, NEW p \in Eligible(o), ~Registered(o),
           member' = [member EXCEPT ![o][p] = [role |-> "OWNER", status |-> "ACTIVE"]],
           UNCHANGED <<allowed, leaving, made, raced>>
    PROVE  OrgInv'
<1> DEFINE row == [role |-> "OWNER", status |-> "ACTIVE"]
<1>1. ~IsOwner(p, o)
  BY DEF Registered, IsOwner, ActiveIn
<1>2. row \in Rows(o)
  BY DEF Rows, BusinessRows, GroupRows
<1>3. Written(o, p, row)
  BY <1>1, <1>2 DEF Written, OrgInv, OwnersHeld
<1>4. RightsMove /\ made' \in 0..MaxCalls
  BY DEF RightsMove, OrgInv, OrgTypeOK
<1> QED
  BY <1>3, <1>4, WritingKeepsOrg

LEMMA AskKeepsOrg ==
    ASSUME OrgInv, NEW p \in People, NEW o \in Organisations, AskRight(p, o) PROVE OrgInv'
<1>1. RightsMove
  BY DEF AskRight, RightsMove, OrgInv, OrgTypeOK
<1>2. made' \in 0..MaxCalls
  BY OrganisationsAssumption DEF AskRight, OrgInv, OrgTypeOK
<1> QED
  BY <1>1, <1>2, RightsKeepOrg DEF AskRight

LEMMA BusinessKeepsOrg ==
    ASSUME OrgInv, NEW b \in Businesses, BusinessMembers(b) PROVE OrgInv'
<1>1. b \in Organisations /\ Eligible(b) = People /\ Rows(b) = BusinessRows
  BY Members
<1>2. ASSUME NEW p \in People, CreateBusiness(p, b) PROVE OrgInv'
  BY <1>1, <1>2, CreateKeepsOrg DEF CreateBusiness
<1>3. ASSUME NEW p \in People, allowed[p] = b, NEW q \in People,
             NEW role \in {"OWNER", "DISPATCHER", "VIEWER"}, AddBusinessMember(p, b, q, role)
      PROVE  OrgInv'
  <2>1. [role |-> role, status |-> "ACTIVE"] \in Rows(b)
    BY <1>1 DEF BusinessRows
  <2> QED
    BY <1>1, <1>3, <2>1, AddKeepsOrg, RefusalKeepsOrg DEF AddBusinessMember
<1>4. ASSUME NEW p \in People, allowed[p] = b, NEW q \in People, NEW row \in BusinessRows,
             UpdateMembership(p, b, q, row)
      PROVE  OrgInv'
  BY <1>1, <1>4, ChangeKeepsOrg DEF UpdateMembership
<1>5. ASSUME NEW p \in People, allowed[p] = b, NEW q \in People, RemoveBusinessMember(p, b, q)
      PROVE  OrgInv'
  <2>1. member[b][q] \in BusinessRows
    BY <1>1, <1>5 DEF RemoveBusinessMember, OrgInv, OrgTypeOK
  <2>2. [member[b][q] EXCEPT !.status = "REMOVED"] \in Rows(b)
    BY <1>1, <2>1 DEF BusinessRows
  <2> QED
    BY <1>1, <1>5, <2>2, ChangeKeepsOrg DEF RemoveBusinessMember
<1> QED
  BY <1>2, <1>3, <1>4, <1>5 DEF BusinessMembers

LEMMA GroupKeepsOrg ==
    ASSUME OrgInv, NEW g \in Groups, GroupMembers(g) PROVE OrgInv'
<1>1. g \in Organisations /\ Eligible(g) = Operators /\ Rows(g) = GroupRows
  BY Members
<1>2. ASSUME NEW p \in People, CreateGroup(p, g) PROVE OrgInv'
  BY <1>1, <1>2, CreateKeepsOrg DEF CreateGroup
<1>3. ASSUME NEW p \in People, allowed[p] = g, NEW q \in Operators,
             NEW role \in {"OWNER", "MANAGER", "DRIVER"}, AddGroupMember(p, g, q, role)
      PROVE  OrgInv'
  <2>1. [role |-> role, status |-> "ACTIVE"] \in Rows(g)
    BY <1>1 DEF GroupRows
  <2> QED
    BY <1>1, <1>3, <2>1, AddKeepsOrg, RefusalKeepsOrg DEF AddGroupMember
<1>4. ASSUME NEW p \in People, allowed[p] = g, NEW q \in Operators, NEW row \in GroupRows,
             UpdateGroupMember(p, g, q, row)
      PROVE  OrgInv'
  BY <1>1, <1>4, ChangeKeepsOrg, RefusalKeepsOrg DEF UpdateGroupMember
<1>5. ASSUME NEW p \in People, allowed[p] = g, NEW q \in Operators, RemoveGroupMember(p, g, q)
      PROVE  OrgInv'
  <2>1. member[g][q] \in GroupRows
    BY <1>1, <1>5 DEF RemoveGroupMember, OrgInv, OrgTypeOK
  <2>2. [member[g][q] EXCEPT !.status = "INACTIVE"] \in Rows(g)
    BY <1>1, <2>1 DEF GroupRows
  <2> QED
    BY <1>1, <1>5, <2>2, ChangeKeepsOrg DEF RemoveGroupMember
<1> QED
  BY <1>2, <1>3, <1>4, <1>5 DEF GroupMembers

LEMMA OrgKept == ASSUME OrgInv, [OrgNext]_orgVars PROVE OrgInv'
<1>1. CASE UNCHANGED orgVars
  <2>1. RightsMove /\ made' \in 0..MaxCalls
    BY <1>1 DEF orgVars, RightsMove, OrgInv, OrgTypeOK
  <2> QED
    BY <1>1, <2>1, RightsKeepOrg DEF orgVars
<1>2. CASE OrgNext
  BY <1>2, AskKeepsOrg, BusinessKeepsOrg, GroupKeepsOrg, LeavingKeepsOrg DEF OrgNext
<1> QED
  BY <1>1, <1>2

-----------------------------------------------------------------------------
(* The job. *)

\* The job has a provider once it is agreed, one who negotiated, and a driver
\* once it is assigned.
JobInv ==
    /\ threads \subseteq Providers /\ agreed \in threads \cup {None}
    /\ driver \in Operators \cup {None} /\ stage \in 1..9 /\ disputed \in BOOLEAN
    /\ agreed = None <=> stage = 1
    /\ driver = None <=> stage <= 2
    /\ disputed => driver # None

LEMMA StagesAre ==
    /\ DOMAIN Stages = 1..9 /\ Len(Stages) = 9
    /\ \A n \in 1..9 :
           /\ Stages[n] = "OPEN" <=> n = 1
           /\ Stages[n] = "CONFIRMED" <=> n = 2
           /\ Stages[n] = "COMPLETED" <=> n = 9
BY DEF Stages

LEMMA ProvidersAre == None \notin Providers
BY OrganisationsAssumption DEF Providers, Organisations

LEMMA JobKept == ASSUME JobInv, [AccessNext]_accessVars PROVE JobInv'
<1>1. CASE UNCHANGED jobVars
  BY <1>1 DEF JobInv, jobVars
<1>2. ASSUME NEW p \in People, NEW x \in Providers, OpenThread(p, x) PROVE JobInv'
  BY <1>2 DEF OpenThread, JobInv
<1>3. ASSUME NEW x \in Providers, Agree(x) PROVE JobInv'
  BY <1>3, StagesAre, ProvidersAre DEF Agree, Status, JobInv
<1>4. ASSUME NEW p \in People, NEW d \in Operators, AssignJob(p, d) PROVE JobInv'
  <2>1. d # None
    BY OrganisationsAssumption
  <2> QED
    BY <1>4, <2>1, StagesAre DEF AssignJob, Status, JobInv
<1>5. CASE Advance
  BY <1>5, StagesAre DEF Advance, Status, JobInv
<1>6. CASE OpenDispute
  BY <1>6 DEF OpenDispute, JobInv
<1>7. CASE SettleDispute
  <2>1. disputed' = FALSE /\ driver # None
    BY <1>7 DEF SettleDispute, JobInv
  <2>2. stage' \in 3..9 /\ UNCHANGED <<threads, agreed, driver>>
    BY <1>7, <2>1, StagesAre DEF SettleDispute, JobInv
  <2>3. disputed' \in BOOLEAN /\ ~disputed'
    BY <2>1
  <2>4. /\ threads' \subseteq Providers /\ agreed' \in threads' \cup {None}
        /\ driver' \in Operators \cup {None} /\ agreed' # None /\ driver' # None
    BY <2>1, <2>2, StagesAre DEF JobInv
  <2>5. stage' \in 1..9 /\ stage' # 1 /\ ~(stage' <= 2)
    BY <2>2
  <2> QED
    BY <2>3, <2>4, <2>5 DEF JobInv
<1> QED
  BY <1>1, <1>2, <1>3, <1>4, <1>5, <1>6, <1>7 DEF AccessNext, JobNext, accessVars

\* The members and the job keep to their tables, and owners remain.
AccessInv == OrgInv /\ JobInv

THEOREM AccessInvariance == AccessSpec => []AccessInv
<1>1. AccessInit => AccessInv
  <2>1. AccessInit => disputed \in BOOLEAN /\ (disputed => driver # None)
    BY DEF AccessInit
  <2> QED
    BY <2>1, OrgInitHolds DEF AccessInit, AccessInv, JobInv
<1>2. AccessInv /\ [AccessNext]_accessVars => AccessInv'
  <2> SUFFICES ASSUME AccessInv, [AccessNext]_accessVars PROVE AccessInv'
    OBVIOUS
  <2>1. [OrgNext]_orgVars
    BY DEF AccessNext, JobNext, OpenThread, Agree, AssignJob, Advance, OpenDispute, SettleDispute,
           accessVars
  <2> QED
    BY <2>1, OrgKept, JobKept DEF AccessInv
<1> QED
  BY <1>1, <1>2, PTL DEF AccessSpec

-----------------------------------------------------------------------------
\* An organisation is without an owner only after two of them left in calls that
\* overlapped, however many members, organisations and calls there are.
THEOREM OwnersLeaveByRaceOnly == AccessSpec => []OwnerlessOnlyByRace
<1>1. AccessInv => OwnerlessOnlyByRace
  BY Members DEF AccessInv, OrgInv, OwnersRemain, OwnerlessOnlyByRace
<1> QED
  BY <1>1, AccessInvariance, PTL

\* Whoever the other modules take for a party finds the job in their list.
THEOREM PartiesFindTheJob == AccessSpec => []PartyFindsJob
<1>1. ASSUME AccessInv, NEW p \in People, ~IsAdmin(p)
      PROVE  /\ OperatorIsParty(p) => JobsVisibleTo(p)
             /\ BusinessIsParty(p) => JobsVisibleTo(p)
             /\ CarriesJob(p) => OperatorIsParty(p)
             /\ LeadsGroup(p) => CarriesJob(p)
  <2>1. agreed # None => agreed \in threads
    BY <1>1 DEF AccessInv, JobInv
  <2>2. \A x : SpeaksFor(p, x) => p = x \/ (x \in Groups /\ ActiveIn(p, x))
    BY DEF SpeaksFor, CanManage, GroupRole
  <2>3. OperatorIsParty(p) => JobsVisibleTo(p)
    BY <2>1, <2>2 DEF OperatorIsParty, JobsVisibleTo
  <2>4. BusinessIsParty(p) => JobsVisibleTo(p)
    BY DEF BusinessIsParty, BusinessRole, JobsVisibleTo
  <2>5. LeadsGroup(p) => CarriesJob(p)
    BY OrganisationsAssumption DEF LeadsGroup, CarriesJob, SpeaksFor, Organisations
  <2> QED
    BY <2>3, <2>4, <2>5 DEF CarriesJob, OperatorIsParty
<1>2. ASSUME AccessInv, NEW p \in People
      PROVE  /\ MayReadJob(p) => JobsVisibleTo(p)
             /\ p = driver => CurrentJob(p)
             /\ SeesEarnings(p) <=> Earned /\ agreed \in StatementsFor(p)
             /\ RatesAs(p) # "NONE" \/ SeesEarnings(p) => MayReadJob(p)
             /\ JobDetail(p).contacts # {} \/ JobDetail(p).places = "EXACT" => JobsVisibleTo(p)
  <2>1. MayReadJob(p) => JobsVisibleTo(p)
    BY <1>1, <1>2 DEF MayReadJob, IsJobParty, JobsVisibleTo
  <2>2. p = driver => CurrentJob(p)
    BY DEF CurrentJob, JobsVisibleTo
  <2>3. Earned => agreed \in Providers /\ agreed # None
    BY <1>2, StagesAre DEF AccessInv, JobInv, Earned
  <2>4. SeesEarnings(p) <=> Earned /\ agreed \in StatementsFor(p)
    BY <2>3 DEF SeesEarnings, SpeaksFor, StatementsFor
  <2>5. SeesEarnings(p) => MayReadJob(p)
    BY <2>3 DEF SeesEarnings, MayReadJob, IsJobParty, OperatorIsParty
  <2>6. RatesAs(p) # "NONE" => MayReadJob(p)
    BY DEF RatesAs, MayReadJob, IsJobParty, CarriesJob, OperatorIsParty
  <2>7. MaySeeContactPhones(p) => JobsVisibleTo(p)
    <3>1. driver # None => agreed # None
      BY <1>2 DEF AccessInv, JobInv
    <3>2. driver # None /\ SpeaksFor(p, agreed) => OperatorIsParty(p)
      BY <3>1 DEF OperatorIsParty
    <3> QED
      BY <1>1, <1>2, <3>2 DEF MaySeeContactPhones, JobsVisibleTo
  <2>8. JobDetail(p).contacts # {} \/ JobDetail(p).places = "EXACT" => MaySeeContactPhones(p)
    BY DEF JobDetail, ShownContacts, MaySeeContactPhones
  <2> QED
    BY <2>1, <2>2, <2>4, <2>5, <2>6, <2>7, <2>8
<1>3. ASSUME AccessInv, NEW p \in People, ~IsAdmin(p)
      PROVE  /\ PartyKind(p) # "NONE" => InboxIssues(p) \subseteq Conversations(p)
             /\ InboxOffers(p) \subseteq Conversations(p)
             /\ Conversations(p) # {} => MayReadJob(p)
  <2>1. PartyKind(p) # "NONE" => IsJobParty(p)
    BY <1>1, <1>3 DEF PartyKind, IsJobParty
  <2>2. InboxOffers(p) # {} => IsJobParty(p)
    BY <1>3 DEF InboxOffers, SideInThread, IsJobParty, OperatorIsParty
  <2>3. InboxIssues(p) # {} => IsJobParty(p)
    BY <2>1 DEF InboxIssues
  <2>4. InboxNotes(p) # {} => IsJobParty(p)
    BY DEF InboxNotes
  <2>5. IsJobParty(p) => JobsVisibleTo(p)
    BY <1>1, <1>3 DEF IsJobParty
  <2>6. Conversations(p) = IF JobsVisibleTo(p) THEN JobItems(p) ELSE {}
    BY <1>3 DEF Conversations
  <2> QED
    BY <2>1, <2>2, <2>3, <2>4, <2>5, <2>6 DEF JobItems, MayReadJob
<1>4. ASSUME AccessInv, NEW p \in People, IsAdmin(p)
      PROVE  Conversations(p) = {}
  BY <1>4 DEF Conversations
<1>5. AccessInv => PartyFindsJob
  BY <1>2, <1>3, <1>4 DEF PartyFindsJob
<1> QED
  BY <1>5, AccessInvariance, PTL

=============================================================================
