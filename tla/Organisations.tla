---------------------------- MODULE Organisations ----------------------------
(***************************************************************************)
(* Businesses and operator groups: who belongs to them and in which role.  *)
(*                                                                         *)
(* A call asks its policy for the right to change the members, then locks  *)
(* the one row it changes; before a row that takes an active owner away is *)
(* written the other owners are counted.  Nothing locks the organisation,  *)
(* so calls on different rows interleave.  A call that counts nothing is   *)
(* one step from its lock to its commit.                                   *)
(***************************************************************************)
EXTENDS Naturals, FiniteSets

CONSTANTS
    Businesses, Groups,
    People,
    Operators,    \* the people with an operator profile
    Admins,       \* platform administrators
    MaxCalls,     \* bound: calls made to change members
    None

Organisations == Businesses \cup Groups

BusinessRows == [role : {"OWNER", "DISPATCHER", "VIEWER"},
                 status : {"ACTIVE", "SUSPENDED", "REMOVED"}]

GroupRows == [role : {"OWNER", "MANAGER", "DRIVER"}, status : {"ACTIVE", "INACTIVE"}]

ASSUME OrganisationsAssumption ==
    /\ IsFiniteSet(People) /\ IsFiniteSet(Organisations) /\ Businesses \cap Groups = {}
    /\ Operators \subseteq People /\ Admins \subseteq People
    /\ None \notin People \cup Organisations \cup BusinessRows \cup GroupRows
    /\ MaxCalls \in Nat

Rows(o) == IF o \in Businesses THEN BusinessRows ELSE GroupRows

\* Whoever may be a member: a business takes users, a group takes operators.
Eligible(o) == IF o \in Businesses THEN People ELSE Operators

VARIABLES
    member,   \* organisation -> person -> row, or None
    allowed,  \* person -> the organisation they may change, as their policy answered
    leaving,  \* person -> the owner's row they hold and what becomes of it, or None
    made,     \* calls made so far
    raced     \* history: organisations two of whose owners left at the same time

orgVars == <<member, allowed, leaving, made, raced>>

OrgInit ==
    /\ member = [o \in Organisations |-> [p \in Eligible(o) |-> None]]
    /\ allowed = [p \in People |-> None]
    /\ leaving = [p \in People |-> None]
    /\ made = 0
    /\ raced = {}

-----------------------------------------------------------------------------
Registered(o) == \E p \in Eligible(o) : member[o][p] # None

ActiveIn(p, o) ==
    p \in Eligible(o) /\ member[o][p] # None /\ member[o][p].status = "ACTIVE"

\* The role of an active member: what a policy goes by.
BusinessRole(p, b, roles) == ActiveIn(p, b) /\ member[b][p].role \in roles

GroupRole(p, g, roles) == ActiveIn(p, g) /\ member[g][p].role \in roles

\* Who may change the members: the owners of a business, the managers of a group.
ManagesBusiness(p, b) == p \in Admins \/ BusinessRole(p, b, {"OWNER"})

CanManage(p, g) == GroupRole(p, g, {"OWNER", "MANAGER"})

ManagesGroup(p, g) == p \in Admins \/ CanManage(p, g)

Manages(p, o) == IF o \in Businesses THEN ManagesBusiness(p, o) ELSE ManagesGroup(p, o)

IsOwner(p, o) == ActiveIn(p, o) /\ member[o][p].role = "OWNER"

\* Mutant of OtherOwners: owners who have left are counted too.
OtherOwnersEver(o, q) ==
    {p \in Eligible(o) \ {q} : member[o][p] # None /\ member[o][p].role = "OWNER"}

\* The owners counted, as committed, before a row that loses one is written.
OtherOwners(o, q) == {p \in Eligible(o) \ {q} : IsOwner(p, o)}

InAnotherGroup(p, g) == \E h \in Groups \ {g} : ActiveIn(p, h)

RowFree(o, q) ==
    \A r \in People : leaving[r] # None => ~(leaving[r].org = o /\ leaving[r].who = q)

-----------------------------------------------------------------------------
\* Registering makes the first owner.
CreateBusiness(p, b) ==
    /\ ~Registered(b)
    /\ member' = [member EXCEPT ![b][p] = [role |-> "OWNER", status |-> "ACTIVE"]]
    /\ UNCHANGED <<allowed, leaving, made, raced>>

CreateGroup(p, g) ==
    /\ p \in Operators /\ ~Registered(g)
    /\ ~InAnotherGroup(p, g)
    /\ member' = [member EXCEPT ![g][p] = [role |-> "OWNER", status |-> "ACTIVE"]]
    /\ UNCHANGED <<allowed, leaving, made, raced>>

\* The policy is asked before anything is locked.
AskRight(p, o) ==
    /\ allowed[p] = None /\ leaving[p] = None /\ made < MaxCalls
    /\ Registered(o) /\ Manages(p, o)
    /\ allowed' = [allowed EXCEPT ![p] = o]
    /\ made' = made + 1
    /\ UNCHANGED <<member, leaving, raced>>

\* The call of p on the row of q gets its lock, and is no longer waiting.
Locks(p, o, q) ==
    /\ q \in Eligible(o) /\ RowFree(o, q)
    /\ allowed' = [allowed EXCEPT ![p] = None]

Refused(p, o, q) ==
    /\ Locks(p, o, q)
    /\ UNCHANGED <<member, leaving, made, raced>>

Writes(p, o, q, row) ==
    /\ Locks(p, o, q)
    /\ member' = [member EXCEPT ![o][q] = row]
    /\ UNCHANGED <<leaving, made, raced>>

\* A new row, or one that had ended taken up again; whoever is active is refused.
AddBusinessMember(p, b, q, role) ==
    IF ActiveIn(q, b) THEN Refused(p, b, q)
    ELSE Writes(p, b, q, [role |-> role, status |-> "ACTIVE"])

AddGroupMember(p, g, q, role) ==
    IF ActiveIn(q, g) \/ InAnotherGroup(q, g) THEN Refused(p, g, q)
    ELSE Writes(p, g, q, [role |-> role, status |-> "ACTIVE"])

\* The row is written at once if it keeps its owner; else the owners are counted and
\* the row stays locked up to the commit.
Change(p, o, q, row) ==
    IF ~(IsOwner(q, o) /\ row # member[o][q])
    THEN Writes(p, o, q, row)
    ELSE IF OtherOwners(o, q) = {} THEN Refused(p, o, q)
    ELSE /\ Locks(p, o, q)
         /\ leaving' = [leaving EXCEPT ![p] = [org |-> o, who |-> q, row |-> row]]
         /\ UNCHANGED <<member, made, raced>>

UpdateMembership(p, b, q, row) ==
    /\ member[b][q] # None
    /\ Change(p, b, q, row)

RemoveBusinessMember(p, b, q) ==
    /\ member[b][q] # None
    /\ Change(p, b, q, [member[b][q] EXCEPT !.status = "REMOVED"])

\* Coming back to a group is refused to an operator active in another.
UpdateGroupMember(p, g, q, row) ==
    /\ member[g][q] # None
    /\ IF row.status = "ACTIVE" /\ ~ActiveIn(q, g) /\ InAnotherGroup(q, g)
       THEN Refused(p, g, q)
       ELSE Change(p, g, q, row)

RemoveGroupMember(p, g, q) ==
    /\ member[g][q] # None
    /\ Change(p, g, q, [member[g][q] EXCEPT !.status = "INACTIVE"])

\* An owner's row is committed.
Leave(p) ==
    LET l == leaving[p]
    IN /\ l # None
       /\ member' = [member EXCEPT ![l.org][l.who] = l.row]
       /\ leaving' = [leaving EXCEPT ![p] = None]
       /\ raced' = raced \cup {o \in {l.org} : \E r \in People \ {p} :
                                   leaving[r] # None /\ leaving[r].org = o}
       /\ UNCHANGED <<allowed, made>>

-----------------------------------------------------------------------------
BusinessMembers(b) ==
    \E p \in People :
        \/ CreateBusiness(p, b)
        \/ /\ allowed[p] = b
           /\ \E q \in People :
                 \/ \E role \in {"OWNER", "DISPATCHER", "VIEWER"} :
                       AddBusinessMember(p, b, q, role)
                 \/ \E row \in BusinessRows : UpdateMembership(p, b, q, row)
                 \/ RemoveBusinessMember(p, b, q)

GroupMembers(g) ==
    \E p \in People :
        \/ CreateGroup(p, g)
        \/ /\ allowed[p] = g
           /\ \E q \in Operators :
                 \/ \E role \in {"OWNER", "MANAGER", "DRIVER"} :
                       AddGroupMember(p, g, q, role)
                 \/ \E row \in GroupRows : UpdateGroupMember(p, g, q, row)
                 \/ RemoveGroupMember(p, g, q)

OrgNext ==
    \/ \E p \in People, o \in Organisations : AskRight(p, o)
    \/ \E b \in Businesses : BusinessMembers(b)
    \/ \E g \in Groups : GroupMembers(g)
    \/ \E p \in People : Leave(p)

OrgSpec == OrgInit /\ [][OrgNext]_orgVars

-----------------------------------------------------------------------------
\* The rows are rows of their tables.
OrgTypeOK ==
    /\ DOMAIN member = Organisations
    /\ \A o \in Organisations : member[o] \in [Eligible(o) -> Rows(o) \cup {None}]
    /\ allowed \in [People -> Organisations \cup {None}]
    /\ DOMAIN leaving = People
    /\ \A p \in People : leaving[p] # None =>
          /\ leaving[p].org \in Organisations
          /\ leaving[p].who \in Eligible(leaving[p].org)
          /\ leaving[p].row \in Rows(leaving[p].org)
    /\ made \in 0..MaxCalls
    /\ raced \subseteq Organisations

\* What the count of the other owners does give: an organisation is without an owner
\* only after two of them left in calls that overlapped, never by calls one after
\* the other, in whatever order roles are given, suspended, taken up and removed.
OwnerlessOnlyByRace ==
    \A o \in Organisations :
        Registered(o) /\ (\A p \in People : ~IsOwner(p, o)) => o \in raced
=============================================================================
