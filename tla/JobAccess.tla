------------------------------ MODULE JobAccess ------------------------------
(***************************************************************************)
(* Who sees a job, and the telephone numbers on it, while the members of   *)
(* its business and of the group that carries it come and go.              *)
(***************************************************************************)
EXTENDS Organisations, Sequences

CONSTANTS
    Shipper,      \* the business whose job it is
    DriverAccepts \* the groups whose drivers take up work themselves

ASSUME ShipperAssumption == Shipper \in Businesses /\ DriverAccepts \subseteq Groups

Providers == Operators \cup Groups

Stages == <<"OPEN", "CONFIRMED", "ASSIGNED", "AT_PICKUP", "PICKED_UP", "IN_TRANSIT",
            "AT_DESTINATION", "DELIVERED", "COMPLETED">>

VARIABLES
    threads,  \* the providers who opened a negotiation
    agreed,   \* the provider the business agreed with, or None
    driver,   \* the assigned driver, or None
    stage,    \* the position of the job in Stages, or where its dispute froze it
    disputed  \* the job is frozen by a dispute

jobVars == <<threads, agreed, driver, stage, disputed>>
accessVars == <<orgVars, jobVars>>

AccessInit ==
    /\ OrgInit
    /\ threads = {} /\ agreed = None /\ driver = None /\ stage = 1
    /\ disputed = FALSE

Status == IF disputed THEN "DISPUTED" ELSE Stages[stage]

-----------------------------------------------------------------------------
IsAdmin(p) == p \in Admins

BusinessIsParty(p) == BusinessRole(p, Shipper, {"OWNER", "DISPATCHER"})

\* A person speaks for their own profile, and for a group they manage.
SpeaksFor(p, x) == p = x \/ (x \in Groups /\ CanManage(p, x))

OperatorIsParty(p) ==
    \/ agreed # None /\ SpeaksFor(p, agreed)
    \/ driver = p
    \/ \E x \in threads : SpeaksFor(p, x)

IsJobParty(p) == IsAdmin(p) \/ BusinessIsParty(p) \/ OperatorIsParty(p)

\* Reading a job in detail, and the notes staff leave on it.
MayReadJob(p) == IsJobParty(p)

\* Mutant of JobsVisibleTo: the list goes by the business and the threads alone.
ListedByThread(p) ==
    \/ IsAdmin(p)
    \/ ActiveIn(p, Shipper)
    \/ \E x \in threads : p = x \/ (x \in Groups /\ ActiveIn(p, x))

\* The list of jobs: the business's members, those who negotiated, the driver.
JobsVisibleTo(p) ==
    \/ IsAdmin(p)
    \/ ActiveIn(p, Shipper)
    \/ \E x \in threads : p = x \/ (x \in Groups /\ ActiveIn(p, x))
    \/ driver = p

\* The list narrowed to the jobs the caller drives.
CurrentJob(p) == JobsVisibleTo(p) /\ driver = p

\* Once a driver is assigned, those who carry the job see the contacts too.
MaySeeContactPhones(p) ==
    \/ IsAdmin(p)
    \/ ActiveIn(p, Shipper)
    \/ /\ driver # None
       /\ \/ SpeaksFor(p, agreed)
          \/ driver = p

PickupContactStatuses ==
    {"ASSIGNED", "AT_PICKUP", "PICKED_UP", "IN_TRANSIT", "AT_DESTINATION", "DELIVERED"}

RecipientContactStatuses == {"PICKED_UP", "IN_TRANSIT", "AT_DESTINATION", "DELIVERED"}

\* The contacts a reader of the job is shown: the side that carries it none before the
\* assignment, while a dispute freezes it, or once it is closed.
ShownContacts(p) ==
    IF IsAdmin(p) \/ ActiveIn(p, Shipper) THEN {"PICKUP", "RECIPIENT"}
    ELSE IF ~MaySeeContactPhones(p) THEN {}
    ELSE {"PICKUP" : x \in {Status} \cap PickupContactStatuses}
            \cup {"RECIPIENT" : x \in {Status} \cap RecipientContactStatuses}

\* The detail of the job: besides the contacts, where the places exactly are.
JobDetail(p) ==
    [contacts |-> ShownContacts(p),
     places |-> IF MaySeeContactPhones(p) THEN "EXACT" ELSE "COARSE"]

-----------------------------------------------------------------------------
(* The other modules ask who is a party in their own words. *)

\* Negotiation: the side a person has in the thread of x.
SideInThread(p, x) ==
    IF BusinessIsParty(p) THEN "BUSINESS"
    ELSE IF SpeaksFor(p, x) THEN "OPERATOR"
    ELSE IF IsAdmin(p) THEN "ADMIN" ELSE "NONE"

\* Incidents: the provider is whom the business agreed with, or the driver.
CarriesJob(p) == (agreed # None /\ SpeaksFor(p, agreed)) \/ driver = p

LeadsGroup(p) == agreed \in Groups /\ CanManage(p, agreed)

PartyKind(p) ==
    IF IsAdmin(p) THEN "ADMIN"
    ELSE IF BusinessIsParty(p) THEN "BUSINESS"
    ELSE IF LeadsGroup(p) THEN "GROUP"
    ELSE IF CarriesJob(p) THEN "OPERATOR" ELSE "NONE"

\* Ratings: whom a person rates the other side for; staff never rate.
RatesAs(p) ==
    IF IsAdmin(p) THEN "NONE"
    ELSE IF BusinessIsParty(p) THEN "BUSINESS"
    ELSE IF ~CarriesJob(p) THEN "NONE"
    ELSE IF LeadsGroup(p) THEN "GROUP"
    ELSE IF driver = p /\ agreed \in Groups THEN "DRIVER" ELSE "OPERATOR"

\* Statements: the payee of a job that was completed, and whose statements one lists.  The
\* commission recorded at the completion stays while the job is disputed again.
Earned == Stages[stage] = "COMPLETED"

SeesEarnings(p) == Earned /\ SpeaksFor(p, agreed)

StatementsFor(p) == {x \in Providers : p = x \/ (x \in Groups /\ CanManage(p, x))}

-----------------------------------------------------------------------------
(* The inbox: the conversations on the jobs of the list, source by source. *)

InboxOffers(p) ==
    {<<"OFFER", x>> : x \in {y \in threads : SideInThread(p, y) \in {"BUSINESS", "OPERATOR"}}}

InboxIssues(p) ==
    {<<"ISSUE", Shipper>> : k \in {PartyKind(p)} \cap {"BUSINESS", "GROUP", "OPERATOR"}}

InboxNotes(p) == {<<"NOTES", Shipper>> : x \in {TRUE} \cap {IsJobParty(p)}}

JobItems(p) == InboxOffers(p) \cup InboxNotes(p) \cup InboxIssues(p)

\* Staff work from their queues and have none.  The inbox reads the caller's 200 newest
\* jobs: this one is taken to be among them.
Conversations(p) == IF IsAdmin(p) \/ ~JobsVisibleTo(p) THEN {} ELSE JobItems(p)

-----------------------------------------------------------------------------
\* A provider negotiates: for themselves, or for a group they manage.
OpenThread(p, x) ==
    /\ Registered(Shipper) /\ Status = "OPEN" /\ x \notin threads
    /\ SpeaksFor(p, x)
    /\ threads' = threads \cup {x}
    /\ UNCHANGED <<agreed, driver, stage, disputed, orgVars>>

\* Both sides accepted the terms of a thread.
Agree(x) ==
    /\ Status = "OPEN" /\ x \in threads
    /\ agreed' = x /\ stage' = stage + 1
    /\ UNCHANGED <<threads, driver, disputed, orgVars>>

\* Who may name the driver: staff, the operator agreed with, a manager of the group,
\* and a member for themselves in a group whose drivers accept work.
MayAssign(p, d) ==
    \/ IsAdmin(p)
    \/ SpeaksFor(p, agreed)
    \/ agreed \in DriverAccepts /\ p = d /\ ActiveIn(d, agreed)

\* The driver is the operator agreed with, or an active member of the group.
DriverAllowed(d) == d = agreed \/ (agreed \in Groups /\ ActiveIn(d, agreed))

AssignJob(p, d) ==
    /\ Status = "CONFIRMED" /\ MayAssign(p, d) /\ DriverAllowed(d)
    /\ driver' = d /\ stage' = stage + 1
    /\ UNCHANGED <<threads, agreed, disputed, orgVars>>

\* The driver reports, up to the close of the job.
Advance ==
    /\ driver # None /\ Status \notin {"DISPUTED", "COMPLETED"}
    /\ stage' = stage + 1
    /\ UNCHANGED <<threads, agreed, driver, disputed, orgVars>>

\* A dispute freezes an assigned job wherever it stands ...
OpenDispute ==
    /\ driver # None /\ ~disputed
    /\ disputed' = TRUE
    /\ UNCHANGED <<threads, agreed, driver, stage, orgVars>>

\* ... until a ruling resumes or completes it.  Of a job ruled failed or cancelled, which
\* shows and earns nothing, the model does not go on.
SettleDispute ==
    /\ disputed
    /\ disputed' = FALSE
    /\ stage' \in {stage, Len(Stages)}
    /\ UNCHANGED <<threads, agreed, driver, orgVars>>

JobNext ==
    \/ \E p \in People, x \in Providers : OpenThread(p, x)
    \/ \E x \in Providers : Agree(x)
    \/ \E p \in People, d \in Operators : AssignJob(p, d)
    \/ Advance
    \/ OpenDispute
    \/ SettleDispute

AccessNext == (OrgNext /\ UNCHANGED jobVars) \/ JobNext

AccessSpec == AccessInit /\ [][AccessNext]_accessVars

-----------------------------------------------------------------------------
\* The organisations' rows and the job's fields are of their types.
AccessTypeOK ==
    /\ OrgTypeOK
    /\ threads \subseteq Providers /\ agreed \in threads \cup {None}
    /\ driver \in Operators \cup {None} /\ stage \in DOMAIN Stages
    /\ disputed \in BOOLEAN

\* The modules ask who is a party each in their own words, and agree: whoever may open
\* the job, drives it, rates it, is paid for it, is heard on its incidents or is shown a
\* telephone number finds it in their list and has in their inbox what they take part in,
\* nothing they may not open.  So it stays whoever joins or leaves and through disputes,
\* also for a driver who left the group with the job in hand.
PartyFindsJob ==
    \A p \in People :
        /\ MayReadJob(p) => JobsVisibleTo(p)
        /\ p = driver => CurrentJob(p)
        /\ RatesAs(p) # "NONE" \/ SeesEarnings(p) => MayReadJob(p)
        /\ JobDetail(p).contacts # {} \/ JobDetail(p).places = "EXACT" => JobsVisibleTo(p)
        /\ ~IsAdmin(p) /\ PartyKind(p) # "NONE" => InboxIssues(p) \subseteq Conversations(p)
        /\ ~IsAdmin(p) => InboxOffers(p) \subseteq Conversations(p)
        /\ Conversations(p) # {} => MayReadJob(p)
        /\ SeesEarnings(p) <=> Earned /\ agreed \in StatementsFor(p)
=============================================================================
