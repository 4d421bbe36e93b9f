------------------------------ MODULE JobStates ------------------------------
(***************************************************************************)
(* The vocabulary of a job's life: its statuses, the single table of       *)
(* allowed transitions and who may initiate each of them.                  *)
(* Source: backend/fikisha/jobs/constants.py, jobs/transitions.py and the  *)
(* initiator matching of jobs/service.py.                                  *)
(***************************************************************************)
EXTENDS Naturals

Status ==
    {"DRAFT", "REQUESTED", "NEGOTIATING", "CONFIRMED", "ASSIGNED", "AT_PICKUP",
     "PICKED_UP", "IN_TRANSIT", "AT_DESTINATION", "DELIVERED", "COMPLETED",
     "CANCELLED", "FAILED", "DISPUTED"}

TerminalStates == {"COMPLETED", "CANCELLED", "FAILED"}

\* Where a disputed job may be resumed to.
ResumableStatuses ==
    {"ASSIGNED", "AT_PICKUP", "PICKED_UP", "IN_TRANSIT", "AT_DESTINATION", "DELIVERED"}

\* Where a binding resolution may route a disputed job.
RoutableStatuses == {"CANCELLED", "COMPLETED", "FAILED"}

\* The statuses whose first entry stamps a timestamp column of the job.
StampedStatuses ==
    {"REQUESTED", "CONFIRMED", "ASSIGNED", "PICKED_UP", "DELIVERED", "COMPLETED"}

Bands == {"STANDARD", "ELEVATED", "HIGH", "VERY_HIGH"}
HighValueBands == {"HIGH", "VERY_HIGH"}

StaffRoles == {"OPERATIONS_OFFICER", "PLATFORM_ADMIN"}

-----------------------------------------------------------------------------
Tokens ==
    {"BUSINESS_OWNER_OR_DISPATCHER", "BUSINESS_PARTY", "OPERATOR_PARTY",
     "GROUP_MANAGER", "ASSIGNED_DRIVER", "RECIPIENT", "SCHEDULER", "ADMIN",
     "PLATFORM_ADMIN", "ANY_PARTICIPANT"}

\* The initiator tokens of a staff member.
StaffTokens(role) ==
    IF role = "PLATFORM_ADMIN" THEN {"ADMIN", "PLATFORM_ADMIN"} ELSE {"ADMIN"}

\* What a caller holding `tokens` is granted: an owner or dispatcher is a
\* business party, and every token makes its holder a participant.
Granted(tokens) ==
    tokens
      \cup (IF "BUSINESS_OWNER_OR_DISPATCHER" \in tokens THEN {"BUSINESS_PARTY"} ELSE {})
      \cup (IF tokens # {} THEN {"ANY_PARTICIPANT"} ELSE {})

Rows(froms, tos, by) == [from : froms, to : tos, by : {by}]

\* ALLOWED_TRANSITIONS, in the sections of its source: from, to and the
\* initiators accepted.
PreCustodyRules ==
    Rows({"DRAFT"}, {"REQUESTED"}, {"BUSINESS_OWNER_OR_DISPATCHER", "ADMIN"})
    \cup Rows({"DRAFT", "REQUESTED", "NEGOTIATING"}, {"CANCELLED"},
              {"BUSINESS_PARTY", "ADMIN"})
    \cup Rows({"REQUESTED", "NEGOTIATING"}, {"NEGOTIATING", "CONFIRMED"},
              {"BUSINESS_PARTY", "OPERATOR_PARTY", "ADMIN"})
    \cup Rows({"REQUESTED"}, {"FAILED"}, {"SCHEDULER", "ADMIN"})
    \cup Rows({"NEGOTIATING"}, {"FAILED"}, {"SCHEDULER", "ADMIN", "ANY_PARTICIPANT"})
    \cup Rows({"CONFIRMED"}, {"ASSIGNED"}, {"OPERATOR_PARTY", "GROUP_MANAGER", "ADMIN"})
    \cup Rows({"CONFIRMED"}, {"CANCELLED"},
              {"BUSINESS_PARTY", "OPERATOR_PARTY", "GROUP_MANAGER", "ADMIN"})

CustodyRules ==
    Rows({"ASSIGNED"}, {"AT_PICKUP"}, {"ASSIGNED_DRIVER"})
    \cup Rows({"ASSIGNED", "AT_PICKUP"}, {"CANCELLED"},
              {"BUSINESS_PARTY", "OPERATOR_PARTY", "GROUP_MANAGER", "ADMIN"})
    \cup Rows({"ASSIGNED", "PICKED_UP", "IN_TRANSIT", "AT_DESTINATION"}, {"FAILED"},
              {"ADMIN"})
    \cup Rows({"AT_PICKUP"}, {"FAILED"}, {"ASSIGNED_DRIVER", "ADMIN"})
    \cup Rows({"AT_PICKUP"}, {"PICKED_UP"},
              {"ASSIGNED_DRIVER", "BUSINESS_OWNER_OR_DISPATCHER"})
    \cup Rows({"PICKED_UP"}, {"IN_TRANSIT"}, {"ASSIGNED_DRIVER"})
    \cup Rows({"IN_TRANSIT"}, {"AT_DESTINATION"}, {"ASSIGNED_DRIVER"})
    \cup Rows({"AT_DESTINATION"}, {"DELIVERED"}, {"ASSIGNED_DRIVER", "RECIPIENT"})
    \cup Rows({"ASSIGNED", "AT_PICKUP", "PICKED_UP", "IN_TRANSIT"}, {"DISPUTED"},
              {"ANY_PARTICIPANT", "ADMIN"})
    \cup Rows({"AT_DESTINATION"}, {"DISPUTED"}, {"ANY_PARTICIPANT", "RECIPIENT", "ADMIN"})

ClosingRules ==
    Rows({"DELIVERED"}, {"COMPLETED"}, {"BUSINESS_PARTY", "RECIPIENT", "ADMIN"})
    \cup Rows({"DELIVERED", "COMPLETED"}, {"DISPUTED"},
              {"BUSINESS_PARTY", "RECIPIENT", "OPERATOR_PARTY", "GROUP_MANAGER", "ADMIN"})

DisputeRules ==
    Rows({"DISPUTED"}, RoutableStatuses, {"ADMIN", "PLATFORM_ADMIN"})
    \cup Rows({"DISPUTED"}, ResumableStatuses, {"PLATFORM_ADMIN"})

Rules == PreCustodyRules \cup CustodyRules \cup ClosingRules \cup DisputeRules

\* May a caller holding `tokens` move a job from one status to another?
Permitted(from, to, tokens) ==
    \E rule \in Rules :
        /\ rule.from = from
        /\ rule.to = to
        /\ rule.by \cap Granted(tokens) # {}
=============================================================================
