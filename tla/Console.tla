------------------------------- MODULE Console -------------------------------
(***************************************************************************)
(* The Platform Admins' console: an account suspended, reinstated and      *)
(* offboarded, the configuration changed, and the cargo matcher in it      *)
(* taught keywords and categories.                                         *)
(*                                                                         *)
(* Each request reads what it decides on without a lock; the write that    *)
(* follows locks its row and does not look again.  So a request is two     *)
(* steps, and the requests of two sessions interleave.                     *)
(***************************************************************************)
EXTENDS Integers, Sequences, FiniteSets, SequencesExt

CONSTANTS
    Sessions,     \* sessions of Platform Admins that passed MFA
    Original,     \* the cargo categories there are
    Added,        \* categories an admin may add
    Keywords,
    Settings,     \* the numbers of the configuration the console may change
    Values,       \* values a setting may have
    DefaultConfig, \* setting -> the value it is shipped with
    MaxRows,      \* bound: interventions on the account
    MaxPatches,   \* bound: of those, the ones after which its state is patched
    MaxRequests   \* bound: requests of the sessions, all together

ASSUME ConsoleAssumption ==
    /\ IsFiniteSet(Sessions) /\ IsFiniteSet(Keywords)
    /\ DefaultConfig \in [Settings -> Values]
    /\ Original \cap Added = {} /\ MaxRows \in Nat /\ MaxPatches \in Nat
    /\ MaxRequests \in Nat

Categories == Original \cup Added

\* What an account may be suspended from, by its kind; a group is as a business.
Suspendable == [USER |-> {"ACTIVE"},
                OPERATOR |-> {"PENDING", "ACTIVE", "RESTRICTED"},
                BUSINESS |-> {"GOOD", "RESTRICTED"}]

\* Where a reinstatement leads when the suspension does not say.
Default == [USER |-> "ACTIVE", OPERATOR |-> "ACTIVE", BUSINESS |-> "GOOD"]

OperatorStatus == {"PENDING", "ACTIVE", "RESTRICTED", "SUSPENDED", "OFFBOARDED"}
BusinessStanding == {"GOOD", "RESTRICTED", "SUSPENDED"}
AccountStates == OperatorStatus \cup BusinessStanding

\* What a Platform Admin may write through the account's own resource; a user has none.
Patchable == [USER |-> {}, OPERATOR |-> OperatorStatus, BUSINESS |-> BusinessStanding]

\* What an account of each kind starts as.
Created == [Default EXCEPT !.OPERATOR = "PENDING"]

Idle == [request |-> "NONE"]

VARIABLES
    fresh,     \* sessions with a step-up younger than its time to live
    kind,      \* of account
    state,     \* of the account
    rows,      \* admin_intervention, append-only
    patched,   \* history: how many rows there were at each PATCH of the state
    listed,    \* the categories of the configuration
    words,     \* category -> its keywords, also for one that is not listed
    settings,  \* setting -> its value
    call,      \* session -> the request it has under way
    requests   \* how many there were, for the bound

accountVars == <<kind, state, rows, patched>>
configVars == <<listed, words, settings>>
consoleVars == <<fresh, accountVars, configVars, call, requests>>

ConsoleInit ==
    /\ fresh = {} /\ call = [s \in Sessions |-> Idle] /\ requests = 0
    /\ kind \in DOMAIN Suspendable
    /\ state = Created[kind]
    /\ rows = <<>> /\ patched = {}
    /\ listed = Original /\ words = [c \in Categories |-> {}]
    /\ settings = DefaultConfig

-----------------------------------------------------------------------------
\* A second factor makes the session fresh for a while.
StepUp(s) ==
    /\ s \notin fresh
    /\ fresh' = fresh \cup {s}
    /\ UNCHANGED <<accountVars, configVars, call, requests>>

StepUpLapses(s) ==
    /\ s \in fresh
    /\ fresh' = fresh \ {s}
    /\ UNCHANGED <<accountVars, configVars, call, requests>>

\* Freshness is read when the request arrives.
Begins(s, request) ==
    /\ call[s] = Idle /\ s \in fresh /\ requests < MaxRequests
    /\ call' = [call EXCEPT ![s] = request]
    /\ requests' = requests + 1
    /\ UNCHANGED <<fresh, accountVars, configVars>>

-----------------------------------------------------------------------------
(* Interventions. *)

Suspensions == SelectSeq(rows, LAMBDA r : r.action = "SUSPEND")

\* The state before the latest suspension, if one may be suspended from it.
StateBeforeSuspension ==
    IF Suspensions # <<>> /\ Last(Suspensions).before \in Suspendable[kind]
    THEN Last(Suspensions).before ELSE Default[kind]

\* Where an action leads from the state just read.
Leads(action, target) ==
    \/ action = "SUSPEND" /\ state \in Suspendable[kind] /\ target = "SUSPENDED"
    \/ action = "REINSTATE" /\ state = "SUSPENDED" /\ target = StateBeforeSuspension
    \/ action = "OFFBOARD" /\ kind # "BUSINESS" /\ state # "OFFBOARDED"
       /\ target = "OFFBOARDED"

Intervene(s, action, target) ==
    /\ Leads(action, target)
    /\ Begins(s, [request |-> "INTERVENE", action |-> action, target |-> target,
                  read |-> state])

\* Mutant of Replaced: the row keeps the state the request had read.
ReplacedAsRead(s) == call[s].read

\* The state the locked account was in.
Replaced(s) == state

Intervention ==
    [action : {"SUSPEND", "REINSTATE", "OFFBOARD", "APPROVE"},
     before : AccountStates, after : AccountStates]

Recorded(action, before, after) ==
    rows' = Append(rows, [action |-> action, before |-> before, after |-> after])

\* The state is set and the row is written in one transaction.
SetState(s) ==
    /\ call[s].request = "INTERVENE" /\ Len(rows) < MaxRows
    /\ state' = call[s].target
    /\ Recorded(call[s].action, Replaced(s), call[s].target)
    /\ call' = [call EXCEPT ![s] = Idle]
    /\ UNCHANGED <<fresh, kind, patched, configVars, requests>>

\* A reviewer's approval locks the account before it looks.
ApproveOperator ==
    /\ kind = "OPERATOR" /\ state = "PENDING" /\ Len(rows) < MaxRows
    /\ state' = "ACTIVE"
    /\ Recorded("APPROVE", state, "ACTIVE")
    /\ UNCHANGED <<fresh, kind, patched, configVars, call, requests>>

\* The resource of an operator, a business or a group lets a Platform Admin write its
\* status or standing, with the row locked and without an intervention.
PatchStatus(target) ==
    /\ target \in Patchable[kind] \ {state} /\ Cardinality(patched) < MaxPatches
    /\ state' = target
    /\ patched' = patched \cup {Len(rows)}
    /\ UNCHANGED <<fresh, kind, rows, configVars, call, requests>>

-----------------------------------------------------------------------------
(* The configuration: a change is a patch over the live one. *)

\* A request to change it: what it asks of the settings, and what its patch names.
Change(asks, ofSettings, ofWords, ofListed) ==
    [request |-> "CONFIGURE", asks |-> asks,
     patch |-> [settings |-> ofSettings, words |-> ofWords, listed |-> ofListed]]

NoSetting == [x \in {} |-> 0]

\* Mutant of PatchFrom: every setting is sent, as the request read it.
PatchFromAll(changes) ==
    [x \in Settings |-> IF x \in DOMAIN changes THEN changes[x] ELSE settings[x]]

\* Only what changes is sent.
PatchFrom(changes) == changes

\* What would change: nothing is applied that changes nothing.
Differs(changes) == \E x \in DOMAIN changes : changes[x] # settings[x]

ApplyConfigChange(s, changes) ==
    /\ Differs(changes)
    /\ Begins(s, Change(changes, PatchFrom(changes), NoSetting, {}))

-----------------------------------------------------------------------------
(* The cargo matcher: its keywords and categories are part of the configuration. *)

\* The keywords of the listed categories, which is all a request sees.
Known == [c \in listed |-> words[c]]

Taken(k) == \E c \in listed : k \in words[c]

\* Mutant of Patch: only the category that changes is sent.
PatchOfOne(c, added) == [d \in {c} |-> added \cup IF c \in listed THEN words[c] ELSE {}]

\* Every listed category is sent, with the keywords added to one.
Patch(c, added) ==
    [d \in listed \cup {c} |->
        (IF d \in listed THEN Known[d] ELSE {}) \cup IF d = c THEN added ELSE {}]

AddCargoKeyword(s, c, k) ==
    /\ c \in listed /\ ~Taken(k)
    /\ Begins(s, Change(NoSetting, NoSetting, Patch(c, {k}), {}))

AddCargoCategory(s, c, K) ==
    /\ c \notin listed /\ \A k \in K : ~Taken(k)
    /\ Begins(s, Change(NoSetting, NoSetting, Patch(c, K), listed \cup {c}))

\* A deep merge: what the patch names is replaced, what it does not name stays.
Merge(base, patch) ==
    [x \in DOMAIN base |-> IF x \in DOMAIN patch THEN patch[x] ELSE base[x]]

\* With the configuration's row locked.
ApplyChange(s) ==
    /\ call[s].request = "CONFIGURE"
    /\ settings' = Merge(settings, call[s].patch.settings)
    /\ words' = Merge(words, call[s].patch.words)
    /\ listed' = IF call[s].patch.listed = {} THEN listed ELSE call[s].patch.listed
    /\ call' = [call EXCEPT ![s] = Idle]
    /\ UNCHANGED <<fresh, accountVars, requests>>

AccountRequests(s) ==
    \/ \E action \in {"SUSPEND", "REINSTATE", "OFFBOARD"}, target \in AccountStates :
          Intervene(s, action, target)
    \/ SetState(s)

CargoRequests(s) ==
    \/ \E c \in listed, k \in Keywords : AddCargoKeyword(s, c, k)
    \/ \E c \in Added, K \in SUBSET Keywords : AddCargoCategory(s, c, K)

ConfigRequests(s) ==
    \/ \E X \in SUBSET Settings : \E changes \in [X -> Values] : ApplyConfigChange(s, changes)
    \/ ApplyChange(s)

ConsoleNext ==
    \/ \E s \in Sessions :
          \/ StepUp(s)
          \/ StepUpLapses(s)
          \/ AccountRequests(s)
          \/ CargoRequests(s)
          \/ ConfigRequests(s)
    \/ ApproveOperator
    \/ \E target \in AccountStates : PatchStatus(target)

ConsoleSpec == ConsoleInit /\ [][ConsoleNext]_consoleVars

-----------------------------------------------------------------------------
\* The fields of the tables and of the requests under way.
ConsoleTypeOK ==
    /\ fresh \subseteq Sessions /\ kind \in DOMAIN Suspendable /\ state \in AccountStates
    /\ rows \in Seq(Intervention) /\ patched \subseteq 0..Len(rows)
    /\ Original \subseteq listed /\ listed \subseteq Categories
    /\ words \in [Categories -> SUBSET Keywords]
    /\ settings \in [Settings -> Values]

\* Only a PATCH of the state leaves a gap in an account's interventions: between two
\* such writes each row starts where the one before ended, and the last ends where the
\* account is, also when two requests decided on the same state.  A user, whose status no
\* other resource writes, has its whole history there.
InterventionsChain ==
    LET ends == <<Created[kind]>> \o [i \in DOMAIN rows |-> rows[i].after]
    IN /\ \A i \in DOMAIN rows : i - 1 \notin patched => rows[i].before = ends[i]
       /\ Len(rows) \notin patched => state = Last(ends)
       /\ kind = "USER" => patched = {}

\* Two categories that were there from the start never share a keyword, though two
\* requests may add it at once: each patch carries all the keywords its request knew,
\* so the later one takes back what the earlier one added.
KeywordsStayApart ==
    \A c, d \in Original : c # d => words[c] \cap words[d] = {}

\* A change of the configuration touches the settings its admin asked for and no other,
\* whatever was applied between its reading and its writing: two admins who change
\* different settings at once both get what they asked.
ChangesWhatWasAsked ==
    [][\A s \in Sessions :
          call[s].request = "CONFIGURE" /\ call'[s] = Idle =>
              \A x \in Settings :
                  settings'[x] = IF x \in DOMAIN call[s].asks
                                 THEN call[s].asks[x] ELSE settings[x]]_consoleVars
=============================================================================
