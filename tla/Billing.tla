------------------------------- MODULE Billing -------------------------------
(***************************************************************************)
(* The weekly statements: which commission and which adjustments a run     *)
(* bills, and the payments recorded against a statement.                   *)
(*                                                                         *)
(* Runs exclude each other by an advisory lock and lock no job, so a run   *)
(* is two steps: it reads the records that are ready, then reads the       *)
(* adjustments and writes.  A payment is two steps too: under the lock of  *)
(* its statement it looks whether the reference is in use and what is      *)
(* owed, then it writes.  Time is counted in weeks.                        *)
(***************************************************************************)
EXTENDS Integers, Sequences, FiniteSets, FiniteSetsExt

CONSTANTS
    Jobs, Payees,
    PayeeOf,         \* the operator or group that owes a job's commission
    Fee,             \* the commission of each job
    Refs,            \* payment references
    Officers,        \* payments being recorded at once
    Windows,         \* the lengths in weeks a dispute window may be set to
    MaxWeek,         \* bound: the last week
    MaxAdjustments,  \* bound on adjustments
    MaxSettlements   \* bound on payments and reversals

ASSUME PayeesAssumption == IsFiniteSet(Jobs) /\ PayeeOf \in [Jobs -> Payees]
ASSUME FeesAssumption == Fee \in [Jobs -> Nat]
ASSUME WindowsAssumption == Windows \subseteq Nat /\ Windows # {}
ASSUME BoundsAssumption == MaxWeek \in Nat \ {0} /\ {MaxAdjustments, MaxSettlements} \subseteq Nat

VARIABLES
    week,         \* the week under way; every earlier one has finished
    window,       \* the configured length of the dispute window
    job,          \* the status of each job
    completed,    \* the week of a job's first completion (0: none)
    adjustments,  \* in order: a job, the amount off, the week, the week billed in
    charged,      \* the week on whose statement a job's commission is (0: none)
    statements,   \* a payee, a week and the frozen totals
    settlements,  \* payments and reversals, in order
    run,          \* the run that has read and not yet written
    desk          \* officer -> the payment being recorded

jobVars == <<job, completed>>
billVars == <<charged, statements, run>>
payVars == <<settlements, desk>>
billingVars == <<week, window, jobVars, adjustments, billVars, payVars>>

NoRun == [week |-> 0, records |-> {}]
NoPayment == [statement |-> <<>>, amount |-> 0, ref |-> "NONE", reverses |-> 0]

BillingInit ==
    /\ week = 1 /\ window \in Windows
    /\ job = [j \in Jobs |-> "UNDERWAY"] /\ completed = [j \in Jobs |-> 0]
    /\ adjustments = <<>>
    /\ charged = [j \in Jobs |-> 0] /\ statements = {} /\ run = NoRun
    /\ settlements = <<>> /\ desk = [o \in Officers |-> NoPayment]

-----------------------------------------------------------------------------
(* The job and its commission, as far as billing sees them. *)

\* The week in which the job's dispute window closes, as configured now.
ClosesIn(j) == completed[j] + window

AdjustmentsOf(j) == {i \in DOMAIN adjustments : adjustments[i].job = j}

\* The sum of a column over rows.
Total(column, rows) == MapThenSumSet(LAMBDA r : column[r], rows)

Amounts(I) == Total([i \in DOMAIN adjustments |-> adjustments[i].amount], I)

\* effective_commission_kes: the fee less every adjustment.
Effective(j) == Fee[j] - Amounts(AdjustmentsOf(j))

\* The first completion records the commission and its time for good.
Complete(j) == completed' = [completed EXCEPT ![j] = IF @ = 0 THEN week ELSE @]

CloseJob(j) ==
    /\ job[j] = "UNDERWAY"
    /\ job' = [job EXCEPT ![j] = "COMPLETED"]
    /\ Complete(j)
    /\ UNCHANGED <<week, window, adjustments, billVars, payVars>>

\* Before completion, or within the window.
OpenDispute(j) ==
    /\ job[j] = "UNDERWAY" \/ (job[j] = "COMPLETED" /\ week <= ClosesIn(j))
    /\ job' = [job EXCEPT ![j] = "DISPUTED"]
    /\ UNCHANGED <<week, window, completed, adjustments, billVars, payVars>>

\* What a ruling may take off: nothing, part or all of what is left.
Cut(j) == 0..Effective(j)

\* resolve_dispute: the ruling completes the job or ends it otherwise, and
\* lowers a commission that is recorded by then.
Resolve(j, to) ==
    /\ job[j] = "DISPUTED"
    /\ job' = [job EXCEPT ![j] = to]
    /\ IF to = "COMPLETED" THEN Complete(j) ELSE UNCHANGED completed
    /\ \E cut \in IF completed'[j] = 0 THEN {0} ELSE Cut(j) :
           IF cut = 0 THEN UNCHANGED adjustments
           ELSE /\ Len(adjustments) < MaxAdjustments
                /\ adjustments' = Append(adjustments,
                       [job |-> j, amount |-> cut, week |-> week, billed |-> 0])
    /\ UNCHANGED <<week, window, billVars, payVars>>

\* A Platform Admin changes the length of the window.
Configure ==
    /\ window' \in Windows \ {window}
    /\ UNCHANGED <<week, jobVars, adjustments, billVars, payVars>>

WeekPasses ==
    /\ week < MaxWeek
    /\ week' = week + 1
    /\ UNCHANGED <<window, jobVars, adjustments, billVars, payVars>>

-----------------------------------------------------------------------------
(* The run. *)

\* billable_commission as of the end of week w.
Billable(w) ==
    {j \in Jobs : job[j] = "COMPLETED" /\ ClosesIn(j) <= w /\ charged[j] = 0}

\* A finished week, by the schedule or by hand, the latest or an older one.
StartRun(w) ==
    /\ run = NoRun
    /\ w < week
    /\ run' = [week |-> w, records |-> Billable(w)]
    /\ UNCHANGED <<week, window, jobVars, adjustments, charged, statements, payVars>>

\* Mutant: the adjustments of records never billed are taken too.
UnbilledOfAnyRecord(w, records) ==
    {i \in DOMAIN adjustments : adjustments[i].billed = 0 /\ adjustments[i].week <= w}

\* unbilled_adjustments: of records billed before or in this run, made before
\* the end of week w.
Unbilled(w, records) ==
    {i \in DOMAIN adjustments : /\ adjustments[i].billed = 0
                                /\ adjustments[i].week <= w
                                /\ charged[adjustments[i].job] # 0 \/ adjustments[i].job \in records}

HasStatement(p, w) == \E s \in statements : s.payee = p /\ s.week = w

\* _write_statement: the frozen totals of one payee's items.
Statement(p, w, records, credits) ==
    [payee |-> p, week |-> w, gross |-> Total(Fee, records),
     off |-> Amounts(credits)]

\* Every payee with something to bill gets a statement, unless it has one for
\* the week: then what is waiting rolls on to another run.
FinishRun ==
    LET w == run.week
        found == Unbilled(w, run.records)
        Waiting(p) == {j \in run.records : PayeeOf[j] = p}
        Credits(p) == {i \in found : PayeeOf[adjustments[i].job] = p}
        served == {p \in Payees : ~HasStatement(p, w) /\ Waiting(p) \cup Credits(p) # {}}
    IN
    /\ run # NoRun
    /\ statements' = statements \cup {Statement(p, w, Waiting(p), Credits(p)) : p \in served}
    /\ charged' = [j \in Jobs |->
                      IF j \in run.records /\ PayeeOf[j] \in served THEN w ELSE charged[j]]
    /\ adjustments' = [i \in DOMAIN adjustments |->
                          IF i \in found /\ PayeeOf[adjustments[i].job] \in served
                          THEN [adjustments[i] EXCEPT !.billed = w] ELSE adjustments[i]]
    /\ run' = NoRun
    /\ UNCHANGED <<week, window, jobVars, payVars>>

-----------------------------------------------------------------------------
(* Payments. *)

Key(s) == <<s.payee, s.week>>

Settled(k) ==
    Total([i \in DOMAIN settlements |-> settlements[i].amount],
          {i \in DOMAIN settlements : settlements[i].statement = k})

Reversed(i) == \E r \in DOMAIN settlements : settlements[r].reverses = i

InEffect == {i \in DOMAIN settlements : settlements[i].reverses = 0 /\ ~Reversed(i)}

\* Mutant: the statement's row is not locked.
NeverLocked(k) == FALSE

Locked(k) == \E o \in Officers : desk[o].statement = k

\* The statement's summary: what it still asks for, never less than nothing.
NetDue(s) == s.gross - s.off
Outstanding(s) == Max({NetDue(s) - Settled(Key(s)), 0})

InUse(ref) == \E i \in InEffect : settlements[i].ref = ref

\* record_payment, up to its checks.
TakePayment(o, s, amount, ref) ==
    /\ desk[o] = NoPayment
    /\ ~Locked(Key(s))
    /\ ~InUse(ref)
    /\ amount <= Outstanding(s)
    /\ desk' = [desk EXCEPT ![o] = [statement |-> Key(s), amount |-> amount,
                                    ref |-> ref, reverses |-> 0]]
    /\ UNCHANGED <<week, window, jobVars, adjustments, billVars, settlements>>

SavePayment(o) ==
    /\ desk[o] # NoPayment
    /\ Len(settlements) < MaxSettlements
    /\ settlements' = Append(settlements, desk[o])
    /\ desk' = [desk EXCEPT ![o] = NoPayment]
    /\ UNCHANGED <<week, window, jobVars, adjustments, billVars>>

\* reverse_payment: a row of the opposite amount, once per payment.
ReversePayment(i) ==
    /\ i \in InEffect
    /\ ~Locked(settlements[i].statement)
    /\ Len(settlements) < MaxSettlements
    /\ settlements' = Append(settlements,
           [settlements[i] EXCEPT !.amount = 0 - @, !.reverses = i])
    /\ UNCHANGED <<week, window, jobVars, adjustments, billVars, desk>>

-----------------------------------------------------------------------------
(* Reconciliation. *)

\* The lines of a statement: the jobs charged on it and the adjustments on it.
ChargesOn(s) == {j \in Jobs : PayeeOf[j] = s.payee /\ charged[j] = s.week}
CreditsOn(s) ==
    {i \in DOMAIN adjustments :
        PayeeOf[adjustments[i].job] = s.payee /\ adjustments[i].billed = s.week}

\* reconcile: the totals are not those of the lines, or the payments are off.
Mismatch(s) ==
    \/ s.gross # Total(Fee, ChargesOn(s))
    \/ s.off # Amounts(CreditsOn(s))
    \/ Settled(Key(s)) > Max({NetDue(s), 0})
    \/ Settled(Key(s)) < 0

-----------------------------------------------------------------------------
Trade ==
    \/ \E j \in Jobs :
           \/ CloseJob(j)
           \/ OpenDispute(j)
           \/ \E to \in {"COMPLETED", "ENDED"} : Resolve(j, to)
    \/ Configure
    \/ WeekPasses

Bill ==
    \/ \E w \in 1..MaxWeek : StartRun(w)
    \/ FinishRun

Collect ==
    \/ \E o \in Officers :
           \/ \E s \in statements, ref \in Refs : \E amount \in 1..s.gross :
                  TakePayment(o, s, amount, ref)
           \/ SavePayment(o)
    \/ \E i \in DOMAIN settlements : ReversePayment(i)

BillingNext == Trade \/ Bill \/ Collect

BillingSpec == BillingInit /\ [][BillingNext]_billingVars

-----------------------------------------------------------------------------
(* Properties. *)

Weeks == 0..MaxWeek
Settlement ==
    [statement : Payees \X Weeks, amount : Int, ref : Refs, reverses : 0..MaxSettlements]

\* Every column keeps its type.
BillingTypeOK ==
    /\ week \in Weeks /\ window \in Windows
    /\ job \in [Jobs -> {"UNDERWAY", "DISPUTED", "COMPLETED", "ENDED"}]
    /\ completed \in [Jobs -> Weeks] /\ charged \in [Jobs -> Weeks]
    /\ adjustments \in Seq([job : Jobs, amount : Nat \ {0}, week : Weeks, billed : Weeks])
    /\ statements \subseteq [payee : Payees, week : Weeks, gross : Nat, off : Nat]
    /\ settlements \in Seq(Settlement)
    /\ run \in [week : Weeks, records : SUBSET Jobs]
    /\ desk \in [Officers -> Settlement \cup {NoPayment}]

\* What the nightly reconcile() looks for never is there: however runs, rulings,
\* payments and reversals interleave, a statement's totals are those of its lines
\* and what was paid on it is neither negative nor more than it owes.
Reconciled ==
    /\ \A s \in statements : ~Mismatch(s)
    /\ \A s, t \in statements : Key(s) = Key(t) => s = t

\* Nobody is credited before being charged, nor for more than the charge,
\* however often a job is disputed, before or after it was billed, and in
\* whatever order weeks are run.
CreditsFollowCharges ==
    \A j \in Jobs :
        LET credited == {i \in AdjustmentsOf(j) : adjustments[i].billed # 0} IN
        /\ credited # {} => charged[j] # 0
        /\ Amounts(AdjustmentsOf(j)) <= Fee[j]
        /\ charged[j] # 0 => \E s \in statements : s.payee = PayeeOf[j] /\ s.week = charged[j]

=============================================================================
