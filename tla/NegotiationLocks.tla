-------------------------- MODULE NegotiationLocks --------------------------
(***************************************************************************)
(* The row locks behind Negotiation: several calls on the threads of one   *)
(* job at once, each a database transaction of PostgreSQL under READ       *)
(* COMMITTED.                                                              *)
(*                                                                         *)
(* accept, counter and decline lock their thread, then the job; propose    *)
(* and cancel lock the job, and propose asks for its thread at commit,     *)
(* when the foreign key of the new entry is checked.  An acceptance that   *)
(* confirms the job updates every other active thread, which locks it.     *)
(* The database aborts one transaction of a cycle; nothing in the code     *)
(* retries it.                                                             *)
(***************************************************************************)
EXTENDS CallEffects

CONSTANTS
    Calls,    \* the calls in flight
    Nobody    \* who holds a lock nobody holds

ASSUME LocksAssumption == Nobody \notin Calls /\ "JOB" \notin Threads

VARIABLES
    asked,     \* call -> what it asks for
    job,       \* the committed status of the job
    threads,   \* the committed threads
    holder,    \* row -> the call that holds its lock
    seen,      \* call -> the job and thread it read, once it has the locks
    outcome    \* call -> how it ended

vars == <<asked, job, threads, holder, seen, outcome>>

Rows == Threads \cup {"JOB"}
Outcomes == {"PENDING", "DONE", "REFUSED", "ABORTED"}

NoThread == [status |-> "ACTIVE", accepted |-> {}]
Unread == [job |-> "NONE", thread |-> NoThread]

Init ==
    /\ asked \in [Calls -> Requests]
    /\ job = "NEGOTIATING"
    /\ threads \in [Threads -> [status : {"ACTIVE"}, accepted : SUBSET Negotiators]]
    /\ \A t \in Threads : threads[t].accepted # Negotiators
    /\ holder = [r \in Rows |-> Nobody]
    /\ seen = [c \in Calls |-> Unread]
    /\ outcome = [c \in Calls |-> "PENDING"]

-----------------------------------------------------------------------------
\* Mutant: decline does not lock its thread's job.
LocksJobUnlessDecline(c) == asked[c].kind # "DECLINE"

\* Every call locks the job.
LocksJob(c) == asked[c].kind \in {"ACCEPT", "COUNTER", "DECLINE", "PROPOSE", "CANCEL"}

\* These lock their thread before it.
LocksThread(c) == asked[c].kind \in {"ACCEPT", "COUNTER", "DECLINE"}

Holds(c, row) == holder[row] = c

HasRead(c) == seen[c] # Unread

Passes(c) == Admits(asked[c], seen[c].job, seen[c].thread)

Confirming(c) == Confirms(asked[c], seen[c].thread)

\* The rows a confirmation updates besides its own.
Siblings(c) == {t \in Threads \ {asked[c].thread} : threads[t].status = "ACTIVE"}

\* Mutant: counter locks the job before its thread, as propose does.
WantsJobFirst(c) ==
    IF asked[c].kind = "COUNTER" /\ ~Holds(c, "JOB") THEN {"JOB"}
    ELSE IF LocksThread(c) /\ ~Holds(c, asked[c].thread) THEN {asked[c].thread}
    ELSE IF LocksJob(c) /\ ~Holds(c, "JOB") THEN {"JOB"} ELSE {}

\* The lock a call asks for next before it reads: of its thread, then of the job.
WantsFirst(c) ==
    IF LocksThread(c) /\ ~Holds(c, asked[c].thread) THEN {asked[c].thread}
    ELSE IF LocksJob(c) /\ ~Holds(c, "JOB") THEN {"JOB"} ELSE {}

\* The locks two kinds of call ask for late, when they hold the job.
WantsLate(c) ==
    IF Confirming(c) THEN {t \in Siblings(c) : ~Holds(c, t)}
    ELSE IF asked[c].kind = "PROPOSE" THEN {asked[c].thread} ELSE {}

Wants(c) ==
    IF outcome[c] # "PENDING" THEN {}
    ELSE IF ~HasRead(c) THEN WantsFirst(c)
    ELSE IF Passes(c) THEN WantsLate(c) ELSE {}

Free(row) == holder[row] = Nobody

\* The key share lock of a proposal is asked for at the commit and held no
\* longer.
MayLock(c, row) ==
    row \in Wants(c) /\ Free(row) /\ ~(HasRead(c) /\ asked[c].kind = "PROPOSE")

\* select_for_update, and the update of a sibling.
Lock(c) ==
    /\ \E row \in Rows :
           MayLock(c, row) /\ holder' = [holder EXCEPT ![row] = c]
    /\ UNCHANGED <<asked, job, threads, seen, outcome>>

\* The job and the thread as they are once the locks are held.
MayRead(c) == outcome[c] = "PENDING" /\ ~HasRead(c) /\ Wants(c) = {}

Read(c) ==
    /\ MayRead(c)
    /\ seen' = [seen EXCEPT ![c] =
                   [job |-> job,
                    thread |-> IF asked[c].kind = "CANCEL" THEN NoThread
                               ELSE threads[asked[c].thread]]]
    /\ UNCHANGED <<asked, job, threads, holder, outcome>>

\* A transaction gives back its locks as it ends.
Ends(c, how) ==
    /\ outcome' = [outcome EXCEPT ![c] = how]
    /\ holder' = [r \in Rows |-> IF Holds(c, r) THEN Nobody ELSE holder[r]]
    /\ UNCHANGED <<asked, seen>>

\* The job or the thread is no longer open: 409.
MayRefuse(c) == outcome[c] = "PENDING" /\ HasRead(c) /\ ~Passes(c)

Refuse(c) ==
    /\ MayRefuse(c)
    /\ Ends(c, "REFUSED")
    /\ UNCHANGED <<job, threads>>

MayCommit(c) ==
    /\ outcome[c] = "PENDING" /\ HasRead(c) /\ Passes(c)
    /\ \A row \in Wants(c) : asked[c].kind = "PROPOSE" /\ Free(row)

Commit(c) ==
    /\ MayCommit(c)
    /\ job' = JobAfter(asked[c], job, Confirming(c))
    /\ threads' = ThreadsAfter(asked[c], threads, Confirming(c))
    /\ Ends(c, "DONE")

WaitsFor(c, d) == c # d /\ \E row \in Wants(c) : Holds(d, row)

\* Is c in a cycle of calls that wait for each other?
Deadlocked(c) ==
    \E cycle \in SUBSET Calls :
        /\ c \in cycle
        /\ \A d \in cycle : \E e \in cycle : WaitsFor(d, e)
        /\ \A e \in cycle : \E d \in cycle : WaitsFor(d, e)

\* The database ends a cycle by failing a call of it: an OperationalError
\* nobody handles.
Abort(c) ==
    /\ Deadlocked(c)
    /\ Ends(c, "ABORTED")
    /\ UNCHANGED <<job, threads>>

Step(c) == Lock(c) \/ Read(c) \/ Refuse(c) \/ Commit(c) \/ Abort(c)

Next == \E c \in Calls : Step(c)

Spec == Init /\ [][Next]_vars

-----------------------------------------------------------------------------
(* Properties. *)

\* Every variable keeps its type.
TypeOK ==
    /\ asked \in [Calls -> Requests]
    /\ job \in JobStatus
    /\ threads \in [Threads -> ThreadState]
    /\ holder \in [Rows -> Calls \cup {Nobody}]
    /\ seen \in [Calls -> [job : JobStatus \cup {"NONE"}, thread : ThreadState]]
    /\ outcome \in [Calls -> Outcomes]

\* h holds the job and asks for its last locks, as a proposal or an acceptance
\* that confirms does.
LocksLate(h) == HasRead(h) /\ (asked[h].kind = "PROPOSE" \/ Confirming(h))

\* Calls wait for each other only around a late lock: in every cycle of them a
\* proposal or a confirming acceptance, which holds the job, waits for the thread
\* of a call that waits for the job.  Counters, declines, cancellations and
\* acceptances that do not confirm never block each other for ever, and a
\* cancellation, which has the job's lock alone, is never aborted.
DeadlocksComeLate ==
    \A c \in Calls :
        Deadlocked(c) =>
            /\ asked[c].kind # "CANCEL"
            /\ \E h, w \in Calls :
                   /\ LocksLate(h) /\ LocksThread(w)
                   /\ WaitsFor(h, w) /\ WaitsFor(w, h)

\* The calls are as good as one after another: what a call read under the locks
\* is still so when it commits.
Serial == INSTANCE SerialCalls
ImplementsSerialCalls == Serial!Spec

=============================================================================
