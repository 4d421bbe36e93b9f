----------------------------- MODULE SerialCalls -----------------------------
(***************************************************************************)
(* What the row locks promise: calls on the threads of one job take effect *)
(* one at a time, each on what the one before left.  NegotiationLocks      *)
(* implements this specification.                                          *)
(***************************************************************************)
EXTENDS CallEffects

CONSTANT Calls

VARIABLES
    asked,     \* what each call asks for
    job,       \* the job's status
    threads,   \* its negotiation threads
    outcome    \* how each call ended

vars == <<asked, job, threads, outcome>>

Outcomes == {"PENDING", "DONE", "REFUSED", "ABORTED"}

Thread(call) ==
    IF call.kind = "CANCEL" THEN [status |-> "ACTIVE", accepted |-> {}]
    ELSE threads[call.thread]

Init ==
    /\ asked \in [Calls -> Requests]
    /\ job = "NEGOTIATING"
    /\ threads \in [Threads -> [status : {"ACTIVE"}, accepted : SUBSET Negotiators]]
    /\ \A t \in Threads : threads[t].accepted # Negotiators
    /\ outcome = [c \in Calls |-> "PENDING"]

Ends(c, how) ==
    /\ outcome[c] = "PENDING"
    /\ outcome' = [outcome EXCEPT ![c] = how]
    /\ UNCHANGED asked

Do(c) ==
    LET call == asked[c]
        confirms == Confirms(call, Thread(call))
    IN
    /\ Ends(c, "DONE")
    /\ Admits(call, job, Thread(call))
    /\ job' = JobAfter(call, job, confirms)
    /\ threads' = ThreadsAfter(call, threads, confirms)

Refuse(c) ==
    /\ Ends(c, "REFUSED")
    /\ ~Admits(asked[c], job, Thread(asked[c]))
    /\ UNCHANGED <<job, threads>>

Abort(c) ==
    /\ Ends(c, "ABORTED")
    /\ UNCHANGED <<job, threads>>

Next == \E c \in Calls : Do(c) \/ Refuse(c) \/ Abort(c)

Spec == Init /\ [][Next]_vars
=============================================================================
