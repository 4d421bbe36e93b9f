----------------------------- MODULE CallEffects -----------------------------
(***************************************************************************)
(* What one call on the negotiation service decides from what it read, and *)
(* writes.  A thread is its status and the sides whose acceptance stands;  *)
(* each side always has a figure to accept here (Negotiation has the       *)
(* figures).                                                               *)
(***************************************************************************)

CONSTANT Threads

Negotiators == {"BUSINESS", "OPERATOR"}

\* COUNTER stands for counter and PROPOSE for propose in a thread there is.
ThreadCalls == [kind : {"COUNTER", "DECLINE", "PROPOSE"}, thread : Threads, side : {"BUSINESS"}]
AcceptCalls == [kind : {"ACCEPT"}, thread : Threads, side : Negotiators]

\* The business cancels the job itself.
CancelCall == [kind |-> "CANCEL", thread |-> "NONE", side |-> "BUSINESS"]

Requests == ThreadCalls \cup AcceptCalls \cup {CancelCall}

JobStatus == {"NEGOTIATING", "CONFIRMED", "CANCELLED"}
ThreadState == [status : {"ACTIVE", "CLOSED", "SUPERSEDED"}, accepted : SUBSET Negotiators]

\* Is the call let through?  Declining asks for no status of the job, and a
\* confirmed job may still be cancelled.
Admits(call, job, thread) ==
    /\ call.kind \in {"ACCEPT", "COUNTER", "PROPOSE"} => job = "NEGOTIATING"
    /\ call.kind = "CANCEL" => job \in {"NEGOTIATING", "CONFIRMED"}
    /\ call.kind # "CANCEL" => thread.status = "ACTIVE"

\* Does it make the acceptance mutual?
Confirms(call, thread) ==
    /\ call.kind = "ACCEPT"
    /\ thread.accepted \cup {call.side} = Negotiators

JobAfter(call, job, confirms) ==
    CASE confirms -> "CONFIRMED"
      [] call.kind = "CANCEL" -> "CANCELLED"
      [] OTHER -> job

\* Every offer moves the terms under the acceptances before it.
ThreadAfter(call, thread, confirms) ==
    [status |-> IF confirms \/ call.kind = "DECLINE" THEN "CLOSED" ELSE thread.status,
     accepted |-> CASE call.kind = "ACCEPT" -> thread.accepted \cup {call.side}
                    [] call.kind = "DECLINE" -> thread.accepted
                    [] OTHER -> {}]

\* Confirming supersedes every other active thread.
ThreadsAfter(call, threads, confirms) ==
    [t \in Threads |->
        IF t = call.thread THEN ThreadAfter(call, threads[t], confirms)
        ELSE IF confirms /\ threads[t].status = "ACTIVE"
             THEN [threads[t] EXCEPT !.status = "SUPERSEDED"]
             ELSE threads[t]]
=============================================================================
