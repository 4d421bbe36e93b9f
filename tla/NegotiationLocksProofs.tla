----------------------- MODULE NegotiationLocksProofs -----------------------
(***************************************************************************)
(* Proofs about NegotiationLocks, for any threads and any number of calls  *)
(* on them: the calls take effect one at a time, and only late locks       *)
(* deadlock.                                                               *)
(***************************************************************************)
EXTENDS NegotiationLocks, TLAPS

\* The job and the thread of c as they are.
Current(c) ==
    [job |-> job,
     thread |-> IF asked[c].kind = "CANCEL" THEN NoThread ELSE threads[asked[c].thread]]

\* A call that read its rows holds the job, and what it read is so still.
ReadUnderLock ==
    \A c \in Calls :
        outcome[c] = "PENDING" /\ HasRead(c) => Holds(c, "JOB") /\ seen[c] = Current(c)

\* Who holds a lock is a call that has not ended; a proposal holds the job alone.
HoldersAct ==
    \A c \in Calls, row \in Rows :
        Holds(c, row) =>
            /\ outcome[c] = "PENDING"
            /\ asked[c].kind = "PROPOSE" => row = "JOB"

\* A call that did not read its rows yet holds no lock but its thread's and the
\* job's, and took its thread's first.
LocksInOrder ==
    \A c \in Calls : ~HasRead(c) =>
        /\ \A row \in Threads : Holds(c, row) => LocksThread(c) /\ row = asked[c].thread
        /\ Holds(c, "JOB") /\ LocksThread(c) => Holds(c, asked[c].thread)

IInv == TypeOK /\ ReadUnderLock /\ HoldersAct /\ LocksInOrder

-----------------------------------------------------------------------------
(* The requests. *)

LEMMA Asked ==
    ASSUME TypeOK, NEW c \in Calls
    PROVE  /\ asked[c] \in Requests
           /\ asked[c].kind \in {"ACCEPT", "COUNTER", "DECLINE", "PROPOSE", "CANCEL"}
           /\ asked[c].kind = "CANCEL" => asked[c] = CancelCall
           /\ asked[c].kind # "CANCEL" => asked[c].thread \in Threads
           /\ asked[c].side \in Negotiators
<1>1. asked[c] \in Requests
  BY DEF TypeOK
<1> QED
  BY <1>1 DEF Requests, ThreadCalls, AcceptCalls, CancelCall, Negotiators

LEMMA CurrentTyped ==
    ASSUME TypeOK, NEW c \in Calls
    PROVE  /\ Current(c) \in [job : JobStatus, thread : ThreadState]
           /\ Current(c) # Unread
<1>1. NoThread \in ThreadState
  BY DEF NoThread, ThreadState
<1>2. job \in JobStatus /\ "NONE" \notin JobStatus
  BY DEF TypeOK, JobStatus
<1>3. asked[c].kind # "CANCEL" => threads[asked[c].thread] \in ThreadState
  BY Asked DEF TypeOK
<1> QED
  BY <1>1, <1>2, <1>3 DEF Current, Unread

LEMMA EffectsTyped ==
    ASSUME TypeOK, NEW c \in Calls, NEW confirms \in BOOLEAN
    PROVE  /\ JobAfter(asked[c], job, confirms) \in JobStatus
           /\ ThreadsAfter(asked[c], threads, confirms) \in [Threads -> ThreadState]
<1>1. JobAfter(asked[c], job, confirms) \in JobStatus
  BY DEF TypeOK, JobAfter, JobStatus
<1>2. ASSUME NEW t \in Threads, NEW thread \in ThreadState
      PROVE  /\ ThreadAfter(asked[c], thread, confirms) \in ThreadState
             /\ [thread EXCEPT !.status = "SUPERSEDED"] \in ThreadState
  <2>1. /\ thread.status \in {"ACTIVE", "CLOSED", "SUPERSEDED"}
        /\ thread.accepted \in SUBSET Negotiators
    BY DEF ThreadState
  <2>2. thread.accepted \cup {asked[c].side} \in SUBSET Negotiators
    BY <2>1, Asked
  <2> QED
    BY <2>1, <2>2 DEF ThreadAfter, ThreadState
<1>3. \A t \in Threads : threads[t] \in ThreadState
  BY DEF TypeOK
<1> QED
  BY <1>1, <1>2, <1>3 DEF ThreadsAfter

-----------------------------------------------------------------------------
(* The steps keep the invariant. *)

LEMMA LocksInitHolds == Init => IInv
<1> SUFFICES ASSUME Init PROVE IInv
  OBVIOUS
<1>1. Unread \in [job : JobStatus \cup {"NONE"}, thread : ThreadState]
  BY DEF Unread, NoThread, ThreadState
<1>2. TypeOK
  BY <1>1 DEF Init, TypeOK, JobStatus, ThreadState, Outcomes
<1> QED
  BY <1>2, LocksAssumption DEF Init, IInv, ReadUnderLock, HoldersAct, LocksInOrder, HasRead, Holds, Rows

LEMMA LockKeeps == ASSUME IInv, NEW c \in Calls, Lock(c) PROVE IInv'
<1>1. PICK row \in Rows : MayLock(c, row) /\ holder' = [holder EXCEPT ![row] = c]
  BY DEF Lock
<1>2. UNCHANGED <<asked, job, threads, seen, outcome>>
  BY DEF Lock
<1>3. row \in Wants(c) /\ holder[row] = Nobody /\ outcome[c] = "PENDING"
  BY <1>1 DEF MayLock, Free, Wants
<1>4. holder \in [Rows -> Calls \cup {Nobody}] /\ holder' \in [Rows -> Calls \cup {Nobody}]
  BY <1>1 DEF IInv, TypeOK
<1>5. TypeOK'
  BY <1>2, <1>4 DEF IInv, TypeOK
<1>6. ReadUnderLock'
  BY <1>1, <1>2, <1>3, <1>4, LocksAssumption
     DEF IInv, ReadUnderLock, HasRead, Holds, Current, Rows
<1>7. asked[c].kind = "PROPOSE" => row = "JOB"
  BY <1>1, <1>3 DEF MayLock, Wants, WantsFirst, LocksThread
<1>8. HoldersAct'
  BY <1>1, <1>2, <1>3, <1>4, <1>7 DEF IInv, HoldersAct, Holds
<1>9. ASSUME ~HasRead(c)
      PROVE  \/ row = asked[c].thread /\ LocksThread(c)
             \/ row = "JOB" /\ (LocksThread(c) => Holds(c, asked[c].thread))
  BY <1>3, <1>9 DEF Wants, WantsFirst
<1>10. \A d \in Calls, r \in Rows : Holds(d, r)' <=> Holds(d, r) \/ (d = c /\ r = row)
  BY <1>1, <1>3, <1>4, LocksAssumption DEF Holds
<1>11. \A d \in Calls : LocksThread(d) => asked[d].thread \in Rows
  BY Asked DEF IInv, LocksThread, Rows
<1>12. LocksInOrder'
  <2>1. \A d \in Calls : (HasRead(d)' <=> HasRead(d)) /\ (LocksThread(d)' <=> LocksThread(d))
    BY <1>2 DEF HasRead, LocksThread
  <2> QED
    BY <1>2, <1>9, <1>10, <1>11, <2>1, LocksAssumption DEF IInv, LocksInOrder, Rows
<1> QED
  BY <1>5, <1>6, <1>8, <1>12 DEF IInv

LEMMA ReadKeeps == ASSUME IInv, NEW c \in Calls, Read(c) PROVE IInv'
<1>1. /\ seen' = [seen EXCEPT ![c] = Current(c)]
      /\ UNCHANGED <<asked, job, threads, holder, outcome>>
      /\ MayRead(c)
  BY DEF Read, Current
<1>2. Holds(c, "JOB")
  BY <1>1, Asked DEF IInv, MayRead, Wants, WantsFirst, LocksJob
<1>3. TypeOK'
  BY <1>1, CurrentTyped DEF IInv, TypeOK
<1>4. ReadUnderLock'
  BY <1>1, <1>2 DEF IInv, TypeOK, ReadUnderLock, HasRead, Holds, Current
<1>5. HoldersAct'
  BY <1>1 DEF IInv, HoldersAct, Holds
<1>6. LocksInOrder'
  BY <1>1, CurrentTyped DEF IInv, TypeOK, LocksInOrder, HasRead, Holds, LocksThread
<1> QED
  BY <1>3, <1>4, <1>5, <1>6 DEF IInv

\* A call gives its locks back: the others keep theirs.
LEMMA EndKeeps ==
    ASSUME IInv, NEW c \in Calls, NEW how \in Outcomes \ {"PENDING"}, Ends(c, how),
           job' \in JobStatus, threads' \in [Threads -> ThreadState],
           UNCHANGED <<job, threads>> \/ Holds(c, "JOB")
    PROVE  IInv'
<1>1. /\ outcome' = [outcome EXCEPT ![c] = how]
      /\ holder' = [r \in Rows |-> IF Holds(c, r) THEN Nobody ELSE holder[r]]
      /\ UNCHANGED <<asked, seen>>
  BY DEF Ends
<1>2. TypeOK'
  BY <1>1 DEF IInv, TypeOK, Outcomes
<1>3. \A d \in Calls : outcome'[d] = "PENDING" => d # c /\ outcome[d] = "PENDING"
  BY <1>1 DEF IInv, TypeOK, Outcomes
<1>4. \A d \in Calls, row \in Rows :
          /\ Holds(d, row)' => d # c /\ Holds(d, row)
          /\ d # c /\ Holds(d, row) => Holds(d, row)'
  BY <1>1, LocksAssumption DEF IInv, TypeOK, Holds
<1>5. ReadUnderLock'
  <2> SUFFICES ASSUME NEW d \in Calls, outcome'[d] = "PENDING", HasRead(d)'
               PROVE  Holds(d, "JOB")' /\ seen'[d] = Current(d)'
    BY DEF ReadUnderLock
  <2>1. d # c /\ Holds(d, "JOB") /\ seen[d] = Current(d)
    BY <1>1, <1>3 DEF IInv, ReadUnderLock, HasRead
  <2>2. UNCHANGED <<job, threads>>
    BY <2>1 DEF Holds
  <2> QED
    BY <1>1, <1>4, <2>1, <2>2 DEF Rows, Current
<1>6. HoldersAct'
  BY <1>1, <1>4 DEF IInv, TypeOK, HoldersAct
<1>7. LocksInOrder'
  <2>1. \A d \in Calls : (HasRead(d)' <=> HasRead(d)) /\ (LocksThread(d)' <=> LocksThread(d))
    BY <1>1 DEF HasRead, LocksThread
  <2>2. \A d \in Calls : LocksThread(d) => asked[d].thread \in Rows
    BY Asked DEF IInv, LocksThread, Rows
  <2> QED
    BY <1>1, <1>4, <2>1, <2>2 DEF IInv, LocksInOrder, Rows
<1> QED
  BY <1>2, <1>5, <1>6, <1>7 DEF IInv

\* Who commits holds the job.
LEMMA CommitHolds == ASSUME IInv, NEW c \in Calls, MayCommit(c) PROVE Holds(c, "JOB")
BY DEF IInv, ReadUnderLock, MayCommit

LEMMA DeadlockWaits ==
    ASSUME NEW c \in Calls, Deadlocked(c) PROVE outcome[c] = "PENDING"
BY DEF Deadlocked, WaitsFor, Wants

LEMMA StepKeeps == ASSUME IInv, NEW c \in Calls, Step(c) PROVE IInv'
<1>1. job \in JobStatus /\ threads \in [Threads -> ThreadState]
  BY DEF IInv, TypeOK
<1>2. CASE Refuse(c)
  BY <1>1, <1>2, EndKeeps DEF Refuse, Outcomes
<1>3. CASE Abort(c)
  BY <1>1, <1>3, EndKeeps DEF Abort, Outcomes
<1>4. CASE Commit(c)
  <2>1. Confirming(c) \in BOOLEAN
    BY DEF Confirming, Confirms
  <2>2. job' \in JobStatus /\ threads' \in [Threads -> ThreadState]
    BY <1>4, <2>1, EffectsTyped DEF Commit, IInv
  <2> QED
    BY <1>4, <2>2, CommitHolds, EndKeeps DEF Commit, Outcomes
<1> QED
  BY <1>2, <1>3, <1>4, LockKeeps, ReadKeeps DEF Step

LEMMA IdleKeeps == ASSUME IInv, UNCHANGED vars PROVE IInv'
BY DEF vars, IInv, TypeOK, ReadUnderLock, HoldersAct, LocksInOrder, LocksThread, HasRead,
       Holds, Current

\* The inductive invariant of the locks.
THEOREM LocksInvariance == Spec => []IInv
<1>1. IInv /\ [Next]_vars => IInv'
  BY StepKeeps, IdleKeeps DEF Next
<1> QED
  BY LocksInitHolds, <1>1, PTL DEF Spec

-----------------------------------------------------------------------------
(* The calls are as good as one after another. *)

\* SerialCalls has the requests and effects of the same module.
LEMMA SameEffects ==
    /\ Serial!Negotiators = Negotiators /\ Serial!Requests = Requests
    /\ \A call, status, thread, confirms :
           /\ Serial!Admits(call, status, thread) <=> Admits(call, status, thread)
           /\ Serial!Confirms(call, thread) <=> Confirms(call, thread)
           /\ Serial!JobAfter(call, status, confirms) = JobAfter(call, status, confirms)
           /\ Serial!ThreadsAfter(call, threads, confirms) = ThreadsAfter(call, threads, confirms)
<1>1. Serial!Negotiators = Negotiators
  BY DEF Negotiators, Serial!Negotiators
<1>2. Serial!Requests = Requests
  BY <1>1 DEF Requests, Serial!Requests, ThreadCalls, Serial!ThreadCalls, AcceptCalls,
     Serial!AcceptCalls, CancelCall, Serial!CancelCall
<1>3. ASSUME NEW call, NEW status, NEW thread, NEW confirms
      PROVE  /\ Serial!Admits(call, status, thread) <=> Admits(call, status, thread)
             /\ Serial!Confirms(call, thread) <=> Confirms(call, thread)
             /\ Serial!JobAfter(call, status, confirms) = JobAfter(call, status, confirms)
             /\ Serial!ThreadAfter(call, thread, confirms) = ThreadAfter(call, thread, confirms)
  BY <1>1 DEF Admits, Serial!Admits, Confirms, Serial!Confirms, JobAfter, Serial!JobAfter,
     ThreadAfter, Serial!ThreadAfter
<1>4. ASSUME NEW call, NEW confirms
      PROVE  Serial!ThreadsAfter(call, threads, confirms) = ThreadsAfter(call, threads, confirms)
  BY <1>3 DEF ThreadsAfter, Serial!ThreadsAfter
<1> QED
  BY <1>1, <1>2, <1>3, <1>4

\* What a call that may end has read is what SerialCalls has it read.
LEMMA ReadsTheSame ==
    ASSUME IInv, NEW c \in Calls, outcome[c] = "PENDING", HasRead(c)
    PROVE  /\ Passes(c) <=> Serial!Admits(asked[c], job, Serial!Thread(asked[c]))
           /\ Confirming(c) <=> Serial!Confirms(asked[c], Serial!Thread(asked[c]))
<1>1. seen[c] = Current(c)
  BY DEF IInv, ReadUnderLock
<1>2. seen[c].job = job /\ seen[c].thread = Serial!Thread(asked[c])
  BY <1>1 DEF Current, NoThread, Serial!Thread
<1>3. Admits(asked[c], job, Serial!Thread(asked[c]))
          <=> Serial!Admits(asked[c], job, Serial!Thread(asked[c]))
  BY SameEffects
<1>4. Confirms(asked[c], Serial!Thread(asked[c]))
          <=> Serial!Confirms(asked[c], Serial!Thread(asked[c]))
  BY SameEffects
<1> QED
  BY <1>2, <1>3, <1>4 DEF Passes, Confirming

LEMMA StepIsSerial ==
    ASSUME IInv, NEW c \in Calls, Step(c)
    PROVE  Serial!Next \/ UNCHANGED Serial!vars
<1>1. CASE Lock(c) \/ Read(c)
  BY <1>1 DEF Lock, Read, Serial!vars
<1>2. CASE Refuse(c)
  <2>1. ~Serial!Admits(asked[c], job, Serial!Thread(asked[c]))
    BY <1>2, ReadsTheSame DEF Refuse, MayRefuse
  <2> QED
    BY <1>2, <2>1 DEF Refuse, MayRefuse, Ends, Serial!Refuse, Serial!Ends, Serial!Next
<1>3. CASE Commit(c)
  <2> DEFINE confirms == Serial!Confirms(asked[c], Serial!Thread(asked[c]))
  <2>1. Serial!Admits(asked[c], job, Serial!Thread(asked[c])) /\ Confirming(c) = confirms
    <3>1. Confirming(c) \in BOOLEAN /\ confirms \in BOOLEAN
      BY DEF Confirming, Confirms, Serial!Confirms
    <3> QED
      BY <1>3, <3>1, ReadsTheSame DEF Commit, MayCommit
  <2>2. Serial!Ends(c, "DONE")
    BY <1>3 DEF Commit, MayCommit, Ends, Serial!Ends
  <2>3. job' = Serial!JobAfter(asked[c], job, confirms)
    BY <1>3, <2>1, SameEffects DEF Commit
  <2>4. threads' = Serial!ThreadsAfter(asked[c], threads, confirms)
    BY <1>3, <2>1, SameEffects DEF Commit
  <2>5. Serial!Do(c)
    BY <2>1, <2>2, <2>3, <2>4 DEF Serial!Do
  <2> QED
    BY <2>5 DEF Serial!Next
<1>4. CASE Abort(c)
  BY <1>4, DeadlockWaits DEF Abort, Ends, Serial!Abort, Serial!Ends, Serial!Next
<1> QED
  BY <1>1, <1>2, <1>3, <1>4 DEF Step

\* Whatever locks the calls take in which order, they take effect one at a time,
\* each on what the one before left.
THEOREM LocksSerialize == Spec => ImplementsSerialCalls
<1>1. Init => Serial!Init
  BY SameEffects DEF Init, Serial!Init
<1>2. IInv /\ [Next]_vars => [Serial!Next]_(Serial!vars)
  BY StepIsSerial DEF Next, vars, Serial!vars
<1> QED
  BY <1>1, <1>2, LocksInvariance, PTL DEF Spec, ImplementsSerialCalls, Serial!Spec

-----------------------------------------------------------------------------
(* Only late locks deadlock. *)

\* Who waits before it read its rows, and is waited for, holds its thread and
\* waits for the job.
LEMMA EarlyWaitsForJob ==
    ASSUME IInv, NEW c \in Calls, ~HasRead(c), NEW d \in Calls, NEW e \in Calls,
           WaitsFor(c, d), WaitsFor(e, c)
    PROVE  LocksThread(c) /\ Holds(d, "JOB")
<1>1. PICK row \in Wants(e) : Holds(c, row)
  BY DEF WaitsFor
<1>2. row \in Rows
  BY Asked DEF IInv, Wants, WantsFirst, WantsLate, LocksThread, Siblings, Rows
<1>3. PICK wanted \in Wants(c) : Holds(d, wanted)
  BY DEF WaitsFor
<1>4. wanted \in WantsFirst(c)
  BY <1>3 DEF Wants
<1>5. ~Holds(c, "JOB")
  BY <1>4 DEF WantsFirst, IInv, LocksInOrder
<1>6. LocksThread(c) /\ Holds(c, asked[c].thread)
  BY <1>1, <1>2, <1>5 DEF IInv, LocksInOrder, Rows
<1>7. wanted = "JOB"
  BY <1>4, <1>6 DEF WantsFirst
<1> QED
  BY <1>3, <1>6, <1>7

\* Who waits after it read its rows holds the job and asks for its last locks.
LEMMA LateWaitsForThread ==
    ASSUME IInv, NEW c \in Calls, HasRead(c), NEW d \in Calls, WaitsFor(c, d)
    PROVE  LocksLate(c) /\ Holds(c, "JOB") /\ ~Holds(d, "JOB")
<1>1. outcome[c] = "PENDING" /\ WantsLate(c) # {} /\ c # d
  BY DEF WaitsFor, Wants
<1>2. Holds(c, "JOB")
  BY <1>1 DEF IInv, ReadUnderLock
<1> QED
  BY <1>1, <1>2 DEF WantsLate, LocksLate, Holds

\* In a cycle the job is held by a call that asks for its last locks, of a call
\* that waits for the job.
LEMMA CyclesCloseLate ==
    ASSUME IInv, NEW cycle \in SUBSET Calls, NEW c \in cycle,
           \A d \in cycle : \E e \in cycle : WaitsFor(d, e),
           \A e \in cycle : \E d \in cycle : WaitsFor(d, e)
    PROVE  \E h, w \in Calls :
               /\ LocksLate(h) /\ LocksThread(w)
               /\ WaitsFor(h, w) /\ WaitsFor(w, h)
<1>1. \E h \in cycle : HasRead(h)
  <2> SUFFICES ASSUME \A h \in cycle : ~HasRead(h) PROVE FALSE
    OBVIOUS
  <2>1. PICK d \in cycle : WaitsFor(c, d)
    OBVIOUS
  <2>2. Holds(d, "JOB")
    <3>1. PICK e \in cycle : WaitsFor(e, c)
      OBVIOUS
    <3> QED
      BY <2>1, <3>1, EarlyWaitsForJob
  <2>3. PICK f \in cycle : WaitsFor(d, f)
    OBVIOUS
  <2>4. Holds(f, "JOB") /\ f # d
    <3>1. PICK e \in cycle : WaitsFor(e, d)
      OBVIOUS
    <3> QED
      BY <2>3, <3>1, EarlyWaitsForJob DEF WaitsFor
  <2> QED
    BY <2>2, <2>4 DEF Holds
<1>2. PICK h \in cycle : HasRead(h)
  BY <1>1
<1>3. PICK w \in cycle : WaitsFor(h, w)
  OBVIOUS
<1>4. LocksLate(h) /\ Holds(h, "JOB") /\ ~Holds(w, "JOB")
  BY <1>2, <1>3, LateWaitsForThread
<1>5. PICK x \in cycle : WaitsFor(w, x)
  OBVIOUS
<1>6. ~HasRead(w)
  BY <1>4, <1>5, LateWaitsForThread
<1>7. LocksThread(w) /\ Holds(x, "JOB")
  BY <1>3, <1>5, <1>6, EarlyWaitsForJob
<1>8. x = h
  BY <1>4, <1>7 DEF Holds
<1> QED
  BY <1>3, <1>4, <1>5, <1>7, <1>8

\* A cancellation holds the job's lock alone and asks for no other.
LEMMA CancelWaitsAlone ==
    ASSUME IInv, NEW c \in Calls, asked[c].kind = "CANCEL", NEW d \in Calls, NEW e \in Calls,
           WaitsFor(c, d), WaitsFor(e, c)
    PROVE  FALSE
<1>1. ~LocksThread(c) /\ ~LocksLate(c)
  BY DEF LocksThread, LocksLate, Confirming, Confirms
<1> QED
  BY <1>1, EarlyWaitsForJob, LateWaitsForThread

\* Calls wait for each other only around a late lock: the order of the locks that
\* are taken before the rows are read admits no cycle.
THEOREM DeadlocksComeOfLateLocks == Spec => []DeadlocksComeLate
<1>1. ASSUME IInv PROVE DeadlocksComeLate
  <2> SUFFICES ASSUME NEW c \in Calls, Deadlocked(c)
               PROVE  /\ asked[c].kind # "CANCEL"
                      /\ \E h, w \in Calls :
                             /\ LocksLate(h) /\ LocksThread(w)
                             /\ WaitsFor(h, w) /\ WaitsFor(w, h)
    BY DEF DeadlocksComeLate
  <2>1. PICK cycle \in SUBSET Calls :
            /\ c \in cycle
            /\ \A d \in cycle : \E e \in cycle : WaitsFor(d, e)
            /\ \A e \in cycle : \E d \in cycle : WaitsFor(d, e)
    BY DEF Deadlocked
  <2>2. \E h, w \in Calls :
            /\ LocksLate(h) /\ LocksThread(w)
            /\ WaitsFor(h, w) /\ WaitsFor(w, h)
    BY <1>1, <2>1, CyclesCloseLate
  <2>3. asked[c].kind # "CANCEL"
    <3>1. PICK d \in cycle, e \in cycle : WaitsFor(c, d) /\ WaitsFor(e, c)
      BY <2>1
    <3> QED
      BY <1>1, <3>1, CancelWaitsAlone
  <2> QED
    BY <2>2, <2>3
<1> QED
  BY <1>1, LocksInvariance, PTL

=============================================================================
