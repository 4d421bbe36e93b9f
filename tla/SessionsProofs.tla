---------------------------- MODULE SessionsProofs ----------------------------
(***************************************************************************)
(* Proofs about Sessions, for any users, sessions and requests at once.    *)
(***************************************************************************)
EXTENDS Sessions, FiniteSetTheorems, TLAPS

SessionRows ==
    [of : Users \cup {"NONE"}, state : {"LIVE", "EXPIRED", "REVOKED"}, mfa : BOOLEAN]

TokenRows == [session : Sessions, from : Nat, spent : BOOLEAN]

Factors == {"CONFIRM", "VERIFY", "STEP_UP"}

Requests ==
    {Idle} \cup [does : {"SIGN_IN"}, user : Users]
           \cup [does : {"REUSED"}, session : Sessions]
           \cup [does : {"ROTATE"}, token : Nat]
           \cup [does : Factors, session : Sessions]

Shape ==
    /\ challenge \in [Challenges -> {NoChallenge} \cup [of : Users, tries : Nat]]
    /\ session \in [Sessions -> SessionRows]
    /\ tokens \in Seq(TokenRows)
    /\ misses \in [Users -> Nat]
    /\ call \in [Calls -> Requests]

\* What a request has read still exists when it goes on.
RequestSound(request) ==
    /\ request.does = "ROTATE" => request.token \in DOMAIN tokens
    /\ request.does \in Factors => session[request.session].of # "NONE"

RequestsSound == \A k \in Calls : RequestSound(call[k])

\* A token's predecessor is an earlier one of its session, and spent.
Descends(t) ==
    tokens[t].from # 0 =>
        /\ tokens[t].from \in 1..(t - 1)
        /\ tokens[tokens[t].from].session = tokens[t].session
        /\ tokens[tokens[t].from].spent

Descent == \A t \in DOMAIN tokens : Descends(t)

\* A session that was not started has no token.
StartedBefore == \A t \in DOMAIN tokens : session[tokens[t].session].of # "NONE"

\* The requests under way that may still miss for this user.
Pending(u) == {k \in Calls : call[k].does \in Factors /\ session[call[k].session].of = u}

\* Each of them passed the lock-out, so even if all miss the bound is kept.
Margin ==
    \A u \in Users : misses[u] + Cardinality(Pending(u)) < MfaTries + Cardinality(Calls)

IInv ==
    Shape /\ RequestsSound /\ Descent /\ StartedBefore /\ RotationIsAChain /\ Margin

LEMMA Tokens ==
    ASSUME Shape
    PROVE  /\ tokens \in Seq(TokenRows) /\ Len(tokens) \in Nat
           /\ DOMAIN tokens = 1..Len(tokens)
           /\ \A t \in 1..Len(tokens) : tokens[t] \in TokenRows
BY DEF Shape

-----------------------------------------------------------------------------
(* Counting the requests that may still miss. *)

LEMMA PendingIsFinite ==
    ASSUME NEW P \in SUBSET Calls
    PROVE  IsFiniteSet(P) /\ Cardinality(P) \in Nat /\ Cardinality(P) <= Cardinality(Calls)
           /\ Cardinality(Calls) \in Nat
BY SessionsAssumption, FS_Subset, FS_CardinalityType

LEMMA FewerPending ==
    ASSUME NEW P \in SUBSET Calls, NEW Q \in SUBSET P
    PROVE  Cardinality(Q) <= Cardinality(P)
BY PendingIsFinite, FS_Subset

\* No request more is pending for anyone, and nobody misses.
LEMMA MarginKept ==
    ASSUME Shape, Margin, misses' \in [Users -> Nat],
           \A u \in Users : Pending(u)' \subseteq Pending(u) /\ misses'[u] <= misses[u]
    PROVE  Margin'
<1> SUFFICES ASSUME NEW u \in Users
             PROVE  misses'[u] + Cardinality(Pending(u)') < MfaTries + Cardinality(Calls)
  BY DEF Margin
<1> DEFINE P == Pending(u)
           Q == Pending(u)'
<1>1. P \in SUBSET Calls /\ Q \in SUBSET P /\ Q \in SUBSET Calls
  BY DEF Pending
<1>2. misses[u] + Cardinality(P) < MfaTries + Cardinality(Calls) /\ misses'[u] <= misses[u]
  BY DEF Margin
<1>3. misses[u] \in Nat /\ misses'[u] \in Nat /\ MfaTries \in Nat
  BY SessionsAssumption DEF Shape
<1> HIDE DEF P, Q
<1>4. Cardinality(Q) <= Cardinality(P)
  BY <1>1, FewerPending
<1>5. Cardinality(P) \in Nat /\ Cardinality(Q) \in Nat /\ Cardinality(Calls) \in Nat
  BY <1>1, PendingIsFinite
<1>6. misses'[u] + Cardinality(Q) < MfaTries + Cardinality(Calls)
  BY <1>2, <1>3, <1>4, <1>5
<1> QED
  BY <1>6 DEF Q

-----------------------------------------------------------------------------
LEMMA InitHolds == Init => IInv
<1> SUFFICES ASSUME Init PROVE IInv
  OBVIOUS
<1>1. NoSession \in SessionRows
  BY DEF NoSession, SessionRows
<1>2. Shape
  BY <1>1 DEF Init, Shape, Requests
<1>3. RequestsSound /\ Descent /\ StartedBefore /\ RotationIsAChain
  BY DEF Init, RequestsSound, RequestSound, Idle, Factors, Descent, StartedBefore,
         RotationIsAChain
<1>4. Margin
  <2> SUFFICES ASSUME NEW u \in Users
               PROVE  misses[u] + Cardinality(Pending(u)) < MfaTries + Cardinality(Calls)
    BY DEF Margin
  <2>1. Pending(u) = {}
    BY DEF Init, Pending, Idle, Factors
  <2>2. Cardinality(Pending(u)) = 0 /\ Cardinality(Calls) \in Nat
    BY <2>1, FS_EmptySet, SessionsAssumption, FS_CardinalityType
  <2>3. misses[u] = 0 /\ MfaTries \in Nat \ {0}
    BY SessionsAssumption DEF Init
  <2> QED
    BY <2>2, <2>3
<1> QED
  BY <1>2, <1>3, <1>4 DEF IInv

-----------------------------------------------------------------------------
(* Steps that leave the tokens alone. *)

\* Nothing of this module's concern changes but a call that ends.
LEMMA EndingKeeps ==
    ASSUME IInv, NEW k \in Calls, Ends(k),
           session' = session, tokens' = tokens, challenge' = challenge, misses' = misses
    PROVE  IInv'
<1>1. call' = [call EXCEPT ![k] = Idle] /\ Idle.does = "NONE"
  BY DEF Ends, Idle
<1>2. Shape'
  BY <1>1 DEF IInv, Shape, Requests
<1>3. RequestsSound'
  BY <1>1 DEF IInv, Shape, RequestsSound, RequestSound, Factors
<1>4. Descent' /\ StartedBefore' /\ RotationIsAChain'
  BY DEF IInv, Descent, Descends, StartedBefore, RotationIsAChain
<1>5. Margin'
  <2>1. \A u \in Users : Pending(u)' \subseteq Pending(u)
    BY <1>1 DEF IInv, Shape, Pending, Factors
  <2> QED
    BY <2>1, <1>2, MarginKept DEF IInv, Shape
<1> QED
  BY <1>2, <1>3, <1>4, <1>5 DEF IInv

\* A call begins; one that may miss has passed the lock-out.
LEMMA BeginningKeeps ==
    ASSUME IInv, NEW k \in Calls, NEW what \in Requests, Begins(k, what), RequestSound(what),
           what.does \in Factors => ~Locked(session[what.session].of),
           session' = session, tokens' = tokens, misses' = misses,
           challenge' \in [Challenges -> {NoChallenge} \cup [of : Users, tries : Nat]]
    PROVE  IInv'
<1>1. call[k] = Idle /\ call' = [call EXCEPT ![k] = what]
  BY DEF Begins
<1>2. Shape'
  BY <1>1 DEF IInv, Shape
<1>3. RequestsSound'
  BY <1>1 DEF IInv, Shape, RequestsSound, RequestSound
<1>4. Descent' /\ StartedBefore' /\ RotationIsAChain'
  BY DEF IInv, Descent, Descends, StartedBefore, RotationIsAChain
<1>5. Margin'
  <2> SUFFICES ASSUME NEW u \in Users
               PROVE  misses[u] + Cardinality(Pending(u)') < MfaTries + Cardinality(Calls)
    BY DEF Margin
  <2> DEFINE P == Pending(u)
             Q == Pending(u)'
  <2>1. P \in SUBSET Calls /\ Q \in SUBSET Calls
    BY DEF Pending
  <2>2. misses[u] \in Nat /\ MfaTries \in Nat
    BY SessionsAssumption DEF IInv, Shape
  <2>3. misses[u] + Cardinality(P) < MfaTries + Cardinality(Calls)
    BY DEF IInv, Margin
  <2>4. CASE what.does \in Factors /\ session[what.session].of = u
    <3>1. misses[u] < MfaTries
      BY <2>4, <2>2 DEF Locked
    <3> HIDE DEF Q
    <3> QED
      BY <2>1, <2>2, <3>1, PendingIsFinite DEF Q
  <2>5. CASE ~(what.does \in Factors /\ session[what.session].of = u)
    <3>1. Q \subseteq P
      BY <1>1, <2>5 DEF IInv, Shape, Pending
    <3> HIDE DEF P, Q
    <3>2. Cardinality(Q) <= Cardinality(P)
      BY <2>1, <3>1, FewerPending
    <3>3. Cardinality(P) \in Nat /\ Cardinality(Q) \in Nat /\ Cardinality(Calls) \in Nat
      BY <2>1, PendingIsFinite
    <3>4. misses[u] + Cardinality(Q) < MfaTries + Cardinality(Calls)
      BY <2>2, <2>3, <3>2, <3>3
    <3> QED
      BY <3>4 DEF Q
  <2> QED
    BY <2>4, <2>5
<1> QED
  BY <1>2, <1>3, <1>4, <1>5 DEF IInv

LEMMA RestKeeps ==
    ASSUME IInv, session' = session, tokens' = tokens, call' = call,
           misses' \in [Users -> Nat], \A u \in Users : misses'[u] <= misses[u],
           challenge' \in [Challenges -> {NoChallenge} \cup [of : Users, tries : Nat]]
    PROVE  IInv'
<1>1. Shape'
  BY DEF IInv, Shape
<1>2. RequestsSound' /\ Descent' /\ StartedBefore' /\ RotationIsAChain'
  BY DEF IInv, RequestsSound, RequestSound, Descent, Descends, StartedBefore,
         RotationIsAChain
<1>3. \A u \in Users : Pending(u)' = Pending(u)
  BY DEF Pending
<1>4. Margin'
  BY <1>3, MarginKept DEF IInv
<1> QED
  BY <1>1, <1>2, <1>4 DEF IInv

LEMMA AccountKeeps == ASSUME IInv, Account PROVE IInv'
<1>1. CASE \E k \in Calls : Dies(k)
  BY <1>1, EndingKeeps DEF Dies, tokenVars, factorVars
<1>2. ASSUME UNCHANGED <<challenge, session, tokens, misses, call>> PROVE IInv'
  <2>1. /\ misses' \in [Users -> Nat] /\ \A u \in Users : misses'[u] <= misses[u]
        /\ challenge' \in [Challenges -> {NoChallenge} \cup [of : Users, tries : Nat]]
    BY <1>2 DEF IInv, Shape
  <2> QED
    BY <1>2, <2>1, RestKeeps
<1> QED
  BY <1>1, <1>2 DEF Account, CreateAdmin, SetState, Tick, tokenVars, factorVars

LEMMA OtpKeeps ==
    ASSUME IInv, NEW c \in Challenges,
           \/ \E u \in Users : RequestOtp(c, u)
           \/ OtpExpires(c)
           \/ \E k \in Calls, right \in BOOLEAN : VerifyOtp(k, c, right)
    PROVE  IInv'
<1> DEFINE Rows == {NoChallenge} \cup [of : Users, tries : Nat]
<1>1. challenge \in [Challenges -> Rows] /\ \A u \in Users : misses[u] \in Nat
  BY DEF IInv, Shape
<1>2. CASE (\E u \in Users : RequestOtp(c, u)) \/ OtpExpires(c)
  <2>1. challenge' \in [Challenges -> Rows]
    BY <1>1, <1>2 DEF RequestOtp, OtpExpires
  <2>2. UNCHANGED <<session, tokens, misses, call>>
    BY <1>2 DEF RequestOtp, OtpExpires, tokenVars, factorVars
  <2>3. misses' \in [Users -> Nat] /\ \A u \in Users : misses'[u] <= misses[u]
    BY <2>2 DEF IInv, Shape
  <2> QED
    BY <2>1, <2>2, <2>3, RestKeeps
<1>3. ASSUME NEW k \in Calls, NEW right \in BOOLEAN, VerifyOtp(k, c, right) PROVE IInv'
  <2>1. challenge[c] # NoChallenge /\ UNCHANGED <<session, tokens, misses>>
    BY <1>3 DEF VerifyOtp, tokenVars, factorVars
  <2>2. challenge[c] \in [of : Users, tries : Nat]
    BY <1>1, <2>1
  <2> DEFINE row == [challenge[c] EXCEPT !.tries = challenge[c].tries + 1]
  <2>3. row \in Rows
    BY <2>2
  <2>4. challenge' = [challenge EXCEPT ![c] =
           IF right \/ challenge[c].tries + 1 = OtpTries THEN NoChallenge ELSE row]
    BY <1>3 DEF VerifyOtp
  <2> HIDE DEF row
  <2>5. challenge' \in [Challenges -> Rows]
    BY <1>1, <2>3, <2>4
  <2>6. misses' \in [Users -> Nat] /\ \A u \in Users : misses'[u] <= misses[u]
    BY <2>1 DEF IInv, Shape
  <2>7. CASE right
    <3> DEFINE what == [does |-> "SIGN_IN", user |-> challenge[c].of]
    <3>1. Begins(k, what)
      BY <1>3, <2>7 DEF VerifyOtp
    <3>2. what \in Requests /\ what.does = "SIGN_IN"
      BY <2>2 DEF Requests
    <3> HIDE DEF what
    <3>3. RequestSound(what) /\ what.does \notin Factors
      BY <3>2 DEF RequestSound, Factors
    <3> QED
      BY <2>1, <2>5, <3>1, <3>2, <3>3, BeginningKeeps
  <2>8. CASE ~right
    <3>1. call' = call
      BY <1>3, <2>8 DEF VerifyOtp
    <3> QED
      BY <2>1, <2>5, <2>6, <3>1, RestKeeps
  <2> QED
    BY <2>7, <2>8
<1> QED
  BY <1>2, <1>3

-----------------------------------------------------------------------------
(* Steps on sessions and their tokens. *)

\* Some requests may end; the others and their sessions' users stay.
LEMMA OwnersKept ==
    ASSUME IInv, Shape', misses' = misses,
           \A r \in Sessions : session[r].of # "NONE" => session'[r].of = session[r].of,
           \A k \in Calls : call'[k] = call[k] \/ call'[k] = Idle,
           \A t \in DOMAIN tokens : t \in DOMAIN tokens'
    PROVE  RequestsSound' /\ Margin'
<1>1. ASSUME NEW k \in Calls, call'[k] # Idle PROVE call'[k] = call[k] /\ RequestSound(call[k])
  BY <1>1 DEF IInv, RequestsSound
<1>2. Idle.does \notin Factors /\ Idle.does # "ROTATE"
  BY DEF Idle, Factors
<1>3. ASSUME NEW k \in Calls, call[k].does \in Factors
      PROVE  call[k].session \in Sessions /\ session[call[k].session].of # "NONE"
  <2>1. call[k] \in Requests /\ RequestSound(call[k])
    BY DEF IInv, Shape, RequestsSound
  <2> QED
    BY <2>1, <1>3 DEF Requests, RequestSound, Factors, Idle
<1>4. RequestsSound'
  <2> SUFFICES ASSUME NEW k \in Calls PROVE RequestSound(call[k])'
    BY DEF RequestsSound
  <2>1. CASE call'[k] = Idle
    BY <2>1, <1>2 DEF RequestSound
  <2>2. CASE call'[k] # Idle
    BY <2>2, <1>1, <1>3 DEF RequestSound
  <2> QED
    BY <2>1, <2>2
<1>5. \A u \in Users : Pending(u)' \subseteq Pending(u)
  BY <1>1, <1>2, <1>3 DEF Pending
<1>6. misses' \in [Users -> Nat] /\ \A u \in Users : misses'[u] <= misses[u]
  BY DEF IInv, Shape
<1>7. Margin'
  BY <1>5, <1>6, MarginKept DEF IInv
<1> QED
  BY <1>4, <1>7

LEMMA TokenIsTyped ==
    ASSUME IInv, NEW t \in DOMAIN tokens
    PROVE  tokens[t] \in TokenRows /\ tokens[t].session \in Sessions
BY Tokens DEF IInv, TokenRows

LEMMA RevokeKeeps ==
    ASSUME IInv, NEW s \in Sessions, Revoke(s), challenge' = challenge, misses' = misses,
           call' \in [Calls -> Requests], \A k \in Calls : call'[k] = call[k] \/ call'[k] = Idle
    PROVE  IInv'
<1> DEFINE n == Len(tokens)
<1>1. n \in Nat /\ DOMAIN tokens = 1..n /\ \A t \in 1..n : tokens[t] \in TokenRows
  BY Tokens DEF IInv
<1>2. session[s] \in SessionRows /\ session \in [Sessions -> SessionRows]
  BY DEF IInv, Shape
<1> DEFINE revoked == [session[s] EXCEPT !.state = "REVOKED"]
<1>3. revoked \in SessionRows /\ revoked.state = "REVOKED" /\ revoked.of = session[s].of
  BY <1>2 DEF SessionRows
<1>4. session' = [session EXCEPT ![s] = revoked]
  BY DEF Revoke
<1> HIDE DEF revoked
<1>5. \A r \in Sessions : session'[r] = IF r = s THEN revoked ELSE session[r]
  BY <1>2, <1>4
<1>6. \A t \in 1..n : LET spent == [tokens[t] EXCEPT !.spent = TRUE]
                      IN spent \in TokenRows
  BY <1>1 DEF TokenRows
<1>7. tokens' = [t \in 1..n |-> IF tokens[t].session = s THEN [tokens[t] EXCEPT !.spent = TRUE]
                                ELSE tokens[t]]
  BY <1>1 DEF Revoke
<1>8. tokens' \in [1..n -> TokenRows]
  BY <1>1, <1>6, <1>7
<1>9. tokens' \in Seq(TokenRows) /\ Len(tokens') = n /\ DOMAIN tokens' = 1..n
  BY <1>1, <1>8
<1>10. ASSUME NEW t \in 1..n
       PROVE  /\ tokens'[t].session = tokens[t].session /\ tokens'[t].from = tokens[t].from
              /\ tokens[t].spent => tokens'[t].spent
              /\ tokens[t].session = s => tokens'[t].spent
  <2>1. tokens[t] \in TokenRows
    BY <1>1
  <2>2. CASE tokens[t].session = s
    <3>1. tokens'[t] = [tokens[t] EXCEPT !.spent = TRUE]
      BY <1>7, <2>2
    <3> QED
      BY <2>1, <3>1 DEF TokenRows
  <2>3. CASE tokens[t].session # s
    BY <1>7, <2>3
  <2> QED
    BY <2>2, <2>3
<1>11. Shape'
  BY <1>2, <1>3, <1>4, <1>9 DEF IInv, Shape
<1>12. \A r \in Sessions : session'[r].of = session[r].of
  BY <1>3, <1>5
<1>13. RequestsSound' /\ Margin'
  BY <1>1, <1>9, <1>11, <1>12, OwnersKept
<1>14. Descent'
  <2> SUFFICES ASSUME NEW t \in 1..n PROVE Descends(t)'
    BY <1>9 DEF Descent
  <2>1. Descends(t) /\ tokens[t].from \in Nat
    BY <1>1 DEF IInv, Descent, TokenRows
  <2>2. tokens[t].from # 0 => tokens[t].from \in 1..n
    BY <1>1, <2>1 DEF Descends
  <2> QED
    BY <1>10, <2>1, <2>2 DEF Descends
<1>15. \A t \in 1..n : tokens[t].session \in Sessions /\ session[tokens[t].session].of # "NONE"
  BY <1>1 DEF IInv, StartedBefore, TokenRows
<1>16. StartedBefore'
  BY <1>9, <1>10, <1>12, <1>15 DEF StartedBefore
<1>17. RotationIsAChain'
  <2> SUFFICES ASSUME NEW t \in 1..n, NEW q \in 1..n,
                      tokens'[t].session = tokens'[q].session
               PROVE  /\ tokens'[t].from = tokens'[q].from => t = q
                      /\ ~tokens'[t].spent /\ ~tokens'[q].spent => t = q
                      /\ session'[tokens'[t].session].state = "REVOKED" => tokens'[t].spent
    BY <1>9 DEF RotationIsAChain
  <2>1. /\ tokens[t].from = tokens[q].from => t = q
        /\ ~tokens[t].spent /\ ~tokens[q].spent => t = q
        /\ session[tokens[t].session].state = "REVOKED" => tokens[t].spent
    BY <1>1, <1>10 DEF IInv, RotationIsAChain
  <2>2. session'[tokens[t].session].state = "REVOKED" =>
            tokens[t].session = s \/ session[tokens[t].session].state = "REVOKED"
    BY <1>5, <1>15
  <2> QED
    BY <1>10, <2>1, <2>2
<1> QED
  BY <1>11, <1>13, <1>14, <1>16, <1>17 DEF IInv

LEMMA CallsKept == ASSUME IInv PROVE /\ call \in [Calls -> Requests]
                                     /\ \A k \in Calls : call[k] \in Requests
                                     /\ \A k \in Calls : [call EXCEPT ![k] = Idle] \in [Calls -> Requests]
BY DEF IInv, Shape, Requests

LEMMA SignOutKeeps == ASSUME IInv, SignOut PROVE IInv'
<1>1. ASSUME NEW s \in Sessions, Revoke(s), UNCHANGED <<challenge, misses, call>> PROVE IInv'
  BY <1>1, CallsKept, RevokeKeeps
<1>2. ASSUME NEW s \in Sessions, SessionExpires(s) PROVE IInv'
  <2> DEFINE ended == [session[s] EXCEPT !.state = "EXPIRED"]
  <2>1. session[s] \in SessionRows /\ session \in [Sessions -> SessionRows]
    BY DEF IInv, Shape
  <2>2. ended \in SessionRows /\ ended.state = "EXPIRED" /\ ended.of = session[s].of
    BY <2>1 DEF SessionRows
  <2>3. session' = [session EXCEPT ![s] = ended] /\ UNCHANGED <<challenge, tokens, misses, call>>
    BY <1>2 DEF SessionExpires, factorVars
  <2> HIDE DEF ended
  <2>4. \A r \in Sessions : /\ session'[r].of = session[r].of
                            /\ session'[r].state = "REVOKED" => session[r].state = "REVOKED"
    BY <2>1, <2>2, <2>3
  <2>5. Shape'
    BY <2>2, <2>3 DEF IInv, Shape
  <2>6. RequestsSound' /\ Margin'
    BY <2>3, <2>4, <2>5, OwnersKept
  <2>7. Descent'
    BY <2>3 DEF IInv, Descent, Descends
  <2>8. StartedBefore' /\ RotationIsAChain'
    BY <2>3, <2>4, TokenIsTyped DEF IInv, StartedBefore, RotationIsAChain
  <2> QED
    BY <2>5, <2>6, <2>7, <2>8 DEF IInv
<1> QED
  BY <1>1, <1>2 DEF SignOut, Logout, RevokeSession, factorVars

\* The token that follows an unspent one of a live session, or begins a session.
LEMMA ChainGrows ==
    ASSUME IInv, NEW s \in Sessions, NEW from \in 0..Len(tokens), NEW base \in Seq(TokenRows),
           Len(base) = Len(tokens),
           \A t \in DOMAIN tokens :
               /\ base[t].session = tokens[t].session /\ base[t].from = tokens[t].from
               /\ base[t].spent = (tokens[t].spent \/ t = from),
           tokens' = Append(base, NewRefresh(s, from)),
           from # 0 => tokens[from].session = s /\ ~tokens[from].spent,
           from = 0 => \A t \in DOMAIN tokens : tokens[t].session # s,
           session'[s].state # "REVOKED", session'[s].of # "NONE",
           \A r \in Sessions : session'[r].state = session[r].state,
           \A r \in Sessions : session[r].of # "NONE" => session'[r].of # "NONE"
    PROVE  /\ tokens' \in Seq(TokenRows) /\ \A t \in DOMAIN tokens : t \in DOMAIN tokens'
           /\ Descent' /\ StartedBefore' /\ RotationIsAChain'
<1> DEFINE n == Len(tokens)
           new == NewRefresh(s, from)
<1>1. /\ n \in Nat /\ DOMAIN tokens = 1..n
      /\ \A t \in 1..n : tokens[t] \in TokenRows /\ tokens[t].session \in Sessions
                         /\ tokens[t].from \in Nat
  BY Tokens DEF IInv, TokenRows
<1>2. new \in TokenRows /\ new.session = s /\ new.from = from /\ new.spent = FALSE
  BY <1>1 DEF NewRefresh, TokenRows
<1> HIDE DEF new
<1>3. /\ tokens' \in Seq(TokenRows) /\ DOMAIN tokens' = 1..(n + 1)
      /\ \A t \in 1..n : tokens'[t] = base[t]
      /\ tokens'[n + 1] = new
  BY <1>1, <1>2 DEF new
<1>4. ASSUME NEW t \in 1..n
      PROVE  /\ tokens'[t].session = tokens[t].session /\ tokens'[t].from = tokens[t].from
             /\ tokens'[t].spent <=> tokens[t].spent \/ t = from
  BY <1>1, <1>3
<1>5. ASSUME NEW t \in 1..n, tokens[t].from # 0
      PROVE  /\ tokens[t].from \in 1..(t - 1) /\ tokens[t].from \in 1..n
             /\ tokens[tokens[t].from].session = tokens[t].session
             /\ tokens[tokens[t].from].spent
  <2>1. Descends(t) /\ t \in DOMAIN tokens
    BY <1>1 DEF IInv, Descent
  <2>2. /\ tokens[t].from \in 1..(t - 1)
        /\ tokens[tokens[t].from].session = tokens[t].session
        /\ tokens[tokens[t].from].spent
    BY <1>5, <2>1 DEF Descends
  <2>3. tokens[t].from \in 1..n
    BY <1>1, <2>2
  <2> QED
    BY <2>2, <2>3
<1>6. Descent'
  <2> SUFFICES ASSUME NEW t \in 1..(n + 1) PROVE Descends(t)'
    BY <1>3 DEF Descent
  <2>1. CASE t \in 1..n
    BY <1>4, <1>5, <2>1 DEF Descends
  <2>2. CASE t = n + 1 /\ from # 0
    <3>1. from \in 1..n /\ tokens[from].session = s
      BY <1>1, <2>2
    <3>2. tokens'[from].session = s /\ tokens'[from].spent
      BY <3>1, <1>4
    <3>3. from \in 1..(t - 1) /\ tokens'[t].from = from /\ tokens'[t].session = s
      BY <1>1, <1>2, <1>3, <2>2, <3>1
    <3> QED
      BY <3>2, <3>3 DEF Descends
  <2>3. CASE t = n + 1 /\ from = 0
    <3>1. tokens'[t] = new
      BY <1>3, <2>3
    <3>2. new.from = 0
      BY <1>2, <2>3
    <3>3. tokens'[t].from = 0
      BY <3>1, <3>2
    <3> QED
      BY <3>3 DEF Descends
  <2>4. t \in 1..n \/ t = n + 1
    BY <1>1
  <2> QED
    BY <2>1, <2>2, <2>3, <2>4
<1>7. StartedBefore'
  <2>1. ASSUME NEW t \in 1..n PROVE session'[tokens'[t].session].of # "NONE"
    BY <1>1, <1>4 DEF IInv, StartedBefore
  <2>2. tokens'[n + 1].session = s /\ session'[s].of # "NONE"
    BY <1>2, <1>3
  <2> QED
    BY <1>1, <1>3, <2>1, <2>2 DEF StartedBefore
<1>8. ASSUME NEW t \in 1..n, NEW q \in 1..n, tokens[t].session = tokens[q].session
      PROVE  /\ tokens[t].from = tokens[q].from => t = q
             /\ ~tokens[t].spent /\ ~tokens[q].spent => t = q
             /\ session[tokens[t].session].state = "REVOKED" => tokens[t].spent
  BY <1>1, <1>8 DEF IInv, RotationIsAChain
<1>9. ASSUME NEW t \in 1..n, tokens[t].session = s
      PROVE  tokens[t].from # from /\ tokens'[t].spent
  <2>1. from # 0 /\ from \in 1..n
    BY <1>1, <1>9
  <2>2. tokens[t].from # from
    BY <1>5, <2>1
  <2>3. t # from => tokens[t].spent
    BY <1>8, <1>9, <2>1
  <2> QED
    BY <1>4, <2>2, <2>3
<1>10. RotationIsAChain'
  <2> SUFFICES ASSUME NEW t \in 1..(n + 1), NEW q \in 1..(n + 1),
                      tokens'[t].session = tokens'[q].session
               PROVE  /\ tokens'[t].from = tokens'[q].from => t = q
                      /\ ~tokens'[t].spent /\ ~tokens'[q].spent => t = q
                      /\ session'[tokens'[t].session].state = "REVOKED" => tokens'[t].spent
    BY <1>3 DEF RotationIsAChain
  <2>1. CASE t \in 1..n /\ q \in 1..n
    <3>1. tokens[t].session = tokens[q].session /\ tokens[t].session \in Sessions
      BY <1>1, <1>4, <2>1
    <3>2. /\ tokens[t].from = tokens[q].from => t = q
          /\ ~tokens[t].spent /\ ~tokens[q].spent => t = q
          /\ session[tokens[t].session].state = "REVOKED" => tokens[t].spent
      BY <1>8, <2>1, <3>1
    <3>3. session'[tokens[t].session].state = session[tokens[t].session].state
      BY <3>1
    <3>4. /\ tokens'[t].session = tokens[t].session
          /\ tokens'[t].from = tokens[t].from /\ tokens'[q].from = tokens[q].from
          /\ ~tokens'[t].spent => ~tokens[t].spent
          /\ ~tokens'[q].spent => ~tokens[q].spent
          /\ tokens[t].spent => tokens'[t].spent
      BY <1>4, <2>1
    <3> QED
      BY <3>2, <3>3, <3>4
  <2>2. CASE t = n + 1 /\ q \in 1..n
    <3>1. tokens[q].session = s /\ tokens'[t] = new
      BY <1>2, <1>3, <1>4, <2>2
    <3>2. tokens[q].from # from /\ tokens'[q].spent
      BY <1>9, <2>2, <3>1
    <3> QED
      BY <1>2, <1>4, <2>2, <3>1, <3>2
  <2>3. CASE q = n + 1 /\ t \in 1..n
    <3>1. tokens[t].session = s /\ tokens'[q] = new
      BY <1>2, <1>3, <1>4, <2>3
    <3>2. tokens[t].from # from /\ tokens'[t].spent
      BY <1>9, <2>3, <3>1
    <3> QED
      BY <1>2, <1>4, <2>3, <3>1, <3>2
  <2>4. CASE t = n + 1 /\ q = n + 1
    BY <1>2, <1>3, <2>4
  <2> QED
    BY <1>1, <2>1, <2>2, <2>3, <2>4
<1> QED
  BY <1>1, <1>3, <1>6, <1>7, <1>10

LEMMA StartSessionKeeps ==
    ASSUME IInv, NEW k \in Calls, NEW s \in Sessions, StartSession(k, s) PROVE IInv'
<1>1. /\ call[k].does = "SIGN_IN" /\ session[s] = NoSession
      /\ tokens' = Append(tokens, NewRefresh(s, 0))
      /\ call' = [call EXCEPT ![k] = Idle] /\ challenge' = challenge /\ misses' = misses
  BY DEF StartSession, Ends, factorVars
<1> DEFINE u == call[k].user
           started == [session[s] EXCEPT !.of = u]
<1>2. u \in Users
  BY <1>1, CallsKept DEF Requests, Idle, Factors
<1>3. session \in [Sessions -> SessionRows] /\ session[s] \in SessionRows
  BY DEF IInv, Shape
<1> HIDE DEF u
<1>4. started \in SessionRows /\ started.of = u /\ started.state = "LIVE"
  <2>1. session[s].state = "LIVE"
    BY <1>1 DEF NoSession
  <2> QED
    BY <1>2, <1>3, <2>1 DEF SessionRows
<1>5. session' = [session EXCEPT ![s] = started]
  BY DEF StartSession, u
<1> HIDE DEF started
<1>6. \A r \in Sessions : session'[r] = IF r = s THEN started ELSE session[r]
  BY <1>3, <1>5
<1>7. session[s].of = "NONE" /\ session[s].state = "LIVE" /\ u # "NONE"
  BY <1>1, <1>2, SessionsAssumption DEF NoSession
<1>8. \A t \in DOMAIN tokens : tokens[t].session # s
  BY <1>7 DEF IInv, StartedBefore
<1>9. /\ \A r \in Sessions : session'[r].state = session[r].state
      /\ \A r \in Sessions : session[r].of # "NONE" => session'[r].of = session[r].of
      /\ session'[s].state # "REVOKED" /\ session'[s].of # "NONE"
  BY <1>4, <1>6, <1>7
<1>10. /\ tokens \in Seq(TokenRows) /\ 0 \in 0..Len(tokens)
       /\ \A t \in DOMAIN tokens : t # 0 /\ tokens[t].spent \in BOOLEAN
  BY Tokens DEF IInv, TokenRows
<1>11. /\ tokens' \in Seq(TokenRows) /\ \A t \in DOMAIN tokens : t \in DOMAIN tokens'
       /\ Descent' /\ StartedBefore' /\ RotationIsAChain'
  BY <1>1, <1>8, <1>9, <1>10, ChainGrows
<1>12. Shape'
  BY <1>1, <1>3, <1>4, <1>5, <1>11, CallsKept DEF IInv, Shape
<1>13. \A j \in Calls : call'[j] = call[j] \/ call'[j] = Idle
  BY <1>1, CallsKept
<1>14. RequestsSound' /\ Margin'
  BY <1>1, <1>9, <1>11, <1>12, <1>13, OwnersKept
<1> QED
  BY <1>11, <1>12, <1>14 DEF IInv

LEMMA RotateKeeps == ASSUME IInv, NEW k \in Calls, Rotate(k) PROVE IInv'
<1> DEFINE t == call[k].token
<1>1. /\ call[k].does = "ROTATE" /\ Ends(k)
      /\ session' = session /\ challenge' = challenge /\ misses' = misses
  BY DEF Rotate, factorVars
<1>2. t \in DOMAIN tokens
  BY <1>1 DEF IInv, RequestsSound, RequestSound
<1>3. CASE tokens' = tokens
  BY <1>1, <1>3, EndingKeeps
<1>4. CASE tokens' # tokens
  <2>1. /\ ~tokens[t].spent /\ Resolves(tokens[t].session)
        /\ tokens' = Append([tokens EXCEPT ![t].spent = TRUE], NewRefresh(tokens[t].session, t))
    BY <1>4 DEF Rotate, Unspent
  <2> DEFINE s == tokens[t].session
             spent == [tokens[t] EXCEPT !.spent = TRUE]
             base == [tokens EXCEPT ![t] = spent]
  <2>2. tokens[t] \in TokenRows /\ s \in Sessions
    BY <1>2, TokenIsTyped
  <2>3. /\ spent \in TokenRows /\ spent.spent = TRUE /\ spent.session = tokens[t].session
        /\ spent.from = tokens[t].from
    BY <2>2 DEF TokenRows
  <2>4. tokens' = Append(base, NewRefresh(s, t))
    BY <2>1
  <2> HIDE DEF spent, t
  <2>5. /\ tokens \in Seq(TokenRows) /\ Len(tokens) \in Nat /\ DOMAIN tokens = 1..Len(tokens)
        /\ \A q \in DOMAIN tokens : tokens[q].spent \in BOOLEAN
    BY Tokens DEF IInv, TokenRows
  <2>6. /\ base \in Seq(TokenRows) /\ Len(base) = Len(tokens)
        /\ \A q \in DOMAIN tokens : base[q] = IF q = t THEN spent ELSE tokens[q]
    BY <1>2, <2>3, <2>5
  <2> HIDE DEF base
  <2>7. \A q \in DOMAIN tokens :
            /\ base[q].session = tokens[q].session /\ base[q].from = tokens[q].from
            /\ base[q].spent = (tokens[q].spent \/ q = t)
    <3> TAKE q \in DOMAIN tokens
    <3>1. CASE q = t
      BY <2>3, <2>6, <3>1
    <3>2. CASE q # t
      BY <2>5, <2>6, <3>2
    <3> QED
      BY <3>1, <3>2
  <2>8. session[s].state = "LIVE" /\ session[s].of # "NONE"
    BY <2>1 DEF Resolves, Active
  <2>9. t \in 0..Len(tokens) /\ t # 0
    BY <1>2, <2>5
  <2>10. tokens[t].session = s /\ ~tokens[t].spent
    BY <2>1 DEF t
  <2> HIDE DEF s
  <2>11. /\ tokens' \in Seq(TokenRows) /\ \A q \in DOMAIN tokens : q \in DOMAIN tokens'
         /\ Descent' /\ StartedBefore' /\ RotationIsAChain'
    BY <1>1, <2>2, <2>4, <2>6, <2>7, <2>8, <2>9, <2>10, ChainGrows
  <2>12. Shape' /\ \A j \in Calls : call'[j] = call[j] \/ call'[j] = Idle
    BY <1>1, <2>11, CallsKept DEF IInv, Shape, Ends
  <2>13. RequestsSound' /\ Margin'
    BY <1>1, <2>11, <2>12, OwnersKept
  <2> QED
    BY <2>11, <2>12, <2>13 DEF IInv
<1> QED
  BY <1>3, <1>4

LEMMA RefreshKeeps == ASSUME IInv, Refresh PROVE IInv'
<1> PICK k \in Calls : \/ \E t \in DOMAIN tokens : BeginRefresh(k, t)
                       \/ Rotate(k)
                       \/ RevokeReused(k)
  BY DEF Refresh
<1>1. ASSUME NEW t \in DOMAIN tokens, BeginRefresh(k, t) PROVE IInv'
  <2> DEFINE what == IF tokens[t].spent THEN [does |-> "REUSED", session |-> tokens[t].session]
                     ELSE [does |-> "ROTATE", token |-> t]
  <2>1. t \in Nat /\ tokens[t].session \in Sessions
    BY Tokens, TokenIsTyped DEF IInv
  <2>2. what \in Requests /\ what.does \in {"REUSED", "ROTATE"}
        /\ (what.does = "ROTATE" => what.token = t)
    BY <2>1 DEF Requests
  <2>3. /\ Begins(k, what) /\ session' = session /\ tokens' = tokens
        /\ misses' = misses /\ challenge' = challenge
    BY <1>1 DEF BeginRefresh, tokenVars, factorVars
  <2> HIDE DEF what
  <2>4. RequestSound(what) /\ what.does \notin Factors
    BY <2>2 DEF RequestSound, Factors
  <2>5. challenge' \in [Challenges -> {NoChallenge} \cup [of : Users, tries : Nat]]
    BY <2>3 DEF IInv, Shape
  <2> QED
    BY <2>2, <2>3, <2>4, <2>5, BeginningKeeps
<1>2. CASE RevokeReused(k)
  <2>1. /\ call[k].does = "REUSED" /\ Revoke(call[k].session)
        /\ call' = [call EXCEPT ![k] = Idle] /\ challenge' = challenge /\ misses' = misses
    BY <1>2 DEF RevokeReused, Ends, factorVars
  <2>2. call[k].session \in Sessions
    BY <2>1, CallsKept DEF Requests, Idle, Factors
  <2> QED
    BY <2>1, <2>2, CallsKept, RevokeKeeps
<1> QED
  BY <1>1, <1>2, RotateKeeps

-----------------------------------------------------------------------------
(* The second factor. *)

LEMMA PresentCodeKeeps ==
    ASSUME IInv, NEW k \in Calls, NEW s \in Sessions, NEW to \in Factors, PresentCode(k, s, to)
    PROVE  IInv'
<1> DEFINE what == [does |-> to, session |-> s]
<1>1. what \in Requests /\ what.does = to /\ what.session = s
  BY DEF Requests
<1>2. /\ Begins(k, what) /\ Resolves(s) /\ ~Locked(session[s].of)
      /\ session' = session /\ tokens' = tokens /\ misses' = misses /\ challenge' = challenge
  BY DEF PresentCode, tokenVars, factorVars
<1> HIDE DEF what
<1>3. RequestSound(what)
  BY <1>1, <1>2 DEF RequestSound, Resolves, Active, Factors
<1>4. challenge' \in [Challenges -> {NoChallenge} \cup [of : Users, tries : Nat]]
  BY <1>2 DEF IInv, Shape
<1> QED
  BY <1>1, <1>2, <1>3, <1>4, BeginningKeeps

\* One that missed is pending no longer.
LEMMA MissKeepsMargin ==
    ASSUME IInv, NEW k \in Calls, call[k].does \in Factors, Ends(k),
           session' = session, misses' = [misses EXCEPT ![session[call[k].session].of] = @ + 1]
    PROVE  Margin'
<1> DEFINE owner == session[call[k].session].of
<1>1. call[k] \in Requests /\ call' = [call EXCEPT ![k] = Idle] /\ Idle.does \notin Factors
  BY CallsKept DEF Ends, Idle, Factors
<1>2. call[k].session \in Sessions
  BY <1>1 DEF Requests, Factors, Idle
<1>3. \A j \in Calls : call'[j] = IF j = k THEN Idle ELSE call[j]
  BY <1>1, CallsKept
<1> SUFFICES ASSUME NEW u \in Users
             PROVE  misses'[u] + Cardinality(Pending(u)') < MfaTries + Cardinality(Calls)
  BY DEF Margin
<1> DEFINE P == Pending(u)
           Q == Pending(u)'
<1>4. P \in SUBSET Calls /\ Q \in SUBSET Calls
  BY DEF Pending
<1>5. misses[u] \in Nat /\ MfaTries \in Nat /\ misses[u] + Cardinality(P) < MfaTries + Cardinality(Calls)
  BY SessionsAssumption DEF IInv, Shape, Margin
<1>6. Q = P \ {k}
  BY <1>1, <1>3 DEF Pending
<1>7. owner = u => k \in P /\ misses'[u] = misses[u] + 1
  BY <1>1 DEF Pending, IInv, Shape
<1>8. owner # u => misses'[u] = misses[u]
  BY DEF IInv, Shape
<1> HIDE DEF P, Q, owner
<1>9. Cardinality(Q) = IF k \in P THEN Cardinality(P) - 1 ELSE Cardinality(P)
  BY <1>4, <1>6, PendingIsFinite, FS_RemoveElement
<1>10. Cardinality(P) \in Nat /\ Cardinality(Q) \in Nat /\ Cardinality(Calls) \in Nat
  BY <1>4, PendingIsFinite
<1>11. misses'[u] + Cardinality(Q) < MfaTries + Cardinality(Calls)
  <2>1. CASE owner = u
    BY <1>5, <1>7, <1>9, <1>10, <2>1
  <2>2. CASE owner # u
    BY <1>5, <1>8, <1>9, <1>10, <2>2
  <2> QED
    BY <2>1, <2>2
<1> QED
  BY <1>11 DEF Q

LEMMA CheckCodeKeeps == ASSUME IInv, NEW k \in Calls, CheckCode(k) PROVE IInv'
<1> DEFINE s == call[k].session
           u == session[s].of
<1>1. /\ call[k].does \in Factors /\ Ends(k) /\ tokens' = tokens /\ challenge' = challenge
      /\ \/ session' = session /\ misses' = misses
         \/ Mark(s) /\ misses' = misses
         \/ session' = session /\ misses' = [misses EXCEPT ![u] = @ + 1]
  BY DEF CheckCode, Factors, factorVars
<1>2. call[k] \in Requests /\ RequestSound(call[k])
  BY CallsKept DEF IInv, RequestsSound
<1>3. s \in Sessions /\ u # "NONE"
  BY <1>1, <1>2 DEF Requests, RequestSound, Factors, Idle
<1>4. /\ session \in [Sessions -> SessionRows] /\ session[s] \in SessionRows
      /\ u \in Users /\ misses \in [Users -> Nat]
  BY <1>3 DEF IInv, Shape, SessionRows
<1>5. \A j \in Calls : call'[j] = call[j] \/ call'[j] = Idle
  BY <1>1, CallsKept DEF Ends
<1>6. call' \in [Calls -> Requests]
  BY <1>1, CallsKept DEF Ends
<1>7. CASE session' = session /\ misses' = misses
  BY <1>1, <1>7, EndingKeeps
<1>8. CASE Mark(s) /\ misses' = misses
  <2> DEFINE marked == [session[s] EXCEPT !.mfa = TRUE]
  <2>1. marked \in SessionRows /\ marked.of = session[s].of /\ marked.state = session[s].state
    BY <1>4 DEF SessionRows
  <2>2. session' = [session EXCEPT ![s] = marked]
    BY <1>8 DEF Mark
  <2> HIDE DEF marked, s, u
  <2>3. \A r \in Sessions : session'[r].of = session[r].of /\ session'[r].state = session[r].state
    BY <1>4, <2>1, <2>2
  <2>4. Shape'
    BY <1>1, <1>4, <1>6, <1>8, <2>1, <2>2 DEF IInv, Shape
  <2>5. RequestsSound' /\ Margin'
    BY <1>1, <1>5, <1>8, <2>3, <2>4, OwnersKept
  <2>6. Descent'
    BY <1>1 DEF IInv, Descent, Descends
  <2>7. StartedBefore' /\ RotationIsAChain'
    BY <1>1, <2>3, TokenIsTyped DEF IInv, StartedBefore, RotationIsAChain
  <2> QED
    BY <2>4, <2>5, <2>6, <2>7 DEF IInv
<1>9. CASE session' = session /\ misses' = [misses EXCEPT ![u] = @ + 1]
  <2>1. Margin'
    BY <1>1, <1>9, MissKeepsMargin
  <2>2. misses' \in [Users -> Nat]
    BY <1>4, <1>9
  <2>3. Shape'
    BY <1>1, <1>6, <1>9, <2>2 DEF IInv, Shape
  <2>4. RequestsSound'
    <3>1. \A j \in Calls : RequestSound(call[j]) /\ RequestSound(Idle)
      BY DEF IInv, RequestsSound, RequestSound, Idle, Factors
    <3> QED
      BY <1>1, <1>5, <1>9, <3>1 DEF RequestsSound, RequestSound
  <2>5. Descent' /\ StartedBefore' /\ RotationIsAChain'
    BY <1>1, <1>9 DEF IInv, Descent, Descends, StartedBefore, RotationIsAChain
  <2> QED
    BY <2>1, <2>3, <2>4, <2>5 DEF IInv
<1> QED
  BY <1>1, <1>7, <1>8, <1>9

LEMMA SecondFactorKeeps == ASSUME IInv, SecondFactor PROVE IInv'
<1>1. challenge \in [Challenges -> {NoChallenge} \cup [of : Users, tries : Nat]]
  BY DEF IInv, Shape
<1>2. ASSUME NEW s \in Sessions, BeginEnrolment(s) PROVE IInv'
  <2>1. UNCHANGED <<challenge, session, tokens, misses, call>>
    BY <1>2 DEF BeginEnrolment, tokenVars
  <2>2. misses' \in [Users -> Nat] /\ \A u \in Users : misses'[u] <= misses[u]
    BY <2>1 DEF IInv, Shape
  <2> QED
    BY <1>1, <2>1, <2>2, RestKeeps
<1>3. ASSUME NEW u \in Users, MissesLapse(u) PROVE IInv'
  <2>1. /\ misses' = [misses EXCEPT ![u] = 0]
        /\ UNCHANGED <<challenge, session, tokens, call>>
    BY <1>3 DEF MissesLapse, tokenVars
  <2>2. misses' \in [Users -> Nat] /\ \A v \in Users : misses'[v] <= misses[v]
    BY <2>1 DEF IInv, Shape
  <2> QED
    BY <1>1, <2>1, <2>2, RestKeeps
<1> QED
  BY <1>2, <1>3, PresentCodeKeeps, CheckCodeKeeps DEF SecondFactor, Factors

LEMMA NextKeeps == ASSUME IInv, [Next]_vars PROVE IInv'
<1>1. CASE UNCHANGED vars
  <2>1. UNCHANGED <<challenge, session, tokens, misses, call>>
    BY <1>1 DEF vars, tokenVars, factorVars
  <2>2. /\ misses' \in [Users -> Nat] /\ \A u \in Users : misses'[u] <= misses[u]
        /\ challenge' \in [Challenges -> {NoChallenge} \cup [of : Users, tries : Nat]]
    BY <2>1 DEF IInv, Shape
  <2> QED
    BY <2>1, <2>2, RestKeeps
<1>2. CASE SignIn
  BY <1>2, OtpKeeps, StartSessionKeeps DEF SignIn
<1> QED
  BY <1>1, <1>2, AccountKeeps, RefreshKeeps, SignOutKeeps, SecondFactorKeeps DEF Next

-----------------------------------------------------------------------------
(* The codes of the second factor. *)

Devices == [secret : Nat, confirmed : BOOLEAN, last : Int, backup : SUBSET BackupCodes]

FactorShape == current \in Nat /\ device \in [Users -> Devices]

CodesOnce ==
    /\ \A a, b \in DOMAIN accepted : a.by = b.by /\ a.code = b.code => a = b
    /\ \A a \in DOMAIN accepted : accepted[a] = 1

\* A code of the device's present secret is behind its last step, or is a backup
\* code it no longer has, since only a device that is confirmed takes those.
SpentOn(d, code) ==
    /\ code.secret \in 1..d.secret
    /\ code.secret = d.secret =>
           IF code.backup = "NONE" THEN code.step \in Int /\ code.step <= d.last
           ELSE d.confirmed /\ code.backup \notin d.backup

CodesSpent == \A a \in DOMAIN accepted : a.by \in Users /\ SpentOn(device[a.by], a.code)

MarksProved ==
    \A s \in Sessions :
        session[s].mfa => /\ session[s].of \in Users
                          /\ device[session[s].of].confirmed
                          /\ \E a \in DOMAIN accepted : a.session = s

FInv == FactorShape /\ CodesOnce /\ CodesSpent /\ MarksProved

LEMMA FactorsInit == Init => FInv
<1> SUFFICES ASSUME Init PROVE FInv
  OBVIOUS
<1>1. NoDevice \in Devices
  BY DEF NoDevice, Devices
<1>2. DOMAIN accepted = {}
  BY DEF Init, EmptyBag, SetToBag
<1>3. FactorShape /\ CodesOnce /\ CodesSpent
  BY <1>1, <1>2 DEF Init, FactorShape, CodesOnce, CodesSpent
<1>4. MarksProved
  BY DEF Init, MarksProved, NoSession
<1> QED
  BY <1>3, <1>4 DEF FInv

\* No code is accepted, no device changed, and no session marked or given away.
LEMMA FactorsRest ==
    ASSUME FInv, current' \in Nat, device' = device, accepted' = accepted,
           \A s \in Sessions :
               session'[s].mfa => session[s].mfa /\ session'[s].of = session[s].of
    PROVE  FInv'
<1>1. FactorShape' /\ CodesOnce' /\ CodesSpent'
  BY DEF FInv, FactorShape, CodesOnce, CodesSpent, SpentOn
<1>2. MarksProved'
  BY DEF FInv, MarksProved
<1> QED
  BY <1>1, <1>2 DEF FInv

\* A new secret: the codes of those before are of no use.
LEMMA EnrolmentKeepsFactors ==
    ASSUME IInv, FInv, NEW s \in Sessions, BeginEnrolment(s) PROVE FInv'
<1> DEFINE u == session[s].of
           fresh == [NoDevice EXCEPT !.secret = device[u].secret + 1]
<1>1. /\ ~device[u].confirmed /\ device' = [device EXCEPT ![u] = fresh]
      /\ UNCHANGED <<current, session, accepted>>
  BY DEF BeginEnrolment, tokenVars
<1>2. u \in Users
  BY DEF IInv, Shape, SessionRows, BeginEnrolment, Resolves, Active
<1>3. device \in [Users -> Devices] /\ device[u] \in Devices
  BY <1>2 DEF FInv, FactorShape
<1>4. fresh \in Devices /\ fresh.secret = device[u].secret + 1 /\ device[u].secret \in Nat
  <2>1. device[u].secret \in Nat /\ device[u].secret + 1 \in Nat
    BY <1>3 DEF Devices
  <2>2. NoDevice \in Devices
    BY DEF NoDevice, Devices
  <2> QED
    BY <2>1, <2>2 DEF Devices
<1> HIDE DEF u, fresh
<1>5. \A v \in Users : device'[v] = IF v = u THEN fresh ELSE device[v]
  BY <1>1, <1>3
<1>6. FactorShape' /\ CodesOnce'
  BY <1>1, <1>3, <1>4 DEF FInv, FactorShape, CodesOnce
<1>7. CodesSpent'
  <2> SUFFICES ASSUME NEW a \in DOMAIN accepted
               PROVE  a.by \in Users /\ SpentOn(device'[a.by], a.code)
    BY <1>1 DEF CodesSpent
  <2>1. a.by \in Users /\ SpentOn(device[a.by], a.code)
    BY DEF FInv, CodesSpent
  <2> QED
    BY <1>4, <1>5, <2>1 DEF SpentOn
<1>8. MarksProved'
  BY <1>1, <1>5 DEF FInv, MarksProved
<1> QED
  BY <1>6, <1>7, <1>8 DEF FInv

\* What may have been entered is a code in form.
LEMMA CodesTyped ==
    ASSUME FInv, NEW u \in Users, NEW code \in Codes(u)
    PROVE  code.step \in Int /\ code.secret \in Nat
<1>1. device[u].secret \in Nat /\ current \in Int
  BY DEF FInv, FactorShape, Devices
<1>2. \A d \in Drift : current + d \in Int
  BY <1>1, SessionsAssumption
<1> QED
  BY <1>1, <1>2 DEF Codes, Wrong, Totp, Backup

\* A code that is accepted was not spent, and is spent afterwards, as are the others.
LEMMA AcceptingSpends ==
    ASSUME FInv, NEW u \in Users, NEW to, NEW code \in Codes(u),
           Expected(u, to), Accepts(u, code, to = "CONFIRM")
    PROVE  /\ Spent(u, to, code) \in Devices /\ Spent(u, to, code).confirmed
           /\ ~SpentOn(device[u], code)
           /\ SpentOn(Spent(u, to, code), code)
           /\ \A other : SpentOn(device[u], other) => SpentOn(Spent(u, to, code), other)
<1> DEFINE new == Spent(u, to, code)
<1>1. code.step \in Int /\ device[u] \in Devices
  BY CodesTyped DEF FInv, FactorShape
<1>2. /\ code.secret = device[u].secret /\ device[u].secret \in Nat /\ device[u].secret # 0
      /\ device[u].confirmed # (to = "CONFIRM") /\ device[u].confirmed \in BOOLEAN
      /\ device[u].last \in Int /\ device[u].backup \subseteq BackupCodes
  BY <1>1 DEF Accepts, Expected, Devices
<1>3. CASE code.backup = "NONE"
  <2>1. code.step > device[u].last
    BY <1>3 DEF Accepts, Later
  <2>2. CASE to = "CONFIRM"
    <3>1. new = [device[u] EXCEPT !.last = code.step, !.confirmed = TRUE, !.backup = BackupCodes]
      BY <1>1, <1>3, <2>2 DEF Spent, Consumed, Devices
    <3>2. new \in Devices /\ new.confirmed /\ new.secret = device[u].secret /\ new.last = code.step
      BY <1>1, <3>1 DEF Devices
    <3> HIDE DEF new
    <3> QED
      BY <1>1, <1>2, <1>3, <2>1, <2>2, <3>2 DEF SpentOn, new
  <2>3. CASE to # "CONFIRM"
    <3>1. new = [device[u] EXCEPT !.last = code.step]
      BY <1>3, <2>3 DEF Spent, Consumed
    <3>2. /\ new \in Devices /\ new.confirmed = device[u].confirmed /\ new.secret = device[u].secret
          /\ new.last = code.step /\ new.backup = device[u].backup
      BY <1>1, <3>1 DEF Devices
    <3> HIDE DEF new
    <3> QED
      BY <1>1, <1>2, <1>3, <2>1, <2>3, <3>2 DEF SpentOn, new
  <2> QED
    BY <2>2, <2>3
<1>4. CASE code.backup # "NONE"
  <2>1. to # "CONFIRM" /\ code.backup \in device[u].backup
    BY <1>4 DEF Accepts
  <2>2. new = [device[u] EXCEPT !.backup = device[u].backup \ {code.backup}]
    BY <1>4, <2>1 DEF Spent, Consumed
  <2>3. /\ new \in Devices /\ new.confirmed = device[u].confirmed /\ new.secret = device[u].secret
        /\ new.last = device[u].last /\ new.backup = device[u].backup \ {code.backup}
    BY <1>1, <2>2 DEF Devices
  <2> HIDE DEF new
  <2> QED
    BY <1>2, <1>4, <2>1, <2>3 DEF SpentOn, new
<1> QED
  BY <1>3, <1>4

LEMMA BagGrows ==
    ASSUME NEW x, x \notin DOMAIN accepted, accepted' = accepted (+) SetToBag({x})
    PROVE  /\ DOMAIN accepted' = DOMAIN accepted \cup {x}
           /\ accepted'[x] = 1
           /\ \A a \in DOMAIN accepted : accepted[a] = 1 => accepted'[a] = 1
BY DEF (+), SetToBag

LEMMA CheckKeepsFactors ==
    ASSUME IInv, FInv, NEW k \in Calls, CheckCode(k) PROVE FInv'
<1> DEFINE s == call[k].session
           u == session[s].of
           to == call[k].does
<1>1. to \in Factors /\ current' = current
  BY DEF CheckCode, Factors
<1>2. call[k] \in Requests /\ RequestSound(call[k])
  BY CallsKept DEF IInv, RequestsSound
<1>3. s \in Sessions /\ u # "NONE"
  BY <1>1, <1>2 DEF Requests, RequestSound, Factors, Idle
<1>4. session \in [Sessions -> SessionRows] /\ session[s] \in SessionRows /\ u \in Users
  BY <1>3 DEF IInv, Shape, SessionRows
<1>5. current \in Nat /\ device \in [Users -> Devices]
  BY DEF FInv, FactorShape
<1>6. CASE UNCHANGED <<session, device, accepted>>
  BY <1>1, <1>5, <1>6, FactorsRest
<1>7. ASSUME NEW code \in Codes(u), Expected(u, to), Accepts(u, code, to = "CONFIRM"),
             device' = [device EXCEPT ![u] = Spent(u, to, code)], Mark(s),
             accepted' = accepted (+) SetToBag({[by |-> u, code |-> code, session |-> s]})
      PROVE  FInv'
  <2> DEFINE new == Spent(u, to, code)
             x == [by |-> u, code |-> code, session |-> s]
             marked == [session[s] EXCEPT !.mfa = TRUE]
  <2>1. /\ new \in Devices /\ new.confirmed /\ ~SpentOn(device[u], code) /\ SpentOn(new, code)
        /\ \A other : SpentOn(device[u], other) => SpentOn(new, other)
    BY <1>4, <1>7, AcceptingSpends
  <2>2. session' = [session EXCEPT ![s] = marked] /\ marked.of = u
    BY <1>4, <1>7 DEF Mark, SessionRows
  <2>3. device' = [device EXCEPT ![u] = new] /\ accepted' = accepted (+) SetToBag({x})
        /\ x.by = u /\ x.code = code /\ x.session = s
    BY <1>7
  <2> HIDE DEF new, x, marked, s, u, to
  <2>4. \A v \in Users : device'[v] = IF v = u THEN new ELSE device[v]
    BY <1>4, <1>5, <2>3
  <2>5. \A a \in DOMAIN accepted : ~(a.by = u /\ a.code = code)
    BY <2>1 DEF FInv, CodesSpent
  <2>6. x \notin DOMAIN accepted
    BY <2>3, <2>5
  <2>7. /\ DOMAIN accepted' = DOMAIN accepted \cup {x} /\ accepted'[x] = 1
        /\ \A a \in DOMAIN accepted : accepted'[a] = 1
    BY <2>3, <2>6, BagGrows DEF FInv, CodesOnce
  <2>8. FactorShape'
    BY <1>1, <1>4, <1>5, <2>1, <2>3 DEF FactorShape
  <2>9. CodesOnce'
    BY <2>3, <2>5, <2>7 DEF FInv, CodesOnce
  <2>10. CodesSpent'
    <3> SUFFICES ASSUME NEW a \in DOMAIN accepted'
                 PROVE  a.by \in Users /\ SpentOn(device'[a.by], a.code)
      BY DEF CodesSpent
    <3>1. CASE a = x
      BY <1>4, <2>1, <2>3, <2>4, <3>1
    <3>2. CASE a # x
      <4>1. a.by \in Users /\ SpentOn(device[a.by], a.code)
        BY <2>7, <3>2 DEF FInv, CodesSpent
      <4> QED
        BY <2>1, <2>4, <4>1
    <3> QED
      BY <3>1, <3>2
  <2>11. MarksProved'
    <3> SUFFICES ASSUME NEW r \in Sessions, session'[r].mfa
                 PROVE  /\ session'[r].of \in Users /\ device'[session'[r].of].confirmed
                        /\ \E a \in DOMAIN accepted' : a.session = r
      BY DEF MarksProved
    <3>1. CASE r = s
      <4>1. session'[r].of = u
        BY <1>3, <1>4, <2>2, <3>1
      <4> QED
        BY <1>4, <2>1, <2>3, <2>4, <2>7, <3>1, <4>1
    <3>2. CASE r # s
      <4>1. session'[r] = session[r]
        BY <1>4, <2>2, <3>2
      <4>2. /\ session[r].of \in Users /\ device[session[r].of].confirmed
            /\ \E a \in DOMAIN accepted : a.session = r
        BY <4>1 DEF FInv, MarksProved
      <4> QED
        BY <2>1, <2>4, <2>7, <4>1, <4>2
    <3> QED
      BY <3>1, <3>2
  <2> QED
    BY <2>8, <2>9, <2>10, <2>11 DEF FInv
<1> QED
  BY <1>6, <1>7 DEF CheckCode, factorVars

LEMMA FactorsKept == ASSUME IInv, FInv, [Next]_vars PROVE FInv'
<1> DEFINE Untouched == UNCHANGED <<session, device, accepted>>
<1>1. session \in [Sessions -> SessionRows] /\ current \in Nat
  BY DEF IInv, Shape, FInv, FactorShape
<1>2. ASSUME Untouched, current' \in Nat PROVE FInv'
  BY <1>2, FactorsRest
<1>3. ASSUME NEW s \in Sessions, NEW row, session' = [session EXCEPT ![s] = row],
             row.mfa => session[s].mfa /\ row.of = session[s].of,
             UNCHANGED <<current, device, accepted>>
      PROVE  FInv'
  BY <1>1, <1>3, FactorsRest
<1>4. CASE UNCHANGED vars
  BY <1>1, <1>2, <1>4 DEF vars, tokenVars, factorVars
<1>5. CASE Account
  <2>1. Untouched /\ current' \in {current, current + 1}
    BY <1>5 DEF Account, CreateAdmin, SetState, Dies, Tick, tokenVars, factorVars
  <2> QED
    BY <1>1, <1>2, <2>1
<1>6. CASE SignIn
  <2>1. ASSUME NEW k \in Calls, NEW s \in Sessions, StartSession(k, s) PROVE FInv'
    <3>1. /\ session' = [session EXCEPT ![s] = [session[s] EXCEPT !.of = call[k].user]]
          /\ session[s] = NoSession /\ UNCHANGED <<current, device, accepted>>
      BY <2>1 DEF StartSession, factorVars
    <3>2. ~[session[s] EXCEPT !.of = call[k].user].mfa
      BY <3>1 DEF NoSession
    <3> QED
      BY <1>3, <3>1, <3>2
  <2>2. ASSUME ~\E k \in Calls, s \in Sessions : StartSession(k, s)
        PROVE  Untouched /\ current' = current
    BY <1>6, <2>2 DEF SignIn, RequestOtp, OtpExpires, VerifyOtp, tokenVars, factorVars
  <2> QED
    BY <1>1, <1>2, <2>1, <2>2
<1>7. ASSUME NEW s, Revoke(s), UNCHANGED <<current, device, accepted>> PROVE FInv'
  <2>1. \A r \in Sessions : /\ session'[r].mfa = session[r].mfa
                            /\ session'[r].of = session[r].of
    BY <1>1, <1>7 DEF Revoke, SessionRows
  <2> QED
    BY <1>1, <1>7, <2>1, FactorsRest
<1>8. CASE Refresh
  <2>1. ASSUME NEW k \in Calls, RevokeReused(k) PROVE FInv'
    BY <1>7, <2>1 DEF RevokeReused, factorVars
  <2>2. ASSUME ~\E k \in Calls : RevokeReused(k) PROVE Untouched /\ current' = current
    BY <1>8, <2>2 DEF Refresh, BeginRefresh, Rotate, tokenVars, factorVars
  <2> QED
    BY <1>1, <1>2, <2>1, <2>2
<1>9. CASE SignOut
  <2>1. ASSUME NEW s \in Sessions, SessionExpires(s) PROVE FInv'
    <3>1. [session[s] EXCEPT !.state = "EXPIRED"].mfa = session[s].mfa
          /\ [session[s] EXCEPT !.state = "EXPIRED"].of = session[s].of
      BY <1>1 DEF SessionRows
    <3> QED
      BY <1>3, <2>1, <3>1 DEF SessionExpires, factorVars
  <2> QED
    BY <1>7, <1>9, <2>1 DEF SignOut, Logout, RevokeSession, factorVars
<1>10. CASE SecondFactor
  <2>1. ASSUME NEW k \in Calls, NEW s \in Sessions, NEW to \in Factors, PresentCode(k, s, to)
        PROVE  FInv'
    BY <1>1, <1>2, <2>1 DEF PresentCode, tokenVars, factorVars
  <2>2. ASSUME NEW u \in Users, MissesLapse(u) PROVE FInv'
    BY <1>1, <1>2, <2>2 DEF MissesLapse, tokenVars
  <2> QED
    BY <1>10, <2>1, <2>2, EnrolmentKeepsFactors, CheckKeepsFactors DEF SecondFactor, Factors
<1> QED
  BY <1>4, <1>5, <1>6, <1>8, <1>9, <1>10 DEF Next

-----------------------------------------------------------------------------
\* The strengthened invariant holds in every reachable state.
THEOREM Invariance == Spec => []IInv
<1>1. IInv /\ [Next]_vars => IInv'
  BY NextKeeps
<1> QED
  BY InitHolds, <1>1, PTL DEF Spec

\* However many refreshes of one token race or are repeated, the tokens of a session are
\* one chain with at most one that is good, and none once it is revoked.
THEOREM TokensAreAChain == Spec => []RotationIsAChain
<1>1. IInv => RotationIsAChain
  BY DEF IInv
<1> QED
  BY Invariance, <1>1, PTL

\* Calls that passed the lock-out together exceed the limit of misses by less than their
\* number.
THEOREM GuessesAreBounded == Spec => []GuessesBounded
<1>1. ASSUME IInv PROVE GuessesBounded
  <2> SUFFICES ASSUME NEW u \in Users PROVE misses[u] < MfaTries + Cardinality(Calls)
    BY DEF GuessesBounded
  <2> DEFINE P == Pending(u)
  <2>1. P \in SUBSET Calls
    BY DEF Pending
  <2>2. misses[u] + Cardinality(P) < MfaTries + Cardinality(Calls) /\ misses[u] \in Nat
    BY <1>1 DEF IInv, Margin, Shape
  <2> HIDE DEF P
  <2>3. Cardinality(P) \in Nat /\ Cardinality(Calls) \in Nat /\ MfaTries \in Nat
    BY <2>1, PendingIsFinite, SessionsAssumption
  <2> QED
    BY <2>2, <2>3
<1> QED
  BY Invariance, <1>1, PTL

\* No code of an authenticator is accepted twice, and an admin has powers only on a
\* session which one was accepted on.
THEOREM PowersNeedACode == Spec => []PowersAreProved
<1>1. Spec => []FInv
  <2>1. IInv /\ FInv /\ [Next]_vars => FInv'
    BY FactorsKept
  <2> QED
    BY FactorsInit, Invariance, <2>1, PTL DEF Spec
<1>2. FInv => PowersAreProved
  BY DEF FInv, CodesOnce, MarksProved, PowersAreProved, Powers, BagToSet
<1> QED
  BY <1>1, <1>2, PTL

=============================================================================
