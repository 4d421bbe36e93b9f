------------------------------ MODULE Sessions ------------------------------
(***************************************************************************)
(* Signing in: one-time passwords, sessions with rotating refresh tokens,  *)
(* and the second factor an admin's powers need.                           *)
(*                                                                         *)
(* A refresh looks at its token before it locks it, a sign-in verifies the *)
(* password in one transaction and starts the session in another, and a    *)
(* second factor passes the lock-out before it locks the device.  Each is  *)
(* two steps of a call, and a call may die between them.  The clock counts *)
(* the steps of the authenticator's codes; passwords, sessions and         *)
(* lock-outs lapse at any time.                                            *)
(***************************************************************************)
EXTENDS Integers, Sequences, FiniteSets, Bags

CONSTANTS
    Users, Sessions, Challenges,
    Calls,         \* requests under way at once
    BackupCodes,   \* what a confirmed authenticator is given
    OtpTries, MfaTries,
    Drift,         \* how far the authenticators' clocks may be off
    MaxStep,       \* bound: the last step of the clock
    MaxTokens,     \* bound on refresh tokens
    MaxSecrets     \* bound: how often an enrolment begins

ASSUME SessionsAssumption ==
    /\ IsFiniteSet(Calls) /\ "NONE" \notin Users
    /\ {OtpTries, MfaTries} \subseteq Nat \ {0} /\ Drift \subseteq Int
    /\ {MaxStep, MaxTokens, MaxSecrets} \subseteq Nat

VARIABLES
    current,     \* the step of the clock
    status,      \* of each user
    admins,      \* users with an admin profile
    challenge,   \* each one-time password asked for
    session,     \* each session
    tokens,      \* refresh tokens, in the order they were made
    device,      \* each user's authenticator
    misses,      \* each user's wrong codes of the second factor that still count
    accepted,    \* the bag of codes accepted as a second factor, by whom and where
    call         \* what each request has under way

accountVars == <<status, admins>>
tokenVars == <<session, tokens>>
factorVars == <<device, misses, accepted>>
vars == <<current, accountVars, challenge, tokenVars, factorVars, call>>

Idle == [does |-> "NONE"]

\* An offboarded account is as a suspended one here.
Status == {"ACTIVE", "SUSPENDED"}

NoChallenge == [of |-> "NONE", tries |-> 0]
NoSession == [of |-> "NONE", state |-> "LIVE", mfa |-> FALSE]
NoDevice == [secret |-> 0, confirmed |-> FALSE, last |-> -1, backup |-> {}]

Init ==
    /\ current = 1
    /\ status = [u \in Users |-> "ACTIVE"] /\ admins = {}
    /\ challenge = [c \in Challenges |-> NoChallenge]
    /\ session = [s \in Sessions |-> NoSession] /\ tokens = <<>>
    /\ device = [u \in Users |-> NoDevice]
    /\ misses = [u \in Users |-> 0] /\ accepted = EmptyBag
    /\ call = [k \in Calls |-> Idle]

\* The call ends, with an answer or an error.
Ends(k) == call' = [call EXCEPT ![k] = Idle]

Begins(k, what) ==
    /\ call[k] = Idle
    /\ call' = [call EXCEPT ![k] = what]

-----------------------------------------------------------------------------
(* Accounts. *)

\* admin_accounts.set_state: all the console's interventions may set.
SetState(u, to) ==
    /\ status[u] # to
    /\ status' = [status EXCEPT ![u] = to]
    /\ UNCHANGED <<current, admins, challenge, tokenVars, factorVars, call>>

\* The command that makes a user an admin, also one who is signed in.
CreateAdmin(u) ==
    /\ admins' = admins \cup {u}
    /\ UNCHANGED <<current, status, challenge, tokenVars, factorVars, call>>

Tick ==
    /\ current < MaxStep
    /\ current' = current + 1
    /\ UNCHANGED <<accountVars, challenge, tokenVars, factorVars, call>>

\* The server or the client goes away: what was not committed is undone.
Dies(k) ==
    /\ call[k] # Idle
    /\ Ends(k)
    /\ UNCHANGED <<current, accountVars, challenge, tokenVars, factorVars>>

-----------------------------------------------------------------------------
(* One-time passwords. *)

\* An earlier password that was not used stays good.
RequestOtp(c, u) ==
    /\ challenge[c] = NoChallenge
    /\ challenge' = [challenge EXCEPT ![c] = [of |-> u, tries |-> 0]]
    /\ UNCHANGED <<current, accountVars, tokenVars, factorVars, call>>

OtpExpires(c) ==
    /\ challenge[c] # NoChallenge
    /\ challenge' = [challenge EXCEPT ![c] = NoChallenge]
    /\ UNCHANGED <<current, accountVars, tokenVars, factorVars, call>>

\* The miss is counted under the challenge's lock, and kept though the call fails;
\* a challenge that is consumed, out of tries or expired is forgotten here.
VerifyOtp(k, c, right) ==
    LET missed == challenge[c].tries + 1 IN
    /\ challenge[c] # NoChallenge
    /\ challenge' = [challenge EXCEPT ![c] =
          IF right \/ missed = OtpTries THEN NoChallenge ELSE [@ EXCEPT !.tries = missed]]
    /\ IF right THEN Begins(k, [does |-> "SIGN_IN", user |-> challenge[c].of])
       ELSE UNCHANGED call
    /\ UNCHANGED <<current, accountVars, tokenVars, factorVars>>

-----------------------------------------------------------------------------
(* Sessions and their refresh tokens. *)

Active(s) == session[s].of # "NONE" /\ session[s].state = "LIVE"

\* resolve_session: whom a bearer token lets in.
Resolves(s) == Active(s) /\ status[session[s].of] = "ACTIVE"

\* _new_refresh: no token outlives its session.
NewRefresh(s, from) == [session |-> s, from |-> from, spent |-> FALSE]

\* The account's status is not looked at: nothing resolves until it is active.
StartSession(k, s) ==
    /\ call[k].does = "SIGN_IN"
    /\ session[s] = NoSession /\ Len(tokens) < MaxTokens
    /\ session' = [session EXCEPT ![s].of = call[k].user]
    /\ tokens' = Append(tokens, NewRefresh(s, 0))
    /\ Ends(k)
    /\ UNCHANGED <<current, accountVars, challenge, factorVars>>

\* Its age ends a session, however often it is refreshed.
SessionExpires(s) ==
    /\ Active(s)
    /\ session' = [session EXCEPT ![s].state = "EXPIRED"]
    /\ UNCHANGED <<current, accountVars, challenge, tokens, factorVars, call>>

\* refresh, before any lock: is the token spent?
BeginRefresh(k, t) ==
    /\ Begins(k, IF tokens[t].spent THEN [does |-> "REUSED", session |-> tokens[t].session]
                 ELSE [does |-> "ROTATE", token |-> t])
    /\ UNCHANGED <<current, accountVars, challenge, tokenVars, factorVars>>

\* Mutant: the token is not looked at again under its lock.
UnspentAsRead(t) == TRUE

Unspent(t) == ~tokens[t].spent

\* refresh, with the token, its session and its user locked.
Rotate(k) ==
    LET t == call[k].token IN
    /\ call[k].does = "ROTATE"
    /\ IF Unspent(t) /\ Resolves(tokens[t].session)
       THEN /\ Len(tokens) < MaxTokens
            /\ tokens' = Append([tokens EXCEPT ![t].spent = TRUE],
                                NewRefresh(tokens[t].session, t))
       ELSE UNCHANGED tokens
    /\ Ends(k)
    /\ UNCHANGED <<current, accountVars, challenge, session, factorVars>>

\* _revoke_session: every token of the family is spent with it.
Revoke(s) ==
    /\ session' = [session EXCEPT ![s].state = "REVOKED"]
    /\ tokens' = [t \in DOMAIN tokens |->
                     IF tokens[t].session = s THEN [tokens[t] EXCEPT !.spent = TRUE]
                     ELSE tokens[t]]

\* A spent token came again: the family is revoked, though the call fails.
RevokeReused(k) ==
    /\ call[k].does = "REUSED"
    /\ Revoke(call[k].session)
    /\ Ends(k)
    /\ UNCHANGED <<current, accountVars, challenge, factorVars>>

Logout(s) ==
    /\ Resolves(s)
    /\ Revoke(s)
    /\ UNCHANGED <<current, accountVars, challenge, factorVars, call>>

Own(by, s) == session[s].of = session[by].of

\* One's other sessions, also one that has expired.
RevokeSession(by, s) ==
    /\ Resolves(by) /\ Own(by, s)
    /\ Revoke(s)
    /\ UNCHANGED <<current, accountVars, challenge, factorVars, call>>

-----------------------------------------------------------------------------
(* The second factor. *)

\* actor_from_user: an admin's roles count on a session that passed it.
Powers(s) == Resolves(s) /\ session[s].of \in admins /\ session[s].mfa

\* Enrolling goes through any session of an admin without an authenticator.
BeginEnrolment(s) ==
    LET u == session[s].of IN
    /\ Resolves(s) /\ u \in admins
    /\ ~device[u].confirmed /\ device[u].secret < MaxSecrets
    /\ device' = [device EXCEPT ![u] = [NoDevice EXCEPT !.secret = device[u].secret + 1]]
    /\ UNCHANGED <<current, accountVars, challenge, tokenVars, misses, accepted, call>>

\* Mutant: the lock-out is never seen.
NeverLocked(u) == FALSE

Locked(u) == misses[u] >= MfaTries

\* What may have been entered: a code about the moment, a backup code, or anything
\* else, a code of another moment or of a secret replaced since among it.
Totp(secret, step) == [secret |-> secret, step |-> step, backup |-> "NONE"]
Backup(u, b) == [secret |-> device[u].secret, step |-> 0, backup |-> b]
Wrong == [secret |-> 0, step |-> 0, backup |-> "NONE"]

Codes(u) ==
    {Wrong} \cup {Totp(device[u].secret, current + d) : d \in Drift}
            \cup {Backup(u, b) : b \in BackupCodes}

\* confirm_enrolment, verify and step_up, up to the lock on the device.
PresentCode(k, s, to) ==
    /\ Resolves(s) /\ session[s].of \in admins
    /\ to = "STEP_UP" => session[s].mfa
    /\ ~Locked(session[s].of)
    /\ Begins(k, [does |-> to, session |-> s])
    /\ UNCHANGED <<current, accountVars, challenge, tokenVars, factorVars>>

\* Mutant: a code's step is not remembered.
AnyStep(u, step) == TRUE

Later(u, step) == step > device[u].last

\* _consume_code: what the device is after a code it accepts.
Consumed(u, code) ==
    IF code.backup = "NONE" THEN [device[u] EXCEPT !.last = code.step]
    ELSE [device[u] EXCEPT !.backup = @ \ {code.backup}]

Accepts(u, code, confirming) ==
    /\ code.secret = device[u].secret /\ code # Wrong
    /\ IF code.backup = "NONE"
       THEN code.step \in current - 1 .. current + 1 /\ Later(u, code.step)
       ELSE ~confirming /\ code.backup \in device[u].backup

\* The first miss opens a window, and what is counted in it lapses with it.
MissesLapse(u) ==
    /\ misses[u] # 0
    /\ misses' = [misses EXCEPT ![u] = 0]
    /\ UNCHANGED <<current, accountVars, challenge, tokenVars, device, accepted, call>>

\* The authenticator a call needs: one to confirm, or one that is confirmed.
Expected(u, to) == device[u].secret # 0 /\ device[u].confirmed # (to = "CONFIRM")

\* What accepting a code makes of the device: its first one confirms it.
Spent(u, to, code) ==
    IF to = "CONFIRM"
    THEN [Consumed(u, code) EXCEPT !.confirmed = TRUE, !.backup = BackupCodes]
    ELSE Consumed(u, code)

\* _mark: verified.  That it is stepped up afresh too is Console's concern.
Mark(s) == session' = [session EXCEPT ![s].mfa = TRUE]

\* The rest of the three calls, with the device locked.
CheckCode(k) ==
    LET s == call[k].session
        u == session[s].of
        to == call[k].does
    IN
    /\ to \in {"CONFIRM", "VERIFY", "STEP_UP"}
    /\ \/ ~Expected(u, to) /\ UNCHANGED <<session, factorVars>>
       \/ \E code \in Codes(u) :
              /\ Expected(u, to) /\ Accepts(u, code, to = "CONFIRM")
              /\ device' = [device EXCEPT ![u] = Spent(u, to, code)]
              /\ Mark(s)
              /\ accepted' = accepted (+) SetToBag({[by |-> u, code |-> code, session |-> s]})
              /\ UNCHANGED misses
       \/ \E code \in Codes(u) :
              /\ Expected(u, to) /\ ~Accepts(u, code, to = "CONFIRM")
              /\ misses' = [misses EXCEPT ![u] = @ + 1]
              /\ UNCHANGED <<session, device, accepted>>
    /\ Ends(k)
    /\ UNCHANGED <<current, accountVars, challenge, tokens>>

-----------------------------------------------------------------------------
Account ==
    \/ \E u \in Users : CreateAdmin(u) \/ \E to \in Status : SetState(u, to)
    \/ \E k \in Calls : Dies(k)
    \/ Tick

SignIn ==
    \/ \E c \in Challenges, u \in Users : RequestOtp(c, u)
    \/ \E c \in Challenges : OtpExpires(c)
    \/ \E k \in Calls, c \in Challenges, right \in BOOLEAN : VerifyOtp(k, c, right)
    \/ \E k \in Calls, s \in Sessions : StartSession(k, s)

Refresh ==
    \E k \in Calls :
        \/ \E t \in DOMAIN tokens : BeginRefresh(k, t)
        \/ Rotate(k)
        \/ RevokeReused(k)

SignOut ==
    \E s \in Sessions :
        \/ Logout(s)
        \/ SessionExpires(s)
        \/ \E by \in Sessions : RevokeSession(by, s)

SecondFactor ==
    \/ \E s \in Sessions : BeginEnrolment(s)
    \/ \E u \in Users : MissesLapse(u)
    \/ \E k \in Calls :
           \/ \E s \in Sessions, to \in {"CONFIRM", "VERIFY", "STEP_UP"} :
                  PresentCode(k, s, to)
           \/ CheckCode(k)

Next == Account \/ SignIn \/ Refresh \/ SignOut \/ SecondFactor

Spec == Init /\ [][Next]_vars

-----------------------------------------------------------------------------
(* Properties. *)

\* However refreshes of one token race, are repeated after a lost answer, or meet
\* a logout, the tokens of a session are one chain: none has two successors, at most
\* one is unspent, and none is once the session is revoked.
RotationIsAChain ==
    \A t, q \in DOMAIN tokens :
        tokens[t].session = tokens[q].session =>
            /\ tokens[t].from = tokens[q].from => t = q
            /\ ~tokens[t].spent /\ ~tokens[q].spent => t = q
            /\ session[tokens[t].session].state = "REVOKED" => tokens[t].spent

\* No code of an authenticator is accepted twice, whatever it is for and on
\* whatever session; and an admin has powers only on a session which one was
\* accepted on, from an authenticator that is confirmed.
PowersAreProved ==
    LET codes == BagToSet(accepted) IN
    /\ \A a, b \in codes : a.by = b.by /\ a.code = b.code => a = b
    /\ \A a \in codes : accepted[a] = 1
    /\ \A s \in Sessions :
           Powers(s) => /\ device[session[s].of].confirmed
                        /\ \E a \in codes : a.session = s

\* Calls that passed the lock-out together may miss together, and no more: the
\* misses of a window stay below the limit but for the calls under way.
GuessesBounded ==
    \A u \in Users : misses[u] < MfaTries + Cardinality(Calls)

=============================================================================
