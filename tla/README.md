# Verification of the Fikisha backend

Fikisha (`backend/fikisha`) is a Django platform on which businesses publish transport
jobs, bargain with operators over the price, follow the goods through a chain of custody and
are billed a commission. This directory holds TLA+ models of its core, TLC configurations that
check them on small instances, and TLAPS proofs.

## 1. Inventory

| Component | State it keeps | Operations that change it | Talks to |
|---|---|---|---|
| `jobs` | the job row (status, band, version, timestamps), agreement, assignment, custody confirmations, proofs, codes, recipient link, high-value approval, payment record, commission record and adjustments, job events | `transition` (the only writer of the status) behind `submit_job`, `cancel_job`, `assign_job`, `arrive_*`, `confirm_*`, `sender_close_job`, `fail_at_pickup`; the expiry sweep; commission | everything below; `audit`, `outbox` |
| `negotiation` | a thread per operator or group and job, its append-only entries | `propose`, `counter`, `accept`, `decline` | `jobs.transition` |
| `incidents` | incidents, findings, closures, disputes, resolutions | `report`, `start_review`, `start_amicable`, `close_incident`, `open_dispute`, `resolve_dispute`, `resume_dispute`, `escalate` | `jobs.transition`, `jobs.commission` |
| `statements` | statements, their lines, payments, reversals | `run_statements`, `record_payment`, `reverse_payment` | `jobs.commission` |
| `trust` | a driver's tier, an append-only log of changes | `evaluate`, `propose_restriction`, `decide_proposal`, `set_level` | jobs, incidents, ratings |
| `ratings` | one rating per side and job; shown when both are in or the window has passed | `submit` | `jobs`, `trust` |
| `verification` | a record per subject and domain, its documents and decisions; the flag of an organisation | `add_evidence`, `submit`, `start_review`, `request_info`, `approve`, `reject`, the expiry command | `business`, `groups` |
| `business`, `groups` | members with role and status; locations, bases | create, add, change and remove members, leave; locations | `jobs` authorisation |
| `operators`, `vehicles` | a driver's profile and status, a vehicle's status and owner | profile and status calls, deactivation | `jobs` guards |
| `identity` | users, sign-in codes, sessions, refresh tokens, second factors | `request_otp`, `verify_otp`, `refresh`, `logout`, enrolment, verification, `step_up` | - |
| `admin_console` | account interventions | suspend, reinstate, offboard, change the configuration, teach the cargo matcher | `identity`, `operators`, `platform_config` |
| `platform_config` | versioned settings | `apply_change` | read by every service |
| `outbox` | events to publish | `emit`, `drain_outbox` | Celery workers |
| `audit` | a hash chain of entries | `record`, `verify_chain` | every service |
| `inbox`, `api`, `observability`, `common`, `evidence`, `storage`, frontend | nothing of the workflow | reads, HTTP, files | - |

Behaviours that are hard to get right, and where:

- **Row locks.** Every service locks the job row (`job_for_update`) and then calls the engine, which
  locks it again in the same transaction; reads before the lock (candidate lists, a verified code,
  a link opened in an earlier request) may be stale. Services that lock a second table (threads,
  disputes, incidents) may wait for each other.
- **Two records of one fact.** A job is `DISPUTED` while a dispute row awaits its ruling; a job is `CONFIRMED` when
  there is an agreement and a thread that won; a commission is billed when a statement line names
  it. Each pair is written in two places.
- **Long detours.** A dispute freezes a job in any of eight statuses; it is resumed, or ruled complete,
  failed or cancelled; a completed job may be disputed again until its window closes.
- **Requests that read and then write.** The console, a sign-in, a refresh, a second factor, an assignment and a
  change of members decide on what they read without a lock and write later; two of them interleave.
- **One question, many answers.** Who is a party to a job is decided in the words of eight packages; whether a driver may carry
  it, by the screen that offers drivers and again by the call.
- **Copies.** An organisation's flag, an assignment's tier, a proposal's starting level are copies of what moves on.
- **Time.** Offers, codes, links, requests and dispute windows expire; scheduled tasks race the
  parties.

`PROJECT.json` lists the components with what is and is not modelled of each, and the hazards with the
line where each bites.

## 2. Modules

| Module | Models | Composes / implements |
|---|---|---|
| `JobStates` | the statuses, the transition table and who may use each row (`jobs/transitions.py`, `_actor_matches`) | - |
| `JobLifecycle` | one job from draft to settlement: the engine and every service that calls it | `JobStates`; implements `Consignment` |
| `Consignment` | what a job promises: goods change hands once each way with a proof, only delivered goods or a ruling complete, what is billed stands | abstract |
| `Negotiation` | threads, entries and their derived standing | implements `Deal` |
| `Deal` | at most one deal is struck, at a figure on the table | abstract |
| `CallEffects` | what one negotiation call decides and writes | - |
| `NegotiationLocks` | the row locks of several calls at once | `CallEffects`; implements `SerialCalls` |
| `SerialCalls` | the same calls one at a time | abstract |
| `Handover` | codes, recipient link, confirmations and the driver's calls behind a delivery | opens up the step AT_DESTINATION to DELIVERED of `JobLifecycle` |
| `Assignment` | who may drive a confirmed job with what: the screen of candidates, the call, and the facts that move under it | opens up the step CONFIRMED to ASSIGNED of `JobLifecycle` |
| `DisputeDesk` | incidents of one job, reviews, escalations, closures, disputes, rulings and findings, with calls in flight | opens up the disputes of `JobLifecycle` |
| `Billing` | statement runs over several jobs and weeks, adjustments before and after billing, payments and reversals | opens up the billing of `JobLifecycle` |
| `Tiers` | a driver's tier, its log, the ratings and findings it is proposed from | - |
| `Vetting` | records of verification, their documents, the reviews, the sweep and the flags of organisations | - |
| `Organisations` | members of businesses and groups, changed by overlapping calls | - |
| `JobAccess` | who lists, opens, rates, is paid for and calls whom about a job, while members come and go | extends `Organisations` |
| `Sessions` | one-time passwords, sessions, rotating refresh tokens, second factors | - |
| `Console` | interventions on an account, changes of the configuration and of the cargo matcher by two admins at once | - |
| `MC*` | instances for TLC | - |
| `JobLifecycleProofs`, `NegotiationProofs`, `NegotiationLocksProofs`, `DisputeDeskProofs`, `SessionsProofs` | theorems about the module each is named after | TLAPS |
| `CarriageProofs` | theorems about `Assignment` and `Handover` | TLAPS |
| `StandingProofs` | theorems about `Tiers`, `Organisations` and `JobAccess` | TLAPS |
| `OfficeProofs` | theorems about `Vetting`, `Console` and `Billing` | TLAPS |

### How state and actions correspond to the code

`JobLifecycle`: one variable per table or column group (`status`, `band`, `stamps` are the job row; `proof`
the two proof tables; `confirmed` the confirmation rows that still count; `commission` the record with
the sum of its adjustments; `disputes` the dispute rows with their resolutions, in order). One
action per service call; each holds the job's row lock from its first read to its commit and is
therefore one step. The exception is the expiry sweep, which reads its candidates without a
lock: `ListExpired`, then `ExpireCandidate`. `Escalate` writes a dispute that was read without a lock, perhaps
before it was resolved: the row may be open again while the job goes on, so the properties ask whether a dispute awaits its ruling
(`RulingAwaited`) and whether one is open (`DisputeOpen`) apart. `Transition` is the engine: it looks up the row of the table,
matches the caller's tokens (`Granted`), sets the status and stamps its timestamp the first time only.
Eligibility of a driver, vehicle or operator is nondeterminism here (`Assign` may happen or not): it is what `Assignment` opens up.

`Negotiation`: a thread is its status and its entries; whether an entry stands (`Stands`) is computed on every
read, as in `negotiation/selectors.py`. `expired` holds the sides whose latest offer ran out. A call is one
step because it holds the job's row lock.

`NegotiationLocks`: the variables `holder` (row locks) and `seen` (what a call read under its locks) open that step
up: `Lock`, `Read`, then `Commit` or `Refuse`. A proposal's key-share lock on its thread is asked for at the
commit, when PostgreSQL checks the deferred foreign key. `Abort` is PostgreSQL's deadlock detection.

`Handover`: `Verify` and `Deliver` are the two transactions of `confirm_delivery`; `OpenLink` and `ConfirmReceipt` the two
requests of the recipient. `codes` keeps for each code what its row says (`wrong`) and what really happened
(`missed`).

`Assignment`: `AssignJob` is what `assign_job` checks and reads, `Assign` what it writes, with the tier it reads once more in
between. The call holds the job's row alone, so every fact may move meanwhile: profiles, tiers, memberships, vehicles,
the group, the high-value review. `Candidates` is the screen that offers drivers and vehicles, translated on its own. `ACTIVE` stands for
every operator status but `PENDING`, since the guard asks for no more (section 5).

`DisputeDesk`: `desk` holds for each call in flight what it has read and not yet written. `start_review`, `start_amicable_window` and `escalate`
read without a lock; `close_incident` holds its incident's lock and `open_dispute` the job's, and each reads rows the other
may write. `Fail` ends a call that is refused, aborted by a constraint or chosen by the deadlock detector. `resolve_dispute`,
`resume_dispute` and the findings hold every lock they need and are one step. `UNDER_REVIEW`, `AMICABLE_PENDING` and `ESCALATED`
incidents are `IN_HAND`: no code tells them apart; findings are `NO_FAULT` or not. The job is reduced to under way, disputed,
completed within its window and ended.
`JobLifecycle` has `escalate` as one step, `Escalate`: every dispute was unresolved once and may have been read then, so the write may come at any time.

`Billing`: time is counted in weeks; a run (`StartRun`, `FinishRun`) holds the advisory lock but no job, and a payment (`TakePayment`,
`SavePayment`) its statement's lock. A line is a pointer from the record (`charged`) or the adjustment (`billed`) to the week of
the statement, since each has one line at most. `Configure` is the admin's change of the window's length, which reopens the window
of a job that was billed: such a job may be disputed, and its commission lowered, after it was billed. `JobLifecycle` keeps
the length fixed, so its `BilledIsFinal` and `EndsStay` say what billing relies on between two such changes, and `Billing` what still
holds across them.

`Tiers`: `LiveCriteria` is the switch under which ratings and findings count (`trust_tiers.live_criteria`); `changes` is the append-only table; whether a proposal is open (`Open`) is computed from it and the level, as `_open_proposal`
does. Each call locks the driver's level first and is one step. The measures a promotion asks for are the facts `enough` and `floor`, which
move at will, and the rating average, which is computed from the ratings. `Evaluate` runs
in a transaction of its own, after a completion or a rating has committed and every night.

`Vetting`: a call locks its record and is one step. Of a document the model keeps the slot of its kind and whether its date has
passed, of a decision log who submitted and the last ruling. `ExpireDue` is the sweep, a command run by hand; `EffectiveState` how a lapsed record reads before
it. `Queue` and `Applicants` are what reviewers are shown.

`Organisations` and `JobAccess`: `AskRight` is the policy's answer, the call that follows locks the one row it changes; a call that takes an
active owner away counts the others (`leaving`) and then writes. `JobAccess` puts one job next to that and translates each
package's notion of a party by itself: `JobsVisibleTo`, `IsJobParty`, `SideInThread`, `PartyKind`, `RatesAs`, `StatementsFor`, `Conversations`.
A dispute freezes the job (`disputed`) and hides its contacts from the side that carries it; what an operator may discover of jobs they
have no part in is left out (section 6).

`Sessions`: each request that reads before it locks is two steps of a `call`, and a call may die between them. The clock counts the
steps of the authenticator's codes; passwords, sessions and lock-outs lapse at any time. `accepted` is the bag of codes that were
accepted, on which session.

`Console`: `call` holds what a request read and decided; the write that follows locks its row and does not look again. `PatchStatus` is the
`PATCH` of an operator's status or of a business's or group's standing by a Platform Admin; `patched` remembers after which
interventions there was one. A change of
the configuration is a patch merged into what is live by then.

## 3. Runs

All twelve runs finish with no error; `PROJECT.json` has for every property a mutant, a plausible bug of the code under which TLC
finds the property violated.

| Run | Properties | Shows |
|---|---|---|
| `job_lifecycle` | `DisputeFreezesJob`, `CustodyChain`, `CompletionEarned`, `OpenDisputeHolds`, `ResumeRestores`, `ImplementsConsignment`, `RequestExpires`, `EarnedIsBilled` | every path of the table with up to two disputes: a job is disputed exactly while a dispute awaits its ruling, also beside late escalations; no leg without its proof, no completion without payment or a ruling; the job implements `Consignment`; an unanswered request fails and an earned commission is billed |
| `negotiation` | `NoStaleTerms`, `OneWinner`, `ImplementsDeal` | mutual and unmoved terms, one winner; bargaining implements `Deal` |
| `negotiation_locks` | `DeadlocksComeLate`, `ImplementsSerialCalls` | concurrent calls are serializable; calls deadlock only around the late lock of a proposal or of an acceptance that confirms, and a cancellation never does |
| `handover` | `CodesAccounted`, `ReceiptsThroughLiveLink` | codes, receipts, links and the proof agree, also after a dispute |
| `dispute_desk` | `FrozenByOneDispute`, `ClosuresAccounted` | a disputed job has one dispute that can be ruled on, every resolved incident one closure record, whatever races it |
| `billing` | `Reconciled`, `CreditsFollowCharges` | ledgers reconcile and credits follow charges in any order of runs, rulings and payments |
| `vetting` | `ReviewerIndependent`, `EvidenceUnderReviewStands`, `WaitingIsListed`, `FlagIsLastRuling` | nobody rules on what they submitted, documents do not change under a review, nothing that waits is hidden, a flag is the last ruling |
| `job_access` | `OwnerlessOnlyByRace`, `PartyFindsJob` | the packages agree on who is a party: whoever may act on a job or is shown a number on it finds it in their list, also in a dispute; an organisation loses its last owner by overlapping calls alone |
| `tiers` | `OneOpenOfAKind`, `RatesBlind`, `RestrictionHolds` | a manager is never asked the same thing twice at once, nobody rates knowing the other's rating, a restriction is left only by lifting it |
| `assignment` | `PreviewHidesNothing`, `RecordJustifies`, `SuspensionIsStaffs` | the screen hides no pair the call accepts, the record justifies the assignment, a vehicle staff suspended is released by staff alone |
| `sessions` | `RotationIsAChain`, `PowersAreProved`, `GuessesBounded` | the tokens of a session are one chain whatever races, no code is accepted twice, no admin's powers without one, a bounded number of guesses |
| `console` | `InterventionsChain`, `KeywordsStayApart`, `ChangesWhatWasAsked` | an account's interventions chain but where its own resource was patched, original categories share no keyword, a change touches what was asked for |

The type invariant `TypeOK` of a module is not among a run's properties: where there is a proof module it is part of the inductive
invariant that is proved there (as `TypeOK`, `Shape` or, in `Tiers`, the `...Typed` conjuncts); elsewhere it documents the variables.

### Bounds

| Bound | Value | Why it is enough |
|---|---|---|
| `MaxDisputes` | 2 | the second dispute meets everything the first left: a resumed step, a ruling, a recorded commission, an adjustment |
| `Prices` | two | tells an amount from another; fees 1 and 2 let adjustments add up past the fee |
| `Givens` | none, a photo, everything | for each band one set that satisfies no group, one that satisfies some, one that satisfies all |
| `MaxEntries` | 5, over all threads | a seeded price, an offer, two acceptances and one entry that moves the terms between any of them, or a second thread |
| `Calls` (locks) | 3 | a cycle of two and a third call in its way |
| `Calls` (handover) | 2 | a double tap |
| `MaxAttempts`, `MaxMisses` | 1, 2 | a code is locked by one wrong entry and tried again after |
| `MaxResumes` | 1 | an old and a new code and link |
| `Incidents`, `Officers`, `MaxDisputes` (desk) | 2 each | an incident in and one outside a dispute; a call overtaken by another; a call overtaken by a whole dispute |
| `MaxWeek` | 3 | a statement, a later one with a credit, and a run of the older week after the newer |
| `Windows` | 0 and 1 week | a window that is lengthened after billing, or shortened |
| `MaxAdjustments`, `MaxSettlements` | 2, 3 | credits before and after billing; a payment, its reversal and the next |
| `Records`, `People`, `MaxBranches` (vetting) | a licence and a business, 3, 1 | one record that needs a document and expires, one that carries a flag and a location; an owner who reviews, an officer, an administrator; a branch beside the main place |
| `Businesses`, `Groups`, `People`, `MaxCalls` (access) | 1, 1, 3, 3 | two owners and one to take over; founding, a second owner and two calls at once |
| `Jobs`, `Scores`, `MaxChanges`, `MaxFindings` (tiers) | 2, {2, 5}, 4, 1 | a low and a high average; a proposal, its decision, a restriction and its lifting; with `MinCounted` = `OverLast` = 1 one rating makes a drop, and with `MaxFaults` = 0 one finding stops a promotion |
| `Drivers`, `Vehicles`, `Bands`, `Levels` (assignment) | 2, 1, STANDARD and VERY_HIGH, L0, L1 and L3 | the operator of the agreement and another who made the job; goods every tier reaches and goods only the highest does |
| `Users`, `Sessions`, `Calls`, `MaxTokens` (sessions) | 1, 2, 2, 3 | two sessions of one person, two requests at once, a session with a token, its successor and one more |
| `OtpTries`, `MfaTries`, `MaxStep`, `MaxSecrets`, `Drift` | 2, 1, 2, 1, {0} | a miss before and one at the limit; two steps of the clock tell a used code from the next; one replaced authenticator is enough because a new one starts unconfirmed |
| `Sessions`, `MaxRows`, `MaxPatches`, `MaxRequests` (console) | 2, 3, 2, 3 | a suspension, its reinstatement and a racing third, with a `PATCH` beside them and another in between; two requests overlap and a third follows |
| categories, keywords, settings | 2 original and 1 added, 1, 2 of two values | a keyword two categories race for; two settings changed at once |

### Fairness

`JobLifecycle` assumes weak fairness of the sweep and of the statement run, which Celery beat starts for ever, and
of the passing of the dispute window. No other module assumes any: the expiry of verifications, for one, is a command nobody is bound to
run (`config/settings/base.py:147`). No fairness is assumed of people anywhere. Deadlock is not
checked where every job ends, every call is made, or a bound is used up: all runs stop there.

## 4. Proofs

Eight modules hold theorems. Each component's part proves an inductive invariant (`Spec => []IInv`, or under the name given below)
with a lemma per action, frame lemmas for what an action does not touch, and a step lemma that splits on the disjuncts of `Next`; the
properties follow from it. The assumptions are the ones the component's module names; the bounds are arbitrary natural numbers. The lists and tables are
of any size; where something is counted or added up, or a cycle has to be found, they are assumed finite (`Jobs`, `Calls`, `Sessions`, ...), as in the database.

- `JobLifecycleProofs`, for every set of drivers and prices, every fee table and every rule of proof a configuration may hold: each
  invariant (`TypeCorrectness`, `DisputesFreezeJobs`, `CustodyIsProved`, `CompletionsAreEarned`, `CommissionsAreEarned`, `BillsAreFinal`,
  `EndsAreExplained`, `HighValueIsSupervised`), the action properties (`OpenDisputesHold`, `ResumingRestores`, `EndsAreFinal`,
  `CommissionsAreKept`) and `JobImplementsConsignment`, all of them beside escalations that come late. None of the invariants is inductive alone. `CommissionEarned`, for one, needs that a disputed
  job that had completed can only end in a terminal status (`"COMPLETED" \in stamps => Standpoint \in TerminalStates`), which in turn
  needs to know which statuses a dispute may be resumed to and that no closed dispute is open. `Bookkeeping` is what
  is missing: bands and prices exist from the status on in which they are frozen; disputes come after the assignment;
  the timestamp of where a job stands is set; a ruling of failure is the last word.
- `NegotiationProofs`, for any parties and prices: `OneThreadWins`, `TermsAreCurrent` and the refinement `BargainingIsADeal`. What is missing in the
  properties is what a live thread looks like: no entry rejects, and every acceptance answers an earlier offer of the other side at its
  amount (`ActiveGoesOn`); a thread closed while the job is open was declined (`ClosedIsDeclined`). `Stands` is quantified over positions of the
  history, so the refinement rests on lemmas about what one more entry does to every earlier one.
- `NegotiationLocksProofs`, for any threads and any number of calls: `LocksSerialize`, the refinement of `SerialCalls`, and `DeadlocksComeOfLateLocks`. What a call
  has read it still holds and finds unchanged (`ReadUnderLock`), since every call that writes holds the job (`LocksJob`) and a call that confirms holds
  the threads it closes; so a commit is a step of `SerialCalls` on the committed rows, and every other step a stutter. A call that has not
  read holds its thread's row before the job's (`LocksInOrder`), so in a cycle of two one has read and asks for a last lock.
- `DisputeDeskProofs`, for any number of incidents and of calls in flight: `DisputesCanBeRuled`, `ClosuresAreAccounted`. The strengthening says that one dispute
  at most is unresolved, that the one without a ruling freezes the job, and that an escalation under way names a dispute there is.
- `SessionsProofs`, for any users, sessions and requests at once: `TokensAreAChain`, `GuessesAreBounded`, `PowersNeedACode`. Every successor is made from a spent token of its
  session (`Descent`); and the misses together with the calls that have passed the lock-out stay below the limit and the number of calls
  (`Margin`), which counts pending calls as cardinalities. A code that was accepted is behind the last step of the device whose
  secret made it, or is a backup code that device no longer has (`CodesSpent`): so it is never accepted again.
- `CarriageProofs`. Of `Assignment`, for every set of drivers, vehicles, tiers and bands: `RecordsJustify`, `SuspensionsAreStaffs`, `PreviewsHideNothing`. A call under way was allowed
  by the tier it read or by staff (`CallChecked`); a vehicle ruled out is suspended still or gone for good.
  Of `Handover`, for every rule of delivery and any number of resumes, calls and wrong codes: `CodesAreAccounted`, `ReceiptsAreLive`, from
  `HandoverInv`. Missing in the properties are how codes, link and way belong together (`Journey`: a code for each
  generation of the link, none before the destination, at most one for each resume and the first) and that a receipt through the link there is
  now has used it (`LinksUsed`).
- `StandingProofs`. Of `Tiers`, for any jobs, scores and thresholds: `OneIsOpenOfAKind`, `RestrictionsHold`, `RatingsAreBlind`. Of the proposals made from one level at most one of a kind
  waits, whatever the level is now, and none is made from a restriction: so none can come back twice.
  Of `Organisations` and `JobAccess`, for any people, businesses and groups: `OwnersLeaveByRaceOnly`, `PartiesFindTheJob`. Where no owners left in
  overlapping calls there is an owner besides each one about to leave (`OwnersRemain`), no two calls are about to end the same ownership
  (`OwnersHeld`), and an organisation that was asked about has members (`RightsStand`); the job's own columns follow its stage (`JobInv`).
- `OfficeProofs`. Of `Vetting`, for any records, documents and people: `ReviewersAreIndependent`, `ReviewedEvidenceStands`, `FlagsFollowRulings`, `WaitingIsFound`, from
  each other and from `AskedIsOpen`.
  Of `Console`, for any sessions, categories, keywords and settings (`ConsoleInv`): `InterventionsAreAHistory`, `OriginalKeywordsStayApart`, `ChangesAreAsAsked`. A patch in flight names none of the original
  categories, or all of them with no keyword in two (`Apart`): so whichever is merged last leaves them apart.
  Of `Billing`, for any jobs, payees, fees, weeks and bounds (`BillingInv`): `StatementsReconcile`, `CreditsAreCharged`. A run under way has read records that are on no statement
  (`RunReads`), so every charge and credit is on one (`BilledOnce`), and a statement's totals are the sums of its lines (`StatementsAdd`); what a job's
  commission was cut by stays within its fee (`CutsWithinFees`); what is settled is the sum of the payments in effect (`PaymentsStand`), and a payment
  that was read and not yet written holds its statement alone and fits into what is due (`Reserved`). The sums are folds over finite sets, which no
  library theorem covers and no induction can be done on here: `Total...` prove of a sum over a set, by a smallest counterexample, that it does
  not depend on the order in which rows are taken.

Every safety property and every refinement the runs check is proved. Only model-checked is liveness (`RequestExpires`, `EarnedIsBilled`),
which rests on fairness. That the bounds and fees of an instance let the interesting cases happen is shown by the runs and their mutants alone.

## 5. Disagreements between the code and what it says of itself

Seen while modelling. The models have the code's behaviour, and the properties above state what does hold in spite of it.

Jobs, negotiation, custody:

- a job in `NEGOTIATING` never expires (`jobs/tasks.py` selects `REQUESTED` only;
  docs/phase-1/events-and-background-jobs.md names both), and the sweep fails a job that left `REQUESTED` after it was listed
  (`jobs/tasks.py:98` against `:41`);
- the threads of a cancelled job stay `ACTIVE` (no handler of `JobCancelled` exists;
  docs/phase-1/negotiation-architecture.md has one close them);
- two racing acceptances may deadlock (`negotiation/services.py:482`), where docs/phase-1/negotiation-architecture.md:145 promises a refusal;
- one code can serve the recipient and then the driver, who verified it before (`consume_otp` does not look whether it
  was consumed meanwhile; `jobs/otp.py` calls codes single-use): `CodesAccounted` states what does hold;
- a delivery whose code was verified before a dispute goes through with it after the resume, although a new code was issued then
  (`jobs/custody.py:259`; the confirmations of before do not, `ReceiptsThroughLiveLink`);
- a wrong code entered through the recipient's link is not counted, since the miss is rolled back (`jobs/recipient.py:311` against `jobs/otp.py:116`),
  and nothing replaces a code that lapsed (`jobs/apply_fns.py:192` against docs/phase-1/chain-of-custody.md:134);
- the docstrings of `pickup_proof_valid_for_band` and `delivery_proof_valid_for_band` (`jobs/guards.py`) describe defaults
  other than those of `platform_config/defaults.py` (the shipped STANDARD pickup rule does not take a photo, the delivery
  rule asks for one); and the header of `jobs/tasks.py` describes an auto-completion that no longer exists;
- the docstring of `assignment_candidates` says that the screen can never drift from the call, but it does not leave out `PENDING` drivers and
  those who made the job: it offers some the call refuses (it hides none it would accept: `PreviewHidesNothing`);
- a suspended, restricted or offboarded driver can be assigned: the guard refuses `PENDING` alone, while the docstring of
  `resume_assignment_reasons` (`jobs/guards.py:571`) says that assignment checks it;
- a viewer of a business and a member of a group who does not manage it list a job they may not open (docs/phase-2/phase-2d-plan.md:361).

Incidents and billing:

- `escalate` writes over a dispute that was resolved after it was read (`incidents/services.py:829` against `incidents/constants.py:67`). The reopened dispute
  can never be resolved (its `Resolution` exists and is one-to-one), and while the parties carry a resumed job on, keeps it for ever from being
  disputed again and the sender from closing it: `DisputeFreezesJob` and `OpenDisputeHolds` state what does hold; docs/phase-2/phase-2d-final-verification.md promises further disputes after a resolution;
- a review that was read before and written after a closure reopens an incident that has a closure record; naming it in a
  dispute makes every later ruling on that dispute fail on the unique key;
- an incident of an open dispute may be closed by hand when `close_incident` and `open_dispute` race, although the former's docstring has
  it closed with the dispute; and a report stays unfounded when a later finding supersedes the one it rested on;
- `intake_recipient_report` is called by nothing: what a recipient reports never becomes an incident;
- once the dispute window is lengthened (`EDITABLE_CONFIG_PATHS`), a billed job may be disputed again, although
  docs/commission-statements-plan.md (3.3) holds commission back until the window has closed for good;
- a statement with credits alone has a negative total that no later statement takes into account: the payee is asked for the
  whole of the next;
- one payment reference can be in effect on two statements (`statements/services.py:320` against docs/phase-2/phase-2d-decisions.md:1015).

People:

- an organisation may lose its last owner when two owners leave at once (`business/services.py:293`; docs/phase-2/phase-2b-summary.md:76):
  `OwnerlessOnlyByRace` states what does hold;
- a proposal that was void comes back to life when the level it was made from does (`trust/services.py:103` and `:596`; trust-and-disputes-plan.md);
  a proposal to restrict lapses when an open promotion is confirmed first;
- two suspensions that race record the second from `SUSPENDED`, so a `PENDING` operator is `ACTIVE` after the reinstatement
  (`admin_console/services.py:132`), and a Platform Admin's `PATCH` of an operator's status or of the standing of a business or group leaves no intervention
  (`operators/services.py:129`, `business/services.py:194`, `groups/services.py:169`): `InterventionsChain` states what does hold;
- a keyword may end in two categories when a new category with it races its addition to another, and of two keywords added to one category at once the earlier is lost
  (`admin_console/services.py:349` says a keyword belongs to one category): `KeywordsStayApart` states what does hold;
- a suspended vehicle escapes when it is deactivated and its plate registered again; it is another row, so `SuspensionIsStaffs` holds;
- an administrator may add evidence for an operator and then review it; an organisation's flag does not follow when its record lapses;
  and a verified business may close its last location;
- a suspended user can still sign in, and has a session that works once reinstated, as do the sessions from before (the docstring of
  `admin_accounts` says they are signed out);
- a client that repeats a refresh whose answer was lost has its session revoked, while of two truly concurrent refreshes the loser only fails.

## 6. Not modelled

- HTTP, serializers, routing, rate limits, idempotency keys and their cache, `If-Match`, the replay of a transition: they surround the calls that are
  modelled and keep their state in headers or the cache.
- The outbox and its drain, whose events no consumer answers with a change of what is modelled; the audit chain, whose worth is its hash function.
- Storage, uploads, photographs, evidence and statements of an incident: rows no decision reads; a photo or signature is a member of the set of methods given.
- Operating bases and their associations, `invalidate_association` (nothing calls it), names, contacts, specifications and other profile fields; seen and read markers, paging.
- Which open jobs an operator discovers (`jobs/discovery.py:45` asks for an operator who is not pending or restricted and an active vehicle
  of their own of a class that fits), and the 200 newest jobs the inbox reads (`inbox/services.py:46`): the job is among them. A job that failed or was cancelled, in `JobAccess`.
- `live_criteria` switched while a driver is evaluated: it is the constant `LiveCriteria` of `Tiers`.
- The recipient's reports (dead code), flags on cancellations, the views of the operations desk, observability, the frontend, deployment.
- In `Sessions` the age of a step-up, which is the fact `fresh` of `Console`; the limits on how often a password may be asked for. In `Console` the validation
  of a whole configuration and its numbered snapshots.
- The clock is nondeterministic: whatever may expire may do so at any step. A ruling or a dispute decided in one week commits in the same
  week: a transaction that straddles Monday 00:00 while a run is started by hand is left out.
- Geography, and the identity of drivers, vehicles and groups beyond what assignment, access and tiers ask of them.
