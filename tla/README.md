# ARC Revenue Control: TLA+ specifications

ARC watches failed Razorpay payments, decides with deterministic rules, a
language model's proposal, a merchant policy and a human's approval whether to
recover the money, and then performs at most one bounded recovery action. This
directory specifies the parts of ARC whose correctness depends on the order of
things: concurrent callers, leases, crashes, lost answers, and state that changes
between a check and its use. `PROJECT.json` maps every definition to the lines it
models and lists the runs, mutants, hazards, findings and theorems.

## 1. Inventory

ARC is a Python modular monolith over PostgreSQL (about 15 500 lines in `arc/`).
Services are ordinary objects; any number of processes may call them. A service
locks the rows it works on (`SELECT ... FOR UPDATE`), never holds a transaction
over a network call, and audits each change in the same commit.

| Component | State it keeps | Operations | What makes it correct |
|---|---|---|---|
| Webhook ingress | `webhook_events` | `ingest_razorpay_webhook`, `record_event_once` | one row per event id however often it is delivered |
| Webhook processor | claim, lease, attempt number of an event | `_claim_event`, `_fetch_authoritative_entity`, `_apply_reconciliation`, `_process_payment_link_event`, `_mark_failed` | settled once; abandoned claims are taken over; an overtaken caller writes nothing |
| Case state machine | `payment_cases.current_state`, `case_events` | `transition_case` | only allowed transitions, terminal states final, audit complete |
| Reconciliation | provider projection in `payment_cases` | `reconcile_payment`, `reconcile_subscription` | closes only on provider truth, never regresses |
| Assessment | eligibility and diagnosis in `payment_cases` | `assess_case` | only fresh, unresolved, failed payments go on |
| Strategy generation | `strategy_proposals` | `generate_strategy` (model call between two transactions) | a proposal made for facts that changed is discarded |
| Merchant policy | `policy_decisions`, `merchant_policies` | `evaluate_policy` | one decision in force; it matches the present inputs |
| Human approval | `approval_requests` | `ensure_approval_request`, `decide_approval` | decided once, only for the decision in force |
| Recovery execution | `recovery_actions`, attempt counters | `execute` (claim, provider calls, finalization, compensation) | authority, at most one link, counted once, no open link forgotten |
| Payment Link gateway | links at the provider | `lookup_by_reference`, `create`, `cancel`, `fetch_by_id` | an uncertain write is never taken as a refusal |
| Outcomes | `recovery_outcome_observations`, `recovery_attributions` | `observe_recovery_action` | revenue attributed once, to one action |
| Read models, API | none of their own | `get_case_detail`, lists, timeline, metrics | a page composed of several reads does not tell of revenue that is not there, or hide revenue that is |
| Evaluation harness | none; a generated dataset | `run_batch_evaluation`, metrics, pass criteria | it takes the path the services take |
| Frontend | the resource on display | two hooks | presentation |
| Demo, deployment | fixtures | scripts | not part of recovery |

Interactions: a webhook delivery is stored by ingress and processed later by any
caller; the processor calls a reconciliation rule, or the outcome observer for
Payment Link events. Assessment, strategy, policy, approval and execution
communicate only through the case row, which all of them lock, and through
fingerprints of the inputs each decision was made for. The hard behaviours are
therefore: a caller that outlives its lease, a crash between two transactions, a
provider answer that is lost, reconciliation or a policy edit between a
decision and its execution, a model's answer that comes back to another case than
it was asked about, and reads that span commits. The 39 hazards in `PROJECT.json`
list them by line.

## 2. Modules

| Module | Models |
|---|---|
| `CaseStates` | transition relation and audited transition |
| `CaseLifecycle` | abstract specification: what any service may do to a case |
| `Reconciliation` | the payment and the subscription rule |
| `Inbox` | abstract specification of webhook processing |
| `WebhookProcessing` | ingress and processor; uses `Reconciliation` |
| `WebhookProcessing_proofs` | its theorems |
| `AssessmentRules` | eligibility, failure classification, assessment fingerprint, compatible actions |
| `DecisionBook` | abstract specification of strategy generation |
| `Strategy` | assessment and strategy generation of one case, beside reconciliation, time, policy and execution; uses `AssessmentRules`, `Reconciliation` |
| `Strategy_proofs` | its theorems |
| `PolicyRules` | the merchant-authorization rule table |
| `PolicyRules_proofs` | its result without the table, for the other proofs |
| `MerchantPolicies` | the stored policy row and its validation |
| `Evaluation` | the evaluation harness: dataset, runner, metrics, pass criteria |
| `RuleChecks` | the rule tables, the policy rows and the harness against reference definitions; composes `Strategy`, `Evaluation`, `MerchantPolicies` |
| `RuleChecks_proofs` | the theorems about eligibility, policy, policy rows and the harness |
| `Authorization` | policy decisions and approvals of one case, beside policy edits, time and reconciliation |
| `PaymentLinks` | the Payment Link client: what a caller is told for every response |
| `RecoveryMandate` | abstract specification of governed execution |
| `RecoveryExecution` | the executor composed with `Authorization`, `PaymentLinks` and the provider |
| `RecoveryExecution_proofs` | the theorems of both |
| `OutcomeRules` | what one read of a Payment Link means |
| `RevenueLedger` | abstract specification of attribution |
| `Outcomes` | observation and attribution, beside the provider, reconciliation and an overdue executor |
| `Outcomes_proofs` | its theorems |
| `ReadModels` | the page of a case, read beside everything `Outcomes` writes |
| `ReadModels_proofs` | its theorem, on top of `Outcomes_proofs` |
| `MCWebhook`, `MCStrategy`, `MCExecution`, `MCOutcomes`, `MCReadModels` | instances for TLC |

### WebhookProcessing

`ledger` is the `webhook_events` table, `cases` the `payment_cases` rows with their
audit trail, `worker` the local variables of every concurrent caller
(`_ClaimedEvent` and the fetched snapshot), `truth` what the provider would answer
now. `seen`, `observed` and `settlements` are history the properties read. Each
transaction of the code is one action named after the method, and between two of
them anything may happen: `crash` drops the caller and leaves its claim,
`processing_raises` is any error the code catches, `Tick` lets leases age,
`TruthChanges` moves the provider. The lease is an age that saturates at its
length, because the code asks only whether the lease is over. A commit that is
applied but whose acknowledgement is lost sends the caller to the failure handler
(`Settle`).

The two `raise` statements for an event that is neither processed, superseded nor
PROCESSING (`arc/reconciliation/service.py` 272-275 and 336-339) have no action:
`ClaimFence` says the caller with the newest attempt number always finds the event
PROCESSING, so they are unreachable.

The outcome observer's own writes are in `Outcomes`; here an observation is the
fact that the link was read.

### Strategy

One case from its first reconciliation on. `state`, `facts` and `attempts` are
columns of its row (`facts` is the provider projection with `last_reconciled_at`),
`assessment` is the stored assessment, `proposals` the `strategy_proposals` rows
and `caller` the local variables of every caller of `generate_strategy`. A fingerprint
is the record of what it hashes. `age` is the time since the last reconciliation; it
stops growing at the first stale instant, because the rules only ask whether the
freshness window is over.

`assess_case` is one transaction. Generation is two transactions with the model
call between them: `prepare_snapshot` takes the snapshot (a disposition the rules
decide skips the call), `propose` and `generation_fails` are what the call may come
to, and `persist_locked` or `discard_answer` is the second transaction, which stores
the answer only if the case still is what the model was asked about. `crash` strikes
in between. The model is outside the program and may answer any action its schema
allows, compatible or not. Around it `reconciled`, `Tick`, `evaluate_policy`,
`execute_action` and closure do to this case what the other services do, as far as it
matters here. Audit rows of failed generations are left out; of a stored proposal the
audit kind is kept.

`DecisionBook` says what all of this amounts to: a case is read, each reading is decided
upon once at most, a decision replaces the one before it, and only the decision about
the newest reading is validated or acted upon, once. Assessments, callers, fingerprints,
diagnoses and the freshness window do not appear in it. `KeepsTheBook` maps the
newest snapshot number to the reading, the snapshots of all proposals to the readings
decided upon and the proposal that is not superseded to the decision in force.

### Rules and evaluation

`AssessmentRules` and `PolicyRules` are the pure rules, in the order of the early
returns of the code. `MerchantPolicies` stands before them: `allowed_actions` and
`stopping_rules` are JSON columns that accept anything, and `validate_policy` decides
whether they are used at all. A JSON value is an array or not, and a set of members,
with one member for each kind the code tells apart. Negative numbers are modelled
although check constraints of the table exclude them too.

`Evaluation` is the harness as operators: it re-enacts the rules without the services,
so `RuleChecks` asks that both agree on every stored proposal and that a re-enacted
scenario is safe by the harness's own criteria (`HarnessAgrees`), and that the criteria
hold for every batch of two, the report adds up and its own dataset gives the published counts
(`evaluation/results/latest.json`). Amounts are drawn from a seeded generator in the
code; the counts are checked for the least and the greatest of them.

### Authorization and RecoveryExecution

One case, starting DECISIONED with a current proposal. A decision is identified by
its authorization-input fingerprint; while the case can be acted upon, only the
policy version and the passing of the recovery window change it, so
`Keys == [policy, expired]`. `valid` says whether the proposal still matches
eligibility and diagnosis; it never becomes true again for the same proposal,
because a new reconciliation changes the assessment fingerprint and a
POLICY_VALIDATED case gets no new proposal. Policy edits, the end of the window and
the ageing of the reconciliation happen only while the case is DECISIONED or
POLICY_VALIDATED: once it is waiting or closed nothing modelled here reads them.

`record` is the `recovery_actions` row of each decision, `links` the provider's
links per reference, `worker` the callers of `execute`, `succeeded` history.
A provider call is carried out or not, and any response that is plausible then may come
back (`Plausible`): none, a server error and an unreadable or foreign body in either
case, a fitting body only after the fact, a refusal only without it. `PaymentLinks`
translates the response as the client does, `CreateOutcomes` and `CancelOutcomes` are
what the executor makes of it. The provider is external; `UniqueReferences` says
whether it refuses a second link with the same reference. A paid and an expired
link are both `closed`, the executor does not tell them apart. PREPARED does not
appear, no transaction ends in it. ACTIONED is passed through inside a transaction,
so `CaseLifecycle` allows a step to take two transitions.

`RecoveryMandate` says what execution promises without leases, callers or provider
answers: authority belongs to one decision at a time, a claim needs it, a claim opens one
link at most, perhaps when the authority is gone, and one action is counted, once, in a
step in which authority, a link and an open case come together. `ExecutesUnderMandate`
maps the decision that permits its action to the authority, the number of times a
row was claimed to the claims and the links of a reference, open or not, to what was opened.

Reactivating an earlier decision (`arc/policy/service.py:145`) may be refused by
the partial unique index; the transaction then rolls back and nothing changes,
which the model covers by not taking the step.

### Outcomes

Cases whose link action has SUCCEEDED, one action per case (`CountedExactlyOnce` of
`RecoveryExecution`). `row` is the case, `observations` and `attribution` the two
outcome tables, `observer` the callers of `observe_recovery_action`, `truth` the
link at the provider. An observer takes a claim (`prepare_claim`), reads the link
outside any transaction (`fetch_by_id`) and persists what it read in a second
transaction. That transaction is two actions, `classify_observation` and
`persist_observation`: the row lock on the case (`Locked`) covers both, but the
check for a payment that is already attributed reads rows of other cases, which the
lock does not protect, and the unique index decides only at the insert
(`insert_attribution`). `observation_fails` is any error, rollback or crash.

A snapshot keeps the fields that the classification and the evidence fingerprint
distinguish; equal evidence is an equal snapshot, since the fingerprint is a hash of
it. Identity, reference and currency are one flag, they are only compared with the
expected ones. Payments are a set, with a flag for a list that names one of them
twice, which the code sends to review. The unique constraint on action and evidence is
left out: the case lock already excludes a second observation of the same evidence,
and `EvidenceIsRecordedOnce` says so without the constraint. The provider may move a
link in any way that does not leave a final status. Reconciliation writes the amount
into any case, closed ones too, and `late_finalizer` is the effect of the
late-finalizer finding on the action row. `external_status`, a projection of the last
snapshot, decides nothing and is left out. Money that arrives after a case was
EXHAUSTED or ESCALATED is attributed without moving the case, as in the code.

### ReadModels

`get_case_detail` does not read a case at one instant: SQLAlchemy loads the case and
then every relationship with a SELECT of its own, in an order it chooses, and at the
default isolation of the database each sees what is committed by then. `detail` is the
page while it is read, `select_table` the next SELECT, interleaved with every step of
`Outcomes`. Only the relationships that `Outcomes` writes are read; the rest cannot
change meanwhile. Every case of `Outcomes` has an action, so `ALREADY_CAPTURED`, which
needs a case without one, does not appear. One reader, at any time, stands for all,
because readers write nothing.

## 3. Runs

Passing runs (states are distinct states):

| Run | States | Instance | Shows |
|---|---|---|---|
| `webhook_entities` | 166 369 | 2 callers, 2 attempts; either 2 events on a payment that fails, is captured late, is refunded, or 3 pending and halted events on a subscription that recovers, ends, or reports an unknown status | `ClaimFence`, `ClosureIsWitnessed`, `AuditTrailReplays`, refinement of `CaseLifecycle` and `Inbox` |
| `webhook_mixed` | 51 588 | 2 callers, fair; a failed payment, an ARC link, a foreign link, an unsupported event; 2 attempts | a link event is acknowledged only after the link was read; every accepted event is settled in the end |
| `strategy` | 20 113 | 2 callers configured with 2 models; 5 provider reports (a failure for the model, one for the rules, a capture, a subscription before and after its retries end), 2 reconciliations, a merchant policy or none | one proposal in force and per assessment, proposals sound, answers only for the case that was asked about, lapsed authority final, rules in need of no model; refinement of `DecisionBook`; the rule tables, policy rows and harness against reference definitions |
| `execution_overlap` | 1.49 M | 2 executors whose leases may overlap, 2 policy versions, approval; a link, WAIT, NO_ACTION, ESCALATE_TO_HUMAN and an unsupported action | counted once, links only with authority, CANCELLED means no open link; record and case of an internal action agree; a recorded success is never lost to FAILED or to another claim, and keeps a link |
| `execution_serial` | 0.55 M | 1 executor with crashes and retries, 3 claims, 2 policy versions, a provider that accepts duplicate references | lookup-before-create keeps one link; open links accounted for; success is final; the case keeps to its lifecycle; refinement of `RecoveryMandate` |
| `outcome_evidence` | 1.24 M | 2 observers, 1 case, 14 snapshots of every kind, 2 amounts, overdue executor | revenue is evidenced, closures are on record, evidence stored once, no credit for a recovered case |
| `outcome_race` | 0.41 M | 2 observers, 2 cases whose links report the same payments | refinement of `RevenueLedger` |
| `outcome_page` | 90 805 | 2 observers, 1 case, fair; one page read meanwhile | a waiting case with a final link is closed in the end; a page neither invents recovered revenue nor hides it |

Runs that refute something the repository says (findings in `PROJECT.json`):

| Run | Statement | What the code does |
|---|---|---|
| `webhook_stale_capture` | "prevent stale regression" (`README.md:58`) | a `failed` snapshot applied after the capture event was settled opens a fresh case for captured money |
| `execution_late_finalizer` | "Duplicate calls return the same action row without another external operation" (`docs/ARCHITECTURE.md:309`) | a caller that outlived its lease overwrites a SUCCEEDED row and cancels the live link |
| `execution_duplicate_link` | "designed to prevent duplicate ... recovery" (`docs/ARCHITECTURE.md:15`) | after an uncertain create and a policy edit, the new decision's action opens a second link |
| `outcome_hidden_conflict` | "conflicts fail into review" (`docs/ARCHITECTURE.md:333`) | a stale PENDING snapshot persisted after the conflict becomes the latest observation and the metrics drop the case from `requires_attention` |

Two properties hold more widely than the run that checks them shows. `execution_serial`
checks the refinement of `RecoveryMandate` for one executor, because the check of every
step of two would take too long; the theorem is for any number that overlap. The run
`webhook_mixed` leaves the claim fence and single settlement to `webhook_entities` and the
theorems.

`SuccessIsSettled`, `OneLinkPerReference` and `OpenLinksAccounted` hold in
`execution_serial`, where a claim is taken over only from a dead caller, and the
late-finalizer run shows that the restriction matters: the claims of
`recovery_actions` carry no attempt fence as those of `webhook_events` do.

### Bounds

Two callers suffice for one to overtake another, and with two attempts the one that took
over may fail as well. `Lease` is 1 or 2
ticks: only "before" and "at or after the end" differ. `MaxAttempts` and
`MaxClaims` bound claims per row. Faults of the webhook processor are allowed while
attempts are left (`FaultsLeft`), so the bound never turns a handled fault into a
permanent one. Two policy versions give a change, a return and a reactivated
decision; a case without policy is among the instances of `strategy`. `MaxObservations` stops new
claims; claims already taken may still add observations, so up to three occur with
the bound 2. Two amounts let reconciliation change the context of a claim and change
it back; two payments suffice for a conflict. Callers are symmetric in the safety
runs, and so are the two cases of `outcome_race`; the runs with liveness
(`webhook_mixed`, `strategy`, `outcome_page`) use no symmetry.

`strategy` has `Freshness` 0: the window is one instant, so a reconciliation is fresh
until time passes once, and every tick is a boundary. Two reconciliations give a
proposal that is overtaken, two models two answers to one assessment. The model answers
with `CREATE_RECOVERY_LINK`, which fits some diagnoses, or `NO_ACTION`, which fits
others. The tables are checked over constants, once per run: eligibility over every
case state, identity, pair of statuses, kind of timestamp and an age from before the
reconciliation to past the window; policy over attempts and contacts around the
maxima, amounts around the threshold, and configurations that differ from a permissive
one in at most one flag; policy rows over every allowlist with a known, an unknown and
a non-string member together with every single departure of the stopping rules, and
over limits from -1 to 1; the harness over every pair of scenario shapes, under the
same and different identifiers. `outcome_page` takes `MaxObservations` 4, so that a
closing observation may follow two stale ones.

`CHECK_DEADLOCK FALSE`: these systems end normally, with every event processed or
the case closed.

### Fairness

`FairSpec` assumes that a running caller goes on (`WF` of its steps), that time
passes, and that somebody keeps calling `process_webhook_event` for an event that
may be claimed (`SF`, since callers may be busy). The last is the one thing the
repository leaves to its operator: there is no scheduler in it, events are
processed by explicit calls. No fairness is assumed for faults, which are thereby
finite in number but may strike at any step. Nothing else is needed: in particular
no assumption says that a caller never dies.

`FairSpec` of `Strategy` assumes that a case goes on being assessed (`WF` of
`assess_case`) and asked about (`SF` of `prepare_snapshot`, since it is possible only
between reconciliations), that a caller under way goes on, and that a caller who is
again and again able to store an answer does so in the end. No model need ever answer
and time need not pass: `RulesNeedNoModel` is about cases the rules decide.

`FairSpec` of `Outcomes`, which `PageSpec` takes over, assumes that a case goes on being observed and that no step
attempted again and again for a case fails every time (`SF` of each step, because observers may
be busy, fail, or wait for a lock). Polls and webhook retries are again calls from
outside. A link never stays final and unread under this assumption, but each single
observation may fail or be stale.

## 4. Proofs

`WebhookProcessing_proofs`, for any sets of events, entities and callers, any lease
and attempt bound, any provider behaviour:

- `TypeCorrect`: `TypeOK` is inductive by itself.
- `ClaimFenceHolds`: `ClaimFence` is inductive relative to `TypeOK`. Its two halves
  need each other: attempt numbers of an event's callers differ because a claim
  takes a number above all earlier ones (`attempt <= row.attempts`), and the newest
  caller finds the event PROCESSING because only the caller with the newest number
  may end a claim, and there is one such caller. The exception, PROCESSED while the
  newest caller is still in its failure handler, is the lost acknowledgement.
- `ImplementsInbox`: the refinement of `Inbox`, from the two invariants. Without
  `ClaimFence`, a settling step could not be shown to start from `pending`.
- `ImplementsLifecycle`: the refinement of `CaseLifecycle`, from lemmas on the
  reconciliation rules: each takes a case along a path of at most two allowed
  transitions.

- `ClosureIsWitnessedHolds`: strengthened with `AnswersWitnessed`, that whatever a
  caller holds was once the provider's answer. A snapshot may be applied long after it
  was read, but it is applied to the case it was read for, and history only grows.
- `AuditTrailReplaysHolds`: inductive relative to `TypeOK`, through lemmas that every
  transition helper, and so each reconciliation rule, appends the entry that starts
  where the trail ends and stamps `resolved_at` exactly on closure.
- `LinkReadBeforeSettledHolds`: strengthened with `LinkReadsKnown`: a link event never
  takes the path of a fetched payment, and a caller past the observation has it on
  record, so that a crash and a new claim start over with the read.

Assumptions: `EventsAssumption`, `BoundsAssumption`, `TruthAssumption`, which only
type the constants; TLC evaluates them in every run.

`RecoveryExecution_proofs`, for any policies and configuration, any number of
callers and claims, any lease, and a provider that refuses duplicate references or
accepts them:

- `TypeCorrect`: `TypeOK` is inductive. The part that is not bookkeeping is that
  policy evaluation always has a result: the first matching rule of the table
  exists because its last rule matches everything (`FirstRule` of
  `PolicyRules_proofs`, the least element of a set of indices).
- `OneDecisionHolds`: inductive relative to `TypeOK`; an evaluation supersedes every
  other decision in the commit that activates one. No run checks `OneDecisionInForce`
  itself; `execution_serial` checks the mandate, where authority belongs to one decision.
- `CountedExactlyOnceHolds`: inductive relative to `TypeOK`. The counters move only
  out of POLICY_VALIDATED, no step leads back there once an action was counted
  (`ExecutionCaseMoves`), and `post_request_context_is_current` reads the state in
  the transaction that counts.
- `LinksArePermittedHolds`: the property says nothing of a caller that has claimed
  but not yet created, so it is strengthened with `ClaimsArePermitted`: the decision
  of every running caller permits the action and its row exists. That stays true
  because results are never rewritten, approvals never withdrawn
  (`PermittedStable`) and rows never deleted (`RecordStable`), even while the
  decision is superseded.
- `CaseFollowsLifecycleHolds`: the action property, from `ExecutionCaseMoves`.
- `CancelledMeansClosedHolds`: strengthened with what callers and rows know of the
  provider (`CallersKnow`, `RowsKnow`): the links they name exist, and one a caller
  takes for compensated is closed. The provider forgets and reopens nothing
  (`LinksStable`), so the knowledge survives any delay.

- `InternalActionsAgreeHolds`: strengthened with `InternalRuns`. An internal action runs
  in the transaction that records it and leaves POLICY_VALIDATED there, so that of all
  callers and decisions one runs it at most, and no caller ever gets as far as the
  provider.
- `OneLinkPerReferenceHolds`, `OpenLinksAccountedHolds`, `SuccessIsSettledHolds` have the
  form `Spec /\ []InTurn => ...`. `InTurn` says that no two callers are at work on the same
  action at one time. It is a condition on behaviours and not on constants: any number of
  callers may run, die and take over from the dead, and one executor satisfies it always
  (`OneExecutorInTurn`). Without it the last two are false (`execution_late_finalizer` shows the
  overlap that refutes `SuccessIsSettled`) and the first rests on the provider's refusal of
  duplicates alone, for the lease does not fence the row. With it, what
  a caller knows of its action stays true (`AtWork`): the row has the status it left
  there, and after a lookup that found nothing there is nothing, also when the lookup
  follows an answer that was lost. `Accounted` says the same of a reference nobody works
  on.

- `SuccessKeepsItsLinkHolds` needs no `InTurn`. The invariant (`SuccessKept`) names the
  statuses a late caller may still write over a success, all with a link that exists, and
  it rests on what callers know of the provider. Whoever overtakes or is overtaken, a
  row that was counted never becomes claimable, FAILED or without a link.
- `ImplementsMandate`: the refinement of `RecoveryMandate`, for overlapping callers and a
  provider that accepts duplicates. That a claim opens one link at most is a counting
  argument (`ClaimBudget`): the callers that may still open a link for an action and the
  links that are there are together no more than its claims. A claim adds one of each side;
  an uncertain create moves its caller, or the link, from one term to the other; crashes
  only lower the sum. The authority of a step comes from `OneDecision`, the link of a
  counted action from `CallersKnow`, and that nothing else was counted from
  `CountedExactlyOnce`.

Assumptions: `ExecutionAssumption`, `ProposalAssumption`, `PoliciesAssumption`,
which only type the constants.

What the client tells of a create or a cancel (`CreateTells`, `CancelTells`) is proved
from the response table: a link that was created is never reported as refused, and a
cancellation is confirmed only if it took place.

`Strategy_proofs`, for any callers, models, answers, provider reports, merchant
policies, number of reconciliations and freshness window:

- `TypeCorrect`: `TypeOK` with `state # "DETECTED"`, a state no service returns to. The
  work is in the rule tables: classification and eligibility always have a result.
- `Inv`, the inductive invariant, has three more parts. `CallersKnow`: a caller under
  way asks no model exactly where a rule decides. `Recorded`: a proposal was made in an
  open case, for a reconciliation that is not younger than the newest one and has its
  facts. `DecidedStands`: an assessment a proposal was made for holds until time, closure
  or another reconciliation ends it. Without the last a second proposal for the same
  reconciliation could not be excluded: that facts are assessed only one way is what
  makes the fence of `_persist_locked` and `_validate_generation_state` enough.
- `OneProposalInForceHolds`, `OneProposalPerAssessmentHolds`, `ProposalsAreSoundHolds`:
  conjuncts of `Inv`.
- `AnswersFitTheCaseHolds`, `LapsedAuthorityIsFinalHolds`: action properties, from `Inv`
  and what a holding assessment says of the case (`ContextMeans`).
- `ImplementsBook`: the refinement of `DecisionBook`. An accepted answer decides upon a
  reading nobody decided upon (`PersistDecides`): by `Recorded`, two proposals for one
  reading are proposals for the same facts, and so for one fingerprint, which the fence of
  `_persist_locked` and `DecidedStands` exclude. Policy and execution use only the
  decision about the newest reading (`CurrentIsEntered`): they compare fingerprints, never
  times, but a fingerprint that holds has the present facts in it, their time included
  (`ContextMeans`).

Assumptions: `ModelsAssumption` (the model of a rule is none of the models),
`FreshnessAssumption`, `SnapshotsAssumption`, `ConfigurationsAssumption`, which type the
constants; the last also says that there is at least one state of the merchant's policy,
which may be that none is configured.

`RuleChecks_proofs`, on top of `Strategy_proofs` and `PolicyRules_proofs`, proves the
tables TLC evaluates over bounded inputs as lemmas over all inputs, and then the
properties, with what they say of the case, as theorems of `Spec`:

- `EligibilityIsExactHolds`: `EligibleIff` replaces the twelve early returns of
  `assess_eligibility` by the condition they leave (`Assessable`) and the verdict on the one
  status. It holds for any row, age and freshness window.
- `PolicyIsConservativeHolds`: `AuthorizationIs` gives `evaluate_authorization` as refused,
  held or authorized; two requests or two configurations compare by what refuses and
  what holds them (`Stricter2`, `StricterRequest`, `WithinLimits`). That no case collects
  more attempts than some policy allows needs `AttemptsAuthorized`: an attempt is counted
  later than it was authorized, but nothing counts in between.
- `PolicyFailsClosedHolds`: for every row, with any integers and any members in its
  lists. `ActionsValid` is the point of interest: `validate_policy` drops what is no string
  and compares the numbers of what is left, which detects a dropped member because the
  lists are finite.
- `HarnessAgreesHolds`: that a scenario is safe (`ScenarioIsSafe`) is proved for every
  scenario, every answer and every set of earlier executions, not only for those of the
  run. That the harness takes the path of the services is proved for every proposal that
  may be stored, by comparing its eligibility, diagnosis and source with the recorded ones
  (`HarnessAssesses`, `HarnessFollows`). The harness knows fewer facts than the case has, so
  this needs the invariant `MadeForFailure`, inductive relative to `Inv`: a stored proposal
  was made for a final failure of the case's own subject.

`Outcomes_proofs`, for any cases, observers, payments, amounts and snapshots:

- `TypeCorrect`: `TypeOK` is inductive by itself.
- `Exclusive`, an auxiliary invariant: two observers past their check have different
  cases. It is the row lock, and the facts below rest on it.
- `ImplementsLedger`: the refinement of `RevenueLedger`. The unique index is what
  makes it true: the check in `protect` may be out of date when the insert comes.
- `RevenueIsEvidencedHolds`, `RecoveredIsNotCreditedAgainHolds`: from
  `ClassifiedSound`, what an observer between its check and its insert still knows.
  The amount it expects is the amount of the case, a RECOVERED result is evidenced by
  its snapshot, and a case without attribution is not RECOVERED. It survives because
  reconciliation and other observers need the lock the observer holds.
- `EvidenceIsRecordedOnceHolds`: the same argument for the search for known evidence.
- `ClosureIsOnRecordHolds`: inductive relative to the above.

Assumptions: `OutcomesAssumption`, `NoPaymentAssumption`; both only type the
constants.

`ReadModels_proofs`, under the same assumptions, proves `PageTellsTheTruthHolds` from the
invariants of `Outcomes`, which carry over because a page only reads (`PageOnlyReads`).
The invariant `PageKnows` says what a half-read page may rely on. The case is read
first. An attribution that was read stays. A page that shows RECOVERED and found no
attribution is right for good, because a case that recovered without one is not credited
later (`RecoveredIsNotCreditedAgain`). An observation that claims the recovery was
committed with the attribution (`CreditedWhenObserved`), so a page that read it has one
to find or has found it, in whatever order the other SELECTs come.

## 5. Model-checked only

- Liveness (`EveryEventSettles`, `FinalLinkClosesCase`, `RulesNeedNoModel`): out of the
  prover's reach.
- `HarnessReports`: the report is made of sums over the results of a batch, recursive
  functions on data whose values need induction over data. It holds for every pair of
  scenario shapes, for the facts and answers of any two stored proposals and for the
  published dataset. What it says of a single scenario is proved, as `HarnessAgrees`.

Every other property of a passing run is a theorem. The properties of the four runs that
refute something are false and have none.

## 6. Not modelled

Signature verification, payload parsing, the fields of requests and the text of audit
rows decide nothing the properties speak of. Of the read models, lists, the timeline,
filters and the recovery metrics are left out; the metrics are torn reads like the
page, but they are aggregates that the next call corrects. The console's hooks,
demo fixtures, the public bundle, migrations and configuration keep no state of the
recovery process. Of the evaluation harness the report's files and rendering are left
out. The language model and the provider are outside the program.

## 7. Plan

1. Proofs: the components against each other. What `Outcomes` and `ReadModels` take from
   `RecoveryExecution` as their initial state is proved there (`CountedExactlyOnce`,
   `SuccessKeepsItsLink`); that a state of the one is an initial state of the other is not
   yet a theorem.
2. Composition of `Outcomes` with `WebhookProcessing` and `RecoveryExecution`: the
   webhook of a paid link whose action is not yet, or no longer, SUCCEEDED.
3. The rest of the read models: the approval queue, which keeps requests of superseded
   decisions, and the timeline.
4. The console's hooks, if they come to write anything.
