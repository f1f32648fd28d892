------------------------------ MODULE Strategy ------------------------------
(***************************************************************************)
(* From a reconciled case to a recovery strategy: deterministic assessment *)
(* (arc/assessment.py) and strategy generation with its model call         *)
(* (arc/intelligence/service.py), for one case.                            *)
(*                                                                         *)
(* Assessment is one transaction under the case row lock.  Generation is   *)
(* three steps: a snapshot under the lock, the model call without any      *)
(* lock, and a second transaction that stores the proposal if the case     *)
(* still is what the model was asked about.  Between the two transactions  *)
(* everything may happen: the case is reconciled or assessed again, closed *)
(* or acted upon, its reconciliation ages, another caller stores another   *)
(* proposal, the caller dies.                                              *)
(*                                                                         *)
(* Every service reads one synchronised clock, and two reconciliations     *)
(* never carry the same timestamp.  Failure audit rows are left out.       *)
(***************************************************************************)
EXTENDS AssessmentRules, Reconciliation, FiniteSets

CONSTANTS
  Callers,            \* concurrent callers of generate_strategy
  Models,             \* model names callers may be configured with
  NoModel,            \* the model of a proposal that needed none
  Answers,            \* the actions a model may answer with
  Snapshots,          \* what the provider may report about the case's payment
  Freshness,          \* RECONCILIATION_FRESHNESS, in ticks
  Configurations,     \* the merchant policies that may be in force
  MaxReconciliations  \* bound: reconciliations of the case

ProviderFacts ==
  [payment_id : BOOLEAN, subscription_id : BOOLEAN,
   payment_status : ExternalStatus \cup {"none"},
   subscription_status : ExternalStatus \cup {"none"},
   error_reason : STRING, error_source : STRING, error_step : STRING]

ASSUME ModelsAssumption == NoModel \notin Models /\ Answers \subseteq RecoveryAction
ASSUME FreshnessAssumption == Freshness \in Nat /\ MaxReconciliations \in Nat \ {0}
ASSUME SnapshotsAssumption == Snapshots \subseteq ProviderFacts
\* Some policy, or the absence of one, is in force.
ASSUME ConfigurationsAssumption ==
  Configurations \subseteq PolicyConfiguration /\ Configurations # {}

VARIABLES
  state,       \* payment_cases.current_state
  facts,       \* the provider projection of the row, with last_reconciled_at
  age,         \* time since last_reconciled_at, up to the first stale instant
  assessment,  \* the persisted assessment: eligibility, fingerprint, diagnosis
  attempts,    \* payment_cases.attempt_count
  proposals,   \* strategy_proposals
  caller       \* the local state of every caller

vars == <<state, facts, age, assessment, attempts, proposals, caller>>

-----------------------------------------------------------------------------
\* A row's facts: the provider's report and when it was reconciled.
WithStamp(s, n) ==
  [payment_id |-> s.payment_id, subscription_id |-> s.subscription_id,
   payment_status |-> s.payment_status, subscription_status |-> s.subscription_status,
   error_reason |-> s.error_reason, error_source |-> s.error_source,
   error_step |-> s.error_step, last_reconciled_at |-> n]

NoDiagnosis == [failure_category |-> "none", recovery_disposition |-> "none"]

\* assessment_fingerprint is NULL: the fingerprint of no reconciliation.
NoFingerprint ==
  build_assessment_fingerprint("none",
    [payment_id |-> FALSE, subscription_id |-> FALSE, payment_status |-> "none",
     subscription_status |-> "none", error_reason |-> "none", error_source |-> "none",
     error_step |-> "none", last_reconciled_at |-> 0])

NotAssessed == [decision |-> "none", reason |-> "none", fingerprint |-> NoFingerprint,
                diagnosis |-> NoDiagnosis]

NoInput == [assessment |-> NoFingerprint, diagnosis |-> NoDiagnosis, attempts |-> 0,
            model |-> NoModel]

Idle == [pc |-> "idle", input |-> NoInput, answer |-> "none"]

CaseFacts == {WithStamp(s, n) : s \in Snapshots, n \in 1..MaxReconciliations}

Fingerprints ==
  [terminal_case_state : TERMINAL_CASE_STATES \cup {"none"}, facts : CaseFacts]
    \cup {NoFingerprint}

DiagnosisRow == [failure_category : FailureCategories \cup {"none"},
                 recovery_disposition : RecoveryDisposition \cup {"none"}]

AssessmentRow == [decision : EligibilityDecision \cup {"none"},
                  reason : EligibilityReason \cup {"none"},
                  fingerprint : Fingerprints, diagnosis : DiagnosisRow]

StrategyInput == [assessment : Fingerprints, diagnosis : DiagnosisRow, attempts : Nat,
                  model : Models \cup {NoModel}]

Proposal == [input : StrategyInput, source : {"RULE", "AI"}, action : RecoveryAction,
             audit : {"STRATEGY_GENERATED", "STRATEGY_RULE_GENERATED", "STRATEGY_REGENERATED"},
             superseded : BOOLEAN]

CallerState == [pc : {"idle", "asking", "answered"}, input : StrategyInput,
                answer : RecoveryAction \cup {"none"}]

\* Every variable keeps its type: the case row with its reconciliation facts and stored
\* assessment, the proposal rows, and a caller that has an answer has an action.
TypeOK ==
  /\ state \in CaseState
  /\ facts \in CaseFacts
  /\ age \in 0..(Freshness + 1)
  /\ assessment \in AssessmentRow
  /\ attempts \in Nat
  /\ proposals \subseteq Proposal
  /\ caller \in [Callers -> CallerState]
  /\ \A w \in Callers : caller[w].pc = "answered" => caller[w].answer \in RecoveryAction

\* Reconciliation of the existing case by reconcile_payment or
\* reconcile_subscription: only the case state matters here.
ReconciledState(s, report) ==
  LET row == [NoCase EXCEPT !.state = s]
  IN  IF report.payment_id
        THEN reconcile_payment(row, "payment.failed", report.payment_status).state
        ELSE reconcile_subscription(row, report.subscription_status).state

\* The case has just been opened by its first reconciliation.
Init ==
  /\ state = "RECONCILING"
  /\ facts \in {WithStamp(s, 1) : s \in {r \in Snapshots : ReconciledState("NONE", r) = "RECONCILING"}}
  /\ age = 0
  /\ assessment = NotAssessed
  /\ attempts = 0
  /\ proposals = {}
  /\ caller = [w \in Callers |-> Idle]

-----------------------------------------------------------------------------
(* Assessment.                                                              *)

Eligibility == assess_eligibility(state, facts, "aware", age, Freshness)

Fingerprint == build_assessment_fingerprint(state, facts)

CurrentAssessment ==
  LET e == Eligibility
  IN  [decision |-> e.decision, reason |-> e.reason, fingerprint |-> Fingerprint,
       diagnosis |-> IF e.decision = "ELIGIBLE" THEN classify_failure(facts) ELSE NoDiagnosis]

\* assess_case: the assessment is stored as it is now, a diagnosis cleared when the
\* case is not eligible; the first diagnosis moves the case on.  A case that is
\* fully assessed already is left alone.
assess_case ==
  /\ assessment # CurrentAssessment
  /\ assessment' = CurrentAssessment
  /\ state' = IF assessment'.decision = "ELIGIBLE" /\ state = "RECONCILING"
                THEN "DIAGNOSED" ELSE state
  /\ UNCHANGED <<facts, age, attempts, proposals, caller>>

-----------------------------------------------------------------------------
(* Strategy generation.                                                     *)

\* validate_strategy_context: the stored assessment is the one a fresh assessment
\* would produce now, and it is ELIGIBLE.
ContextHolds == assessment.decision = "ELIGIBLE" /\ assessment = CurrentAssessment

\* build_strategy_input_fingerprint over assessment, context and model.
InputFingerprint(model) ==
  [assessment |-> assessment.fingerprint, diagnosis |-> assessment.diagnosis,
   attempts |-> attempts, model |-> model]

InForce == {p \in proposals : ~p.superseded}

Identical(input) == {p \in proposals : p.input = input}

\* (mutant) a decided case may always be decided again
generation_state_decisioned == state \in {"DIAGNOSED", "DECISIONED"}

\* _validate_generation_state: the case waits for its first proposal, or for one that
\* replaces a proposal made for an older assessment.
GenerationState ==
  \/ state = "DIAGNOSED"
  \/ /\ state = "DECISIONED"
     /\ \E p \in InForce : p.input.assessment # assessment.fingerprint

\* (mutant) the rule's action does not reach the snapshot
prepare_snapshot_unruled(w, m) ==
  LET ruled == RuleDecides(assessment.diagnosis.recovery_disposition)
      input == InputFingerprint(IF ruled THEN NoModel ELSE m)
  IN  /\ caller[w].pc = "idle"
      /\ ContextHolds
      /\ Identical(input) = {}
      /\ GenerationState
      /\ caller' = [caller EXCEPT ![w] =
                      [pc |-> IF ruled THEN "answered" ELSE "asking", input |-> input,
                       answer |-> "none"]]
      /\ UNCHANGED <<state, facts, age, assessment, attempts, proposals>>

\* _prepare_snapshot.  A disposition that ARC decides itself needs no model; an
\* identical proposal is returned as it is and starts nothing.
prepare_snapshot(w, m) ==
  LET ruled == RuleDecides(assessment.diagnosis.recovery_disposition)
      input == InputFingerprint(IF ruled THEN NoModel ELSE m)
  IN  /\ caller[w].pc = "idle"
      /\ ContextHolds
      /\ Identical(input) = {}
      /\ GenerationState
      /\ caller' = [caller EXCEPT ![w] =
                      [pc     |-> IF ruled THEN "answered" ELSE "asking",
                       input  |-> input,
                       answer |-> IF ruled THEN "ESCALATE_TO_HUMAN" ELSE "none"]]
      /\ UNCHANGED <<state, facts, age, assessment, attempts, proposals>>

\* The model's answer to the snapshot: any action of the schema, also one that
\* was not among those it was told it may choose.
propose(w) ==
  /\ caller[w].pc = "asking"
  /\ \E a \in Answers :
       caller' = [caller EXCEPT ![w] = [pc |-> "answered", input |-> @.input, answer |-> a]]
  /\ UNCHANGED <<state, facts, age, assessment, attempts, proposals>>

\* A timeout, an error status, a refusal, an unfinished or unreadable answer, a
\* missing key: every failure of the request ends the call with an audit row.
generation_fails(w) ==
  /\ caller[w].pc = "asking"
  /\ caller' = [caller EXCEPT ![w] = Idle]
  /\ UNCHANGED <<state, facts, age, assessment, attempts, proposals>>

\* (mutant) the answer is stored without looking at the case again
snapshot_still_current_unchecked(w) == state \in {"DIAGNOSED", "DECISIONED"}

\* The context fence of _persist_locked: recomputed under the lock, the input must be
\* what the snapshot holds.
SnapshotStillCurrent(w) ==
  ContextHolds /\ InputFingerprint(caller[w].input.model) = caller[w].input

\* (mutant) any action the schema knows is accepted
is_action_known(w) == caller[w].answer \in RecoveryAction

\* validate_action_compatibility
ActionCompatible(w) ==
  caller[w].answer \in compatible_actions(assessment.diagnosis.recovery_disposition)

\* The row _build_proposal inserts, with the audit event append_generated adds to it.
NewProposal(w) ==
  [input      |-> caller[w].input,
   source     |-> IF caller[w].input.model = NoModel THEN "RULE" ELSE "AI",
   action     |-> caller[w].answer,
   audit      |-> CASE state = "DECISIONED" -> "STRATEGY_REGENERATED"
                    [] state # "DECISIONED" /\ caller[w].input.model = NoModel
                         -> "STRATEGY_RULE_GENERATED"
                    [] OTHER -> "STRATEGY_GENERATED",
   superseded |-> FALSE]

SupersededProposal(p) ==
  [input |-> p.input, source |-> p.source, action |-> p.action, audit |-> p.audit,
   superseded |-> TRUE]

\* (mutant) the proposal in force is not superseded
AllKept(rows) == rows

Superseded(rows) == {SupersededProposal(p) : p \in rows}

Acceptable(w) ==
  /\ SnapshotStillCurrent(w)
  /\ Identical(caller[w].input) = {}
  /\ GenerationState
  /\ ActionCompatible(w)

\* _persist_locked, the answer accepted: what was in force is superseded, the proposal
\* inserted and a DIAGNOSED case DECISIONED, in one commit.
persist_locked(w) ==
  /\ caller[w].pc = "answered"
  /\ Acceptable(w)
  /\ proposals' = Superseded(proposals) \cup {NewProposal(w)}
  /\ state' = IF state = "DIAGNOSED" THEN "DECISIONED" ELSE state
  /\ caller' = [caller EXCEPT ![w] = Idle]
  /\ UNCHANGED <<facts, age, assessment, attempts>>

\* _persist_locked, every other end: discarded because the case changed, answered by
\* an identical proposal, refused in this case state, or rejected as incompatible.
discard_answer(w) ==
  /\ caller[w].pc = "answered"
  /\ ~Acceptable(w)
  /\ caller' = [caller EXCEPT ![w] = Idle]
  /\ UNCHANGED <<state, facts, age, assessment, attempts, proposals>>

\* The process dies between its two transactions.
crash(w) ==
  /\ caller[w].pc # "idle"
  /\ caller' = [caller EXCEPT ![w] = Idle]
  /\ UNCHANGED <<state, facts, age, assessment, attempts, proposals>>

-----------------------------------------------------------------------------
(* What happens around the proposals: reconciliation, time, policy,         *)
(* execution and closure, each as far as it moves this case.                *)

\* A webhook about the case is reconciled: the provider projection is overwritten and
\* stamped, on closed cases too.
reconciled(r) ==
  /\ facts.last_reconciled_at < MaxReconciliations
  /\ r.payment_id = facts.payment_id
  /\ facts' = WithStamp(r, facts.last_reconciled_at + 1)
  /\ age' = 0
  /\ state' = ReconciledState(state, r)
  /\ UNCHANGED <<assessment, attempts, proposals, caller>>

Tick ==
  /\ age <= Freshness
  /\ age' = age + 1
  /\ UNCHANGED <<state, facts, assessment, attempts, proposals, caller>>

\* (mutant) the proposal in force is taken to be about the case as it is
proposal_is_in_force(p) == p \in InForce

\* _validate_current_proposal: the proposal in force was made for the assessment the
\* case has, and that assessment still holds.
ProposalIsCurrent(p) ==
  p \in InForce /\ p.input.assessment = assessment.fingerprint /\ ContextHolds

\* evaluate_policy under some merchant policy.  A subscription case has no amount; a
\* contact is counted with its attempt.
evaluate_policy ==
  /\ state \in {"DECISIONED", "POLICY_VALIDATED"}
  /\ \E p \in proposals, c \in Configurations, passed \in BOOLEAN :
       /\ ProposalIsCurrent(p)
       /\ state' = PolicyTarget(evaluate_authorization(
                      [action |-> p.action, amount |-> IF facts.payment_id THEN {100} ELSE {},
                       attempts |-> attempts, contacts |-> attempts, windowPassed |-> passed], c))
  /\ UNCHANGED <<facts, age, assessment, attempts, proposals, caller>>

\* Execution of the authorised action: a created link counts as an attempt, an action
\* without an executor escalates the case.
execute_action ==
  /\ state = "POLICY_VALIDATED"
  /\ \E p \in proposals :
       /\ ProposalIsCurrent(p)
       /\ attempts' = IF p.action = "CREATE_RECOVERY_LINK" THEN attempts + 1 ELSE attempts
       /\ state' = CASE p.action \in {"CREATE_RECOVERY_LINK", "WAIT"} -> "WAITING_FOR_OUTCOME"
                      [] p.action = "NO_ACTION"                      -> "EXHAUSTED"
                      [] OTHER                                       -> "ESCALATED"
  /\ UNCHANGED <<facts, age, assessment, proposals, caller>>

\* A rejected approval, or the outcome of the executed action, closes the case.
case_closed ==
  /\ \/ state = "POLICY_VALIDATED" /\ state' = "ESCALATED"
     \/ state = "WAITING_FOR_OUTCOME" /\ state' \in TERMINAL_CASE_STATES
  /\ UNCHANGED <<facts, age, assessment, attempts, proposals, caller>>

CallerStep(w) == propose(w) \/ generation_fails(w)

Persist(w) == persist_locked(w) \/ discard_answer(w)

Next ==
  \/ assess_case
  \/ \E w \in Callers : (\E m \in Models : prepare_snapshot(w, m)) \/ CallerStep(w)
  \/ \E w \in Callers : Persist(w) \/ crash(w)
  \/ \E r \in Snapshots : reconciled(r)
  \/ Tick
  \/ evaluate_policy
  \/ execute_action
  \/ case_closed

Spec == Init /\ [][Next]_vars

\* Somebody keeps asking for an assessment and, strongly because callers may be busy,
\* for a strategy; requests to the model end, by their timeout if nothing else; and
\* callers do not die every single time before their commit.  No model need ever
\* answer, and time need not pass.
Fairness ==
  /\ WF_vars(assess_case)
  /\ SF_vars(\E w \in Callers, m \in Models : prepare_snapshot(w, m))
  /\ WF_vars(\E w \in Callers : CallerStep(w))
  /\ SF_vars(\E w \in Callers : Persist(w))

FairSpec == Spec /\ Fairness

-----------------------------------------------------------------------------
(* Properties.                                                              *)

ReconciledAt(p) == p.input.assessment.facts.last_reconciled_at

\* Whatever callers, reconciliations and crashes interleave, a decided case has exactly
\* one proposal in force, the one made for the newest reconciliation of all, and an
\* undecided case has none at all (the partial unique index behind
\* strategy_proposals never has to refuse anything).
OneProposalInForce ==
  /\ \A p, q \in InForce : p = q
  /\ state \in {"DECISIONED", "POLICY_VALIDATED", "WAITING_FOR_OUTCOME"} => InForce # {}
  /\ state \in {"RECONCILING", "DIAGNOSED"} => proposals = {}
  /\ \A p \in InForce, q \in proposals : ReconciledAt(q) <= ReconciledAt(p)

\* One assessment is decided once: callers with different models that were asked about
\* the same assessment never both store their answer.
OneProposalPerAssessment ==
  \A p, q \in proposals : p.input.assessment = q.input.assessment => p = q

\* A stored proposal is sound for the facts it was made for, not for what the case
\* became: they were an open confirmed failure, its diagnosis is theirs, its action
\* fits that diagnosis and a rule, not a model, decided what rules decide; exactly
\* one proposal is audited as the first.
ProposalsAreSound ==
  /\ \A p \in proposals :
       LET f == p.input.assessment.facts
           d == p.input.diagnosis
       IN  /\ p.input.assessment.terminal_case_state = "none"
           /\ f.payment_status = "failed" \/ f.subscription_status = "halted"
           /\ d = classify_failure(f)
           /\ p.action \in compatible_actions(d.recovery_disposition)
           /\ p.source = "RULE" <=> RuleDecides(d.recovery_disposition)
  /\ proposals # {} =>
       \E p \in proposals :
         {q \in proposals : q.audit # "STRATEGY_REGENERATED"} = {p}

\* A model's answer never reaches a case that is no longer what the model was asked
\* about: reconciled or closed since, or stale at the commit.
AnswersFitTheCase ==
  [][\A p \in proposals' :
       Identical(p.input) = {} =>
         /\ p.input.assessment = Fingerprint
         /\ ~Stale(age, Freshness)
         /\ state \in {"DIAGNOSED", "DECISIONED"}]_vars

HasCurrentProposal == \E p \in proposals : ProposalIsCurrent(p)

\* Authority that lapsed stays lapsed: once the proposal of a POLICY_VALIDATED case
\* went stale or its case was reconciled again, no assessment, strategy or policy call
\* makes it current again.  Such a case is never acted upon; it can only be closed.
LapsedAuthorityIsFinal ==
  [][state = "POLICY_VALIDATED" /\ ~HasCurrentProposal =>
       /\ ~HasCurrentProposal'
       /\ state' \in {"POLICY_VALIDATED"} \cup TERMINAL_CASE_STATES]_vars

\* The case as the book of decisions sees it.
Phase ==
  CASE state \in {"DETECTED", "RECONCILING", "DIAGNOSED"} -> "undecided"
    [] state = "DECISIONED"                               -> "decided"
    [] state = "POLICY_VALIDATED"                         -> "validated"
    [] state \in {"ACTIONED", "WAITING_FOR_OUTCOME"}      -> "waiting"
    [] state \in TERMINAL_CASE_STATES                     -> "closed"

BookEntry(p) == [reading |-> ReconciledAt(p), action |-> p.action]

Book == INSTANCE DecisionBook WITH
  Actions  <- RecoveryAction,
  Counted  <- {"CREATE_RECOVERY_LINK"},
  phase    <- Phase,
  reading  <- facts.last_reconciled_at,
  decided  <- {ReconciledAt(p) : p \in proposals},
  inForce  <- {BookEntry(p) : p \in InForce}

\* Assessment, generation, policy and execution keep one book of decisions: each reading
\* of the case is decided upon once at most, whichever callers race, and only a decision
\* about the newest reading is validated or acted upon, and acted upon once
\* (_persist_locked, _validate_current_proposal).
KeepsTheBook == Book!Spec

AwaitsRule ==
  /\ state = "DIAGNOSED"
  /\ ContextHolds
  /\ compatible_actions(assessment.diagnosis.recovery_disposition) = {"ESCALATE_TO_HUMAN"}

\* A case that can only be escalated is decided without the model provider, even when
\* every request fails and callers die, as long as its assessment holds.
RulesNeedNoModel == AwaitsRule ~> ~AwaitsRule
=============================================================================
