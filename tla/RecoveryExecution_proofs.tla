---------------------- MODULE RecoveryExecution_proofs ----------------------
(***************************************************************************)
(* What the governed executor guarantees for any set of policies, any      *)
(* configuration, any number of callers and claims, any lease and either   *)
(* kind of provider.                                                       *)
(***************************************************************************)
EXTENDS RecoveryExecution, PolicyRules_proofs, FiniteSetTheorems, TLAPS

-----------------------------------------------------------------------------
(* What the client tells of a request.                                     *)

\* A link that was created is never reported as refused, and one that was not created is
\* never returned.
LEMMA CreateTells ==
  /\ CreateOutcomes[TRUE] \subseteq {"found", "INDETERMINATE"}
  /\ CreateOutcomes[FALSE] \subseteq {"INDETERMINATE", "FAILED"}
<1>1. ASSUME NEW r \in Responses, Plausible(TRUE, r)
      PROVE  create_result(r) \in {"OK", "OUTCOME_UNCERTAIN"}
  BY <1>1 DEF Responses, Plausible, create_result, request, raise_for_status
<1>2. ASSUME NEW r \in Responses, Plausible(FALSE, r)
      PROVE  create_result(r) # "OK"
  BY <1>2 DEF Responses, Plausible, create_result, request, raise_for_status
<1> QED BY <1>1, <1>2 DEF CreateOutcomes, CreateAnswers

\* A cancellation is confirmed only if the link was cancelled.
LEMMA CancelTells ==
  /\ CancelOutcomes[TRUE] \subseteq {"compensated", "uncompensated"}
  /\ CancelOutcomes[FALSE] \subseteq {"uncompensated"}
<1>1. ASSUME NEW r \in Responses, Plausible(FALSE, r)
      PROVE  cancel_result(r) # "OK"
  BY <1>1 DEF Responses, Plausible, cancel_result, request, raise_for_status
<1> QED BY <1>1 DEF CancelOutcomes, CancelAnswers

\* The ways an attempt to create ends.
LEMMA CreateCases ==
  ASSUME NEW w \in Workers, create(w)
  PROVE  /\ worker[w].pc = "absent"
         /\ \/ /\ links' = [links EXCEPT ![worker[w].key] = Append(@, "created")]
               /\ Found(w, Len(links[worker[w].key]) + 1) \/ Problem(w, "INDETERMINATE")
            \/ /\ UNCHANGED links
               /\ Problem(w, "INDETERMINATE") \/ Problem(w, "FAILED")
         /\ UNCHANGED <<authVars, record, succeeded>>
BY CreateTells DEF create

\* The ways an attempt to cancel ends.
LEMMA CancelCases ==
  ASSUME NEW w \in Workers, cancel(w)
  PROVE  /\ worker[w].pc = "compensating"
         /\ \/ /\ links[worker[w].key][worker[w].link] = "created"
               /\ links' = [links EXCEPT ![worker[w].key][worker[w].link] = "cancelled"]
               /\ Reached(w, "compensated") \/ Reached(w, "uncompensated")
            \/ UNCHANGED links /\ Reached(w, "uncompensated")
         /\ UNCHANGED <<authVars, record, succeeded>>
BY CancelTells DEF cancel

-----------------------------------------------------------------------------
(* The policy evaluation always has a result.                              *)

\* The evaluation of the case's own request has a result and a reason.
LEMMA CurrentEvaluation ==
  /\ Evaluation.result \in PolicyDecisionResult
  /\ Evaluation.reason \in PolicyReason
BY EvaluationType DEF Evaluation

\* The decision in force at present is one of the decisions that can exist.
LEMMA CurrentKeyType ==
  ASSUME AuthTypeOK
  PROVE  CurrentKey \in Keys
BY DEF AuthTypeOK, CurrentKey, Keys

\* A decision that comes into force is a decision, and moves the case to a state.
LEMMA NextDecisionType ==
  ASSUME AuthTypeOK
  PROVE  /\ NextDecision \in DecisionRow
         /\ NextDecision.result \in PolicyDecisionResult
         /\ ~NextDecision.superseded
         /\ PolicyTarget(NextDecision) \in {"POLICY_VALIDATED", "EXHAUSTED", "ESCALATED"}
         /\ PolicyTarget(NextDecision) = "POLICY_VALIDATED" => NextDecision.result # "BLOCKED"
<1>1. decisions[CurrentKey] \in DecisionRow
  BY CurrentKeyType DEF AuthTypeOK
<1>2. /\ NextDecision \in DecisionRow
      /\ NextDecision.result \in PolicyDecisionResult
      /\ ~NextDecision.superseded
  BY <1>1, CurrentEvaluation DEF NextDecision, DecisionRow
<1>3. PolicyTarget(NextDecision) \in {"POLICY_VALIDATED", "EXHAUSTED", "ESCALATED"}
  BY DEF PolicyTarget
<1>4. PolicyTarget(NextDecision) = "POLICY_VALIDATED" => NextDecision.result # "BLOCKED"
  BY DEF PolicyTarget
<1> QED BY <1>2, <1>3, <1>4

-----------------------------------------------------------------------------
(* Types.                                                                  *)

\* Moving the case to a state of the lifecycle keeps the type of its row.
LEMMA MoveCaseType ==
  ASSUME AuthTypeOK, NEW s \in CaseState, MoveCase(s)
  PROVE  /\ pcase' \in PaymentCase
         /\ pcase'.state = s
         /\ pcase'.attempts = pcase.attempts
         /\ pcase'.contacts = pcase.contacts
BY DEF AuthTypeOK, MoveCase, PaymentCase

\* Policy, approval and their environment keep the types.
LEMMA AuthTypeStep ==
  ASSUME AuthTypeOK, AuthNext
  PROVE  AuthTypeOK'
<1> USE DEF AuthTypeOK
<1>0. {"POLICY_VALIDATED", "EXHAUSTED", "ESCALATED", "RECOVERED"} \subseteq CaseState
  BY DEF CaseState, TERMINAL_CASE_STATES
<1>1. CASE evaluate_policy
  <2>1. pcase' \in PaymentCase
    BY <1>0, <1>1, NextDecisionType, MoveCaseType DEF evaluate_policy
  <2>2. \A k \in Keys : SupersededRow(decisions[k]) \in DecisionRow
    BY DEF SupersededRow, DecisionRow
  <2>3. decisions' \in [Keys -> DecisionRow]
    BY <1>1, <2>2, NextDecisionType DEF evaluate_policy
  <2> QED BY <1>1, <2>1, <2>3 DEF evaluate_policy
<1>2. ASSUME NEW k \in Keys, ensure_approval_request(k)
      PROVE  AuthTypeOK'
  BY <1>2 DEF ensure_approval_request, ApprovalStatus
<1>3. ASSUME NEW k \in Keys, NEW d \in {"APPROVED", "REJECTED"}, decide_approval(k, d)
      PROVE  AuthTypeOK'
  <2>1. (IF d = "REJECTED" THEN "ESCALATED" ELSE pcase.state) \in CaseState
    BY <1>0 DEF PaymentCase
  <2>2. pcase' \in PaymentCase
    BY <1>3, <2>1, MoveCaseType DEF decide_approval
  <2>3. approval' \in [Keys -> ApprovalStatus \cup {"none"}]
    BY <1>3 DEF decide_approval, ApprovalStatus
  <2> QED BY <1>3, <2>2, <2>3 DEF decide_approval
<1>4. CASE PolicyEdited
  BY <1>4 DEF PolicyEdited
<1>5. ASSUME NEW p \in Policies, RecoveryWindowPasses(p)
      PROVE  AuthTypeOK'
  BY <1>5 DEF RecoveryWindowPasses
<1>6. CASE ReconciliationGoesStale
  BY <1>6 DEF ReconciliationGoesStale
<1>7. ASSUME NEW s \in {"captured", "refunded", "failed"}, reconciled(s)
      PROVE  AuthTypeOK'
  <2> DEFINE target == CASE s = "captured" -> "RECOVERED"
                         [] s = "refunded" -> "EXHAUSTED"
                         [] OTHER          -> pcase.state
  <2>0. pcase.state \in CaseState
    BY DEF PaymentCase
  <2>1. target \in CaseState
    BY <1>0, <2>0, Zenon
  <2>2. MoveCase(target)
    BY <1>7 DEF reconciled
  <2>3. pcase' \in PaymentCase
    BY <2>1, <2>2, MoveCaseType
  <2> QED BY <1>7, <2>3 DEF reconciled
<1> QED BY <1>1, <1>2, <1>3, <1>4, <1>5, <1>6, <1>7 DEF AuthNext

\* Overwriting an element of a sequence leaves a sequence of the same length.
LEMMA ExceptIsSeq ==
  ASSUME NEW S, NEW s \in Seq(S), NEW n, NEW v \in S
  PROVE  /\ [s EXCEPT ![n] = v] \in Seq(S)
         /\ Len([s EXCEPT ![n] = v]) = Len(s)
<1>1. /\ Len(s) \in Nat /\ DOMAIN s = 1..Len(s)
      /\ \A i \in 1..Len(s) : s[i] \in S
  OBVIOUS
<1> DEFINE t == [s EXCEPT ![n] = v]
<1>2. t \in [1..Len(s) -> S]
  BY <1>1
<1> QED BY <1>1, <1>2

\* A step of caller w leaves the other callers alone.
OnlyCaller(w) ==
  /\ worker' \in [Workers -> Caller]
  /\ \A v \in Workers \ {w} : worker'[v] = worker[v]

\* A caller that only advances keeps its claim and its link.
LEMMA ReachedStep ==
  ASSUME TypeOK, NEW w \in Workers,
         NEW pc \in {"absent", "compensating", "compensated", "uncompensated"}, Reached(w, pc)
  PROVE  /\ OnlyCaller(w)
         /\ worker'[w].pc = pc
         /\ worker'[w].key = worker[w].key
         /\ worker'[w].link = worker[w].link
BY DEF TypeOK, Reached, Caller, OnlyCaller

\* A caller that got hold of a link keeps its claim.
LEMMA FoundStep ==
  ASSUME TypeOK, NEW w \in Workers, NEW n \in Nat, Found(w, n)
  PROVE  /\ OnlyCaller(w)
         /\ worker'[w].pc = "found"
         /\ worker'[w].key = worker[w].key
         /\ worker'[w].link = n
BY DEF TypeOK, Found, Caller, OnlyCaller

\* A caller whose provider call failed keeps its claim and the status to record.
LEMMA ProblemStep ==
  ASSUME TypeOK, NEW w \in Workers, NEW s \in {"INDETERMINATE", "FAILED"}, Problem(w, s)
  PROVE  /\ OnlyCaller(w)
         /\ worker'[w].pc = "problem"
         /\ worker'[w].key = worker[w].key
         /\ worker'[w].problem = s
BY DEF TypeOK, Problem, Caller, OnlyCaller

\* A caller that returns holds nothing.
LEMMA ReturnStep ==
  ASSUME TypeOK, NEW w \in Workers, Return(w)
  PROVE  /\ OnlyCaller(w)
         /\ worker'[w] = Idle
         /\ worker'[w].pc = "idle"
BY DEF TypeOK, Return, Caller, OnlyCaller, Idle

\* The typing of the callers is kept when the one that moves keeps its claim or
\* gives it up.
CallersTyped ==
  /\ worker \in [Workers -> Caller]
  /\ \A w \in Workers : worker[w].pc # "idle" => worker[w].key \in Keys
  /\ \A w \in Workers : worker[w].pc = "problem" => worker[w].problem # "none"

\* CallersTyped is kept when only w moves and w stays well typed.
LEMMA CallersKeepTypes ==
  ASSUME TypeOK, NEW w \in Workers, OnlyCaller(w),
         worker'[w].pc # "idle" => worker'[w].key \in Keys,
         worker'[w].pc = "problem" => worker'[w].problem # "none"
  PROVE  CallersTyped'
BY DEF TypeOK, OnlyCaller, CallersTyped

\* The rows the finishing transactions write are action rows.
LEMMA RowTypes ==
  ASSUME TypeOK, NEW k \in Keys, NEW s \in RecoveryExecutionStatus, NEW n \in Nat
  PROVE  /\ WithStatus(record[k], s) \in ActionRecord
         /\ WithLink(record[k], s, n) \in ActionRecord
BY ExecutionAssumption DEF TypeOK, WithStatus, WithLink, ActionRecord

\* Types are kept where authorization does not move.
LEMMA AuthUnchanged ==
  ASSUME AuthTypeOK, UNCHANGED authVars
  PROVE  AuthTypeOK'
BY DEF AuthTypeOK, authVars

\* Types are kept by every step of the executor.
LEMMA TypeStep ==
  ASSUME TypeOK, [Next]_vars
  PROVE  TypeOK'
<1> USE ExecutionAssumption
<1>0. /\ AuthTypeOK /\ CallersTyped
      /\ record \in [Keys -> ActionRecord]
      /\ links \in [Keys -> Seq(LinkStatus)]
      /\ succeeded \subseteq Keys
  BY DEF TypeOK, CallersTyped
<1>q. SUFFICES /\ AuthTypeOK' /\ CallersTyped'
               /\ record' \in [Keys -> ActionRecord]
               /\ links' \in [Keys -> Seq(LinkStatus)]
               /\ succeeded' \subseteq Keys
  BY DEF TypeOK, CallersTyped
<1>1. CASE AuthNext /\ UNCHANGED execVars
  BY <1>0, <1>1, AuthTypeStep DEF execVars, CallersTyped
<1>2. ASSUME NEW w \in Workers, NEW k \in Keys, prepare_and_claim(w, k)
      PROVE  TypeOK'
  <2>1. OnlyCaller(w) /\ worker'[w].key = k /\ worker'[w].pc = "claimed"
    BY <1>0, <1>2 DEF prepare_and_claim, CallersTyped, Caller, OnlyCaller
  <2>2. CallersTyped'
    BY <2>1, CallersKeepTypes
  <2>3. record' \in [Keys -> ActionRecord]
    BY <1>0, <1>2 DEF prepare_and_claim, ActionRecord, RecoveryExecutionStatus
  <2> QED BY <1>0, <1>2, <2>2, <2>3, AuthUnchanged DEF prepare_and_claim, TypeOK, CallersTyped
<1>3. ASSUME NEW w \in Workers, WorkerStep(w) \/ crash(w)
      PROVE  TypeOK'
  <2> DEFINE k == worker[w].key
  <2>0. worker[w].pc # "idle"
    BY <1>3 DEF WorkerStep, crash, lookup_by_reference, create, cancel,
       finalize_provider_problem, finalize_external_success, finalize_compensation,
       execute_internal
  <2>k. k \in Keys /\ links[k] \in Seq(LinkStatus) /\ Len(links[k]) \in Nat
        /\ worker[w].link \in Nat
    BY <1>0, <2>0 DEF CallersTyped, Caller
  <2>r. ASSUME Return(w) PROVE CallersTyped'
    BY <2>r, ReturnStep, CallersKeepTypes
  <2>p. ASSUME NEW s \in {"INDETERMINATE", "FAILED"}, Problem(w, s) PROVE CallersTyped'
    BY <2>k, <2>p, ProblemStep, CallersKeepTypes
  <2>f. ASSUME NEW n \in Nat, Found(w, n) PROVE CallersTyped'
    BY <2>k, <2>f, FoundStep, CallersKeepTypes
  <2>c. ASSUME NEW pc \in {"absent", "compensating", "compensated", "uncompensated"},
               Reached(w, pc)
        PROVE  CallersTyped'
    BY <2>k, <2>c, ReachedStep, CallersKeepTypes
  <2>1. CASE lookup_by_reference(w)
    <3>1. CallersTyped'
      BY <2>1, <2>p, <2>f, <2>c DEF lookup_by_reference
    <3> QED BY <1>0, <2>1, <3>1, AuthUnchanged DEF lookup_by_reference, TypeOK, CallersTyped
  <2>2. CASE create(w)
    <3>1. CallersTyped'
      BY <2>2, <2>k, <2>p, <2>f, CreateCases
    <3>2. Append(links[k], "created") \in Seq(LinkStatus)
      BY <2>k DEF LinkStatus
    <3>3. links' \in [Keys -> Seq(LinkStatus)]
      BY <1>0, <2>2, <3>2, CreateCases
    <3> QED BY <1>0, <2>2, <3>1, <3>3, AuthUnchanged DEF create, TypeOK, CallersTyped
  <2>3. CASE cancel(w)
    <3>1. CallersTyped'
      BY <2>3, <2>c, CancelCases
    <3>2. [links[k] EXCEPT ![worker[w].link] = "cancelled"] \in Seq(LinkStatus)
      BY <2>k, ExceptIsSeq DEF LinkStatus
    <3>3. links' \in [Keys -> Seq(LinkStatus)]
      BY <1>0, <2>3, <3>2, CancelCases
    <3> QED BY <1>0, <2>3, <3>1, <3>3, AuthUnchanged DEF cancel, TypeOK, CallersTyped
  <2>4. CASE finalize_provider_problem(w)
    <3>1. worker[w].problem \in RecoveryExecutionStatus
      BY <1>0, <2>4 DEF finalize_provider_problem, CallersTyped, Caller,
         RecoveryExecutionStatus, FINAL_EXECUTION_STATUSES
    <3>2. record' \in [Keys -> ActionRecord]
      BY <1>0, <2>4, <2>k, <3>1, RowTypes DEF finalize_provider_problem
    <3>3. CallersTyped'
      BY <2>4, <2>r DEF finalize_provider_problem
    <3> QED BY <1>0, <2>4, <3>2, <3>3, AuthUnchanged
            DEF finalize_provider_problem, TypeOK, CallersTyped
  <2>5. CASE finalize_external_success(w)
    <3>1. {"SUCCEEDED", "COMPENSATION_REQUIRED"} \subseteq RecoveryExecutionStatus
      BY DEF RecoveryExecutionStatus, FINAL_EXECUTION_STATUSES
    <3>2. record' \in [Keys -> ActionRecord]
      BY <1>0, <2>5, <2>k, <3>1, RowTypes DEF finalize_external_success
    <3>3. CallersTyped'
      BY <2>5, <2>r, <2>c DEF finalize_external_success
    <3>4. pcase' \in PaymentCase
      BY <1>0, <2>5 DEF finalize_external_success, AuthTypeOK, PaymentCase, CaseState
    <3>5. AuthTypeOK'
      BY <1>0, <2>5, <3>4 DEF finalize_external_success, AuthTypeOK
    <3>6. succeeded' \subseteq Keys
      BY <1>0, <2>5, <2>k DEF finalize_external_success
    <3> QED BY <1>0, <2>5, <3>2, <3>3, <3>5, <3>6
            DEF finalize_external_success, TypeOK, CallersTyped
  <2>6. CASE finalize_compensation(w)
    <3>1. {"CANCELLED", "COMPENSATION_REQUIRED"} \subseteq RecoveryExecutionStatus
      BY DEF RecoveryExecutionStatus, FINAL_EXECUTION_STATUSES
    <3>2. record' \in [Keys -> ActionRecord]
      BY <1>0, <2>6, <2>k, <3>1, RowTypes DEF finalize_compensation
    <3>3. CallersTyped'
      BY <2>6, <2>r DEF finalize_compensation
    <3> QED BY <1>0, <2>6, <3>2, <3>3, AuthUnchanged
            DEF finalize_compensation, TypeOK, CallersTyped
  <2>7. CASE execute_internal(w)
    <3>1. {"CANCELLED", "SUCCEEDED", "FAILED"} \subseteq RecoveryExecutionStatus
      BY DEF RecoveryExecutionStatus, FINAL_EXECUTION_STATUSES
    <3>2. InternalTarget \in CaseState
      BY DEF InternalTarget, CaseState, TERMINAL_CASE_STATES
    <3>s. ASSUME NEW s \in RecoveryExecutionStatus,
                 record' = [record EXCEPT ![k] = WithStatus(@, s)]
          PROVE  record' \in [Keys -> ActionRecord]
      BY <1>0, <2>k, <3>s, RowTypes
    <3>r. ASSUME RunInternal(k)
          PROVE  record' \in [Keys -> ActionRecord] /\ pcase' \in PaymentCase
      BY <1>0, <3>1, <3>2, <3>s, <3>r, MoveCaseType DEF RunInternal
    <3>3. ASSUME CancelStale(k)
          PROVE  record' \in [Keys -> ActionRecord] /\ pcase' = pcase
      BY <3>1, <3>s, <3>3 DEF CancelStale
    <3>4. record' \in [Keys -> ActionRecord] /\ pcase' \in PaymentCase
      BY <1>0, <2>7, <3>3, <3>r DEF execute_internal, AuthTypeOK
    <3>5. CallersTyped'
      BY <2>7, <2>r DEF execute_internal, InternalFrame
    <3> QED BY <1>0, <2>7, <3>4, <3>5
            DEF execute_internal, InternalFrame, AuthTypeOK, TypeOK, CallersTyped
  <2>8. CASE crash(w)
    <3>1. CallersTyped'
      BY <2>8, <2>r DEF crash
    <3> QED BY <1>0, <2>8, <3>1, AuthUnchanged DEF crash, TypeOK, CallersTyped
  <2> QED BY <1>3, <2>1, <2>2, <2>3, <2>4, <2>5, <2>6, <2>7, <2>8 DEF WorkerStep
<1>4. CASE Tick
  <2>0. \A k \in Keys : Leased(k) => record[k].age + 1 \in 0..Lease
    BY <1>0 DEF Leased, ActionRecord
  <2>1. \A k \in Keys : Leased(k) => [record[k] EXCEPT !.age = @ + 1] \in ActionRecord
    BY <1>0, <2>0 DEF ActionRecord
  <2>2. record' \in [Keys -> ActionRecord]
    BY <1>0, <1>4, <2>1 DEF Tick
  <2> QED BY <1>0, <1>4, <2>2, AuthUnchanged DEF Tick, CallersTyped
<1>5. ASSUME NEW k \in Keys, LinkCloses(k)
      PROVE  TypeOK'
  <2>1. \A n \in DOMAIN links[k] : [links[k] EXCEPT ![n] = "closed"] \in Seq(LinkStatus)
    BY <1>0, ExceptIsSeq DEF LinkStatus
  <2>2. links' \in [Keys -> Seq(LinkStatus)]
    BY <1>0, <1>5, <2>1 DEF LinkCloses
  <2> QED BY <1>0, <1>5, <2>2, AuthUnchanged DEF LinkCloses, TypeOK, CallersTyped
<1>6. CASE UNCHANGED vars
  BY <1>0, <1>6, AuthUnchanged DEF vars, execVars, authVars, CallersTyped
<1>7. TypeOK' => /\ AuthTypeOK' /\ CallersTyped'
                 /\ record' \in [Keys -> ActionRecord]
                 /\ links' \in [Keys -> Seq(LinkStatus)]
                 /\ succeeded' \subseteq Keys
  BY DEF TypeOK, CallersTyped
<1> QED BY <1>1, <1>2, <1>3, <1>4, <1>5, <1>6, <1>7 DEF Next

\* The state of the executor, its authority and its provider stays well typed
\* (RecoveryExecution.TypeOK), whatever the order of claims, answers and crashes.
THEOREM TypeCorrect == Spec => []TypeOK
<1>1. Init => TypeOK
  BY ExecutionAssumption
     DEF Init, AuthInit, TypeOK, AuthTypeOK, ActionRecord, NoRecord, Caller, Idle,
         PaymentCase, CaseState, DecisionRow, NoDecision
<1> QED BY <1>1, TypeStep, PTL DEF Spec

-----------------------------------------------------------------------------
(* How the case moves.                                                     *)

\* The steps that can change the case at all, each with what it changes.
CaseMoves ==
  \/ pcase' = pcase
  \/ /\ pcase.state \in {"DECISIONED", "POLICY_VALIDATED"}
     /\ pcase'.state \in {"POLICY_VALIDATED"} \cup TERMINAL_CASE_STATES
     /\ pcase'.attempts = pcase.attempts /\ pcase'.contacts = pcase.contacts
     /\ pcase'.state = "POLICY_VALIDATED" /\ pcase.state # "POLICY_VALIDATED" => evaluate_policy
  \/ /\ pcase.state \in CaseState \ TERMINAL_CASE_STATES
     /\ pcase'.state \in {pcase.state} \cup TERMINAL_CASE_STATES
     /\ pcase'.attempts = pcase.attempts /\ pcase'.contacts = pcase.contacts
  \/ /\ pcase.state = "POLICY_VALIDATED"
     /\ pcase'.state \in {"WAITING_FOR_OUTCOME"} \cup TERMINAL_CASE_STATES
     /\ pcase'.attempts = pcase.attempts /\ pcase'.contacts = pcase.contacts
  \/ /\ pcase.state = "POLICY_VALIDATED"
     /\ pcase'.state = "WAITING_FOR_OUTCOME"
     /\ pcase'.attempts = pcase.attempts + 1 /\ pcase'.contacts = pcase.contacts + 1
     /\ \E k \in Keys : succeeded' = succeeded \cup {k}

\* Policy, approval and reconciliation move the case as CaseMoves says.
LEMMA AuthCaseMoves ==
  ASSUME AuthTypeOK, AuthNext
  PROVE  CaseMoves
<1>0. /\ pcase \in PaymentCase /\ pcase.state \in CaseState
      /\ {"EXHAUSTED", "ESCALATED", "RECOVERED"} \subseteq TERMINAL_CASE_STATES
      /\ {"POLICY_VALIDATED"} \cup TERMINAL_CASE_STATES \subseteq CaseState
  BY DEF AuthTypeOK, PaymentCase, CaseState, TERMINAL_CASE_STATES
<1>1. CASE evaluate_policy
  <2>1. PolicyTarget(NextDecision) \in {"POLICY_VALIDATED"} \cup TERMINAL_CASE_STATES
    BY <1>0, NextDecisionType
  <2>2. /\ pcase'.state = PolicyTarget(NextDecision)
        /\ pcase'.attempts = pcase.attempts /\ pcase'.contacts = pcase.contacts
    BY <1>0, <1>1, <2>1, MoveCaseType DEF evaluate_policy
  <2> QED BY <1>1, <2>1, <2>2 DEF evaluate_policy, CaseMoves
<1>2. ASSUME NEW k \in Keys, NEW d \in {"APPROVED", "REJECTED"}, decide_approval(k, d)
      PROVE  CaseMoves
  <2> DEFINE target == IF d = "REJECTED" THEN "ESCALATED" ELSE pcase.state
  <2>1. target \in CaseState /\ target \in {pcase.state} \cup TERMINAL_CASE_STATES
    BY <1>0
  <2>2. MoveCase(target) /\ pcase.state = "POLICY_VALIDATED"
    BY <1>2 DEF decide_approval, AwaitsApproval
  <2>3. /\ pcase'.state = target
        /\ pcase'.attempts = pcase.attempts /\ pcase'.contacts = pcase.contacts
    BY <2>1, <2>2, MoveCaseType
  <2> QED BY <1>0, <2>1, <2>2, <2>3 DEF CaseMoves
<1>3. ASSUME NEW s \in {"captured", "refunded", "failed"}, reconciled(s)
      PROVE  CaseMoves
  <2> DEFINE target == CASE s = "captured" -> "RECOVERED"
                         [] s = "refunded" -> "EXHAUSTED"
                         [] OTHER          -> pcase.state
  <2>1. target \in {pcase.state} \cup TERMINAL_CASE_STATES
    BY <1>0, Zenon
  <2>2. MoveCase(target) /\ pcase.state \notin TERMINAL_CASE_STATES /\ target \in CaseState
    BY <1>0, <1>3, <2>1 DEF reconciled
  <2>3. /\ pcase'.state = target
        /\ pcase'.attempts = pcase.attempts /\ pcase'.contacts = pcase.contacts
    BY <2>2, MoveCaseType
  <2> QED BY <1>0, <2>1, <2>2, <2>3 DEF CaseMoves
<1>4. pcase' = pcase \/ evaluate_policy
      \/ (\E k \in Keys, d \in {"APPROVED", "REJECTED"} : decide_approval(k, d))
      \/ (\E s \in {"captured", "refunded", "failed"} : reconciled(s))
  BY DEF AuthNext, ensure_approval_request, PolicyEdited, RecoveryWindowPasses,
     ReconciliationGoesStale
<1> QED BY <1>1, <1>2, <1>3, <1>4 DEF CaseMoves

\* They validate or close the case, count nothing and never make it wait.
LEMMA AuthTargets ==
  ASSUME AuthTypeOK, AuthNext
  PROVE  /\ pcase'.state \in {pcase.state, "POLICY_VALIDATED"} \cup TERMINAL_CASE_STATES
         /\ pcase'.attempts = pcase.attempts
<1>0. pcase \in PaymentCase
  BY DEF AuthTypeOK
<1>1. ASSUME evaluate_policy
      PROVE  /\ pcase'.state \in {"POLICY_VALIDATED", "EXHAUSTED", "ESCALATED"}
             /\ pcase'.attempts = pcase.attempts
  <2>1. /\ PolicyTarget(NextDecision) \in {"POLICY_VALIDATED", "EXHAUSTED", "ESCALATED"}
        /\ PolicyTarget(NextDecision) \in CaseState
    BY NextDecisionType DEF CaseState, TERMINAL_CASE_STATES
  <2> QED BY <1>1, <2>1, MoveCaseType DEF evaluate_policy
<1>2. ASSUME NEW s \in {"captured", "refunded", "failed"}, reconciled(s)
      PROVE  \E t \in {pcase.state} \cup TERMINAL_CASE_STATES : pcase' = [pcase EXCEPT !.state = t]
  BY <1>2 DEF reconciled, MoveCase, TERMINAL_CASE_STATES
<1>3. ASSUME NEW k \in Keys, NEW d \in {"APPROVED", "REJECTED"}, decide_approval(k, d)
      PROVE  \E t \in {pcase.state} \cup TERMINAL_CASE_STATES : pcase' = [pcase EXCEPT !.state = t]
  BY <1>3 DEF decide_approval, MoveCase, TERMINAL_CASE_STATES
<1>4. ASSUME NEW t \in {pcase.state} \cup TERMINAL_CASE_STATES, pcase' = [pcase EXCEPT !.state = t]
      PROVE  pcase'.state = t /\ pcase'.attempts = pcase.attempts
  BY <1>0, <1>4 DEF PaymentCase
<1>5. \/ evaluate_policy \/ UNCHANGED pcase
      \/ \E s \in {"captured", "refunded", "failed"} : reconciled(s)
      \/ \E k \in Keys, d \in {"APPROVED", "REJECTED"} : decide_approval(k, d)
  BY DEF AuthNext, ensure_approval_request, PolicyEdited, RecoveryWindowPasses,
     ReconciliationGoesStale
<1> QED BY <1>1, <1>2, <1>3, <1>4, <1>5 DEF TERMINAL_CASE_STATES

\* So does every step of the executor; counting a success is the only one to touch the
\* counters.
LEMMA ExecutionCaseMoves ==
  ASSUME TypeOK, [Next]_vars
  PROVE  CaseMoves /\ (AuthNext \/ UNCHANGED <<decisions, approval, valid>>)
<1>0. AuthTypeOK /\ {"EXHAUSTED", "ESCALATED", "RECOVERED"} \subseteq TERMINAL_CASE_STATES
  BY DEF TypeOK, TERMINAL_CASE_STATES
<1>1. CASE AuthNext /\ UNCHANGED execVars
  BY <1>0, <1>1, AuthCaseMoves
<1>2. ASSUME NEW w \in Workers, finalize_external_success(w)
      PROVE  CaseMoves /\ UNCHANGED <<decisions, approval, valid>>
  <2>1. worker[w].key \in Keys
    BY <1>2 DEF finalize_external_success, TypeOK
  <2> QED BY <1>2, <2>1
          DEF finalize_external_success, post_request_context_is_current, CaseMoves
<1>3. ASSUME NEW w \in Workers, execute_internal(w)
      PROVE  CaseMoves /\ UNCHANGED <<decisions, approval, valid>>
  <2> DEFINE k == worker[w].key
  <2>1. pcase' = pcase \/ (RunInternal(k) /\ post_request_context_is_current(k))
    BY <1>3 DEF execute_internal, CancelStale
  <2>2. /\ InternalTarget \in {"WAITING_FOR_OUTCOME"} \cup TERMINAL_CASE_STATES
        /\ InternalTarget \in CaseState
    BY DEF InternalTarget, TERMINAL_CASE_STATES, CaseState
  <2>3. ASSUME RunInternal(k) 
        PROVE  /\ pcase'.state = InternalTarget
               /\ pcase'.attempts = pcase.attempts /\ pcase'.contacts = pcase.contacts
    BY <1>0, <2>2, <2>3, MoveCaseType DEF RunInternal
  <2>4. post_request_context_is_current(k) => pcase.state = "POLICY_VALIDATED"
    BY DEF post_request_context_is_current
  <2>5. CaseMoves
    BY <2>1, <2>2, <2>3, <2>4 DEF CaseMoves
  <2> QED BY <1>3, <2>5 DEF execute_internal, InternalFrame
<1>4. ASSUME NEW w \in Workers, WorkerStep(w) \/ crash(w)
      PROVE  CaseMoves /\ UNCHANGED <<decisions, approval, valid>>
  BY <1>2, <1>3, <1>4 DEF WorkerStep, crash, lookup_by_reference, create, cancel,
     finalize_provider_problem, finalize_compensation, authVars, CaseMoves
<1>5. ASSUME UNCHANGED authVars
      PROVE  CaseMoves /\ UNCHANGED <<decisions, approval, valid>>
  BY <1>5 DEF authVars, CaseMoves
<1> QED BY <1>1, <1>4, <1>5 DEF Next, prepare_and_claim, Tick, LinkCloses, vars

-----------------------------------------------------------------------------
(* One decision in force.                                                  *)

\* Superseding a decision changes nothing but its being current.
LEMMA SupersededFields ==
  ASSUME NEW row
  PROVE  /\ SupersededRow(row).superseded = (row.result # "NONE")
         /\ SupersededRow(row).result = row.result
BY Zenon DEF SupersededRow

\* No step leaves two decisions in force: a new one supersedes the others.
LEMMA DecisionStep ==
  ASSUME TypeOK, OneDecisionInForce, [Next]_vars
  PROVE  OneDecisionInForce'
<1> USE DEF OneDecisionInForce
<1>0. AuthTypeOK
  BY DEF TypeOK
<1>1. CASE evaluate_policy
  <2>1. /\ decisions'[CurrentKey] = NextDecision
        /\ \A k \in Keys \ {CurrentKey} : decisions'[k] = SupersededRow(decisions[k])
    BY <1>1, <1>0, CurrentKeyType DEF evaluate_policy
  <2>2. \A k \in Keys \ {CurrentKey} : ~IsCurrent(k)'
    <3> SUFFICES ASSUME NEW k \in Keys \ {CurrentKey}
                 PROVE  ~IsCurrent(k)'
      OBVIOUS
    <3>1. decisions'[k] = SupersededRow(decisions[k])
      BY <2>1
    <3>2. /\ decisions'[k].superseded = (decisions[k].result # "NONE")
          /\ decisions'[k].result = decisions[k].result
      BY <3>1, SupersededFields
    <3> QED BY <3>2, Zenon DEF IsCurrent
  <2>3. \A k \in Keys : IsCurrent(k)' => k = CurrentKey
    BY <2>2
  <2>4. pcase'.state = PolicyTarget(NextDecision)
    <3>1. PolicyTarget(NextDecision) \in CaseState
      BY <1>0, NextDecisionType DEF CaseState, TERMINAL_CASE_STATES
    <3> QED BY <1>0, <1>1, <3>1, MoveCaseType DEF evaluate_policy
  <2>5. pcase'.state = "POLICY_VALIDATED" =>
          \E k \in Keys : IsCurrent(k)' /\ decisions'[k].result # "BLOCKED"
    BY <1>0, <2>1, <2>4, NextDecisionType, CurrentKeyType DEF IsCurrent, PolicyDecisionResult
  <2> QED BY <2>3, <2>5
<1>2. CASE ~evaluate_policy
  <2>1. UNCHANGED decisions
    BY <1>2, ExecutionCaseMoves
       DEF AuthNext, ensure_approval_request, decide_approval, PolicyEdited,
           RecoveryWindowPasses, ReconciliationGoesStale, reconciled
  <2>2. pcase'.state = "POLICY_VALIDATED" => pcase.state = "POLICY_VALIDATED"
    BY <1>2, ExecutionCaseMoves DEF CaseMoves, TERMINAL_CASE_STATES
  <2> QED BY <2>1, <2>2 DEF IsCurrent
<1> QED BY <1>1, <1>2

\* At most one policy decision is in force, and a POLICY_VALIDATED case has one that
\* does not block (OneDecisionInForce), for any sequence of policy edits, evaluations
\* and reactivations.
THEOREM OneDecisionHolds == Spec => []OneDecisionInForce
<1>1. Init => OneDecisionInForce
  BY DEF Init, AuthInit, OneDecisionInForce, IsCurrent, NoDecision
<1> QED BY <1>1, DecisionStep, TypeCorrect, PTL DEF Spec

-----------------------------------------------------------------------------
(* Counters.                                                               *)

\* The counters move with the first recorded success and never again.
LEMMA CountStep ==
  ASSUME TypeOK, CountedExactlyOnce, [Next]_vars
  PROVE  CountedExactlyOnce'
<1>0. CountedExactlyOnce /\ CaseMoves
  BY ExecutionCaseMoves
<1>1. CASE UNCHANGED succeeded
  <2>1. /\ pcase'.attempts = pcase.attempts /\ pcase'.contacts = pcase.contacts
        /\ pcase.state \in {"WAITING_FOR_OUTCOME"} \cup TERMINAL_CASE_STATES =>
             pcase'.state \in {"WAITING_FOR_OUTCOME"} \cup TERMINAL_CASE_STATES
    BY <1>0, <1>1 DEF CaseMoves, CountedExactlyOnce, TERMINAL_CASE_STATES
  <2> QED BY <1>0, <1>1, <2>1 DEF CountedExactlyOnce
<1>2. ASSUME NEW w \in Workers, finalize_external_success(w), succeeded' # succeeded
      PROVE  CountedExactlyOnce'
  <2> DEFINE k == worker[w].key
  <2>1. /\ pcase.state = "POLICY_VALIDATED"
        /\ succeeded' = succeeded \cup {k}
        /\ pcase'.state = "WAITING_FOR_OUTCOME"
        /\ pcase'.attempts = pcase.attempts + 1 /\ pcase'.contacts = pcase.contacts + 1
    <3>1. post_request_context_is_current(k)
      BY <1>2, Zenon DEF finalize_external_success
    <3>2. /\ succeeded' = succeeded \cup {k}
          /\ pcase' = [state |-> "WAITING_FOR_OUTCOME", amount |-> pcase.amount,
                       attempts |-> pcase.attempts + 1, contacts |-> pcase.contacts + 1]
      BY <1>2, <3>1, Zenon DEF finalize_external_success
    <3> QED BY <3>1, <3>2 DEF post_request_context_is_current
  <2>2. succeeded = {}
    BY <1>0, <2>1 DEF CountedExactlyOnce, TERMINAL_CASE_STATES
  <2>3. Cardinality(succeeded) = 0 /\ succeeded' = {k} /\ Cardinality({k}) = 1
    BY <2>1, <2>2, FS_EmptySet, FS_Singleton
  <2>4. pcase.attempts = 0 /\ pcase.contacts = 0
    BY <1>0, <2>3 DEF CountedExactlyOnce
  <2> QED BY <2>1, <2>3, <2>4 DEF CountedExactlyOnce
<1>3. UNCHANGED succeeded \/ \E w \in Workers : finalize_external_success(w)
  BY DEF Next, execVars, prepare_and_claim, WorkerStep, crash, lookup_by_reference, create,
     cancel, finalize_provider_problem, finalize_compensation, execute_internal,
     InternalFrame, Tick, LinkCloses, vars
<1> QED BY <1>1, <1>2, <1>3

\* "Attempt and contact counters increment exactly once" (CountedExactlyOnce): for any
\* number of callers, claims and decisions.
THEOREM CountedExactlyOnceHolds == Spec => []CountedExactlyOnce
<1>1. Init => CountedExactlyOnce
  BY FS_EmptySet DEF Init, AuthInit, CountedExactlyOnce
<1> QED BY <1>1, CountStep, TypeCorrect, PTL DEF Spec

-----------------------------------------------------------------------------
(* Authority.  The invariant is strengthened with the callers: whoever is  *)
(* between two steps holds a claim whose decision permits the action.      *)

Permitted(k) ==
  \/ decisions[k].result = "AUTHORIZED"
  \/ decisions[k].result = "REQUIRES_APPROVAL" /\ approval[k] = "APPROVED"

Intended(k) == record[k].status # "NONE" /\ Permitted(k)

ClaimsArePermitted == \A w \in Workers : worker[w].pc # "idle" => Intended(worker[w].key)

\* A stored decision keeps its result for ever, and an approval is never withdrawn.
LEMMA PermittedStable ==
  ASSUME TypeOK, [Next]_vars, NEW k \in Keys, Permitted(k)
  PROVE  Permitted(k)'
<1>0. AuthTypeOK
  BY DEF TypeOK
<1>1. CASE evaluate_policy
  <2>1. decisions[k].result # "NONE"
    BY DEF Permitted
  <2>2. decisions'[k] = IF k = CurrentKey THEN NextDecision ELSE SupersededRow(decisions[k])
    BY <1>1 DEF evaluate_policy
  <2>3. k = CurrentKey => NextDecision.result = decisions[k].result
    BY <2>1 DEF NextDecision
  <2>4. decisions'[k].result = decisions[k].result
    BY <2>2, <2>3, SupersededFields
  <2> QED BY <1>1, <2>4 DEF Permitted, evaluate_policy
<1>2. ASSUME NEW j \in Keys, ensure_approval_request(j)
      PROVE  Permitted(k)'
  BY <1>0, <1>2 DEF ensure_approval_request, Permitted, AuthTypeOK
<1>3. ASSUME NEW j \in Keys, NEW d \in {"APPROVED", "REJECTED"}, decide_approval(j, d)
      PROVE  Permitted(k)'
  BY <1>0, <1>3 DEF decide_approval, Permitted, AuthTypeOK
<1>4. CASE UNCHANGED <<decisions, approval>>
  BY <1>4 DEF Permitted
<1>5. \/ evaluate_policy \/ UNCHANGED <<decisions, approval>>
      \/ \E j \in Keys : ensure_approval_request(j)
      \/ \E j \in Keys, d \in {"APPROVED", "REJECTED"} : decide_approval(j, d)
  BY ExecutionCaseMoves DEF AuthNext, PolicyEdited, RecoveryWindowPasses,
     ReconciliationGoesStale, reconciled
<1> QED BY <1>1, <1>2, <1>3, <1>4, <1>5

\* An action row is never deleted.
LEMMA RecordStable ==
  ASSUME TypeOK, [Next]_vars, NEW k \in Keys, record[k].status # "NONE"
  PROVE  record'[k].status # "NONE"
<1>0. record \in [Keys -> ActionRecord] /\ AuthTypeOK
  BY DEF TypeOK
<1>1. ASSUME NEW w \in Workers, NEW j \in Keys, prepare_and_claim(w, j)
      PROVE  record'[k].status # "NONE"
  BY <1>0, <1>1 DEF prepare_and_claim
<1>2. ASSUME NEW w \in Workers, WorkerStep(w) \/ crash(w)
      PROVE  record'[k].status # "NONE"
  <2> DEFINE j == worker[w].key
  <2>1. CASE UNCHANGED record
    BY <2>1
  <2>2. CASE finalize_provider_problem(w)
    BY <1>0, <2>2 DEF finalize_provider_problem, WithStatus, TypeOK, Caller
  <2>3. CASE finalize_external_success(w)
    BY <1>0, <2>3 DEF finalize_external_success, WithLink
  <2>4. CASE finalize_compensation(w)
    BY <1>0, <2>4 DEF finalize_compensation, WithLink
  <2>5. CASE execute_internal(w)
    BY <1>0, <2>5 DEF execute_internal, RunInternal, CancelStale, WithStatus
  <2> QED BY <1>2, <2>1, <2>2, <2>3, <2>4, <2>5
          DEF WorkerStep, crash, lookup_by_reference, create, cancel
<1>3. CASE Tick
  <2>1. record'[k].status = record[k].status
    BY <1>0, <1>3 DEF Tick, ActionRecord
  <2> QED BY <2>1
<1>4. CASE UNCHANGED record
  BY <1>4
<1> QED BY <1>1, <1>2, <1>3, <1>4 DEF Next, execVars, LinkCloses, vars

\* The strengthened invariant of authority is inductive.
LEMMA PermissionStep ==
  ASSUME TypeOK, ClaimsArePermitted, LinksArePermitted, [Next]_vars
  PROVE  ClaimsArePermitted' /\ LinksArePermitted'
<1>0. /\ TypeOK'
      /\ \A w \in Workers : worker[w].pc # "idle" => worker[w].key \in Keys
      /\ worker \in [Workers -> Caller]
      /\ links \in [Keys -> Seq(LinkStatus)]
  BY TypeStep DEF TypeOK
<1>1. \A k \in Keys : Intended(k) => Intended(k)'
  BY PermittedStable, RecordStable DEF Intended
<1>2. \A k \in Keys : links[k] # <<>> => Intended(k)
  BY DEF LinksArePermitted, Intended, Permitted
<1>3. ASSUME NEW w \in Workers, NEW k \in Keys, prepare_and_claim(w, k)
      PROVE  ClaimsArePermitted' /\ UNCHANGED links
  <2>1. Permitted(k)
    BY <1>3 DEF prepare_and_claim, is_execution_permitted, Permitted
  <2>2. record'[k].status # "NONE"
    BY <1>3 DEF prepare_and_claim, TypeOK
  <2>3. Intended(k)'
    BY <2>1, <2>2, PermittedStable DEF Intended
  <2>4. worker'[w].key = k /\ \A v \in Workers \ {w} : worker'[v] = worker[v]
    BY <1>0, <1>3 DEF prepare_and_claim
  <2> QED BY <1>0, <1>1, <1>3, <2>3, <2>4 DEF ClaimsArePermitted, prepare_and_claim
<1>4. ASSUME \A v \in Workers : worker'[v].pc # "idle" =>
               worker[v].pc # "idle" /\ worker'[v].key = worker[v].key
      PROVE  ClaimsArePermitted'
  BY <1>0, <1>1, <1>4 DEF ClaimsArePermitted
<1>5. ASSUME NEW w \in Workers, WorkerStep(w) \/ crash(w)
      PROVE  \A v \in Workers : worker'[v].pc # "idle" =>
               worker[v].pc # "idle" /\ worker'[v].key = worker[v].key
  <2>0. worker[w].pc # "idle" /\ Len(links[worker[w].key]) + 1 \in Nat
        /\ worker[w].problem \in {"none", "INDETERMINATE", "FAILED"}
    <3>1. worker[w].pc # "idle"
      BY <1>5 DEF WorkerStep, crash, lookup_by_reference, create, cancel,
         finalize_provider_problem, finalize_external_success, finalize_compensation,
         execute_internal
    <3> QED BY <3>1, <1>0 DEF Caller
  <2>1. \/ Return(w)
        \/ \E pc \in {"absent", "compensating", "compensated", "uncompensated"} : Reached(w, pc)
        \/ \E n \in Nat : Found(w, n)
        \/ \E s \in {"INDETERMINATE", "FAILED"} : Problem(w, s)
    BY <1>5, <2>0, CreateCases, CancelCases
       DEF WorkerStep, crash, lookup_by_reference,
       finalize_provider_problem, finalize_external_success, finalize_compensation,
       execute_internal, InternalFrame
  <2>2. OnlyCaller(w) /\ (worker'[w].pc = "idle" \/ worker'[w].key = worker[w].key)
    BY <2>1, ReturnStep, ReachedStep, FoundStep, ProblemStep
  <2> QED BY <2>0, <2>2 DEF OnlyCaller
<1>6. ClaimsArePermitted'
  <2>1. CASE UNCHANGED worker
    BY <1>4, <2>1
  <2> QED BY <1>3, <1>4, <1>5, <2>1 DEF Next, execVars, Tick, LinkCloses, vars
<1>7. \A k \in Keys : links'[k] # <<>> => Intended(k)'
  <2>1. CASE UNCHANGED links
    BY <1>1, <1>2, <2>1
  <2>2. ASSUME NEW j \in Keys, Intended(j), \A k \in Keys \ {j} : links'[k] = links[k]
        PROVE  \A k \in Keys : links'[k] # <<>> => Intended(k)'
    BY <1>1, <1>2, <2>2
  <2>3. ASSUME NEW w \in Workers, create(w) \/ cancel(w)
        PROVE  \A k \in Keys : links'[k] # <<>> => Intended(k)'
    <3>1. PICK j \in Keys : j = worker[w].key
      BY <1>0, <2>3, CreateCases, CancelCases
    <3>2. Intended(j)
      BY <2>3, <3>1, CreateCases, CancelCases DEF ClaimsArePermitted
    <3>3. \A k \in Keys \ {j} : links'[k] = links[k]
      BY <1>0, <2>3, <3>1, CreateCases, CancelCases
    <3> QED BY <2>2, <3>2, <3>3
  <2>4. ASSUME NEW j \in Keys, LinkCloses(j)
        PROVE  \A k \in Keys : links'[k] # <<>> => Intended(k)'
    <3>1. links[j] # <<>>
      BY <1>0, <2>4 DEF LinkCloses
    <3>2. \A k \in Keys \ {j} : links'[k] = links[k]
      BY <1>0, <2>4 DEF LinkCloses
    <3> QED BY <1>2, <2>2, <3>1, <3>2
  <2> QED BY <2>1, <2>3, <2>4
          DEF Next, execVars, prepare_and_claim, WorkerStep, crash, lookup_by_reference,
              finalize_provider_problem, finalize_external_success, finalize_compensation,
              execute_internal, InternalFrame, Tick, vars
<1> QED BY <1>6, <1>7 DEF LinksArePermitted, Intended, Permitted

\* Every link at the provider was created for a committed intent whose decision was
\* authorized or approved (LinksArePermitted), however late its creation ran.
THEOREM LinksArePermittedHolds == Spec => []LinksArePermitted
<1>1. Init => ClaimsArePermitted /\ LinksArePermitted
  BY DEF Init, ClaimsArePermitted, LinksArePermitted, Idle
<1> QED BY <1>1, PermissionStep, TypeCorrect, PTL DEF Spec

-----------------------------------------------------------------------------
(* The case follows the lifecycle.                                         *)

\* The lifecycle specification has the transition relation of the case row.
LEMMA SameRelation ==
  /\ Lifecycle!CaseState = CaseState
  /\ \A p, q : Lifecycle!can_transition(p, q) = can_transition(p, q)
<1>1. Lifecycle!CaseState = CaseState
  BY DEF CaseState, Lifecycle!CaseState, TERMINAL_CASE_STATES, Lifecycle!TERMINAL_CASE_STATES
<1>2. ASSUME NEW p
      PROVE  Lifecycle!AllowedTransitions(p) = AllowedTransitions(p)
  BY <1>1 DEF AllowedTransitions, Lifecycle!AllowedTransitions, ForwardTransitions,
              Lifecycle!ForwardTransitions, TERMINAL_CASE_STATES, Lifecycle!TERMINAL_CASE_STATES
<1> QED BY <1>1, <1>2 DEF can_transition, Lifecycle!can_transition

\* Whatever moves the case takes at most two transitions.
LEMMA MovesAlongPath ==
  ASSUME AuthTypeOK, CaseMoves
  PROVE  pcase'.state = pcase.state \/ Lifecycle!Path(pcase.state, pcase'.state)
<1>0. pcase.state \in CaseState /\ {"ACTIONED", "POLICY_VALIDATED"} \subseteq CaseState
      /\ TERMINAL_CASE_STATES \subseteq CaseState
  BY DEF AuthTypeOK, PaymentCase, CaseState, TERMINAL_CASE_STATES
<1>1. \A p \in CaseState, m \in CaseState, q \in CaseState :
        can_transition(p, m) /\ can_transition(m, q) => Lifecycle!Path(p, q)
  BY SameRelation DEF Lifecycle!Path
<1>2. ASSUME pcase.state \in CaseState \ TERMINAL_CASE_STATES,
             pcase'.state \in TERMINAL_CASE_STATES
      PROVE  Lifecycle!Path(pcase.state, pcase'.state)
  <2>1. can_transition(pcase.state, pcase'.state) /\ can_transition(pcase'.state, pcase'.state)
    BY <1>0, <1>2 DEF can_transition, AllowedTransitions
  <2> QED BY <1>0, <1>1, <1>2, <2>1
<1>3. ASSUME pcase.state = "POLICY_VALIDATED", pcase'.state = "WAITING_FOR_OUTCOME"
      PROVE  Lifecycle!Path(pcase.state, pcase'.state)
  <2>1. can_transition("POLICY_VALIDATED", "ACTIONED")
        /\ can_transition("ACTIONED", "WAITING_FOR_OUTCOME")
    BY DEF can_transition, AllowedTransitions, ForwardTransitions, CaseState
  <2>2. "WAITING_FOR_OUTCOME" \in CaseState
    BY DEF CaseState
  <2> QED BY <1>0, <1>1, <1>3, <2>1, <2>2
<1>4. ASSUME pcase.state \in {"DECISIONED", "POLICY_VALIDATED"},
             pcase'.state = "POLICY_VALIDATED"
      PROVE  Lifecycle!Path(pcase.state, pcase'.state)
  <2>1. can_transition(pcase.state, "POLICY_VALIDATED")
        /\ can_transition("POLICY_VALIDATED", "POLICY_VALIDATED")
    BY <1>4 DEF can_transition, AllowedTransitions, ForwardTransitions, CaseState
  <2> QED BY <1>0, <1>1, <1>4, <2>1
<1>5. pcase.state \in {"DECISIONED", "POLICY_VALIDATED"} =>
        pcase.state \in CaseState \ TERMINAL_CASE_STATES
  BY <1>0 DEF TERMINAL_CASE_STATES
<1> QED BY <1>2, <1>3, <1>4, <1>5 DEF CaseMoves

\* Every step of the executor is a step of the lifecycle or leaves it alone.
LEMMA LifecycleStep ==
  ASSUME TypeOK, TypeOK', [Next]_vars
  PROVE  [Lifecycle!Next]_(pcase.state)
<1>0. AuthTypeOK /\ pcase.state \in CaseState /\ pcase'.state \in CaseState
  BY DEF TypeOK, AuthTypeOK, PaymentCase
<1>1. pcase'.state = pcase.state \/ Lifecycle!Path(pcase.state, pcase'.state)
  BY <1>0, ExecutionCaseMoves, MovesAlongPath
<1>2. ASSUME Lifecycle!Path(pcase.state, pcase'.state)
      PROVE  Lifecycle!Next
  <2>1. [c \in {"case"} |-> pcase'.state] = [[c \in {"case"} |-> pcase.state]
                                              EXCEPT !["case"] = pcase'.state]
    OBVIOUS
  <2>2. Lifecycle!Advance("case")
    BY <1>0, <1>2, <2>1, SameRelation DEF Lifecycle!Advance
  <2> QED BY <2>2 DEF Lifecycle!Next
<1> QED BY <1>1, <1>2

\* Policy, approval, reconciliation and execution move the case along the lifecycle
\* only (CaseFollowsLifecycle): no late caller reopens a closed case.
THEOREM CaseFollowsLifecycleHolds == Spec => CaseFollowsLifecycle
BY LifecycleStep, TypeStep, TypeCorrect, PTL DEF Spec, CaseFollowsLifecycle

-----------------------------------------------------------------------------
(* Compensation.  The invariant is strengthened with what callers and rows *)
(* know of the provider: the links they name exist, and those they take    *)
(* for compensated are closed.                                             *)

Exists(k, n) == n \in DOMAIN links[k]

Closed(k, n) == Exists(k, n) /\ links[k][n] # "created"

Holding == {"found", "compensating", "compensated", "uncompensated"}

CallersKnow ==
  \A w \in Workers :
    /\ worker[w].pc \in {"absent"} \cup Holding => action = "CREATE_RECOVERY_LINK"
    /\ worker[w].pc \in Holding => Exists(worker[w].key, worker[w].link)
    /\ worker[w].pc = "compensated" => Closed(worker[w].key, worker[w].link)

RowsKnow ==
  \A k \in Keys :
    record[k].link # 0 =>
      /\ action = "CREATE_RECOVERY_LINK"
      /\ record[k].status = "CANCELLED" => Closed(k, record[k].link)

\* Nothing changes the proposal's action.
LEMMA ActionFixed ==
  ASSUME [Next]_vars
  PROVE  action' = action
BY DEF Next, vars, authVars, AuthNext, evaluate_policy, ensure_approval_request,
   decide_approval, PolicyEdited, RecoveryWindowPasses, ReconciliationGoesStale, reconciled,
   prepare_and_claim, WorkerStep, crash, lookup_by_reference, create, cancel,
   finalize_provider_problem, finalize_external_success, finalize_compensation,
   execute_internal, InternalFrame, Tick, LinkCloses

\* The provider forgets no link and reopens none.
LEMMA LinksStable ==
  ASSUME TypeOK, [Next]_vars, NEW k \in Keys, NEW n \in Nat
  PROVE  /\ Exists(k, n) => Exists(k, n)'
         /\ Closed(k, n) => Closed(k, n)'
<1>0. /\ links \in [Keys -> Seq(LinkStatus)] /\ links[k] \in Seq(LinkStatus)
      /\ \A w \in Workers : worker[w].pc # "idle" => worker[w].key \in Keys
  BY DEF TypeOK
<1>1. CASE links'[k] = links[k]
  BY <1>1 DEF Exists, Closed
<1>2. CASE links'[k] = Append(links[k], "created")
  BY <1>0, <1>2 DEF Exists, Closed
<1>3. ASSUME NEW m \in Nat, NEW s \in {"closed", "cancelled"},
             links'[k] = [links[k] EXCEPT ![m] = s]
      PROVE  /\ Exists(k, n) => Exists(k, n)'
             /\ Closed(k, n) => Closed(k, n)'
  BY <1>0, <1>3 DEF Exists, Closed
<1>4. ASSUME NEW w \in Workers, create(w)
      PROVE  links'[k] = links[k] \/ links'[k] = Append(links[k], "created")
  BY <1>0, <1>4, CreateCases
<1>5. ASSUME NEW w \in Workers, cancel(w)
      PROVE  links'[k] = links[k] \/ links'[k] = [links[k] EXCEPT ![worker[w].link] = "cancelled"]
  <2>1. worker[w].key \in Keys
    BY <1>0, <1>5, CancelCases
  <2>2. CASE UNCHANGED links
    BY <2>2
  <2>3. CASE links' = [links EXCEPT ![worker[w].key][worker[w].link] = "cancelled"]
    BY <1>0, <2>1, <2>3
  <2> QED BY <1>5, <2>2, <2>3, CancelCases
<1>6. ASSUME NEW w \in Workers
      PROVE  worker[w].link \in Nat
  BY DEF TypeOK, Caller
<1>7. ASSUME NEW j \in Keys, LinkCloses(j)
      PROVE  links'[k] = links[k]
             \/ \E m \in Nat : links'[k] = [links[k] EXCEPT ![m] = "closed"]
  <2>1. PICK m \in DOMAIN links[j] : links' = [links EXCEPT ![j][m] = "closed"]
    BY <1>7 DEF LinkCloses
  <2>2. m \in Nat
    BY <1>0
  <2> QED BY <1>0, <2>1, <2>2
<1>8. \/ UNCHANGED links
      \/ \E w \in Workers : create(w) \/ cancel(w)
      \/ \E j \in Keys : LinkCloses(j)
  BY DEF Next, execVars, prepare_and_claim, WorkerStep, crash, lookup_by_reference,
     finalize_provider_problem, finalize_external_success, finalize_compensation,
     execute_internal, InternalFrame, Tick, vars
<1> QED BY <1>1, <1>2, <1>3, <1>4, <1>5, <1>6, <1>7, <1>8

\* What a caller knows of its link stays true, whoever moves.
LEMMA CallersKnowStep ==
  ASSUME TypeOK, CallersKnow, [Next]_vars
  PROVE  CallersKnow'
<1> DEFINE Knows(w) ==
      /\ worker[w].pc \in {"absent"} \cup Holding => action = "CREATE_RECOVERY_LINK"
      /\ worker[w].pc \in Holding => Exists(worker[w].key, worker[w].link)
      /\ worker[w].pc = "compensated" => Closed(worker[w].key, worker[w].link)
<1>0. /\ worker \in [Workers -> Caller] /\ action' = action
      /\ links \in [Keys -> Seq(LinkStatus)]
      /\ \A w \in Workers : worker[w].pc # "idle" => worker[w].key \in Keys
      /\ \A w \in Workers : worker[w].link \in Nat
  BY ActionFixed DEF TypeOK, Caller
<1>1. \A w \in Workers : worker'[w] = worker[w] => Knows(w)'
  <2> SUFFICES ASSUME NEW w \in Workers, worker'[w] = worker[w], worker[w].pc \in {"absent"} \cup Holding
               PROVE  Knows(w)'
    BY DEF Holding
  <2>1. PICK k \in Keys, n \in Nat : k = worker[w].key /\ n = worker[w].link
    BY <1>0 DEF Holding
  <2>2. /\ worker[w].pc \in Holding => Exists(k, n)'
        /\ worker[w].pc = "compensated" => Closed(k, n)'
    BY <2>1, LinksStable DEF CallersKnow
  <2> QED BY <1>0, <2>1, <2>2 DEF CallersKnow
<1>2. ASSUME NEW w \in Workers, NEW k \in Keys, prepare_and_claim(w, k)
      PROVE  CallersKnow'
  <2>1. worker'[w].pc = "claimed" /\ \A v \in Workers \ {w} : worker'[v] = worker[v]
    BY <1>0, <1>2 DEF prepare_and_claim
  <2> QED BY <1>1, <2>1 DEF CallersKnow, Holding
<1>3. ASSUME NEW w \in Workers, WorkerStep(w) \/ crash(w)
      PROVE  CallersKnow'
  <2>0. worker[w].pc # "idle"
    BY <1>3 DEF WorkerStep, crash, lookup_by_reference, create, cancel,
       finalize_provider_problem, finalize_external_success, finalize_compensation,
       execute_internal
  <2>k. PICK k \in Keys : k = worker[w].key
    BY <1>0, <2>0
  <2>n. Len(links[k]) \in Nat /\ links[k] \in Seq(LinkStatus)
    BY <1>0
  <2>o. ASSUME OnlyCaller(w), Knows(w)' PROVE CallersKnow'
    BY <1>1, <2>o DEF CallersKnow, OnlyCaller
  <2>r. ASSUME Return(w) PROVE CallersKnow'
    BY <2>o, <2>r, ReturnStep DEF Holding
  <2>p. ASSUME NEW s \in {"INDETERMINATE", "FAILED"}, Problem(w, s) PROVE CallersKnow'
    BY <2>o, <2>p, ProblemStep DEF Holding
  <2>f. ASSUME NEW n \in Nat, Found(w, n), action = "CREATE_RECOVERY_LINK", Exists(k, n)'
        PROVE  CallersKnow'
    BY <1>0, <2>k, <2>o, <2>f, FoundStep DEF Holding
  <2>1. CASE lookup_by_reference(w)
    <3>1. CASE Reached(w, "absent")
      BY <1>0, <2>1, <2>o, <3>1, ReachedStep DEF lookup_by_reference, Holding
    <3>2. CASE Len(links[k]) = 1 /\ Found(w, 1)
      BY <2>1, <2>f, <2>n, <3>2 DEF lookup_by_reference, Exists
    <3> QED BY <2>1, <2>p, <2>k, <3>1, <3>2 DEF lookup_by_reference
  <2>2. CASE create(w)
    <3>1. action = "CREATE_RECOVERY_LINK"
      BY <2>2, CreateCases DEF CallersKnow
    <3>2. CASE links' = [links EXCEPT ![k] = Append(@, "created")] /\ Found(w, Len(links[k]) + 1)
      <4>1. PICK n \in Nat : n = Len(links[k]) + 1
        BY <2>n
      <4>2. links'[k] = Append(links[k], "created") /\ Found(w, n)
        BY <1>0, <3>2, <4>1
      <4>3. Exists(k, n)'
        BY <2>n, <4>1, <4>2 DEF Exists
      <4> QED BY <2>f, <3>1, <4>2, <4>3
    <3> QED BY <2>2, <2>p, <2>k, <3>2, CreateCases
  <2>3. CASE cancel(w)
    <3>1. PICK n \in Nat : n = worker[w].link
      BY <1>0
    <3>2. action = "CREATE_RECOVERY_LINK" /\ Exists(k, n)
      BY <2>3, <2>k, <3>1, CancelCases DEF CallersKnow, Holding
    <3>3. Exists(k, n)'
      BY <3>2, LinksStable
    <3>4. CASE Reached(w, "uncompensated")
      BY <1>0, <2>k, <2>o, <3>1, <3>2, <3>3, <3>4, ReachedStep DEF Holding
    <3>5. CASE links' = [links EXCEPT ![k][n] = "cancelled"] /\ Reached(w, "compensated")
      <4>1. links'[k] = [links[k] EXCEPT ![n] = "cancelled"]
        BY <1>0, <3>5
      <4>2. links'[k][n] # "created"
        BY <3>2, <4>1 DEF Exists
      <4>3. Closed(k, n)'
        BY <3>3, <4>2 DEF Closed
      <4> QED BY <1>0, <2>k, <2>o, <3>1, <3>2, <3>3, <3>5, <4>3, ReachedStep DEF Holding
    <3> QED BY <2>3, <2>k, <3>1, <3>4, <3>5, CancelCases
  <2>4. CASE finalize_external_success(w)
    <3>1. PICK n \in Nat : n = worker[w].link
      BY <1>0
    <3>2. action = "CREATE_RECOVERY_LINK" /\ Exists(k, n)
      BY <2>4, <2>k, <3>1 DEF finalize_external_success, CallersKnow, Holding
    <3>3. CASE Reached(w, "compensating")
      BY <1>0, <2>k, <2>o, <3>1, <3>2, <3>3, LinksStable, ReachedStep DEF Holding
    <3> QED BY <2>4, <2>r, <3>3 DEF finalize_external_success
  <2> QED BY <1>3, <2>1, <2>2, <2>3, <2>4, <2>r
          DEF WorkerStep, crash, finalize_provider_problem, finalize_compensation,
              execute_internal, InternalFrame
<1>4. CASE UNCHANGED worker
  BY <1>1, <1>4 DEF CallersKnow
<1> QED BY <1>2, <1>3, <1>4 DEF Next, execVars, Tick, LinkCloses, vars

\* What an action row says of its link stays true, even when a late caller
\* overwrites the row.
LEMMA RowsKnowStep ==
  ASSUME TypeOK, CallersKnow, RowsKnow, [Next]_vars
  PROVE  RowsKnow'
<1> DEFINE Knows(k) ==
      record[k].link # 0 =>
        /\ action = "CREATE_RECOVERY_LINK"
        /\ record[k].status = "CANCELLED" => Closed(k, record[k].link)
<1>0. /\ record \in [Keys -> ActionRecord] /\ action' = action
      /\ \A k \in Keys : record[k].link \in Nat
      /\ worker \in [Workers -> Caller]
      /\ \A w \in Workers : worker[w].pc # "idle" => worker[w].key \in Keys
  BY ActionFixed DEF TypeOK, ActionRecord
<1>1. ASSUME NEW k \in Keys, record'[k].link = record[k].link,
             record'[k].status \in {record[k].status} \cup (RecoveryExecutionStatus \ {"CANCELLED"})
      PROVE  Knows(k)'
  <2>1. PICK n \in Nat : n = record[k].link
    BY <1>0
  <2>2. record[k].status = "CANCELLED" /\ n # 0 => Closed(k, n)'
    BY <2>1, LinksStable DEF RowsKnow
  <2> QED BY <1>0, <1>1, <2>1, <2>2 DEF RowsKnow
<1>2. \A k \in Keys : record'[k] = record[k] => Knows(k)'
  BY <1>1
<1>3. ASSUME NEW w \in Workers, NEW k \in Keys, prepare_and_claim(w, k)
      PROVE  RowsKnow'
  <2>1. /\ record'[k].link = record[k].link /\ record'[k].status = "IN_PROGRESS"
        /\ \A j \in Keys \ {k} : record'[j] = record[j]
    BY <1>0, <1>3 DEF prepare_and_claim
  <2>2. Knows(k)'
    BY <1>1, <2>1 DEF RecoveryExecutionStatus
  <2> QED BY <1>2, <2>1, <2>2 DEF RowsKnow
<1>4. ASSUME NEW w \in Workers, WorkerStep(w) \/ crash(w)
      PROVE  RowsKnow'
  <2>0. worker[w].pc # "idle"
    BY <1>4 DEF WorkerStep, crash, lookup_by_reference, create, cancel,
       finalize_provider_problem, finalize_external_success, finalize_compensation,
       execute_internal
  <2>k. PICK k \in Keys : k = worker[w].key
    BY <1>0, <2>0
  <2>n. PICK n \in Nat : n = worker[w].link
    BY <1>0 DEF Caller
  <2>o. ASSUME \A j \in Keys \ {k} : record'[j] = record[j], Knows(k)' PROVE RowsKnow'
    BY <1>2, <2>o DEF RowsKnow
  <2>1. CASE UNCHANGED record
    BY <1>2, <2>1 DEF RowsKnow
  <2>s. ASSUME NEW s \in RecoveryExecutionStatus, record' = [record EXCEPT ![k] = WithStatus(@, s)],
               s # "CANCELLED" \/ record[k].link = 0
        PROVE  RowsKnow'
    <3>1. /\ record'[k].link = record[k].link /\ record'[k].status = s
          /\ \A j \in Keys \ {k} : record'[j] = record[j]
      BY <1>0, <2>s DEF WithStatus
    <3>2. Knows(k)'
      BY <1>1, <2>s, <3>1
    <3> QED BY <2>o, <3>1, <3>2
  <2>l. ASSUME NEW s, record' = [record EXCEPT ![k] = WithLink(@, s, n)],
               action = "CREATE_RECOVERY_LINK", s = "CANCELLED" => Closed(k, n)
        PROVE  RowsKnow'
    <3>1. /\ record'[k].link = n /\ record'[k].status = s
          /\ \A j \in Keys \ {k} : record'[j] = record[j]
      BY <1>0, <2>l DEF WithLink
    <3>2. s = "CANCELLED" => Closed(k, n)'
      BY <2>l, LinksStable
    <3>3. Knows(k)'
      BY <1>0, <2>l, <3>1, <3>2
    <3> QED BY <2>o, <3>1, <3>3
  <2>2. CASE finalize_provider_problem(w)
    <3>1. worker[w].problem \in RecoveryExecutionStatus /\ worker[w].problem # "CANCELLED"
      BY <1>0, <2>2 DEF finalize_provider_problem, TypeOK, Caller, RecoveryExecutionStatus,
         FINAL_EXECUTION_STATUSES
    <3> QED BY <2>1, <2>2, <2>k, <2>s, <3>1 DEF finalize_provider_problem
  <2>3. CASE finalize_external_success(w)
    <3>1. action = "CREATE_RECOVERY_LINK"
      BY <2>3 DEF finalize_external_success, CallersKnow, Holding
    <3>2. \E s \in {"SUCCEEDED", "COMPENSATION_REQUIRED"} :
            record' = [record EXCEPT ![k] = WithLink(@, s, n)]
      BY <2>3, <2>k, <2>n DEF finalize_external_success
    <3> QED BY <2>l, <3>1, <3>2
  <2>4. CASE finalize_compensation(w)
    <3>1. /\ action = "CREATE_RECOVERY_LINK"
          /\ worker[w].pc = "compensated" => Closed(k, n)
      BY <2>4, <2>k, <2>n DEF finalize_compensation, CallersKnow, Holding
    <3>2. CASE worker[w].pc = "compensated"
      BY <2>4, <2>k, <2>n, <2>l, <3>1, <3>2 DEF finalize_compensation
    <3>3. CASE worker[w].pc = "uncompensated"
      <4>1. record' = [record EXCEPT ![k] = WithLink(@, "COMPENSATION_REQUIRED", n)]
        BY <2>4, <2>k, <2>n, <3>3 DEF finalize_compensation
      <4> QED BY <2>l, <3>1, <4>1
    <3> QED BY <2>4, <3>2, <3>3 DEF finalize_compensation
  <2>5. CASE execute_internal(w)
    <3>1. record[k].link = 0
      BY <2>5 DEF execute_internal, RowsKnow
    <3>2. {"CANCELLED", "FAILED", "SUCCEEDED"} \subseteq RecoveryExecutionStatus
      BY DEF RecoveryExecutionStatus, FINAL_EXECUTION_STATUSES
    <3> QED BY <2>1, <2>5, <2>k, <2>s, <3>1, <3>2 DEF execute_internal, RunInternal, CancelStale
  <2> QED BY <1>4, <2>1, <2>2, <2>3, <2>4, <2>5
          DEF WorkerStep, crash, lookup_by_reference, create, cancel
<1>5. CASE Tick
  <2>1. \A k \in Keys : record'[k].status = record[k].status /\ record'[k].link = record[k].link
    BY <1>0, <1>5 DEF Tick, ActionRecord
  <2> QED BY <1>1, <2>1 DEF RowsKnow
<1>6. CASE UNCHANGED record
  BY <1>2, <1>6 DEF RowsKnow
<1> QED BY <1>3, <1>4, <1>5, <1>6 DEF Next, execVars, LinkCloses, vars

\* A record that reads CANCELLED after a provider call names a link that can no
\* longer be paid (CancelledMeansClosed), whichever caller wrote it last.
THEOREM CancelledMeansClosedHolds == Spec => []CancelledMeansClosed
<1>1. Init => CallersKnow /\ RowsKnow
  BY DEF Init, CallersKnow, RowsKnow, Idle, NoRecord, Holding
<1>2. RowsKnow => CancelledMeansClosed
  BY DEF RowsKnow, CancelledMeansClosed, Closed
<1> QED BY <1>1, <1>2, CallersKnowStep, RowsKnowStep, TypeCorrect, PTL DEF Spec

-----------------------------------------------------------------------------
(* Internal actions.                                                       *)

Ran == {k \in Keys : record[k].status \in {"SUCCEEDED", "FAILED"}}

\* What holds of a proposal that needs no link: callers only claim and run, nothing
\* reaches the provider, and the action that has run has moved the case out of the
\* states in which another one could run.
InternalRuns ==
  action # "CREATE_RECOVERY_LINK" =>
    /\ pcase.attempts = 0
    /\ \A k \in Keys : links[k] = <<>>
    /\ \A w \in Workers : worker[w].pc \in {"idle", "claimed"}
    /\ \A j, k \in Ran : j = k
    /\ Ran # {} => pcase.state \in {"WAITING_FOR_OUTCOME"} \cup TERMINAL_CASE_STATES
    /\ pcase.state = "WAITING_FOR_OUTCOME" =>
         action = "WAIT" /\ \E k \in Keys : record[k].status = "SUCCEEDED"

\* Where a step neither runs an action nor changes what has run, the case only moves
\* away from where an action could run.
LEMMA NothingRuns ==
  ASSUME TypeOK, InternalRuns, [Next]_vars, action # "CREATE_RECOVERY_LINK",
         pcase'.state = "WAITING_FOR_OUTCOME" => pcase.state = "WAITING_FOR_OUTCOME",
         pcase'.attempts = pcase.attempts,
         UNCHANGED links,
         \A w \in Workers : worker'[w].pc \in {"idle", "claimed"},
         \A k \in Keys : \/ record'[k].status = record[k].status
                         \/ /\ record[k].status \notin {"SUCCEEDED", "FAILED"}
                            /\ record'[k].status \notin {"SUCCEEDED", "FAILED"}
  PROVE  InternalRuns'
<1>0. action' = action /\ CaseMoves
  BY ActionFixed, ExecutionCaseMoves
<1>1. /\ Ran' = Ran
      /\ \A k \in Keys : record[k].status = "SUCCEEDED" => record'[k].status = "SUCCEEDED"
  BY DEF Ran
<1>2. pcase.state \in {"WAITING_FOR_OUTCOME"} \cup TERMINAL_CASE_STATES =>
        pcase'.state \in {"WAITING_FOR_OUTCOME"} \cup TERMINAL_CASE_STATES
  BY <1>0 DEF CaseMoves, TERMINAL_CASE_STATES
<1> QED BY <1>0, <1>1, <1>2 DEF InternalRuns

\* An internal action is run by one caller, from the one state in which no other has.
LEMMA InternalStep ==
  ASSUME TypeOK, InternalRuns, [Next]_vars
  PROVE  InternalRuns'
<1> SUFFICES ASSUME action # "CREATE_RECOVERY_LINK"
             PROVE  InternalRuns'
  BY ActionFixed DEF InternalRuns
<1>0. /\ \A w \in Workers : worker[w].pc \in {"idle", "claimed"}
      /\ worker \in [Workers -> Caller]
      /\ record \in [Keys -> ActionRecord]
      /\ \A k \in Keys : links[k] = <<>>
      /\ CaseMoves /\ action' = action /\ AuthTypeOK
  BY ActionFixed, ExecutionCaseMoves DEF InternalRuns, TypeOK
<1>1. CASE AuthNext /\ UNCHANGED execVars
  <2>1. /\ pcase'.state = "WAITING_FOR_OUTCOME" => pcase.state = "WAITING_FOR_OUTCOME"
        /\ pcase'.attempts = pcase.attempts
    BY <1>0, <1>1, AuthTargets DEF TERMINAL_CASE_STATES
  <2> QED BY <1>0, <1>1, <2>1, NothingRuns DEF execVars
<1>2. ASSUME NEW w \in Workers, NEW k \in Keys, prepare_and_claim(w, k)
      PROVE  InternalRuns'
  <2>1. /\ worker'[w].pc = "claimed" /\ \A v \in Workers \ {w} : worker'[v] = worker[v]
        /\ UNCHANGED links /\ UNCHANGED pcase
    BY <1>0, <1>2 DEF prepare_and_claim, authVars
  <2>2. /\ record[k].status \notin {"SUCCEEDED", "FAILED"}
        /\ record'[k].status = "IN_PROGRESS"
        /\ \A j \in Keys \ {k} : record'[j] = record[j]
    BY <1>0, <1>2 DEF prepare_and_claim, Executable, FINAL_EXECUTION_STATUSES
  <2> QED BY <1>0, <2>1, <2>2, NothingRuns
<1>3. ASSUME NEW w \in Workers, crash(w)
      PROVE  InternalRuns'
  <2>1. \A v \in Workers : worker'[v].pc \in {"idle", "claimed"}
    BY <1>0, <1>3 DEF crash, Return, Idle
  <2> QED BY <2>1, <1>3, NothingRuns DEF crash, authVars
<1>4. ASSUME NEW w \in Workers, execute_internal(w)
      PROVE  InternalRuns'
  <2>0. PICK k \in Keys : k = worker[w].key
    BY <1>4 DEF execute_internal, TypeOK
  <2>1. \A v \in Workers : worker'[v].pc \in {"idle", "claimed"}
    BY <1>0, <1>4 DEF execute_internal, InternalFrame, Return, Idle
  <2>2. CASE UNCHANGED <<pcase, record>>
    BY <1>4, <2>1, <2>2, NothingRuns DEF execute_internal, InternalFrame
  <2>3. CASE ~Final(k) /\ CancelStale(k)
    <3>1. /\ record[k].status \notin {"SUCCEEDED", "FAILED"}
          /\ record'[k].status = "CANCELLED"
          /\ \A j \in Keys \ {k} : record'[j] = record[j]
      BY <1>0, <2>3 DEF CancelStale, WithStatus, Final, FINAL_EXECUTION_STATUSES
    <3> QED BY <1>4, <2>1, <2>3, <3>1, NothingRuns
            DEF execute_internal, InternalFrame, CancelStale
  <2>4. CASE ~Final(k) /\ post_request_context_is_current(k) /\ RunInternal(k)
    <3>1. pcase.state = "POLICY_VALIDATED"
      BY <2>4 DEF post_request_context_is_current
    <3>2. Ran = {}
      BY <3>1 DEF InternalRuns, TERMINAL_CASE_STATES
    <3>3. /\ record'[k].status = IF action \in UNSUPPORTED_ACTIONS THEN "FAILED" ELSE "SUCCEEDED"
          /\ \A j \in Keys \ {k} : record'[j] = record[j]
      BY <1>0, <2>4 DEF RunInternal, WithStatus
    <3>4. Ran' = {k}
      BY <3>2, <3>3 DEF Ran
    <3>5. /\ InternalTarget \in {"WAITING_FOR_OUTCOME"} \cup TERMINAL_CASE_STATES
          /\ InternalTarget \in CaseState
          /\ InternalTarget = "WAITING_FOR_OUTCOME" => action = "WAIT"
      BY DEF InternalTarget, TERMINAL_CASE_STATES, CaseState
    <3>6. pcase'.state = InternalTarget /\ pcase'.attempts = pcase.attempts
      BY <1>0, <2>4, <3>5, MoveCaseType DEF RunInternal
    <3>7. pcase'.state = "WAITING_FOR_OUTCOME" =>
            action = "WAIT" /\ \E j \in Keys : record'[j].status = "SUCCEEDED"
      BY <3>3, <3>5, <3>6 DEF UNSUPPORTED_ACTIONS
    <3>8. pcase'.attempts = 0 /\ UNCHANGED links
      BY <1>4, <3>6 DEF InternalRuns, execute_internal, InternalFrame
    <3> QED BY <1>0, <2>1, <3>4, <3>5, <3>6, <3>7, <3>8 DEF InternalRuns
  <2> QED BY <1>4, <2>0, <2>2, <2>3, <2>4 DEF execute_internal
<1>5. ASSUME NEW w \in Workers, WorkerStep(w)
      PROVE  InternalRuns'
  BY <1>0, <1>4, <1>5
     DEF WorkerStep, lookup_by_reference, create, cancel, finalize_provider_problem,
         finalize_external_success, finalize_compensation
<1>6. CASE Tick
  <2>1. \A k \in Keys : record'[k].status = record[k].status
    BY <1>0, <1>6 DEF Tick, ActionRecord
  <2> QED BY <1>0, <1>6, <2>1, NothingRuns DEF Tick, authVars
<1>7. ASSUME NEW k \in Keys, LinkCloses(k)
      PROVE  FALSE
  BY <1>0, <1>7 DEF LinkCloses
<1>8. CASE UNCHANGED vars
  BY <1>0, <1>8, NothingRuns DEF vars, authVars, execVars
<1> QED BY <1>1, <1>2, <1>3, <1>5, <1>6, <1>7, <1>8 DEF Next

\* An internal action and its case agree (InternalActionsAgree) however many callers
\* claim, lose and take over the action: it runs once, the waiting case is one that was
\* told to wait, and neither link nor counter is touched.
THEOREM InternalActionsAgreeHolds == Spec => []InternalActionsAgree
<1>1. Init => InternalRuns
  BY DEF Init, AuthInit, InternalRuns, Ran, Idle, NoRecord
<1>2. InternalRuns => InternalActionsAgree
  <2> SUFFICES ASSUME InternalRuns, action # "CREATE_RECOVERY_LINK"
               PROVE  InternalActionsAgree
    BY DEF InternalActionsAgree
  <2>1. Cardinality(Ran) <= 1
    <3>1. Ran = {} \/ \E k \in Ran : Ran = {k}
      BY DEF InternalRuns
    <3>2. Cardinality(Ran) \in {0, 1}
      BY <3>1, FS_EmptySet, FS_Singleton
    <3> QED BY <3>2
  <2> QED BY <2>1 DEF InternalRuns, InternalActionsAgree, Ran
<1> QED BY <1>1, <1>2, InternalStep, TypeCorrect, PTL DEF Spec

-----------------------------------------------------------------------------
(* Callers that take turns.  With a claim that outlives its lease, two     *)
(* callers may work on one action at a time, and the runs show what comes  *)
(* of it.  The theorems below are about behaviours in which that does not  *)
(* happen: claims may be lost to crashes and taken over, and any number of *)
(* callers may run, but never two for the same action.                     *)

InTurn ==
  \A v, w \in Workers :
    v # w /\ worker[v].pc # "idle" /\ worker[w].pc # "idle" => worker[v].key # worker[w].key

\* One executor takes turns with itself.
LEMMA OneExecutorInTurn ==
  ASSUME \A v, w \in Workers : v = w
  PROVE  InTurn
BY DEF InTurn

\* What is true of the action a caller works on.
AtWork(w) ==
  LET k == worker[w].key
  IN  /\ worker[w].pc \in {"claimed", "absent", "found", "problem"} =>
           record[k].status = "IN_PROGRESS"
      /\ worker[w].pc \in {"compensating", "compensated", "uncompensated"} =>
           record[k].status = "COMPENSATION_REQUIRED"
      /\ worker[w].pc = "absent" => links[k] = <<>>
      /\ worker[w].pc = "problem" /\ worker[w].problem = "FAILED" => links[k] = <<>>
      /\ worker[w].pc \in Holding => worker[w].link = 1

\* What is true of every reference.
Accounted(k) ==
  /\ Len(links[k]) <= 1
  /\ links[k] # <<>> /\ links[k][1] = "created" =>
       \/ record[k].status \in {"IN_PROGRESS", "INDETERMINATE", "COMPENSATION_REQUIRED"}
       \/ record[k].status = "SUCCEEDED" /\ record[k].link = 1

TurnsKept == (\A w \in Workers : AtWork(w)) /\ (\A k \in Keys : Accounted(k))

\* A step of caller w on action k, seen from everything else.
OnlyAt(w, k) ==
  /\ OnlyCaller(w)
  /\ \A j \in Keys \ {k} : record'[j] = record[j] /\ links'[j] = links[j]

\* It is enough to look at the caller that moves and at its action.
LEMMA TurnLocal ==
  ASSUME TypeOK, InTurn, InTurn', TurnsKept, NEW w \in Workers, NEW k \in Keys, OnlyAt(w, k),
         worker[w].pc # "idle" => worker[w].key = k,
         worker[w].pc = "idle" => worker'[w].pc # "idle" /\ worker'[w].key = k,
         AtWork(w)', Accounted(k)'
  PROVE  TurnsKept'
<1>1. ASSUME NEW v \in Workers \ {w}, worker[v].pc # "idle"
      PROVE  AtWork(v)'
  <2>1. worker'[v] = worker[v]
    BY <1>1 DEF OnlyAt, OnlyCaller
  <2>2. worker[v].key # k
    BY <1>1, <2>1 DEF InTurn
  <2>3. worker[v].key \in Keys
    BY <1>1 DEF TypeOK
  <2>4. /\ record'[worker[v].key] = record[worker[v].key]
        /\ links'[worker[v].key] = links[worker[v].key]
    BY <2>2, <2>3 DEF OnlyAt
  <2> QED BY <1>1, <2>1, <2>4 DEF TurnsKept, AtWork
<1>2. ASSUME NEW v \in Workers \ {w}, worker[v].pc = "idle"
      PROVE  AtWork(v)'
  <2>1. worker'[v] = worker[v]
    BY <1>2 DEF OnlyAt, OnlyCaller
  <2> QED BY <1>2, <2>1 DEF AtWork, Holding
<1>3. ASSUME NEW j \in Keys \ {k}
      PROVE  Accounted(j)'
  BY <1>3 DEF OnlyAt, TurnsKept, Accounted
<1> QED BY <1>1, <1>2, <1>3 DEF TurnsKept

\* A link nobody may work on any more can only close.
LEMMA LinkClosesStep ==
  ASSUME TypeOK, TurnsKept, NEW k \in Keys, LinkCloses(k)
  PROVE  TurnsKept'
<1>1. PICK n \in DOMAIN links[k] : links[k][n] = "created" /\ links' = [links EXCEPT ![k][n] = "closed"]
  BY DEF LinkCloses
<1>2. /\ links[k] \in Seq(LinkStatus) /\ links \in [Keys -> Seq(LinkStatus)]
      /\ UNCHANGED <<record, worker>>
  BY DEF LinkCloses, TypeOK
<1>3. links'[k] = [links[k] EXCEPT ![n] = "closed"] /\ \A j \in Keys \ {k} : links'[j] = links[j]
  BY <1>1, <1>2
<1>4. /\ Len(links'[k]) = Len(links[k]) /\ Len(links[k]) \in Nat
      /\ \A m \in 1..Len(links[k]) : links'[k][m] \in {links[k][m], "closed"}
      /\ links[k] # <<>>
  BY <1>1, <1>2, <1>3, ExceptIsSeq DEF LinkStatus
<1>5. Accounted(k)'
  BY <1>2, <1>4 DEF TurnsKept, Accounted
<1>6. \A j \in Keys \ {k} : Accounted(j)'
  BY <1>2, <1>3 DEF TurnsKept, Accounted
<1>7. ASSUME NEW w \in Workers
      PROVE  AtWork(w)'
  <2>1. worker[w].key = k => worker[w].pc # "absent" /\ ~(worker[w].pc = "problem" /\ worker[w].problem = "FAILED")
    BY <1>4 DEF TurnsKept, AtWork
  <2>2. worker[w].pc # "idle" => worker[w].key \in Keys
    BY DEF TypeOK
  <2> QED BY <1>2, <1>3, <2>1, <2>2 DEF TurnsKept, AtWork, Holding
<1> QED BY <1>5, <1>6, <1>7 DEF TurnsKept

\* Every step keeps the turns in order.
LEMMA TurnStep ==
  ASSUME TypeOK, TypeOK', CallersKnow, InternalRuns, InTurn, InTurn', TurnsKept, [Next]_vars
  PROVE  TurnsKept'
<1>0. /\ worker \in [Workers -> Caller]
      /\ record \in [Keys -> ActionRecord]
      /\ links \in [Keys -> Seq(LinkStatus)]
      /\ \A k \in Keys : links[k] \in Seq(LinkStatus) /\ Len(links[k]) \in Nat
      /\ \A w \in Workers : AtWork(w)
      /\ \A k \in Keys : Accounted(k)
  BY DEF TypeOK, TurnsKept
<1>1. CASE UNCHANGED execVars
  BY <1>0, <1>1 DEF execVars, TurnsKept, AtWork, Accounted
<1>2. ASSUME NEW w \in Workers, NEW k \in Keys, prepare_and_claim(w, k)
      PROVE  TurnsKept'
  <2>1. /\ worker'[w].pc = "claimed" /\ worker'[w].key = k /\ worker[w].pc = "idle"
        /\ record'[k].status = "IN_PROGRESS" /\ UNCHANGED links
    BY <1>0, <1>2 DEF prepare_and_claim
  <2>2. OnlyAt(w, k)
    BY <1>0, <1>2 DEF prepare_and_claim, OnlyAt, OnlyCaller, TypeOK
  <2>3. AtWork(w)' /\ Accounted(k)'
    BY <1>0, <2>1 DEF AtWork, Accounted, Holding
  <2> QED BY <2>1, <2>2, <2>3, TurnLocal
<1>3. ASSUME NEW w \in Workers, WorkerStep(w) \/ crash(w)
      PROVE  TurnsKept'
  <2>0. worker[w].pc # "idle"
    BY <1>3 DEF WorkerStep, crash, lookup_by_reference, create, cancel,
       finalize_provider_problem, finalize_external_success, finalize_compensation,
       execute_internal
  <2>k. PICK k \in Keys : k = worker[w].key
    BY <2>0 DEF TypeOK
  <2>a. AtWork(w) /\ Accounted(k)
    BY <1>0
  <2>o. ASSUME OnlyCaller(w), \A j \in Keys \ {k} : record'[j] = record[j] /\ links'[j] = links[j],
               AtWork(w)', Accounted(k)'
        PROVE  TurnsKept'
    BY <2>0, <2>k, <2>o, TurnLocal DEF OnlyAt
  <2>r. ASSUME Return(w) PROVE OnlyCaller(w) /\ AtWork(w)'
    BY <2>r, ReturnStep DEF AtWork, Holding
  <2>n. ASSUME Return(w), UNCHANGED <<record, links>> PROVE TurnsKept'
    BY <2>n, <2>o, <2>r, <2>a DEF Accounted
  <2>1. CASE lookup_by_reference(w)
    <3>0. UNCHANGED <<record, links>> /\ worker[w].pc = "claimed"
      BY <2>1 DEF lookup_by_reference
    <3>1. CASE links[k] = <<>> /\ Reached(w, "absent")
      <4>1. OnlyCaller(w) /\ worker'[w].pc = "absent" /\ worker'[w].key = k
        BY <2>k, <3>1, ReachedStep
      <4>2. AtWork(w)'
        BY <2>a, <2>k, <3>0, <3>1, <4>1 DEF AtWork, Holding
      <4> QED BY <2>a, <2>o, <3>0, <4>1, <4>2 DEF Accounted
    <3>2. CASE Found(w, 1)
      <4>1. OnlyCaller(w) /\ worker'[w].pc = "found" /\ worker'[w].key = k /\ worker'[w].link = 1
        BY <2>k, <3>2, FoundStep
      <4>2. AtWork(w)'
        BY <2>a, <2>k, <3>0, <4>1 DEF AtWork, Holding
      <4> QED BY <2>a, <2>o, <3>0, <4>1, <4>2 DEF Accounted
    <3>3. CASE Problem(w, "INDETERMINATE")
      <4>1. OnlyCaller(w) /\ worker'[w].pc = "problem" /\ worker'[w].key = k
            /\ worker'[w].problem = "INDETERMINATE"
        BY <2>k, <3>3, ProblemStep
      <4>2. AtWork(w)'
        BY <2>a, <2>k, <3>0, <4>1 DEF AtWork, Holding
      <4> QED BY <2>a, <2>o, <3>0, <4>1, <4>2 DEF Accounted
    <3>4. Len(links[k]) = 0 => links[k] = <<>>
      BY <1>0
    <3> QED BY <2>1, <2>k, <3>1, <3>2, <3>3, <3>4 DEF lookup_by_reference
  <2>2. CASE create(w)
    <3>0. /\ worker[w].pc = "absent" /\ UNCHANGED record
          /\ links[k] = <<>> /\ record[k].status = "IN_PROGRESS" /\ Len(links[k]) = 0
      BY <2>2, <2>a, <2>k, CreateCases DEF AtWork
    <3>1. CASE links' = [links EXCEPT ![k] = Append(@, "created")]
               /\ (Found(w, 1) \/ Problem(w, "INDETERMINATE"))
      <4>1. /\ links'[k] = Append(links[k], "created")
            /\ \A j \in Keys \ {k} : links'[j] = links[j]
        BY <1>0, <3>1
      <4>2. Len(links'[k]) = 1
        BY <1>0, <3>0, <4>1
      <4>3. /\ OnlyCaller(w) /\ worker'[w].key = k
            /\ \/ worker'[w].pc = "found" /\ worker'[w].link = 1
               \/ worker'[w].pc = "problem" /\ worker'[w].problem = "INDETERMINATE"
        BY <2>k, <3>1, FoundStep, ProblemStep
      <4>4. AtWork(w)'
        BY <3>0, <4>3 DEF AtWork, Holding
      <4>5. Accounted(k)'
        BY <3>0, <4>2 DEF Accounted
      <4> QED BY <2>o, <3>0, <4>1, <4>3, <4>4, <4>5
    <3>2. CASE UNCHANGED links /\ (Problem(w, "INDETERMINATE") \/ Problem(w, "FAILED"))
      <4>1. OnlyCaller(w) /\ worker'[w].key = k /\ worker'[w].pc = "problem"
        BY <2>k, <3>2, ProblemStep
      <4>2. AtWork(w)'
        BY <3>0, <3>2, <4>1 DEF AtWork, Holding
      <4> QED BY <2>a, <2>o, <3>0, <3>2, <4>1, <4>2 DEF Accounted
    <3> QED BY <2>2, <2>k, <3>0, <3>1, <3>2, CreateCases
  <2>3. CASE cancel(w)
    <3>0. /\ worker[w].pc = "compensating" /\ UNCHANGED record
          /\ worker[w].link = 1 /\ record[k].status = "COMPENSATION_REQUIRED"
      BY <2>3, <2>a, <2>k, CancelCases DEF AtWork, Holding
    <3>1. \/ links' = [links EXCEPT ![k][1] = "cancelled"]
          \/ UNCHANGED links
      BY <2>3, <2>k, <3>0, CancelCases
    <3>2. /\ Len(links'[k]) = Len(links[k])
          /\ \A j \in Keys \ {k} : links'[j] = links[j]
      <4>1. Len([links[k] EXCEPT ![1] = "cancelled"]) = Len(links[k])
        BY <1>0, ExceptIsSeq DEF LinkStatus
      <4> QED BY <1>0, <3>1, <4>1
    <3>3. Reached(w, "compensated") \/ Reached(w, "uncompensated")
      BY <2>3, CancelCases
    <3>4. /\ OnlyCaller(w) /\ worker'[w].key = k /\ worker'[w].link = 1
          /\ worker'[w].pc \in {"compensated", "uncompensated"}
      BY <2>k, <3>0, <3>3, ReachedStep
    <3>5. AtWork(w)'
      BY <3>0, <3>4 DEF AtWork, Holding
    <3>6. Accounted(k)'
      BY <2>a, <3>0, <3>2 DEF Accounted
    <3> QED BY <2>o, <3>0, <3>2, <3>4, <3>5, <3>6
  <2>4. CASE finalize_provider_problem(w)
    <3>0. /\ worker[w].pc = "problem" /\ UNCHANGED links /\ Return(w)
          /\ record[k].status = "IN_PROGRESS" /\ worker[w].problem \in {"INDETERMINATE", "FAILED"}
          /\ worker[w].problem = "FAILED" => links[k] = <<>>
      BY <1>0, <2>4, <2>a, <2>k DEF finalize_provider_problem, AtWork, TypeOK, Caller
    <3>1. record' = [record EXCEPT ![k] = WithStatus(@, worker[w].problem)]
      BY <2>4, <2>k, <3>0 DEF finalize_provider_problem, FINAL_EXECUTION_STATUSES
    <3>2. /\ record'[k].status = worker[w].problem
          /\ \A j \in Keys \ {k} : record'[j] = record[j]
      BY <1>0, <3>1 DEF WithStatus
    <3>3. Accounted(k)'
      BY <2>a, <3>0, <3>2 DEF Accounted
    <3> QED BY <2>o, <2>r, <3>0, <3>2, <3>3
  <2>5. CASE finalize_external_success(w)
    <3>0. /\ worker[w].pc = "found" /\ UNCHANGED links /\ worker[w].link = 1
      BY <2>5, <2>a DEF finalize_external_success, AtWork, Holding
    <3>1. PICK s \in {"SUCCEEDED", "COMPENSATION_REQUIRED"} :
             /\ record' = [record EXCEPT ![k] = WithLink(@, s, 1)]
             /\ s = "SUCCEEDED" => Return(w)
             /\ s = "COMPENSATION_REQUIRED" => Reached(w, "compensating")
      <4>1. CASE post_request_context_is_current(worker[w].key)
        BY <2>5, <2>k, <3>0, <4>1 DEF finalize_external_success
      <4>2. CASE ~post_request_context_is_current(worker[w].key)
        BY <2>5, <2>k, <3>0, <4>2 DEF finalize_external_success
      <4> QED BY <4>1, <4>2
    <3>2. /\ record'[k].status = s /\ record'[k].link = 1
          /\ \A j \in Keys \ {k} : record'[j] = record[j]
      BY <1>0, <3>1 DEF WithLink
    <3>3. Accounted(k)'
      BY <2>a, <3>0, <3>2 DEF Accounted
    <3>4. CASE s = "SUCCEEDED"
      BY <2>o, <2>r, <3>0, <3>1, <3>2, <3>3, <3>4
    <3>5. CASE s = "COMPENSATION_REQUIRED"
      <4>1. /\ OnlyCaller(w) /\ worker'[w].key = k /\ worker'[w].link = 1
            /\ worker'[w].pc = "compensating"
        BY <2>k, <3>0, <3>1, <3>5, ReachedStep
      <4>2. AtWork(w)'
        BY <3>2, <3>5, <4>1 DEF AtWork, Holding
      <4> QED BY <2>o, <3>0, <3>2, <3>3, <4>1, <4>2
    <3> QED BY <3>4, <3>5
  <2>6. CASE finalize_compensation(w)
    <3>0. /\ worker[w].pc \in {"compensated", "uncompensated"} /\ UNCHANGED links /\ Return(w)
          /\ worker[w].link = 1
          /\ worker[w].pc = "compensated" => Closed(k, 1)
      BY <2>6, <2>a, <2>k DEF finalize_compensation, AtWork, Holding, CallersKnow
    <3>1. /\ record'[k].status = IF worker[w].pc = "compensated" THEN "CANCELLED"
                                                                 ELSE "COMPENSATION_REQUIRED"
          /\ \A j \in Keys \ {k} : record'[j] = record[j]
      BY <1>0, <2>6, <2>k DEF finalize_compensation, WithLink
    <3>2. Accounted(k)'
      BY <2>a, <3>0, <3>1 DEF Accounted, Closed
    <3> QED BY <2>o, <2>r, <3>0, <3>1, <3>2
  <2>7. CASE execute_internal(w)
    <3>0. links[k] = <<>> /\ UNCHANGED links /\ Return(w)
      BY <2>7 DEF execute_internal, InternalFrame, InternalRuns
    <3>1. \/ UNCHANGED record
          \/ \E s : record' = [record EXCEPT ![k] = WithStatus(@, s)]
      BY <2>7, <2>k DEF execute_internal, CancelStale, RunInternal
    <3>2. \A j \in Keys \ {k} : record'[j] = record[j]
      BY <1>0, <3>1
    <3>3. Accounted(k)'
      BY <2>a, <3>0 DEF Accounted
    <3> QED BY <2>o, <2>r, <3>0, <3>2, <3>3
  <2>8. CASE crash(w)
    BY <2>8, <2>n DEF crash
  <2> QED BY <1>3, <2>1, <2>2, <2>3, <2>4, <2>5, <2>6, <2>7, <2>8 DEF WorkerStep
<1>4. CASE Tick
  <2>1. \A k \in Keys : record'[k].status = record[k].status /\ record'[k].link = record[k].link
    BY <1>0, <1>4 DEF Tick, ActionRecord
  <2>2. UNCHANGED <<links, worker>> /\ \A w \in Workers : worker[w].pc # "idle" => worker[w].key \in Keys
    BY <1>4 DEF Tick, TypeOK
  <2> QED BY <1>0, <2>1, <2>2 DEF TurnsKept, AtWork, Accounted, Holding
<1>5. ASSUME NEW k \in Keys, LinkCloses(k)
      PROVE  TurnsKept'
  BY <1>5, LinkClosesStep
<1> QED BY <1>1, <1>2, <1>3, <1>4, <1>5 DEF Next, vars

\* The order of turns holds from the start.
LEMMA TurnInit ==
  ASSUME Init
  PROVE  CallersKnow /\ InternalRuns /\ TurnsKept
<1>1. CallersKnow
  BY DEF Init, CallersKnow, Idle, Holding
<1>2. InternalRuns
  BY DEF Init, AuthInit, InternalRuns, Ran, Idle, NoRecord
<1>3. TurnsKept
  BY DEF Init, TurnsKept, AtWork, Accounted, Idle, NoRecord, Holding
<1> QED BY <1>1, <1>2, <1>3

\* As long as callers take turns, there is one link at most behind a reference
\* (OneLinkPerReference), even at a provider that would accept a second one: lookup
\* before create makes crashes, uncertain answers and take-overs harmless.
THEOREM OneLinkPerReferenceHolds == Spec /\ []InTurn => []OneLinkPerReference
<1>1. TurnsKept => OneLinkPerReference
  BY DEF TurnsKept, Accounted, OneLinkPerReference
<1> QED BY <1>1, TurnInit, TurnStep, CallersKnowStep, InternalStep, TypeCorrect, PTL DEF Spec

\* As long as callers take turns, every link a customer could pay is accounted for
\* (OpenLinksAccounted): it is recorded as succeeded, or its record says that somebody
\* still has to look.
THEOREM OpenLinksAccountedHolds == Spec /\ []InTurn => []OpenLinksAccounted
<1>1. TypeOK /\ TurnsKept => OpenLinksAccounted
  <2> SUFFICES ASSUME TypeOK, TurnsKept, NEW k \in Keys, NEW n \in DOMAIN links[k],
                      links[k][n] = "created"
               PROVE  \/ record[k].status \in {"IN_PROGRESS", "INDETERMINATE",
                                               "COMPENSATION_REQUIRED"}
                      \/ record[k].status = "SUCCEEDED" /\ record[k].link = n
    BY DEF OpenLinksAccounted
  <2>1. links[k] \in Seq(LinkStatus) /\ Accounted(k)
    BY DEF TypeOK, TurnsKept
  <2>2. n = 1 /\ links[k] # <<>>
    BY <2>1 DEF Accounted
  <2> QED BY <2>1, <2>2 DEF Accounted
<1> QED BY <1>1, TurnInit, TurnStep, CallersKnowStep, InternalStep, TypeCorrect, PTL DEF Spec

\* A caller in its turn never works on an action that has succeeded.
LEMMA SettledStep ==
  ASSUME TypeOK, TurnsKept, [Next]_vars, NEW k \in Keys, record[k].status = "SUCCEEDED"
  PROVE  record'[k] = record[k]
<1>0. /\ record \in [Keys -> ActionRecord]
      /\ \A w \in Workers : worker[w].pc # "idle" => worker[w].key # k
  BY DEF TypeOK, TurnsKept, AtWork, Caller
<1>1. ASSUME NEW w \in Workers, NEW j \in Keys, prepare_and_claim(w, j)
      PROVE  record'[k] = record[k]
  BY <1>0, <1>1 DEF prepare_and_claim, Executable, FINAL_EXECUTION_STATUSES
<1>2. ASSUME NEW w \in Workers, WorkerStep(w) \/ crash(w)
      PROVE  record'[k] = record[k]
  <2>1. \/ UNCHANGED record
        \/ worker[w].pc # "idle" /\ \E row : record' = [record EXCEPT ![worker[w].key] = row]
    BY <1>2 DEF WorkerStep, crash, lookup_by_reference, create, cancel,
       finalize_provider_problem, finalize_external_success, finalize_compensation,
       execute_internal, CancelStale, RunInternal
  <2> QED BY <1>0, <2>1
<1>3. CASE Tick
  BY <1>0, <1>3 DEF Tick, Leased
<1> QED BY <1>1, <1>2, <1>3 DEF Next, execVars, LinkCloses, vars

\* As long as callers take turns, a recorded success is final (SuccessIsSettled): no
\* later call of execute, retry or compensation touches its record.
THEOREM SuccessIsSettledHolds == Spec /\ []InTurn => SuccessIsSettled
<1>1. TypeOK /\ TurnsKept /\ [Next]_vars =>
        [\A k \in Keys : record[k].status = "SUCCEEDED" => record'[k] = record[k]]_vars
  BY SettledStep
<1> QED BY <1>1, TurnInit, TurnStep, CallersKnowStep, InternalStep, TypeCorrect, PTL
        DEF Spec, SuccessIsSettled

-----------------------------------------------------------------------------
(* A counted success and its link.  The row of an action that was recorded *)
(* as SUCCEEDED may be overwritten by late callers, and the invariant says *)
(* how far.                                                                *)

LateStatus == {"SUCCEEDED", "COMPENSATION_REQUIRED", "CANCELLED"}

Keeps(k) == record[k].status \in LateStatus /\ Exists(k, record[k].link)

SuccessKept == \A k \in succeeded : Keeps(k)

\* A row that is not written keeps its link.
LEMMA KeepsStable ==
  ASSUME TypeOK, [Next]_vars, NEW k \in Keys, Keeps(k),
         record'[k].status = record[k].status, record'[k].link = record[k].link
  PROVE  Keeps(k)'
<1>1. PICK n \in Nat : n = record[k].link
  BY DEF TypeOK, ActionRecord
<1>2. Exists(k, n)'
  BY <1>1, LinksStable DEF Keeps
<1> QED BY <1>1, <1>2 DEF Keeps

\* A row that is written with a link that exists keeps it.
LEMMA KeepsWritten ==
  ASSUME TypeOK, [Next]_vars, NEW k \in Keys, NEW n \in Nat, Exists(k, n), NEW s \in LateStatus,
         record' = [record EXCEPT ![k] = WithLink(@, s, n)]
  PROVE  Keeps(k)'
<1>1. record'[k].status = s /\ record'[k].link = n
  BY DEF TypeOK, WithLink
<1>2. Exists(k, n)'
  BY LinksStable
<1> QED BY <1>1, <1>2 DEF Keeps

\* No caller takes the link from a success, however late.
LEMMA SuccessKeptStep ==
  ASSUME TypeOK, CountedExactlyOnce, CallersKnow, InternalRuns, SuccessKept, [Next]_vars
  PROVE  SuccessKept'
<1>0. /\ record \in [Keys -> ActionRecord] /\ succeeded \subseteq Keys
      /\ \A w \in Workers : worker[w].pc # "idle" => worker[w].key \in Keys
      /\ \A w \in Workers : worker[w].link \in Nat
      /\ \A k \in succeeded : record[k].status \in FINAL_EXECUTION_STATUSES
  BY DEF TypeOK, Caller, SuccessKept, Keeps, LateStatus, FINAL_EXECUTION_STATUSES
<1>k. ASSUME NEW k \in succeeded, record'[k].status = record[k].status,
             record'[k].link = record[k].link
      PROVE  Keeps(k)'
  BY <1>0, <1>k, KeepsStable DEF SuccessKept
<1>1. CASE UNCHANGED <<record, succeeded>>
  BY <1>1, <1>k DEF SuccessKept
<1>2. ASSUME NEW w \in Workers, NEW j \in Keys, prepare_and_claim(w, j)
      PROVE  SuccessKept'
  <2>1. j \notin succeeded
    BY <1>0, <1>2 DEF prepare_and_claim, Executable
  <2>2. UNCHANGED succeeded /\ \A k \in Keys \ {j} : record'[k] = record[k]
    BY <1>0, <1>2 DEF prepare_and_claim
  <2> QED BY <1>0, <1>k, <2>1, <2>2 DEF SuccessKept
<1>3. ASSUME NEW w \in Workers, finalize_provider_problem(w)
      PROVE  SuccessKept'
  <2>1. PICK j \in Keys : j = worker[w].key
    BY <1>0, <1>3 DEF finalize_provider_problem
  <2>2. UNCHANGED succeeded /\ \A k \in Keys \ {j} : record'[k] = record[k]
    BY <1>0, <1>3, <2>1 DEF finalize_provider_problem
  <2>3. j \in succeeded => record'[j] = record[j]
    BY <1>0, <1>3, <2>1 DEF finalize_provider_problem
  <2> QED BY <1>0, <1>k, <2>2, <2>3 DEF SuccessKept
<1>4. ASSUME NEW w \in Workers, NEW s \in LateStatus,
             worker[w].pc \in Holding,
             record' = [record EXCEPT ![worker[w].key] = WithLink(@, s, worker[w].link)],
             succeeded' \in {succeeded, succeeded \cup {worker[w].key}}
      PROVE  SuccessKept'
  <2>1. PICK j \in Keys, n \in Nat : j = worker[w].key /\ n = worker[w].link
    BY <1>0, <1>4 DEF Holding
  <2>2. Exists(j, n)
    BY <1>4, <2>1 DEF CallersKnow
  <2>3. Keeps(j)'
    BY <1>4, <2>1, <2>2, KeepsWritten
  <2>4. \A k \in Keys \ {j} : record'[k] = record[k]
    BY <1>0, <1>4, <2>1
  <2> QED BY <1>0, <1>4, <1>k, <2>1, <2>3, <2>4 DEF SuccessKept
<1>5. ASSUME NEW w \in Workers, finalize_external_success(w)
      PROVE  SuccessKept'
  <2>1. worker[w].pc \in Holding /\ {"SUCCEEDED", "COMPENSATION_REQUIRED"} \subseteq LateStatus
    BY <1>5 DEF finalize_external_success, Holding, LateStatus
  <2>2. succeeded' \in {succeeded, succeeded \cup {worker[w].key}}
    BY <1>5 DEF finalize_external_success
  <2>3. \E s \in {"SUCCEEDED", "COMPENSATION_REQUIRED"} :
          record' = [record EXCEPT ![worker[w].key] = WithLink(@, s, worker[w].link)]
    BY <1>5 DEF finalize_external_success
  <2> QED BY <1>4, <2>1, <2>2, <2>3
<1>6. ASSUME NEW w \in Workers, finalize_compensation(w)
      PROVE  SuccessKept'
  <2>1. worker[w].pc \in Holding /\ {"CANCELLED", "COMPENSATION_REQUIRED"} \subseteq LateStatus
    BY <1>6 DEF finalize_compensation, Holding, LateStatus
  <2>2. UNCHANGED succeeded
    BY <1>6 DEF finalize_compensation
  <2>3. \E s \in {"CANCELLED", "COMPENSATION_REQUIRED"} :
          record' = [record EXCEPT ![worker[w].key] = WithLink(@, s, worker[w].link)]
    BY <1>6 DEF finalize_compensation
  <2> QED BY <1>4, <2>1, <2>2, <2>3
<1>7. ASSUME NEW w \in Workers, execute_internal(w)
      PROVE  SuccessKept'
  <2>1. succeeded = {} /\ UNCHANGED succeeded
    <3>1. \A k \in Keys : links[k] = <<>>
      BY <1>7 DEF execute_internal, InternalRuns
    <3>2. \A k \in succeeded : FALSE
      BY <1>0, <3>1 DEF SuccessKept, Keeps, Exists
    <3> QED BY <1>7, <3>2 DEF execute_internal, InternalFrame
  <2> QED BY <2>1 DEF SuccessKept
<1>8. CASE Tick
  <2>1. \A k \in Keys : record'[k].status = record[k].status /\ record'[k].link = record[k].link
    BY <1>0, <1>8 DEF Tick, ActionRecord
  <2> QED BY <1>0, <1>8, <1>k, <2>1 DEF Tick, SuccessKept
<1> QED BY <1>1, <1>2, <1>3, <1>5, <1>6, <1>7, <1>8
        DEF Next, execVars, WorkerStep, crash, lookup_by_reference, create, cancel,
            LinkCloses, vars

\* An action that was ever counted as the recovery keeps a link behind it
\* (SuccessKeepsItsLink): callers that outlive their lease may flag or cancel it, never
\* lose it.
THEOREM SuccessKeepsItsLinkHolds == Spec => []SuccessKeepsItsLink
<1>1. Init => SuccessKept
  BY DEF Init, SuccessKept
<1>2. SuccessKept => SuccessKeepsItsLink
  BY DEF SuccessKept, Keeps, Exists, LateStatus, SuccessKeepsItsLink, FINAL_EXECUTION_STATUSES
<1> QED BY <1>1, <1>2, SuccessKeptStep, TurnInit, CallersKnowStep, InternalStep,
           CountedExactlyOnceHolds, TypeCorrect, PTL DEF Spec

-----------------------------------------------------------------------------
(* A claim opens one link at most.  Callers that may still open one are    *)
(* counted with the links that are there.                                  *)

MayOpen(k) == {w \in Workers : worker[w].key = k /\ worker[w].pc \in {"claimed", "absent"}}

InBudget(k) ==
  /\ IsFiniteSet(MayOpen(k))
  /\ Cardinality(MayOpen(k)) + Len(links[k]) <= record[k].claims

ClaimBudget == \A k \in Keys : InBudget(k)

\* The budget holds on when no caller joins, no link is added and no claim is lost.
LEMMA BudgetKept ==
  ASSUME TypeOK, NEW k \in Keys, InBudget(k), MayOpen(k)' \subseteq MayOpen(k),
         Len(links'[k]) = Len(links[k]), record'[k].claims = record[k].claims
  PROVE  InBudget(k)'
<1>0. Len(links[k]) \in Nat /\ record[k].claims \in Nat
  BY DEF TypeOK, ActionRecord
<1>1. /\ IsFiniteSet(MayOpen(k)') /\ IsFiniteSet(MayOpen(k))
      /\ Cardinality(MayOpen(k)') <= Cardinality(MayOpen(k))
  BY FS_Subset DEF InBudget
<1>2. Cardinality(MayOpen(k)) \in Nat /\ Cardinality(MayOpen(k)') \in Nat
  BY <1>1, FS_CardinalityType
<1> QED BY <1>0, <1>1, <1>2 DEF InBudget

\* Whoever may still open a link has a claim that no link stands for.
LEMMA BudgetLeft ==
  ASSUME TypeOK, NEW k \in Keys, InBudget(k), MayOpen(k) # {}
  PROVE  Len(links[k]) < record[k].claims
<1>0. Len(links[k]) \in Nat /\ record[k].claims \in Nat
  BY DEF TypeOK, ActionRecord
<1>1. Cardinality(MayOpen(k)) \in Nat /\ Cardinality(MayOpen(k)) # 0
  BY FS_CardinalityType, FS_EmptySet DEF InBudget
<1> QED BY <1>0, <1>1 DEF InBudget

\* A caller gets into the position to open a link by a claim only.
LEMMA MayOpenStep ==
  ASSUME TypeOK, [Next]_vars, NEW k \in Keys,
         ~ \E w \in Workers : prepare_and_claim(w, k)
  PROVE  MayOpen(k)' \subseteq MayOpen(k)
<1>0. /\ worker \in [Workers -> Caller]
      /\ \A w \in Workers : worker[w].pc # "idle" => Len(links[worker[w].key]) + 1 \in Nat
      /\ \A w \in Workers : worker[w].problem \in {"none", "INDETERMINATE", "FAILED"}
  BY DEF TypeOK, Caller
<1>1. ASSUME NEW w \in Workers, NEW j \in Keys, prepare_and_claim(w, j)
      PROVE  MayOpen(k)' \subseteq MayOpen(k)
  <2>1. /\ worker'[w].key = j /\ j # k
        /\ \A v \in Workers \ {w} : worker'[v] = worker[v]
    BY <1>0, <1>1 DEF prepare_and_claim
  <2> QED BY <2>1 DEF MayOpen
<1>2. ASSUME NEW w \in Workers, WorkerStep(w) \/ crash(w)
      PROVE  MayOpen(k)' \subseteq MayOpen(k)
  <2>1. ASSUME OnlyCaller(w), worker'[w].pc \notin {"claimed", "absent"}
        PROVE  MayOpen(k)' \subseteq MayOpen(k)
    BY <2>1 DEF MayOpen, OnlyCaller
  <2>2. CASE lookup_by_reference(w) /\ Reached(w, "absent")
    <3>1. OnlyCaller(w) /\ worker'[w].key = worker[w].key /\ worker[w].pc = "claimed"
      BY <2>2, ReachedStep DEF lookup_by_reference
    <3> QED BY <3>1 DEF MayOpen, OnlyCaller
  <2>3. \/ lookup_by_reference(w) /\ Reached(w, "absent")
        \/ Return(w)
        \/ \E pc \in {"compensating", "compensated", "uncompensated"} : Reached(w, pc)
        \/ \E n \in Nat : Found(w, n)
        \/ \E s \in {"INDETERMINATE", "FAILED"} : Problem(w, s)
    BY <1>0, <1>2, CreateCases, CancelCases
       DEF WorkerStep, crash, lookup_by_reference,
       finalize_provider_problem, finalize_external_success, finalize_compensation,
       execute_internal, InternalFrame
  <2>4. CASE Return(w)
    BY <2>1, <2>4, ReturnStep
  <2>5. ASSUME NEW pc \in {"compensating", "compensated", "uncompensated"}, Reached(w, pc)
        PROVE  MayOpen(k)' \subseteq MayOpen(k)
    BY <2>1, <2>5, ReachedStep
  <2>6. ASSUME NEW n \in Nat, Found(w, n)
        PROVE  MayOpen(k)' \subseteq MayOpen(k)
    BY <2>1, <2>6, FoundStep
  <2>7. ASSUME NEW s \in {"INDETERMINATE", "FAILED"}, Problem(w, s)
        PROVE  MayOpen(k)' \subseteq MayOpen(k)
    BY <2>1, <2>7, ProblemStep
  <2> QED BY <2>2, <2>3, <2>4, <2>5, <2>6, <2>7
<1>3. CASE UNCHANGED worker
  BY <1>3 DEF MayOpen
<1> QED BY <1>1, <1>2, <1>3 DEF Next, execVars, Tick, LinkCloses, vars

\* What the steps do to claims and to the number of links.
CountsMove ==
  \/ /\ \A k \in Keys : record'[k].claims = record[k].claims
     /\ \A k \in Keys : Len(links'[k]) = Len(links[k])
  \/ \E w \in Workers, k \in Keys :
       /\ prepare_and_claim(w, k)
       /\ record'[k].claims = record[k].claims + 1
       /\ \A j \in Keys \ {k} : record'[j].claims = record[j].claims
       /\ UNCHANGED links
  \/ \E w \in Workers :
       /\ create(w)
       /\ Found(w, Len(links[worker[w].key]) + 1) \/ Problem(w, "INDETERMINATE")
       /\ links' = [links EXCEPT ![worker[w].key] = Append(@, "created")]
       /\ UNCHANGED record

\* Only claims add claims, and only creates add links.
LEMMA CountsStep ==
  ASSUME TypeOK, [Next]_vars
  PROVE  CountsMove
<1>0. /\ record \in [Keys -> ActionRecord] /\ links \in [Keys -> Seq(LinkStatus)]
      /\ \A w \in Workers : worker[w].pc # "idle" => worker[w].key \in Keys
  BY DEF TypeOK
<1>s. ASSUME \A k \in Keys : record'[k].claims = record[k].claims,
             \A k \in Keys : Len(links'[k]) = Len(links[k])
      PROVE  CountsMove
  BY <1>s DEF CountsMove
<1>1. CASE UNCHANGED <<record, links>>
  BY <1>1, <1>s
<1>2. ASSUME NEW w \in Workers, NEW k \in Keys, prepare_and_claim(w, k)
      PROVE  CountsMove
  <2>1. /\ record'[k].claims = record[k].claims + 1
        /\ \A j \in Keys \ {k} : record'[j].claims = record[j].claims
        /\ UNCHANGED links
    BY <1>0, <1>2 DEF prepare_and_claim
  <2> QED BY <1>2, <2>1 DEF CountsMove
<1>3. ASSUME NEW w \in Workers, create(w)
      PROVE  CountsMove
  <2>1. UNCHANGED record
    BY <1>3, CreateCases
  <2>2. CASE UNCHANGED links
    BY <1>1, <2>1, <2>2
  <2> QED BY <1>3, <2>1, <2>2, CreateCases DEF CountsMove
<1>4. ASSUME NEW w \in Workers, cancel(w)
      PROVE  CountsMove
  <2>1. UNCHANGED record /\ worker[w].key \in Keys
    BY <1>0, <1>4, CancelCases
  <2>2. CASE UNCHANGED links
    BY <1>1, <2>1, <2>2
  <2>3. CASE links' = [links EXCEPT ![worker[w].key][worker[w].link] = "cancelled"]
    <3>1. PICK j \in Keys : j = worker[w].key
      BY <2>1
    <3>2. /\ links'[j] = [links[j] EXCEPT ![worker[w].link] = "cancelled"]
          /\ \A k \in Keys \ {j} : links'[k] = links[k]
      BY <1>0, <2>3, <3>1
    <3>3. Len(links'[j]) = Len(links[j])
      BY <1>0, <3>2, ExceptIsSeq DEF LinkStatus
    <3> QED BY <1>s, <2>1, <3>2, <3>3
  <2> QED BY <1>4, <2>2, <2>3, CancelCases
<1>5. ASSUME NEW w \in Workers,
             finalize_provider_problem(w) \/ finalize_external_success(w)
               \/ finalize_compensation(w) \/ execute_internal(w)
      PROVE  CountsMove
  <2>1. worker[w].key \in Keys /\ UNCHANGED links
    BY <1>0, <1>5 DEF finalize_provider_problem, finalize_external_success,
       finalize_compensation, execute_internal, InternalFrame
  <2>2. PICK j \in Keys : j = worker[w].key
    BY <2>1
  <2>3. \/ UNCHANGED record
        \/ \E s : record' = [record EXCEPT ![j] = WithStatus(@, s)]
        \/ \E s, n : record' = [record EXCEPT ![j] = WithLink(@, s, n)]
    BY <1>5, <2>2 DEF finalize_provider_problem, finalize_external_success,
       finalize_compensation, execute_internal, CancelStale, RunInternal
  <2>4. \A k \in Keys : record'[k].claims = record[k].claims
    BY <1>0, <2>3 DEF WithStatus, WithLink
  <2> QED BY <1>s, <2>1, <2>4
<1>6. CASE Tick
  <2>1. \A k \in Keys : record'[k].claims = record[k].claims
    BY <1>0, <1>6 DEF Tick, ActionRecord
  <2> QED BY <1>s, <1>6, <2>1 DEF Tick
<1>7. ASSUME NEW k \in Keys, LinkCloses(k)
      PROVE  CountsMove
  <2>1. PICK n \in DOMAIN links[k] : links' = [links EXCEPT ![k][n] = "closed"]
    BY <1>7 DEF LinkCloses
  <2>2. /\ links'[k] = [links[k] EXCEPT ![n] = "closed"]
        /\ \A j \in Keys \ {k} : links'[j] = links[j]
    BY <1>0, <2>1
  <2>3. Len(links'[k]) = Len(links[k])
    BY <1>0, <2>2, ExceptIsSeq DEF LinkStatus
  <2> QED BY <1>s, <1>7, <2>2, <2>3 DEF LinkCloses
<1> QED BY <1>1, <1>2, <1>3, <1>4, <1>5, <1>6, <1>7
        DEF Next, execVars, WorkerStep, crash, lookup_by_reference, vars

\* A claim pays for the one link its caller may open.
LEMMA BudgetStep ==
  ASSUME TypeOK, ClaimBudget, [Next]_vars
  PROVE  ClaimBudget'
<1>0. /\ worker \in [Workers -> Caller] /\ links \in [Keys -> Seq(LinkStatus)]
      /\ \A k \in Keys : InBudget(k) /\ Len(links[k]) \in Nat /\ record[k].claims \in Nat
      /\ CountsMove
  BY CountsStep DEF TypeOK, ActionRecord, ClaimBudget
<1>c. ASSUME NEW k \in Keys, record'[k].claims = record[k].claims,
             Len(links'[k]) = Len(links[k]), ~ \E w \in Workers : prepare_and_claim(w, k)
      PROVE  InBudget(k)'
  BY <1>0, <1>c, MayOpenStep, BudgetKept
<1>1. ASSUME NEW w \in Workers, NEW k \in Keys, prepare_and_claim(w, k)
      PROVE  ClaimBudget'
  <2>1. /\ worker' = [worker EXCEPT ![w] = [pc |-> "claimed", key |-> k, link |-> 0,
                                            problem |-> "none"]]
        /\ record'[k].claims = record[k].claims + 1 /\ UNCHANGED links
        /\ \A j \in Keys \ {k} : record'[j].claims = record[j].claims
    <3>1. record \in [Keys -> ActionRecord]
      BY DEF TypeOK
    <3> QED BY <1>1, <3>1 DEF prepare_and_claim
  <2>2. /\ MayOpen(k)' \subseteq MayOpen(k) \cup {w}
        /\ \A j \in Keys \ {k} : MayOpen(j)' \subseteq MayOpen(j)
    BY <1>0, <2>1 DEF MayOpen
  <2>3. IsFiniteSet(MayOpen(k)) /\ Cardinality(MayOpen(k)) \in Nat
    BY <1>0, FS_CardinalityType DEF InBudget
  <2>4. /\ IsFiniteSet(MayOpen(k) \cup {w})
        /\ Cardinality(MayOpen(k) \cup {w}) \in {Cardinality(MayOpen(k)), Cardinality(MayOpen(k)) + 1}
    BY <2>3, FS_AddElement
  <2>5. /\ IsFiniteSet(MayOpen(k)')
        /\ Cardinality(MayOpen(k)') <= Cardinality(MayOpen(k) \cup {w})
    BY <2>2, <2>4, FS_Subset
  <2>6. Cardinality(MayOpen(k)') \in Nat
    BY <2>5, FS_CardinalityType
  <2>7. Cardinality(MayOpen(k)) + Len(links[k]) <= record[k].claims
    BY <1>0 DEF InBudget
  <2>8. InBudget(k)'
    BY <1>0, <2>1, <2>3, <2>4, <2>5, <2>6, <2>7 DEF InBudget
  <2>9. \A j \in Keys \ {k} : InBudget(j)'
    BY <1>0, <2>1, <2>2, BudgetKept
  <2> QED BY <2>8, <2>9 DEF ClaimBudget
<1>2. ASSUME NEW w \in Workers, create(w),
             Found(w, Len(links[worker[w].key]) + 1) \/ Problem(w, "INDETERMINATE"),
             links' = [links EXCEPT ![worker[w].key] = Append(@, "created")],
             UNCHANGED record
      PROVE  ClaimBudget'
  <2>0. worker[w].pc = "absent"
    BY <1>2, CreateCases
  <2>1. PICK k \in Keys : k = worker[w].key
    BY <2>0 DEF TypeOK
  <2>2. /\ Len(links'[k]) = Len(links[k]) + 1
        /\ \A j \in Keys \ {k} : links'[j] = links[j]
    BY <1>0, <1>2, <2>1
  <2>3. OnlyCaller(w) /\ worker'[w].pc \in {"found", "problem"}
    <3>1. Len(links[worker[w].key]) + 1 \in Nat
      BY <1>0, <2>1
    <3> QED BY <1>2, <3>1, FoundStep, ProblemStep
  <2>4. /\ w \in MayOpen(k) /\ MayOpen(k)' \subseteq MayOpen(k) \ {w}
        /\ \A j \in Keys \ {k} : MayOpen(j)' \subseteq MayOpen(j)
    BY <2>0, <2>1, <2>3 DEF MayOpen, OnlyCaller
  <2>5. IsFiniteSet(MayOpen(k)) /\ Cardinality(MayOpen(k)) \in Nat
    BY <1>0, FS_CardinalityType DEF InBudget
  <2>6. /\ IsFiniteSet(MayOpen(k) \ {w})
        /\ Cardinality(MayOpen(k) \ {w}) = Cardinality(MayOpen(k)) - 1
    BY <2>4, <2>5, FS_RemoveElement
  <2>7. /\ IsFiniteSet(MayOpen(k)')
        /\ Cardinality(MayOpen(k)') <= Cardinality(MayOpen(k) \ {w})
    BY <2>4, <2>6, FS_Subset
  <2>8. Cardinality(MayOpen(k)') \in Nat
    BY <2>7, FS_CardinalityType
  <2>9. Cardinality(MayOpen(k)) + Len(links[k]) <= record[k].claims
    BY <1>0 DEF InBudget
  <2>10. InBudget(k)'
    BY <1>0, <1>2, <2>2, <2>5, <2>6, <2>7, <2>8, <2>9 DEF InBudget
  <2>11. \A j \in Keys \ {k} : InBudget(j)'
    BY <1>0, <1>2, <2>2, <2>4, BudgetKept
  <2> QED BY <2>10, <2>11 DEF ClaimBudget
<1>3. CASE /\ \A k \in Keys : record'[k].claims = record[k].claims
           /\ \A k \in Keys : Len(links'[k]) = Len(links[k])
           /\ ~ \E w \in Workers, k \in Keys : prepare_and_claim(w, k)
  BY <1>3, <1>c DEF ClaimBudget
<1> QED BY <1>0, <1>1, <1>2, <1>3 DEF CountsMove

\* At the start nobody may open anything.
LEMMA BudgetInit ==
  ASSUME Init
  PROVE  ClaimBudget
<1>1. \A k \in Keys : MayOpen(k) = {}
  BY DEF Init, MayOpen, Idle
<1>2. \A k \in Keys : links[k] = <<>> /\ record[k].claims = 0
  BY DEF Init, NoRecord
<1>3. \A k \in Keys : IsFiniteSet(MayOpen(k)) /\ Cardinality(MayOpen(k)) = 0
  BY <1>1, FS_EmptySet
<1>4. \A k \in Keys : InBudget(k)
  BY <1>2, <1>3 DEF InBudget
<1> QED BY <1>4 DEF ClaimBudget

-----------------------------------------------------------------------------
(* Execution implements its mandate.                                       *)

\* The phase tells the states apart in which the case may be acted upon, waits and is
\* closed, before and after a step.
LEMMA PhaseCases ==
  /\ Phase \in {"open", "waiting", "closed"}
  /\ Phase = "waiting" <=> pcase.state = "WAITING_FOR_OUTCOME"
  /\ Phase = "closed" <=> pcase.state \in TERMINAL_CASE_STATES
  /\ Phase' \in {"open", "waiting", "closed"}
  /\ Phase' = "waiting" <=> pcase'.state = "WAITING_FOR_OUTCOME"
  /\ Phase' = "closed" <=> pcase'.state \in TERMINAL_CASE_STATES
BY DEF Phase, TERMINAL_CASE_STATES

\* A validated case is open.
LEMMA ValidatedIsOpen == pcase.state \in {"DECISIONED", "POLICY_VALIDATED"} => Phase = "open"
BY PhaseCases DEF TERMINAL_CASE_STATES

\* Authority rests on decisions and approvals alone.
LEMMA AuthorityKept ==
  ASSUME UNCHANGED <<decisions, approval>>
  PROVE  Authority' = Authority
BY DEF Authority, is_execution_permitted, IsCurrent

\* What the mandate sees of claims and links is unchanged.
SameCounts ==
  /\ UNCHANGED [k \in Keys |-> record[k].claims]
  /\ UNCHANGED [k \in Keys |-> Len(links[k])]

\* Policy, approval and their environment decide, or close the case, or do nothing.
LEMMA AuthMandate ==
  ASSUME TypeOK, OneDecisionInForce', AuthNext, UNCHANGED execVars
  PROVE  [Mandate!Next]_(Mandate!mandateVars)
<1>0. AuthTypeOK /\ CaseMoves /\ SameCounts /\ UNCHANGED succeeded
  BY AuthCaseMoves DEF TypeOK, execVars, SameCounts
<1>1. CASE Phase = "open"
  <2>1. Authority' \in {{}} \cup {{k} : k \in Keys}
    <3>1. \A j, k \in Authority' : j \in Keys /\ j = k
      BY DEF Authority, is_execution_permitted, OneDecisionInForce
    <3>2. Authority' = {} \/ \E k \in Keys : Authority' = {k}
      BY <3>1
    <3> QED BY <3>2
  <2>2. Phase' \in {"open", "closed"}
    BY <1>0, <1>1, AuthTargets, PhaseCases DEF TERMINAL_CASE_STATES
  <2>3. Mandate!Decide
    BY <1>0, <1>1, <2>1, <2>2 DEF Mandate!Decide, SameCounts
  <2> QED BY <2>3 DEF Mandate!Next
<1>2. CASE Phase # "open"
  <2>1. pcase.state \notin {"DECISIONED", "POLICY_VALIDATED"}
    BY <1>2, ValidatedIsOpen
  <2>2. PICK s \in {"captured", "refunded", "failed"} : reconciled(s)
    BY <2>1 DEF AuthNext, evaluate_policy, ensure_approval_request, decide_approval,
       AwaitsApproval, PolicyEdited, RecoveryWindowPasses, ReconciliationGoesStale, Actionable
  <2>3. pcase.state = "WAITING_FOR_OUTCOME"
    BY <1>2, <2>2, PhaseCases DEF reconciled
  <2>4. pcase'.state \in {"WAITING_FOR_OUTCOME"} \cup TERMINAL_CASE_STATES
    BY <1>0, <2>3 DEF CaseMoves, TERMINAL_CASE_STATES
  <2>5. Authority' = Authority
    BY <2>2, AuthorityKept DEF reconciled
  <2>6. Phase = "waiting" /\ Phase' \in {"waiting", "closed"}
    BY <2>3, <2>4, PhaseCases
  <2>7. CASE Phase' = "waiting"
    BY <1>0, <2>5, <2>6, <2>7 DEF Mandate!mandateVars, SameCounts
  <2>8. CASE Phase' = "closed"
    <3>1. Mandate!Close
      BY <1>0, <2>5, <2>6, <2>8 DEF Mandate!Close, SameCounts
    <3> QED BY <3>1 DEF Mandate!Next
  <2> QED BY <2>6, <2>7, <2>8
<1> QED BY <1>1, <1>2

\* A step that leaves the case, its decisions and the counts alone is invisible.
LEMMA MandateStutters ==
  ASSUME SameCounts, UNCHANGED <<decisions, approval, pcase, succeeded>>
  PROVE  UNCHANGED Mandate!mandateVars
<1>1. Phase' = Phase
  BY DEF Phase
<1> QED BY <1>1, AuthorityKept DEF Mandate!mandateVars, SameCounts

\* A claim is made under authority.
LEMMA ClaimMandate ==
  ASSUME TypeOK, NEW w \in Workers, NEW k \in Keys, prepare_and_claim(w, k)
  PROVE  Mandate!Claim(k)
<1> DEFINE claims == [j \in Keys |-> record[j].claims]
           opened == [j \in Keys |-> Len(links[j])]
<1>0. record \in [Keys -> ActionRecord]
  BY DEF TypeOK
<1>1. /\ pcase.state = "POLICY_VALIDATED" /\ is_execution_permitted(k)
      /\ UNCHANGED <<decisions, approval, pcase, succeeded, links>>
      /\ record'[k].claims = record[k].claims + 1
      /\ \A j \in Keys \ {k} : record'[j].claims = record[j].claims
  BY <1>0 DEF prepare_and_claim, authVars
<1>2. claims' = [claims EXCEPT ![k] = @ + 1] /\ opened' = opened
  BY <1>1
<1>3. /\ Phase = "open" /\ k \in Authority
      /\ Phase' = Phase /\ Authority' = Authority /\ UNCHANGED succeeded
  BY <1>1, ValidatedIsOpen, AuthorityKept DEF Authority, Phase
<1> QED BY <1>2, <1>3 DEF Mandate!Claim

\* A link is opened on a claim that has none yet.
LEMMA OpenMandate ==
  ASSUME TypeOK, ClaimBudget, NEW w \in Workers, create(w),
         links' = [links EXCEPT ![worker[w].key] = Append(@, "created")]
  PROVE  \E k \in Keys : Mandate!Open(k)
<1> DEFINE claims == [j \in Keys |-> record[j].claims]
           opened == [j \in Keys |-> Len(links[j])]
<1>0. /\ links \in [Keys -> Seq(LinkStatus)] /\ worker[w].pc = "absent"
      /\ UNCHANGED <<authVars, record, succeeded>>
  BY CreateCases DEF TypeOK
<1>1. PICK k \in Keys : k = worker[w].key
  BY <1>0 DEF TypeOK
<1>2. w \in MayOpen(k)
  BY <1>0, <1>1 DEF MayOpen
<1>3. Len(links[k]) < record[k].claims
  BY <1>2, BudgetLeft DEF ClaimBudget
<1>4. /\ Len(links'[k]) = Len(links[k]) + 1
      /\ \A j \in Keys \ {k} : Len(links'[j]) = Len(links[j])
  BY <1>0, <1>1
<1>5. opened' = [opened EXCEPT ![k] = @ + 1] /\ claims' = claims
  BY <1>0, <1>4
<1>6. opened[k] < claims[k]
  BY <1>3
<1>7. Phase' = Phase /\ Authority' = Authority /\ UNCHANGED succeeded
  BY <1>0, AuthorityKept DEF authVars, Phase
<1>8. Mandate!Open(k)
  BY <1>5, <1>6, <1>7 DEF Mandate!Open
<1> QED BY <1>8

\* What is counted is permitted, has a link and is the first.
LEMMA CountMandate ==
  ASSUME TypeOK, CountedExactlyOnce, CallersKnow, SameCounts,
         NEW w \in Workers, finalize_external_success(w)
  PROVE  UNCHANGED Mandate!mandateVars \/ \E k \in Keys : Mandate!Count(k)
<1>0. PICK k \in Keys : k = worker[w].key
  BY DEF finalize_external_success, TypeOK
<1>1. CASE ~post_request_context_is_current(k)
  BY <1>0, <1>1, MandateStutters DEF finalize_external_success
<1>2. CASE post_request_context_is_current(k)
  <2>1. /\ pcase.state = "POLICY_VALIDATED" /\ is_execution_permitted(k)
        /\ pcase'.state = "WAITING_FOR_OUTCOME"
        /\ succeeded' = succeeded \cup {k}
        /\ UNCHANGED <<decisions, approval>>
    BY <1>0, <1>2 DEF finalize_external_success, post_request_context_is_current
  <2>2. succeeded = {}
    BY <2>1 DEF CountedExactlyOnce, TERMINAL_CASE_STATES
  <2>3. Len(links[k]) > 0
    <3>1. worker[w].link \in DOMAIN links[k] /\ links[k] \in Seq(LinkStatus)
      BY <1>0 DEF finalize_external_success, CallersKnow, Holding, Exists, TypeOK
    <3> QED BY <3>1
  <2>4. [j \in Keys |-> Len(links[j])][k] > 0
    BY <2>3
  <2>5. /\ Phase = "open" /\ Phase' = "waiting"
        /\ k \in Authority /\ Authority' = Authority
    BY <2>1, ValidatedIsOpen, PhaseCases, AuthorityKept DEF Authority
  <2>6. Mandate!Count(k)
    BY <2>1, <2>2, <2>4, <2>5 DEF Mandate!Count, SameCounts
  <2> QED BY <2>6
<1> QED BY <1>1, <1>2

\* An internal action waits or closes the case under authority.
LEMMA WaitMandate ==
  ASSUME TypeOK, ClaimBudget, SameCounts, NEW w \in Workers, execute_internal(w)
  PROVE  \/ UNCHANGED Mandate!mandateVars
         \/ Mandate!Close
         \/ \E k \in Keys : Mandate!Wait(k)
<1>0. PICK k \in Keys : k = worker[w].key
  BY DEF execute_internal, TypeOK
<1>1. UNCHANGED <<decisions, approval, succeeded>> /\ worker[w].pc = "claimed"
  BY DEF execute_internal, InternalFrame
<1>2. CASE UNCHANGED pcase
  BY <1>1, <1>2, MandateStutters
<1>3. CASE RunInternal(k) /\ post_request_context_is_current(k)
  <2>1. /\ InternalTarget \in {"WAITING_FOR_OUTCOME"} \cup TERMINAL_CASE_STATES
        /\ InternalTarget \in CaseState
    BY DEF InternalTarget, TERMINAL_CASE_STATES, CaseState
  <2>2. pcase'.state \in {"WAITING_FOR_OUTCOME"} \cup TERMINAL_CASE_STATES
    BY <1>3, <2>1, MoveCaseType DEF RunInternal, TypeOK
  <2>3. pcase.state = "POLICY_VALIDATED" /\ is_execution_permitted(k)
    BY <1>3 DEF post_request_context_is_current
  <2>4. /\ Phase = "open" /\ Phase' \in {"waiting", "closed"}
        /\ k \in Authority /\ Authority' = Authority
    BY <1>1, <2>2, <2>3, ValidatedIsOpen, PhaseCases, AuthorityKept DEF Authority
  <2>5. w \in MayOpen(k)
    BY <1>0, <1>1 DEF MayOpen
  <2>6. record[k].claims > 0
    <3>1. Len(links[k]) < record[k].claims /\ Len(links[k]) \in Nat /\ record[k].claims \in Nat
      BY <2>5, BudgetLeft DEF ClaimBudget, TypeOK, ActionRecord
    <3> QED BY <3>1
  <2>7. [j \in Keys |-> record[j].claims][k] > 0
    BY <2>6
  <2>8. CASE Phase' = "waiting"
    <3>1. Mandate!Wait(k)
      BY <1>1, <2>4, <2>7, <2>8 DEF Mandate!Wait, SameCounts
    <3> QED BY <3>1
  <2>9. CASE Phase' = "closed"
    <3>1. Mandate!Close
      BY <1>1, <2>4, <2>9 DEF Mandate!Close, SameCounts
    <3> QED BY <3>1
  <2> QED BY <2>4, <2>8, <2>9
<1> QED BY <1>0, <1>2, <1>3 DEF execute_internal, CancelStale

\* Every step of the executor is a step of its mandate or invisible to it.
LEMMA MandateStep ==
  ASSUME TypeOK, OneDecisionInForce', CountedExactlyOnce, CallersKnow, ClaimBudget, [Next]_vars
  PROVE  [Mandate!Next]_(Mandate!mandateVars)
<1>0. CountsMove
  BY CountsStep
<1>1. ASSUME NEW w \in Workers, NEW k \in Keys, prepare_and_claim(w, k)
      PROVE  Mandate!Next
  BY <1>1, ClaimMandate DEF Mandate!Next
<1>2. ASSUME NEW w \in Workers, create(w),
             links' = [links EXCEPT ![worker[w].key] = Append(@, "created")]
      PROVE  Mandate!Next
  BY <1>2, OpenMandate DEF Mandate!Next
<1>3. CASE /\ \A k \in Keys : record'[k].claims = record[k].claims
           /\ \A k \in Keys : Len(links'[k]) = Len(links[k])
  <2>0. SameCounts
    BY <1>3 DEF SameCounts
  <2>1. CASE AuthNext /\ UNCHANGED execVars
    BY <2>1, AuthMandate
  <2>2. ASSUME NEW w \in Workers, finalize_external_success(w)
        PROVE  [Mandate!Next]_(Mandate!mandateVars)
    BY <2>0, <2>2, CountMandate DEF Mandate!Next
  <2>3. ASSUME NEW w \in Workers, execute_internal(w)
        PROVE  [Mandate!Next]_(Mandate!mandateVars)
    BY <2>0, <2>3, WaitMandate DEF Mandate!Next
  <2>4. CASE UNCHANGED <<authVars, succeeded>>
    BY <2>0, <2>4, MandateStutters DEF authVars
  <2> QED BY <2>1, <2>2, <2>3, <2>4
          DEF Next, prepare_and_claim, WorkerStep, crash, lookup_by_reference, create, cancel,
              finalize_provider_problem, finalize_compensation, Tick, LinkCloses, vars,
              execVars
<1> QED BY <1>0, <1>1, <1>2, <1>3 DEF CountsMove

\* Execution implements its mandate (ExecutesUnderMandate), for any number of callers
\* that overlap, crash and take over from each other and at either kind of provider:
\* claims need the decision in force, a claim opens one link at most, and what is
\* counted is one permitted action with a link, in an open case.
THEOREM ImplementsMandate == Spec => ExecutesUnderMandate
<1>1. Init => Mandate!Init
  <2> SUFFICES ASSUME Init PROVE Mandate!Init
    OBVIOUS
  <2>1. Phase = "open"
    BY PhaseCases DEF Init, AuthInit, TERMINAL_CASE_STATES
  <2>2. Authority = {}
    BY DEF Init, AuthInit, Authority, is_execution_permitted, IsCurrent, NoDecision
  <2>3. /\ [k \in Keys |-> record[k].claims] = [k \in Keys |-> 0]
        /\ [k \in Keys |-> Len(links[k])] = [k \in Keys |-> 0]
        /\ succeeded = {}
    BY DEF Init, NoRecord
  <2> QED BY <2>1, <2>2, <2>3 DEF Mandate!Init
<1> QED BY <1>1, MandateStep, TurnInit, CallersKnowStep, BudgetInit, BudgetStep,
           OneDecisionHolds, CountedExactlyOnceHolds, TypeCorrect, PTL
        DEF Spec, ExecutesUnderMandate, Mandate!Spec
=============================================================================
