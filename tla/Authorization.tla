---------------------------- MODULE Authorization ----------------------------
(***************************************************************************)
(* Authority over one recovery case: merchant policy evaluation            *)
(* (arc/policy/service.py, arc/policy/current.py) and human approval       *)
(* (arc/approval/service.py), each operation one transaction under the     *)
(* case row lock, beside everything that changes under them: the merchant  *)
(* edits the policy, the recovery window passes, the case is reconciled    *)
(* again.                                                                  *)
(*                                                                         *)
(* The case starts DECISIONED with a current strategy proposal.  A         *)
(* POLICY_VALIDATED case never gets a second proposal, so the proposal is  *)
(* fixed and only its currency changes.                                    *)
(***************************************************************************)
EXTENDS CaseStates, PolicyRules

CONSTANTS
  Actions,        \* the actions the proposal may have
  Amounts,        \* the amounts the case may have ({} for a subscription case)
  Policies,       \* versions of the merchant policy
  Configuration   \* policy version -> its PolicyConfiguration

ASSUME ProposalAssumption == Actions \subseteq RecoveryAction /\ Amounts \subseteq SUBSET Nat
ASSUME PoliciesAssumption == \A p \in Policies : Configuration[p] \in PolicyConfiguration

VARIABLES
  pcase,      \* payment_cases row: [state, attempts, contacts, amount]
  action,     \* the proposal's action
  valid,      \* does the proposal still match eligibility and diagnosis?
  policy,     \* the merchant_policies row
  passed,     \* policy versions whose recovery window has passed
  decisions,  \* policy_decisions: authorization fingerprint -> row
  approval    \* approval_requests: authorization fingerprint -> status

authVars == <<pcase, action, valid, policy, passed, decisions, approval>>

-----------------------------------------------------------------------------
\* The authorization-input fingerprint of this case and proposal: counters and
\* amount are fixed until the case is actioned, so the policy version and the
\* window are what tells two inputs apart.
Keys == [policy : Policies, expired : BOOLEAN]

ApprovalStatus == {"PENDING", "APPROVED", "REJECTED"}

NoDecision == [result |-> "NONE", reason |-> "NONE", superseded |-> FALSE]

DecisionRow ==
  [result : PolicyDecisionResult \cup {"NONE"}, reason : PolicyReason \cup {"NONE"},
   superseded : BOOLEAN]

PaymentCase == [state : CaseState, attempts : Nat, contacts : Nat, amount : Amounts]

AuthTypeOK ==
  /\ pcase \in PaymentCase
  /\ action \in Actions
  /\ valid \in BOOLEAN
  /\ policy \in Policies
  /\ passed \subseteq Policies
  /\ decisions \in [Keys -> DecisionRow]
  /\ approval \in [Keys -> ApprovalStatus \cup {"none"}]

AuthInit ==
  /\ pcase \in [state : {"DECISIONED"}, attempts : {0}, contacts : {0}, amount : Amounts]
  /\ action \in Actions
  /\ valid = TRUE
  /\ policy \in Policies
  /\ passed = {}
  /\ decisions = [k \in Keys |-> NoDecision]
  /\ approval = [k \in Keys |-> "none"]

-----------------------------------------------------------------------------
\* recompute_current_authorization_inputs
Evaluation ==
  evaluate_authorization([action |-> action, amount |-> pcase.amount,
                          attempts |-> pcase.attempts, contacts |-> pcase.contacts,
                          windowPassed |-> policy \in passed],
                         Configuration[policy])

CurrentKey ==
  [policy |-> policy, expired |-> Evaluation.reason = "RECOVERY_WINDOW_EXPIRED"]

IsCurrent(k) == decisions[k].result # "NONE" /\ ~decisions[k].superseded

\* The row that comes into force: the one already stored for these inputs, else a
\* new one.
NextDecision ==
  IF decisions[CurrentKey].result # "NONE"
    THEN [result |-> decisions[CurrentKey].result, reason |-> decisions[CurrentKey].reason,
          superseded |-> FALSE]
    ELSE [result |-> Evaluation.result, reason |-> Evaluation.reason, superseded |-> FALSE]

SupersededRow(row) ==
  [result |-> row.result, reason |-> row.reason, superseded |-> row.result # "NONE"]

MoveCase(state) == pcase' = [pcase EXCEPT !.state = state]

\* (mutant) a new decision leaves the old one in force
evaluate_policy_keeps_old ==
  /\ pcase.state \in {"DECISIONED", "POLICY_VALIDATED"}
  /\ valid
  /\ ~IsCurrent(CurrentKey)
  /\ decisions' = [decisions EXCEPT ![CurrentKey] = NextDecision]
  /\ MoveCase(PolicyTarget(NextDecision))
  /\ UNCHANGED <<action, valid, policy, passed, approval>>

\* evaluate_policy.  The current decision is superseded by a new one, or by an
\* older one with the same inputs, which comes back into force.
evaluate_policy ==
  /\ pcase.state \in {"DECISIONED", "POLICY_VALIDATED"}
  /\ valid
  /\ ~IsCurrent(CurrentKey)
  /\ decisions' = [k \in Keys |-> IF k = CurrentKey THEN NextDecision
                                                   ELSE SupersededRow(decisions[k])]
  /\ MoveCase(PolicyTarget(NextDecision))
  /\ UNCHANGED <<action, valid, policy, passed, approval>>

\* _validate_current_approval_context
AwaitsApproval(k) ==
  /\ pcase.state = "POLICY_VALIDATED"
  /\ IsCurrent(k)
  /\ decisions[k].result = "REQUIRES_APPROVAL"

ensure_approval_request(k) ==
  /\ AwaitsApproval(k)
  /\ approval[k] = "none"
  /\ approval' = [approval EXCEPT ![k] = "PENDING"]
  /\ UNCHANGED <<pcase, action, valid, policy, passed, decisions>>

decide_approval(k, d) ==
  /\ approval[k] = "PENDING"
  /\ AwaitsApproval(k)
  /\ approval' = [approval EXCEPT ![k] = d]
  /\ MoveCase(IF d = "REJECTED" THEN "ESCALATED" ELSE pcase.state)
  /\ UNCHANGED <<action, valid, policy, passed, decisions>>

\* is_execution_permitted
is_execution_permitted(k) ==
  /\ IsCurrent(k)
  /\ \/ decisions[k].result = "AUTHORIZED"
     \/ decisions[k].result = "REQUIRES_APPROVAL" /\ approval[k] = "APPROVED"

-----------------------------------------------------------------------------
(* What happens around the authority.                                       *)

\* Policy, window and freshness are read only while the case may still be acted
\* upon; what happens to them later is left out.
Actionable == pcase.state \in {"DECISIONED", "POLICY_VALIDATED"}

\* The merchant edits the policy row.
PolicyEdited ==
  /\ Actionable
  /\ policy' \in Policies \ {policy}
  /\ UNCHANGED <<pcase, action, valid, passed, decisions, approval>>

RecoveryWindowPasses(p) ==
  /\ Actionable
  /\ passed' = passed \cup {p}
  /\ p \notin passed
  /\ UNCHANGED <<pcase, action, valid, policy, decisions, approval>>

\* The reconciliation the proposal rests on leaves the 300-second freshness
\* window.  The proposal never becomes current again: a new reconciliation
\* changes the fingerprint it was made for.
ReconciliationGoesStale ==
  /\ Actionable
  /\ valid
  /\ valid' = FALSE
  /\ UNCHANGED <<pcase, action, policy, passed, decisions, approval>>

\* A webhook about the case is reconciled: last_reconciled_at moves, and a capture
\* or refund closes the case.
reconciled(status) ==
  /\ pcase.state \notin TERMINAL_CASE_STATES
  /\ valid' = FALSE
  /\ MoveCase(CASE status = "captured" -> "RECOVERED"
                [] status = "refunded" -> "EXHAUSTED"
                [] OTHER               -> pcase.state)
  /\ UNCHANGED <<action, policy, passed, decisions, approval>>

AuthNext ==
  \/ evaluate_policy
  \/ \E k \in Keys : ensure_approval_request(k)
  \/ \E k \in Keys, d \in {"APPROVED", "REJECTED"} : decide_approval(k, d)
  \/ PolicyEdited
  \/ \E p \in Policies : RecoveryWindowPasses(p)
  \/ ReconciliationGoesStale
  \/ \E s \in {"captured", "refunded", "failed"} : reconciled(s)

-----------------------------------------------------------------------------
(* Properties.                                                              *)

\* At most one decision is in force at any time, whatever the order of policy
\* edits and evaluations, reactivated decisions included; and none is in force
\* before the first evaluation.
OneDecisionInForce ==
  /\ \A j, k \in Keys : IsCurrent(j) /\ IsCurrent(k) => j = k
  /\ pcase.state = "POLICY_VALIDATED" =>
       \E k \in Keys : IsCurrent(k) /\ decisions[k].result # "BLOCKED"
=============================================================================
