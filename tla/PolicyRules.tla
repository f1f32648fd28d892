----------------------------- MODULE PolicyRules -----------------------------
(***************************************************************************)
(* The deterministic merchant-authorization rules of                       *)
(* arc/policy/authorization.py, as an ordered table, and where each result *)
(* sends the case (arc/policy/service.py).  A configuration keeps the      *)
(* fields the rules compare; an action or failure category on one of the   *)
(* merchant's lists is a Boolean.                                          *)
(***************************************************************************)
EXTENDS Naturals, Sequences

SAFE_INTERNAL_ACTIONS       == {"NO_ACTION", "WAIT", "ESCALATE_TO_HUMAN"}
AUTOMATED_RECOVERY_ACTIONS  == {"REQUEST_RETRY", "CREATE_RECOVERY_LINK",
                                "REQUEST_PAYMENT_METHOD_UPDATE"}
CUSTOMER_CONTACT_ACTIONS    == {"CREATE_RECOVERY_LINK", "REQUEST_PAYMENT_METHOD_UPDATE"}
RecoveryAction              == SAFE_INTERNAL_ACTIONS \cup AUTOMATED_RECOVERY_ACTIONS

PolicyDecisionResult == {"AUTHORIZED", "REQUIRES_APPROVAL", "BLOCKED"}

HARD_STOP_REASONS ==
  {"MAX_AUTOMATED_ATTEMPTS_REACHED", "MAX_CUSTOMER_CONTACTS_REACHED",
   "RECOVERY_WINDOW_EXPIRED", "STOPPING_RULE_FAILURE_CATEGORY",
   "STOPPING_RULE_PAYMENT_METHOD"}

PolicyReason ==
  HARD_STOP_REASONS \cup
  {"SAFE_INTERNAL", "POLICY_NOT_CONFIGURED", "POLICY_CONFIGURATION_INVALID",
   "ACTION_NOT_ALLOWED_BY_POLICY", "RECOVERY_WINDOW_NOT_CONFIGURED",
   "POLICY_AMOUNT_CONTEXT_MISSING", "STOPPING_RULE_REQUIRES_APPROVAL",
   "AMOUNT_REQUIRES_HUMAN_APPROVAL", "AUTOMATION_DISABLED_REQUIRES_APPROVAL",
   "POLICY_AUTHORIZED"}

\* An optional number is a set of at most one number.
PolicyConfiguration ==
  [present : BOOLEAN, valid : BOOLEAN, allowed : BOOLEAN, blocked_category : BOOLEAN,
   blocked_method : BOOLEAN, window : BOOLEAN, max_automated_attempts : Nat,
   max_contact_attempts : Nat, approval_action : BOOLEAN,
   require_approval_above : SUBSET Nat, automation_enabled : BOOLEAN]

AuthorizationFacts ==
  [action : RecoveryAction, amount : SUBSET Nat, attempts : Nat, contacts : Nat,
   windowPassed : BOOLEAN]

-----------------------------------------------------------------------------
Rule(when, result, reason) == [when |-> when, result |-> result, reason |-> reason]

\* (mutant) the maximum itself is still allowed
attempts_exceeded(f, c) == f.attempts > c.max_automated_attempts

AttemptsReached(f, c) == f.attempts >= c.max_automated_attempts

\* The rules in the order of the early returns of evaluate_authorization.
Rules(f, c) ==
  << Rule(f.action \in SAFE_INTERNAL_ACTIONS, "AUTHORIZED", "SAFE_INTERNAL"),
     Rule(~c.present, "BLOCKED", "POLICY_NOT_CONFIGURED"),
     Rule(~c.valid, "BLOCKED", "POLICY_CONFIGURATION_INVALID"),
     Rule(~c.allowed, "BLOCKED", "ACTION_NOT_ALLOWED_BY_POLICY"),
     Rule(c.blocked_category, "BLOCKED", "STOPPING_RULE_FAILURE_CATEGORY"),
     Rule(c.blocked_method, "BLOCKED", "STOPPING_RULE_PAYMENT_METHOD"),
     Rule(~c.window, "BLOCKED", "RECOVERY_WINDOW_NOT_CONFIGURED"),
     Rule(f.windowPassed, "BLOCKED", "RECOVERY_WINDOW_EXPIRED"),
     Rule(AttemptsReached(f, c), "BLOCKED", "MAX_AUTOMATED_ATTEMPTS_REACHED"),
     Rule(f.action \in CUSTOMER_CONTACT_ACTIONS /\ f.contacts >= c.max_contact_attempts,
          "BLOCKED", "MAX_CUSTOMER_CONTACTS_REACHED"),
     Rule(f.amount = {}, "BLOCKED", "POLICY_AMOUNT_CONTEXT_MISSING"),
     Rule(c.approval_action, "REQUIRES_APPROVAL", "STOPPING_RULE_REQUIRES_APPROVAL"),
     Rule(\E t \in c.require_approval_above : \E a \in f.amount : a >= t,
          "REQUIRES_APPROVAL", "AMOUNT_REQUIRES_HUMAN_APPROVAL"),
     Rule(~c.automation_enabled, "REQUIRES_APPROVAL", "AUTOMATION_DISABLED_REQUIRES_APPROVAL"),
     Rule(TRUE, "AUTHORIZED", "POLICY_AUTHORIZED") >>

evaluate_authorization(f, c) ==
  LET rules == Rules(f, c)
      first == CHOOSE i \in DOMAIN rules :
                 rules[i].when /\ \A j \in 1..(i - 1) : ~rules[j].when
  IN  [result |-> rules[first].result, reason |-> rules[first].reason]

\* _apply_policy_transition
PolicyTarget(evaluation) ==
  CASE evaluation.result \in {"AUTHORIZED", "REQUIRES_APPROVAL"} -> "POLICY_VALIDATED"
    [] evaluation.result = "BLOCKED" /\ evaluation.reason \in HARD_STOP_REASONS -> "EXHAUSTED"
    [] OTHER -> "ESCALATED"
=============================================================================
