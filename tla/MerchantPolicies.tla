--------------------------- MODULE MerchantPolicies ---------------------------
(***************************************************************************)
(* The merchant_policies row and its validation, arc/policy/schemas.py.    *)
(* Its lists are JSON columns: the database accepts anything there, so     *)
(* validate_policy stands between a malformed row and automated recovery.  *)
(*                                                                         *)
(* A JSON value is an array or something else, and the set of its members. *)
(* One member stands for each kind the code tells apart: a string that is  *)
(* no known name, a blank one and a value that is no string at all.        *)
(***************************************************************************)
EXTENDS AssessmentRules, FiniteSets

Strange == {"unknown_name", "blank", "not_a_string"}

\* A method is written in any case and with any space around it; "Card" stands for those
\* that are not written as they are compared.
PaymentMethods == {"card", "Card", "upi"}

List(names) == [array : BOOLEAN, members : SUBSET (names \cup Strange)]

Array(members) == [array |-> TRUE, members |-> members]

StoppingRules ==
  [object : BOOLEAN, extra : BOOLEAN, blocked_failure_categories : List(FailureCategories),
   blocked_payment_methods : List(PaymentMethods),
   require_approval_actions : List(RecoveryAction)]

MerchantPolicy ==
  [automation_enabled : BOOLEAN, allowed_actions : List(RecoveryAction),
   max_automated_attempts : Int, max_contact_attempts : Int, recovery_window_minutes : Int,
   high_value_threshold_minor : Int, require_approval_above_minor : SUBSET Int,
   stopping_rules : StoppingRules]

\* (mutant) what is not a string is skipped
validate_actions_skipping(list) ==
  list.array /\ list.members \ {"not_a_string"} \subseteq RecoveryAction

\* Values that are no strings are dropped first, and then missed by their number.
validate_actions(list) ==
  LET strings == list.members \ {"not_a_string"}
  IN  /\ list.array
      /\ strings \subseteq RecoveryAction
      /\ Cardinality(strings) = Cardinality(list.members)

\* StoppingRules.model_validate: no unknown key, arrays of known names or non-blank strings.
validate_stopping_rules(s) ==
  /\ s.object /\ ~s.extra
  /\ s.blocked_failure_categories.array /\ s.blocked_payment_methods.array
  /\ s.require_approval_actions.array
  /\ s.blocked_failure_categories.members \subseteq FailureCategories
  /\ s.require_approval_actions.members \subseteq RecoveryAction
  /\ s.blocked_payment_methods.members \cap {"blank", "not_a_string"} = {}

validate_policy(p) ==
  /\ validate_actions(p.allowed_actions)
  /\ p.max_automated_attempts >= 0 /\ p.max_contact_attempts >= 0
  /\ p.recovery_window_minutes >= 0 /\ p.high_value_threshold_minor >= 0
  /\ \A t \in p.require_approval_above_minor : t >= 0
  /\ validate_stopping_rules(p.stopping_rules)

\* normalize_payment_methods, and evaluate_authorization for the method of a case.
normalized(method) == IF method = "Card" THEN "card" ELSE method

\* The configuration as the rules see it for a proposal.  Without one, what its other
\* fields hold does not matter.
configuration(p, action, category, method) ==
  [present |-> TRUE, valid |-> validate_policy(p),
   allowed |-> action \in p.allowed_actions.members,
   blocked_category |-> category \in p.stopping_rules.blocked_failure_categories.members,
   blocked_method |-> normalized(method) \in
     {normalized(m) : m \in p.stopping_rules.blocked_payment_methods.members},
   window |-> p.recovery_window_minutes > 0,
   max_automated_attempts |-> p.max_automated_attempts,
   max_contact_attempts |-> p.max_contact_attempts,
   approval_action |-> action \in p.stopping_rules.require_approval_actions.members,
   require_approval_above |-> p.require_approval_above_minor,
   automation_enabled |-> p.automation_enabled]
=============================================================================
