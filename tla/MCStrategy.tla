----------------------------- MODULE MCStrategy -----------------------------
(* An instance of Strategy, with the rule checks, for TLC.                  *)
EXTENDS RuleChecks, TLC

CONSTANTS w1, w2, m1, m2, noModel

\* What the provider reports: a failure for the model, one for the rules, a capture, a
\* subscription before and after its retries end.
Payment(status, reason, source) ==
  [payment_id |-> TRUE, subscription_id |-> FALSE, payment_status |-> status,
   subscription_status |-> "none", error_reason |-> reason, error_source |-> source,
   error_step |-> "none"]
Subscription(status) ==
  [payment_id |-> FALSE, subscription_id |-> TRUE, payment_status |-> "none",
   subscription_status |-> status, error_reason |-> "none", error_source |-> "none",
   error_step |-> "none"]
Reports == {Payment("failed", "insufficient_funds", "customer"),
            Payment("failed", "none", "business"), Payment("captured", "none", "none"),
            Subscription("pending"), Subscription("halted")}

Permissive ==
  [present |-> TRUE, valid |-> TRUE, allowed |-> TRUE, blocked_category |-> FALSE,
   blocked_method |-> FALSE, window |-> TRUE, max_automated_attempts |-> 1,
   max_contact_attempts |-> 1, approval_action |-> FALSE, require_approval_above |-> {},
   automation_enabled |-> TRUE]
\* The merchant may also have no policy yet.
OpenOrAbsent == {Permissive, [Permissive EXCEPT !.present = FALSE]}
=============================================================================
