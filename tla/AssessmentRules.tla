--------------------------- MODULE AssessmentRules ---------------------------
(***************************************************************************)
(* The deterministic rules between reconciliation and policy: whether a    *)
(* reconciled case may be reasoned about (arc/policy/eligibility.py), what *)
(* made the payment fail (arc/diagnosis/failure_classifier.py) and which   *)
(* recovery actions fit that diagnosis                                     *)
(* (arc/intelligence/compatibility.py).                                    *)
(*                                                                         *)
(* The facts of a case are the columns the rules read: its two identities  *)
(* (present or not), the two provider statuses and the structured error,   *)
(* each "none" when the column is NULL or blank after normalisation.       *)
(* Codes that depend on nothing but the rule that fired are left out of a  *)
(* diagnosis, and so are explanations.                                     *)
(***************************************************************************)
EXTENDS CaseStates, PolicyRules, Integers

EligibilityDecision == {"ELIGIBLE", "WAIT", "STOP", "REVIEW"}

EligibilityReason ==
  {"STOP_ALREADY_RECOVERED", "STOP_ALREADY_EXHAUSTED", "STOP_ALREADY_ESCALATED",
   "CASE_IDENTITY_MISSING", "RECONCILIATION_REQUIRED", "MALFORMED_RECONCILIATION_TIMESTAMP",
   "RECONCILIATION_TIMESTAMP_IN_FUTURE", "RECONCILIATION_STALE",
   "CONFLICTING_EXTERNAL_STATUSES", "AUTHORITATIVE_STATUS_MISSING",
   "PAYMENT_IDENTITY_MISSING", "SUBSCRIPTION_IDENTITY_MISSING", "CONFLICTING_CASE_IDENTITY",
   "CASE_STATE_NOT_RECONCILED", "PAYMENT_ALREADY_CAPTURED", "PAYMENT_REFUNDED",
   "PAYMENT_NOT_FINAL", "PAYMENT_FAILURE_CONFIRMED", "UNRECOGNIZED_PAYMENT_STATUS",
   "PLATFORM_RETRY_ACTIVE", "SUBSCRIPTION_RETRIES_EXHAUSTED", "SUBSCRIPTION_ACTIVE",
   "SUBSCRIPTION_PAUSED", "SUBSCRIPTION_NOT_RECOVERY_READY", "SUBSCRIPTION_TERMINAL",
   "UNRECOGNIZED_SUBSCRIPTION_STATUS"}

Verdict(decision, reason) == [decision |-> decision, reason |-> reason]

\* (mutant) a failure that was never reconciled into a case is good enough
payment_verdict_of_detected(st, status) ==
  CASE status = "captured"                  -> Verdict("STOP", "PAYMENT_ALREADY_CAPTURED")
    [] status = "refunded"                  -> Verdict("STOP", "PAYMENT_REFUNDED")
    [] status \in {"created", "authorized"} -> Verdict("WAIT", "PAYMENT_NOT_FINAL")
    [] status = "failed"                    -> Verdict("ELIGIBLE", "PAYMENT_FAILURE_CONFIRMED")
    [] OTHER                                -> Verdict("REVIEW", "UNRECOGNIZED_PAYMENT_STATUS")

assess_payment_status(st, status) ==
  CASE status = "captured"                       -> Verdict("STOP", "PAYMENT_ALREADY_CAPTURED")
    [] status = "refunded"                       -> Verdict("STOP", "PAYMENT_REFUNDED")
    [] status \in {"created", "authorized"}      -> Verdict("WAIT", "PAYMENT_NOT_FINAL")
    [] status = "failed" /\ st = "DETECTED"   -> Verdict("REVIEW", "CASE_STATE_NOT_RECONCILED")
    [] status = "failed" /\ st # "DETECTED"   -> Verdict("ELIGIBLE", "PAYMENT_FAILURE_CONFIRMED")
    [] OTHER                                     -> Verdict("REVIEW", "UNRECOGNIZED_PAYMENT_STATUS")

assess_subscription_status(st, status) ==
  CASE status = "pending"                         -> Verdict("WAIT", "PLATFORM_RETRY_ACTIVE")
    [] status = "halted" /\ st = "DETECTED"    -> Verdict("REVIEW", "CASE_STATE_NOT_RECONCILED")
    [] status = "halted" /\ st # "DETECTED"    -> Verdict("ELIGIBLE", "SUBSCRIPTION_RETRIES_EXHAUSTED")
    [] status = "active"                          -> Verdict("STOP", "SUBSCRIPTION_ACTIVE")
    [] status = "paused"                          -> Verdict("WAIT", "SUBSCRIPTION_PAUSED")
    [] status \in {"created", "authenticated"}    -> Verdict("WAIT", "SUBSCRIPTION_NOT_RECOVERY_READY")
    [] status \in {"cancelled", "completed", "expired"} -> Verdict("STOP", "SUBSCRIPTION_TERMINAL")
    [] OTHER                                      -> Verdict("REVIEW", "UNRECOGNIZED_SUBSCRIPTION_STATUS")

StatusVerdict(st, f) ==
  IF f.payment_status # "none"
    THEN assess_payment_status(st, f.payment_status)
    ELSE assess_subscription_status(st, f.subscription_status)

TerminalReason(st) ==
  CASE st = "RECOVERED" -> "STOP_ALREADY_RECOVERED"
    [] st = "EXHAUSTED" -> "STOP_ALREADY_EXHAUSTED"
    [] OTHER               -> "STOP_ALREADY_ESCALATED"

\* (mutant) the window is open at its far end
StaleAtBoundary(elapsed, freshness) == elapsed > freshness + 1

\* The reconciliation is outside the freshness window (300 seconds).
Stale(elapsed, freshness) == elapsed > freshness

\* The early returns of assess_eligibility, in order.  stamp tells whether
\* last_reconciled_at is missing, has no time zone or is a proper instant; elapsed is the
\* time since, negative when it lies in the future.
EligibilityRules(st, f, stamp, elapsed, freshness) ==
  << Rule(st \in TERMINAL_CASE_STATES, "STOP", TerminalReason(st)),
     Rule(~f.payment_id /\ ~f.subscription_id, "REVIEW", "CASE_IDENTITY_MISSING"),
     Rule(stamp = "missing", "WAIT", "RECONCILIATION_REQUIRED"),
     Rule(stamp = "naive", "REVIEW", "MALFORMED_RECONCILIATION_TIMESTAMP"),
     Rule(elapsed < 0, "REVIEW", "RECONCILIATION_TIMESTAMP_IN_FUTURE"),
     Rule(Stale(elapsed, freshness), "WAIT", "RECONCILIATION_STALE"),
     Rule(f.payment_status # "none" /\ f.subscription_status # "none",
          "REVIEW", "CONFLICTING_EXTERNAL_STATUSES"),
     Rule(f.payment_status = "none" /\ f.subscription_status = "none",
          "REVIEW", "AUTHORITATIVE_STATUS_MISSING"),
     Rule(f.payment_status # "none" /\ ~f.payment_id, "REVIEW", "PAYMENT_IDENTITY_MISSING"),
     Rule(f.subscription_status # "none" /\ ~f.subscription_id,
          "REVIEW", "SUBSCRIPTION_IDENTITY_MISSING"),
     Rule(f.subscription_status # "none" /\ f.payment_id,
          "REVIEW", "CONFLICTING_CASE_IDENTITY"),
     Rule(TRUE, StatusVerdict(st, f).decision, StatusVerdict(st, f).reason) >>

assess_eligibility(st, f, stamp, elapsed, freshness) ==
  LET rules == EligibilityRules(st, f, stamp, elapsed, freshness)
      first == CHOOSE i \in DOMAIN rules :
                 rules[i].when /\ \A j \in 1..(i - 1) : ~rules[j].when
  IN  Verdict(rules[first].result, rules[first].reason)

\* (mutant) when the facts were read is no part of them
fingerprint_without_time(st, f) ==
  [terminal_case_state |-> IF st \in TERMINAL_CASE_STATES THEN st ELSE "none",
   facts |-> [f EXCEPT !.last_reconciled_at = 1]]

\* build_assessment_fingerprint: what an assessment was made of.  An open state is not
\* part of it, nor is the freshness, which changes by itself.
build_assessment_fingerprint(st, f) ==
  [terminal_case_state |-> IF st \in TERMINAL_CASE_STATES THEN st ELSE "none",
   facts |-> f]

-----------------------------------------------------------------------------
(* Diagnosis.                                                               *)

FailureCategories ==
  {"CUSTOMER_AUTHENTICATION", "CUSTOMER_FUNDS", "CUSTOMER_INTERRUPTION",
   "CUSTOMER_OR_INSTRUMENT_RESTRICTION", "BANK_OR_ISSUER", "GATEWAY_OR_NETWORK",
   "MERCHANT_CONFIGURATION", "RAZORPAY_OR_PLATFORM", "SUBSCRIPTION_RETRY_EXHAUSTED", "UNKNOWN"}

\* The three tables of the classifier, "none" where a table has no entry.
REASON_RULES(reason) ==
  CASE reason \in {"incorrect_otp", "invalid_otp", "otp_expired", "otp_attempts_exceeded"}
         -> "CUSTOMER_AUTHENTICATION"
    [] reason \in {"insufficient_funds"} -> "CUSTOMER_FUNDS"
    [] reason \in {"payment_cancelled", "payment_timed_out", "payment_collect_request_expired"}
         -> "CUSTOMER_INTERRUPTION"
    [] reason \in {"transaction_limit_exceeded", "transaction_daily_limit_exceeded",
                   "transaction_frequency_limit_exceeded", "card_not_enrolled",
                   "international_transaction_not_allowed", "invalid_vpa",
                   "user_not_registered_for_netbanking", "transaction_on_vpa_restricted",
                   "user_not_eligible"}
         -> "CUSTOMER_OR_INSTRUMENT_RESTRICTION"
    [] reason \in {"bank_technical_error"} -> "BANK_OR_ISSUER"
    [] reason \in {"gateway_technical_error", "upi_app_technical_error", "verification_failed"}
         -> "GATEWAY_OR_NETWORK"
    [] OTHER -> "none"

SOURCE_RULES(source) ==
  CASE source \in {"customer", "customer_psp"}                -> "UNKNOWN"
    [] source \in {"issuer_bank", "beneficiary_bank", "bank"} -> "BANK_OR_ISSUER"
    [] source \in {"gateway", "network"}                      -> "GATEWAY_OR_NETWORK"
    [] source \in {"business"}                                -> "MERCHANT_CONFIGURATION"
    [] source \in {"razorpay", "internal"}                    -> "RAZORPAY_OR_PLATFORM"
    [] OTHER                                                  -> "none"

STEP_RULES(step) ==
  IF step = "payment_authentication" THEN "CUSTOMER_AUTHENTICATION" ELSE "none"

DISPOSITIONS(category) ==
  CASE category \in {"CUSTOMER_AUTHENTICATION", "CUSTOMER_FUNDS", "CUSTOMER_INTERRUPTION"}
                                                  -> "CUSTOMER_ACTION_REQUIRED"
    [] category = "CUSTOMER_OR_INSTRUMENT_RESTRICTION" -> "ALTERNATE_METHOD_PREFERRED"
    [] category \in {"BANK_OR_ISSUER", "GATEWAY_OR_NETWORK", "RAZORPAY_OR_PLATFORM"}
                                                  -> "RETRY_LATER"
    [] category = "MERCHANT_CONFIGURATION"        -> "MERCHANT_FIX_REQUIRED"
    [] category = "SUBSCRIPTION_RETRY_EXHAUSTED"  -> "RECOVERY_STRATEGY_REQUIRED"
    [] OTHER                                      -> "MANUAL_REVIEW"

\* The strongest evidence decides: a halted subscription, then the error's reason, its
\* source, its step.
FailureCategory(f) ==
  LET found == << IF f.subscription_status = "halted" THEN "SUBSCRIPTION_RETRY_EXHAUSTED"
                                                      ELSE "none",
                  REASON_RULES(f.error_reason), SOURCE_RULES(f.error_source),
                  STEP_RULES(f.error_step), "UNKNOWN" >>
  IN  found[CHOOSE i \in DOMAIN found :
              found[i] # "none" /\ \A j \in 1..(i - 1) : found[j] = "none"]

classify_failure(f) ==
  [failure_category |-> FailureCategory(f),
   recovery_disposition |-> DISPOSITIONS(FailureCategory(f))]

RecoveryDisposition ==
  {"CUSTOMER_ACTION_REQUIRED", "RETRY_LATER", "ALTERNATE_METHOD_PREFERRED",
   "RECOVERY_STRATEGY_REQUIRED", "MANUAL_REVIEW", "MERCHANT_FIX_REQUIRED", "UNKNOWN"}

-----------------------------------------------------------------------------
(* Which actions fit a diagnosis.                                           *)

compatible_actions(disposition) ==
  CASE disposition = "CUSTOMER_ACTION_REQUIRED"   -> RecoveryAction \ {"NO_ACTION"}
    [] disposition = "RETRY_LATER"                -> {"WAIT", "REQUEST_RETRY", "ESCALATE_TO_HUMAN"}
    [] disposition = "ALTERNATE_METHOD_PREFERRED" -> CUSTOMER_CONTACT_ACTIONS \cup {"ESCALATE_TO_HUMAN"}
    [] disposition = "RECOVERY_STRATEGY_REQUIRED" -> AUTOMATED_RECOVERY_ACTIONS \cup {"ESCALATE_TO_HUMAN"}
    [] OTHER                                      -> {"ESCALATE_TO_HUMAN"}

\* (mutant) only an unreadable diagnosis goes past the model
RuledForManualReview(disposition) == disposition = "MANUAL_REVIEW"

\* rule_strategy_for: the dispositions for which ARC proposes ESCALATE_TO_HUMAN itself
\* and no model is asked.
RuleDecides(disposition) ==
  disposition \in {"MANUAL_REVIEW", "MERCHANT_FIX_REQUIRED", "UNKNOWN"}
=============================================================================
