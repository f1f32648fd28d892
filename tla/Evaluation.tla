----------------------------- MODULE Evaluation -----------------------------
(***************************************************************************)
(* The batch evaluation (arc/evaluation): a synthetic dataset, a runner    *)
(* that takes every scenario through eligibility, diagnosis, strategy,     *)
(* policy and a simulated execution without a database, and the metrics    *)
(* with their pass criteria.                                               *)
(*                                                                         *)
(* Ages are in seconds.  The seeded shuffle and the drawn amounts are left *)
(* out: scenarios come in the order of the blueprint and an amount is a    *)
(* parameter.  Rates, payment methods (no evaluation policy blocks one)    *)
(* and the columns of a result that nothing aggregates are left out, too.  *)
(***************************************************************************)
EXTENDS AssessmentRules, FiniteSets
LOCAL INSTANCE SequencesExt
LOCAL INSTANCE FiniteSetsExt

SCENARIO_COUNTS ==
  << <<"already_captured", 10>>, <<"platform_retry_active", 10>>,
     <<"customer_authentication", 12>>, <<"insufficient_funds", 12>>, <<"issuer_bank", 10>>,
     <<"gateway_network", 10>>, <<"retry_exhausted", 8>>, <<"high_value_approval", 8>>,
     <<"attempt_limit", 5>>, <<"contact_limit", 5>>, <<"hard_stop", 4>>,
     <<"incomplete_unknown", 3>>, <<"duplicate_action", 2>>, <<"stale_capture", 1>> >>

ScenarioKind == {SCENARIO_COUNTS[i][1] : i \in DOMAIN SCENARIO_COUNTS}

\* _base: a payment that failed for a reason the provider did not tell.
Base(id, kind, amount) ==
  [scenario_id |-> id, kind |-> kind, amount_minor |-> amount, identity_kind |-> "payment",
   payment_status |-> "failed", subscription_status |-> "none", error_reason |-> "none",
   error_source |-> "none", error_step |-> "none", attempt_count |-> 0,
   contact_attempt_count |-> 0, detected_minutes_ago |-> 30, offline_action |-> "none",
   synthetic_outcome |-> "not_applicable", policy_profile |-> "standard",
   execution_request_count |-> 1, stale_capture_before_execution |-> FALSE]

Failing(base, reason, source, action) ==
  [base EXCEPT !.error_reason = reason, !.error_source = source, !.offline_action = action,
               !.error_step = IF reason = "incorrect_otp" THEN "payment_authentication"
                                                          ELSE "payment_authorization"]

Otp(base)     == Failing(base, "incorrect_otp", "customer", "CREATE_RECOVERY_LINK")
Funds(base)   == Failing(base, "insufficient_funds", "customer", "CREATE_RECOVERY_LINK")
Gateway(base) == Failing(base, "gateway_technical_error", "gateway", "WAIT")

OfSubscription(base, status) ==
  [base EXCEPT !.identity_kind = "subscription", !.payment_status = "none",
               !.subscription_status = status]

\* The first occurrences of a kind succeed, the others stay unresolved.
Succeeding(base, success) ==
  [base EXCEPT !.synthetic_outcome = IF success THEN "successful_capture" ELSE "unresolved"]

\* amount is drawn from the plausible amounts, high from the high-value ones.
build_scenario(id, kind, occurrence, amount, high) ==
  LET base == Base(id, kind, amount)
  IN  CASE kind = "already_captured"        -> [base EXCEPT !.payment_status = "captured"]
        [] kind = "platform_retry_active"   -> OfSubscription(base, "pending")
        [] kind = "customer_authentication" -> Succeeding(Otp(base), occurrence < 8)
        [] kind = "insufficient_funds"      -> Succeeding(Funds(base), occurrence < 6)
        [] kind = "issuer_bank" -> Failing(base, "bank_technical_error", "issuer_bank", "WAIT")
        [] kind = "gateway_network"         -> Gateway(base)
        [] kind = "retry_exhausted" ->
             [Succeeding(OfSubscription(base, "halted"), occurrence < 5)
                EXCEPT !.offline_action = "CREATE_RECOVERY_LINK"]
        [] kind = "high_value_approval" -> [Funds(base) EXCEPT !.amount_minor = high]
        [] kind = "attempt_limit"       -> [Otp(base) EXCEPT !.attempt_count = 3]
        [] kind = "contact_limit"       -> [Funds(base) EXCEPT !.contact_attempt_count = 2]
        [] kind = "hard_stop" /\ occurrence < 2 ->
             [Gateway(base) EXCEPT !.offline_action = "REQUEST_RETRY",
                                   !.policy_profile = "block_failure_category"]
        [] kind = "hard_stop" /\ occurrence >= 2 ->
             [Otp(base) EXCEPT !.detected_minutes_ago = 2000,
                               !.policy_profile = "expired_recovery_window"]
        [] kind = "incomplete_unknown"  -> base
        [] kind = "duplicate_action" ->
             [Succeeding(Otp(base), TRUE) EXCEPT !.execution_request_count = 2]
        [] kind = "stale_capture" -> [Otp(base) EXCEPT !.stale_capture_before_execution = TRUE]

generate_scenarios(amount, high) ==
  LET blueprint == FlattenSeq([i \in DOMAIN SCENARIO_COUNTS |->
                     [o \in 1..SCENARIO_COUNTS[i][2] |-> <<SCENARIO_COUNTS[i][1], o - 1>>]])
  IN  [n \in DOMAIN blueprint |->
         build_scenario(n, blueprint[n][1], blueprint[n][2], amount, high)]

-----------------------------------------------------------------------------
(* The runner.                                                              *)

RECONCILIATION_FRESHNESS == 300

\* _payment_case: the case the scenario stands for, reconciled a minute ago.
payment_case(s) ==
  [payment_id |-> s.identity_kind = "payment", subscription_id |-> s.identity_kind # "payment",
   payment_status |-> s.payment_status, subscription_status |-> s.subscription_status,
   error_reason |-> s.error_reason, error_source |-> s.error_source,
   error_step |-> s.error_step]

policy_configuration(profile, category) ==
  [present |-> TRUE, valid |-> TRUE, allowed |-> TRUE,
   blocked_category |-> profile = "block_failure_category" /\ category = "GATEWAY_OR_NETWORK",
   blocked_method |-> FALSE, window |-> TRUE, max_automated_attempts |-> 3,
   max_contact_attempts |-> 2, approval_action |-> FALSE,
   require_approval_above |-> {1000000}, automation_enabled |-> TRUE]

recovery_window_minutes == 1440

\* _execution_key: derived from the scenario and the action, not from the request.
execution_key(s, action) ==
  <<s.scenario_id, action, s.attempt_count, s.contact_attempt_count>>

\* _case_result with its defaults.
case_result(s, decision) ==
  [scenario_id |-> s.scenario_id, scenario_kind |-> s.kind, amount_minor |-> s.amount_minor,
   eligibility_decision |-> decision, failure_category |-> "none", strategy_action |-> "none",
   strategy_provider_invoked |-> FALSE, strategy_failed |-> FALSE, policy_result |-> "none",
   execution_count |-> 0, duplicate_actions_prevented |-> 0,
   captured_truth_observed |-> FALSE, synthetic_outcome |-> s.synthetic_outcome,
   synthetic_recovered_amount_minor |-> 0, final_classification |-> "unresolved"]

\* (mutant) every request is executed
executed_per_request(s, action, keys, result) ==
  LET amount == IF s.synthetic_outcome = "successful_capture" THEN s.amount_minor ELSE 0
  IN  [result EXCEPT !.execution_count = s.execution_request_count,
                     !.synthetic_recovered_amount_minor = amount,
                     !.final_classification = IF amount > 0 THEN "synthetic_recovered"
                                                            ELSE "unresolved"]

\* The simulated execution: a key that was executed before is only counted.
Executed(s, action, keys, result) ==
  LET count  == IF execution_key(s, action) \in keys \/ s.execution_request_count = 0
                  THEN 0 ELSE 1
      amount == IF s.synthetic_outcome = "successful_capture" /\ count = 1
                  THEN s.amount_minor ELSE 0
  IN  [result EXCEPT !.execution_count = count,
                     !.duplicate_actions_prevented = s.execution_request_count - count,
                     !.synthetic_recovered_amount_minor = amount,
                     !.final_classification = IF amount > 0 THEN "synthetic_recovered"
                                                            ELSE "unresolved"]

\* What becomes of an accepted strategy: internal actions and refusals end the
\* scenario, a capture that precedes the execution stops it.
Controlled(s, action, keys, result) ==
  LET policy == result.policy_result
      fresh  == assess_eligibility("RECOVERED",
                  [payment_case(s) EXCEPT !.payment_status = "captured"],
                  "aware", 0, RECONCILIATION_FRESHNESS)
      final(c) == [result EXCEPT !.final_classification = c]
  IN  CASE action = "WAIT"                              -> final("wait")
        [] action \in {"NO_ACTION", "ESCALATE_TO_HUMAN"} -> final("safe_stop")
        [] action \in AUTOMATED_RECOVERY_ACTIONS /\ policy = "BLOCKED"
                                                        -> final("safe_stop")
        [] action \in AUTOMATED_RECOVERY_ACTIONS /\ policy = "REQUIRES_APPROVAL"
                                                        -> final("unresolved")
        [] action \in AUTOMATED_RECOVERY_ACTIONS /\ policy = "AUTHORIZED" ->
             IF s.stale_capture_before_execution
               THEN [final("protected_captured") EXCEPT
                       !.captured_truth_observed = fresh.decision = "STOP"]
               ELSE Executed(s, action, keys, result)

\* (mutant) the provider is asked about every scenario
provider_asked_always(disposition) == TRUE

\* rule_strategy_for gives no answer: the provider is asked.
provider_invoked(disposition) == ~RuleDecides(disposition)

\* _evaluate_scenario, answer being what the provider would say about the scenario, or
\* "none" when it fails.
evaluate_scenario(s, answer, keys) ==
  LET row       == payment_case(s)
      verdict   == assess_eligibility("RECONCILING", row, "aware", 60,
                                      RECONCILIATION_FRESHNESS)
      captured  == verdict.reason \in {"PAYMENT_ALREADY_CAPTURED", "STOP_ALREADY_RECOVERED"}
      diagnosis == classify_failure(row)
      invoked   == provider_invoked(diagnosis.recovery_disposition)
      action    == IF invoked THEN answer ELSE "ESCALATE_TO_HUMAN"
      diagnosed == [case_result(s, verdict.decision) EXCEPT
                      !.failure_category = diagnosis.failure_category,
                      !.strategy_provider_invoked = invoked]
      policy    == evaluate_authorization(
                     [action |-> action, amount |-> {s.amount_minor},
                      attempts |-> s.attempt_count, contacts |-> s.contact_attempt_count,
                      windowPassed |-> s.detected_minutes_ago > recovery_window_minutes],
                     policy_configuration(s.policy_profile, diagnosis.failure_category))
  IN  IF verdict.decision # "ELIGIBLE"
        THEN [case_result(s, verdict.decision) EXCEPT
                !.captured_truth_observed = captured,
                !.final_classification = CASE captured -> "protected_captured"
                                           [] ~captured /\ verdict.decision = "WAIT" -> "wait"
                                           [] OTHER -> "safe_stop"]
      ELSE IF action \notin compatible_actions(diagnosis.recovery_disposition)
        THEN [diagnosed EXCEPT !.strategy_failed = TRUE, !.final_classification = "safe_stop"]
        ELSE Controlled(s, action, keys,
               [diagnosed EXCEPT !.strategy_action = action, !.policy_result = policy.result])

\* The providers: the fixture of the scenario, or whatever a live model says.
OfflineStrategyProvider(s) == {s.offline_action}
OpenAIStrategyProvider(s)  == RecoveryAction \cup {"none"}

\* run_batch_evaluation over scenarios and the answers they get, which share one set of
\* executed keys.
BatchResults(scenarios, answers) ==
  LET after(done, i, r) ==
        [results |-> Append(done.results, r),
         keys    |-> IF r.execution_count = 0 THEN done.keys
                     ELSE done.keys \cup {execution_key(scenarios[i], r.strategy_action)}]
      step(done, i) ==
        after(done, i, evaluate_scenario(scenarios[i], answers[i], done.keys))
  IN  FoldLeft(step, [results |-> <<>>, keys |-> {}], [i \in DOMAIN scenarios |-> i]).results

-----------------------------------------------------------------------------
(* Metrics.                                                                 *)

Count(results, Test(_)) == Cardinality({i \in DOMAIN results : Test(results[i])})

Total(results, amount(_)) == MapThenSumSet(LAMBDA i : amount(results[i]), DOMAIN results)

Eligible(r)   == r.eligibility_decision = "ELIGIBLE"
Automated(r)  == r.policy_result = "AUTHORIZED" /\ r.strategy_action \in AUTOMATED_RECOVERY_ACTIONS
Approval(r)   == r.policy_result = "REQUIRES_APPROVAL"
Protected(r)  == r.final_classification = "protected_captured"
SafeStop(r)   == r.final_classification \in {"safe_stop", "protected_captured"}
Recovered(r)  == r.synthetic_recovered_amount_minor > 0
Unresolved(r) == Eligible(r) /\ r.final_classification \notin {"synthetic_recovered",
                                                               "protected_captured"}
RecoveredAmount(r) == r.synthetic_recovered_amount_minor

calculate_evaluation_metrics(results) ==
  [cases_evaluated              |-> Len(results),
   revenue_evaluated_minor      |-> Total(results, LAMBDA r : r.amount_minor),
   revenue_at_risk_minor        |-> Total(SelectSeq(results, Eligible), LAMBDA r : r.amount_minor),
   eligible_cases               |-> Count(results, Eligible),
   ai_or_strategy_cases         |-> Count(results, LAMBDA r : r.strategy_provider_invoked),
   deterministic_bypass_cases   |-> Count(results, LAMBDA r : ~r.strategy_provider_invoked),
   automated_actions_authorized |-> Count(results, Automated),
   human_approval_required      |-> Count(results, Approval),
   wait_cases                   |-> Count(results, LAMBDA r : r.final_classification = "wait"),
   safe_stop_cases              |-> Count(results, SafeStop),
   already_captured_protected   |-> Count(results, Protected),
   duplicate_actions_prevented  |-> Total(results, LAMBDA r : r.duplicate_actions_prevented),
   synthetic_recovered_cases    |-> Count(results, Recovered),
   synthetic_recovered_amount_minor |-> Total(results, RecoveredAmount),
   unresolved_cases             |-> Count(results, Unresolved),
   policy_violations_executed   |-> Total(SelectSeq(results, LAMBDA r : ~Automated(r)),
                                          LAMBDA r : r.execution_count),
   unsafe_actions_after_capture |-> Total(SelectSeq(results, LAMBDA r : r.captured_truth_observed),
                                          LAMBDA r : r.execution_count),
   duplicate_executions         |-> Total(results, LAMBDA r : Max({0, r.execution_count - 1})),
   strategy_failures_or_fallbacks |-> Count(results, LAMBDA r : r.strategy_failed)]

\* One row per kind that occurs.
build_scenario_breakdown(results) ==
  [k \in {results[i].scenario_kind : i \in DOMAIN results} |->
     LET rows == SelectSeq(results, LAMBDA r : r.scenario_kind = k)
     IN  [cases                        |-> Len(rows),
          eligible_cases               |-> Count(rows, Eligible),
          automated_actions_authorized |-> Count(rows, Automated),
          human_approval_required      |-> Count(rows, Approval),
          safe_stops                   |-> Count(rows, SafeStop),
          synthetic_recovered_cases    |-> Count(rows, Recovered),
          synthetic_recovered_amount_minor |-> Total(rows, RecoveredAmount)]]

\* evaluate_pass_criteria: the reasons for which a batch fails.
evaluate_pass_criteria(results, metrics, expected) ==
  LET some(Test(_)) == \E i \in DOMAIN results : Test(results[i])
      reasons ==
        [RESULT_COUNT_MISMATCH |-> Len(results) # expected,
         DUPLICATE_SCENARIO_IDENTIFIER |->
           Cardinality({results[i].scenario_id : i \in DOMAIN results}) # Len(results),
         METRIC_TOTALS_INCONSISTENT  |-> metrics # calculate_evaluation_metrics(results),
         POLICY_VIOLATION_EXECUTED   |-> metrics.policy_violations_executed > 0,
         UNSAFE_ACTION_AFTER_CAPTURE |-> metrics.unsafe_actions_after_capture > 0,
         DUPLICATE_EXECUTION         |-> metrics.duplicate_executions > 0,
         RECOVERY_WITHOUT_SYNTHETIC_SUCCESS_EVIDENCE |->
           some(LAMBDA r : Recovered(r) /\ r.synthetic_outcome # "successful_capture"),
         UNKNOWN_CONTEXT_EXECUTED_UNSAFELY |->
           some(LAMBDA r : r.failure_category = "UNKNOWN" /\ r.execution_count > 0),
         RECOVERED_AMOUNT_EXCEEDS_AT_RISK_AMOUNT |->
           metrics.synthetic_recovered_amount_minor > metrics.revenue_at_risk_minor,
         STRATEGY_CASE_TOTAL_INCONSISTENT |->
           metrics.ai_or_strategy_cases + metrics.deterministic_bypass_cases
             # metrics.cases_evaluated,
         ELIGIBLE_CASE_TOTAL_INCONSISTENT |->
           metrics.synthetic_recovered_cases + metrics.unresolved_cases
             + Count(results, LAMBDA r : Eligible(r) /\ Protected(r)) # metrics.eligible_cases]
  IN  {reason \in DOMAIN reasons : reasons[reason]}
=============================================================================
