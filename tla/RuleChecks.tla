----------------------------- MODULE RuleChecks -----------------------------
(***************************************************************************)
(* The rule tables against reference definitions, over every input of a    *)
(* bounded domain, and against the case they decide about.  The evaluation *)
(* harness runs the same rules a second time, without the services around  *)
(* them: it is compared with what the services stored.                     *)
(***************************************************************************)
EXTENDS Strategy, Evaluation, MerchantPolicies

\* What the eligibility rules are for: an open, reconciled case whose only status is a
\* final failure of its own subject, read within the freshness window.
Recoverable(st, f, stamp, a, freshness) ==
  /\ st \in CaseState \ (TERMINAL_CASE_STATES \cup {"DETECTED"})
  /\ stamp = "aware" /\ a \in 0..freshness
  /\ \/ f.payment_id /\ f.payment_status = "failed" /\ f.subscription_status = "none"
     \/ /\ f.subscription_id /\ ~f.payment_id
        /\ f.subscription_status = "halted" /\ f.payment_status = "none"

SettledStatus == {"captured", "refunded", "active", "cancelled", "completed", "expired"}

EligibilityTable ==
  \A st \in CaseState, f \in [payment_id : BOOLEAN, subscription_id : BOOLEAN,
                              payment_status : ExternalStatus \cup {"none"},
                              subscription_status : ExternalStatus \cup {"none"}],
     stamp \in {"missing", "naive", "aware"}, a \in -1..2 :
    LET decision == assess_eligibility(st, f, stamp, a, 1).decision
    IN  /\ decision = "ELIGIBLE" <=> Recoverable(st, f, stamp, a, 1)
        /\ decision = "STOP" => \/ st \in TERMINAL_CASE_STATES
                                \/ {f.payment_status, f.subscription_status} \cap SettledStatus # {}

\* A case is reasoned about exactly when it is a reconciled open failure within the
\* freshness window, whatever columns are missing, malformed or contradictory, and is
\* stopped for good only by a settled status (assess_eligibility); the assessment
\* that strategy generation relies on is one of those.
EligibilityIsExact ==
  /\ EligibilityTable
  /\ ContextHolds => Recoverable(state, facts, "aware", age, Freshness)

-----------------------------------------------------------------------------
Flags == {"present", "valid", "allowed", "blocked_category", "blocked_method", "window",
          "approval_action", "automation_enabled"}

\* A policy that lets everything pass but at most one flag.
BoundedConfigurations ==
  {[present |-> flipped # "present", valid |-> flipped # "valid",
    allowed |-> flipped # "allowed", blocked_category |-> flipped = "blocked_category",
    blocked_method |-> flipped = "blocked_method", window |-> flipped # "window",
    max_automated_attempts |-> attempted, max_contact_attempts |-> contacted,
    approval_action |-> flipped = "approval_action", require_approval_above |-> above,
    automation_enabled |-> flipped # "automation_enabled"] :
     flipped \in Flags \cup {"no_flag"}, attempted \in 0..2, contacted \in 0..1,
     above \in {{}, {2}}}

BoundedFacts ==
  [action : AUTOMATED_RECOVERY_ACTIONS, amount : {{}, {1}, {2}}, attempts : 0..2,
   contacts : 0..1, windowPassed : BOOLEAN]

Permissiveness(result) ==
  CASE result = "BLOCKED" -> 0 [] result = "REQUIRES_APPROVAL" -> 1 [] OTHER -> 2

PolicyTable ==
  \A f \in BoundedFacts, c \in BoundedConfigurations :
    LET result   == evaluate_authorization(f, c).result
        later(g) == Permissiveness(evaluate_authorization(g, c).result)
                      <= Permissiveness(result)
    IN  /\ result # "BLOCKED" =>
             /\ f.attempts + 1 <= c.max_automated_attempts
             /\ f.action \in CUSTOMER_CONTACT_ACTIONS => f.contacts + 1 <= c.max_contact_attempts
        /\ later([f EXCEPT !.attempts = @ + 1])
        /\ later([f EXCEPT !.contacts = @ + 1])
        /\ later([f EXCEPT !.windowPassed = TRUE])
        /\ f.amount # {} => later([f EXCEPT !.amount = {a + 1 : a \in @}])
        /\ later([f EXCEPT !.amount = {}])

\* Policy limits bound what happens, not what happened: an automated action that is not
\* refused still leaves the counts within their maxima once it is executed, and
\* attempts, contacts, time and money only ever make the answer stricter
\* (evaluate_authorization).  No case collects more attempts than some policy allows.
PolicyIsConservative ==
  /\ PolicyTable
  /\ \E c \in Configurations : attempts <= c.max_automated_attempts

-----------------------------------------------------------------------------
SoundRules ==
  [object |-> TRUE, extra |-> FALSE, blocked_failure_categories |-> Array({}),
   blocked_payment_methods |-> Array({}), require_approval_actions |-> Array({})]

SoundPolicy(actions, rules) ==
  [automation_enabled |-> TRUE, allowed_actions |-> actions, max_automated_attempts |-> 1,
   max_contact_attempts |-> 1, recovery_window_minutes |-> 60,
   high_value_threshold_minor |-> 1, require_approval_above_minor |-> {},
   stopping_rules |-> rules]

Lists(members) == [array : BOOLEAN, members : SUBSET members]

BoundedLists == Lists({"CREATE_RECOVERY_LINK", "unknown_name", "not_a_string"})

BoundedRules ==
  {[SoundRules EXCEPT !.object = o, !.extra = x] : o \in BOOLEAN, x \in BOOLEAN}
    \cup {[SoundRules EXCEPT !.blocked_failure_categories = l] :
            l \in Lists({"CUSTOMER_FUNDS", "unknown_name", "not_a_string"})}
    \cup {[SoundRules EXCEPT !.blocked_payment_methods = l] :
            l \in Lists({"Card", "unknown_name", "blank", "not_a_string"})}
    \cup {[SoundRules EXCEPT !.require_approval_actions = l] : l \in BoundedLists}

BoundedPolicies ==
  {SoundPolicy(actions, rules) : actions \in BoundedLists, rules \in BoundedRules}
    \cup {[SoundPolicy(Array({"CREATE_RECOVERY_LINK"}), SoundRules) EXCEPT
             !.max_automated_attempts = i, !.max_contact_attempts = j,
             !.recovery_window_minutes = k, !.require_approval_above_minor = t] :
            i \in -1..1, j \in -1..1, k \in -1..1, t \in {{}, {-1}, {0}}}

\* The answer to a first attempt to recover 1 minor unit for lack of funds.
Answer(p, action, method) ==
  evaluate_authorization([action |-> action, amount |-> {1}, attempts |-> 0, contacts |-> 0,
                          windowPassed |-> FALSE],
                         configuration(p, action, "CUSTOMER_FUNDS", method)).result

\* Every part of the row is what the merchant can have meant.
Understood(p) ==
  LET rules == p.stopping_rules
      named == {p.allowed_actions, rules.blocked_failure_categories,
                rules.require_approval_actions}
  IN  /\ \A list \in named \cup {rules.blocked_payment_methods} : list.array
      /\ \A list \in named : list.members \cap Strange = {}
      /\ rules.blocked_payment_methods.members \cap Strange \subseteq {"unknown_name"}
      /\ rules.object /\ ~rules.extra
      /\ {p.max_automated_attempts, p.max_contact_attempts, p.recovery_window_minutes}
           \cup p.require_approval_above_minor \subseteq Nat

Stricter(p, q, action, method) ==
  Permissiveness(Answer(p, action, method)) <= Permissiveness(Answer(q, action, method))

PolicyRows ==
  \A p \in BoundedPolicies, action \in {"CREATE_RECOVERY_LINK", "REQUEST_RETRY", "WAIT"},
     method \in {"none"} \cup PaymentMethods :
    IF action \in SAFE_INTERNAL_ACTIONS THEN Answer(p, action, method) = "AUTHORIZED"
    ELSE /\ Answer(p, action, method) # "BLOCKED" =>
              Understood(p) /\ action \in p.allowed_actions.members
         /\ Stricter([p EXCEPT !.allowed_actions.members = {}], p, action, method)
         /\ \A m \in PaymentMethods \cup Strange :
              Stricter([p EXCEPT !.stopping_rules.blocked_payment_methods.members = @ \cup {m}],
                       p, action, method)
         /\ \A c \in {"CUSTOMER_FUNDS", "UNKNOWN", "unknown_name"} :
              Stricter([p EXCEPT !.stopping_rules.blocked_failure_categories.members = @ \cup {c}],
                       p, action, method)
         /\ \A a \in {action, "unknown_name"} :
              Stricter([p EXCEPT !.stopping_rules.require_approval_actions.members = @ \cup {a}],
                       p, action, method)

\* A policy nobody can have meant authorizes nothing outside the system: whatever the
\* JSON columns hold, an automated action is permitted only by a row understood to its
\* last member that names the action, one more stopping rule never permits more, and the
\* safe actions need no policy (validate_policy, evaluate_authorization).  Every action
\* ever proposed is one a merchant can name.
PolicyFailsClosed ==
  /\ PolicyRows
  /\ \A p \in proposals : validate_actions(Array({p.action}))

-----------------------------------------------------------------------------
\* One scenario of every shape the dataset builds, under one identifier.
ScenarioShapes(id) ==
  {build_scenario(id, kind, occurrence, 19900, 1250000) :
     kind \in ScenarioKind, occurrence \in {0, 8}}

Sum(breakdown, v) ==
  LET at[K \in SUBSET DOMAIN breakdown] ==
        IF K = {} THEN 0
        ELSE LET k == CHOOSE x \in K : TRUE IN breakdown[k][v] + at[K \ {k}]
  IN  at[DOMAIN breakdown]

SoundReport(scenarios, results, metrics, breakdown) ==
  /\ evaluate_pass_criteria(results, metrics, Len(scenarios))
       = IF \E i, j \in DOMAIN scenarios :
              i # j /\ scenarios[i].scenario_id = scenarios[j].scenario_id
           THEN {"DUPLICATE_SCENARIO_IDENTIFIER"} ELSE {}
  /\ Sum(breakdown, "safe_stops") = metrics.safe_stop_cases
  /\ \A v \in {"eligible_cases", "automated_actions_authorized",
               "human_approval_required", "synthetic_recovered_cases",
               "synthetic_recovered_amount_minor"} : Sum(breakdown, v) = metrics[v]

Passes(scenarios, results) ==
  SoundReport(scenarios, results, calculate_evaluation_metrics(results),
              build_scenario_breakdown(results))

\* Every pair of scenarios, under the same or different identifiers, and every kind of
\* answer: a link, a retry, no usable answer.
EveryBatchPasses ==
  \A s \in ScenarioShapes(1), t \in ScenarioShapes(1) \cup ScenarioShapes(2) :
    \A a \in OpenAIStrategyProvider(s) \cap {"CREATE_RECOVERY_LINK", "none"},
       b \in OpenAIStrategyProvider(t) \cap {"CREATE_RECOVERY_LINK", "REQUEST_RETRY"} :
      Passes(<<s, t>>, BatchResults(<<s, t>>, <<a, b>>))

\* The counts of evaluation/results/latest.json.
PublishedCounts(metrics) ==
  /\ metrics.cases_evaluated = 100 /\ metrics.eligible_cases = 80
  /\ metrics.ai_or_strategy_cases = 77 /\ metrics.deterministic_bypass_cases = 23
  /\ metrics.automated_actions_authorized = 35 /\ metrics.human_approval_required = 8
  /\ metrics.wait_cases = 30 /\ metrics.safe_stop_cases = 28
  /\ metrics.already_captured_protected = 11 /\ metrics.unresolved_cases = 58
  /\ metrics.synthetic_recovered_cases = 21 /\ metrics.duplicate_actions_prevented = 2
  /\ metrics.strategy_failures_or_fallbacks = 0

OfflineResults(scenarios) ==
  BatchResults(scenarios, [i \in DOMAIN scenarios |->
                             CHOOSE a \in OfflineStrategyProvider(scenarios[i]) : TRUE])

\* For the least and the greatest amounts.
PublishedReport ==
  \A amounts \in {<<19900, 1250000>>, <<750000, 5000000>>} :
    PublishedCounts(calculate_evaluation_metrics(
      OfflineResults(generate_scenarios(amounts[1], amounts[2]))))

\* The scenario whose case has the facts a proposal was made for.
ScenarioOf(f) ==
  [Base(1, "incomplete_unknown", 19900) EXCEPT
     !.identity_kind = IF f.payment_id THEN "payment" ELSE "subscription",
     !.payment_status = f.payment_status, !.subscription_status = f.subscription_status,
     !.error_reason = f.error_reason, !.error_source = f.error_source,
     !.error_step = f.error_step]

SamePath(r, p) ==
  /\ r.eligibility_decision = "ELIGIBLE" /\ ~r.strategy_failed
  /\ r.strategy_action = p.action
  /\ r.failure_category = p.input.diagnosis.failure_category
  /\ r.strategy_provider_invoked <=> p.source = "AI"

\* What the criteria of a batch come to for one scenario, whose result is r, after keys
\* were executed.
SafeResult(s, keys, r) ==
  /\ r.execution_count \in {0, 1}
  /\ r.execution_count = 1 =>
       /\ Eligible(r) /\ Automated(r) /\ ~r.captured_truth_observed
       /\ r.failure_category # "UNKNOWN"
       /\ execution_key(s, r.strategy_action) \notin keys
  /\ Recovered(r) => r.execution_count = 1 /\ s.synthetic_outcome = "successful_capture"
  /\ Recovered(r) <=> r.final_classification = "synthetic_recovered"

ScenariosAreSafe ==
  \A s \in ScenarioShapes(1) :
    \A a \in OpenAIStrategyProvider(s), keys \in SUBSET {execution_key(s, "CREATE_RECOVERY_LINK")} :
      SafeResult(s, keys, evaluate_scenario(s, a, keys))

\* The harness measures the system it claims to measure: on the facts of every stored
\* proposal and the same answer it takes the path the services took.  Whatever the
\* provider answers and whatever was executed before, a scenario executes at most one
\* action, one that was authorized for a known failure and never executed before, and
\* recovers money by nothing else (_evaluate_scenario).
HarnessAgrees ==
  /\ ScenariosAreSafe
  /\ \A p \in proposals :
       SamePath(evaluate_scenario(ScenarioOf(p.input.assessment.facts), p.action, {}), p)

\* The report says what happened: the safety criteria hold for every batch of two
\* whatever the provider answers, unless a scenario is listed twice, and the breakdown
\* adds up; so it is for the facts and answers of any two stored proposals.  The
\* harness's own dataset gives the published counts (arc/evaluation/metrics.py).
HarnessReports ==
  /\ EveryBatchPasses
  /\ PublishedReport
  /\ \A p, q \in proposals :
       LET batch == <<ScenarioOf(p.input.assessment.facts),
                      [ScenarioOf(q.input.assessment.facts) EXCEPT !.scenario_id = 2]>>
       IN  Passes(batch, BatchResults(batch, <<p.action, q.action>>))
=============================================================================
