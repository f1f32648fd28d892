--------------------------- MODULE Strategy_proofs ---------------------------
(***************************************************************************)
(* What assessment and strategy generation guarantee for any number of     *)
(* callers and reconciliations, any models and answers, any provider       *)
(* reports and policies and any freshness window.                          *)
(***************************************************************************)
EXTENDS Strategy, PolicyRules_proofs, TLAPS

-----------------------------------------------------------------------------
(* Eligibility.                                                             *)

\* A rule applies when its condition holds.
LEMMA RuleWhen ==
  ASSUME NEW b \in BOOLEAN, NEW r, NEW q
  PROVE  Rule(b, r, q).when = b
BY DEF Rule

\* Only the last rule of assess_eligibility can find a case eligible, and it always
\* applies.
LEMMA EligibilityTypes ==
  ASSUME NEW st, NEW f, NEW stamp, NEW e, NEW fr
  PROVE  LET rules == EligibilityRules(st, f, stamp, e, fr)
         IN  /\ DOMAIN rules = 1..12
             /\ \A i \in 1..12 : rules[i].result \in EligibilityDecision /\ rules[i].reason \in EligibilityReason
             /\ \A i \in 1..11 : rules[i].result # "ELIGIBLE"
             /\ rules[12].when
<1> DEFINE rules == EligibilityRules(st, f, stamp, e, fr)
           v     == StatusVerdict(st, f)
<1>1. v.decision \in EligibilityDecision /\ v.reason \in EligibilityReason
  BY DEF StatusVerdict, assess_payment_status, assess_subscription_status, Verdict,
         EligibilityDecision, EligibilityReason
<1>2. TerminalReason(st) \in EligibilityReason
  BY DEF TerminalReason, EligibilityReason
<1>3. DOMAIN rules = 1..12
  BY DEF EligibilityRules
<1> HIDE DEF v
<1>4. \A i \in 1..12 : rules[i].result \in EligibilityDecision
  BY <1>1 DEF EligibilityRules, Rule, EligibilityDecision, v
<1>5. \A i \in 1..12 : rules[i].reason \in EligibilityReason
  BY <1>1, <1>2 DEF EligibilityRules, Rule, EligibilityReason, v
<1>6. \A i \in 1..11 : rules[i].result # "ELIGIBLE"
  BY DEF EligibilityRules, Rule
<1>7. rules[12] = Rule(TRUE, v.decision, v.reason)
  BY DEF EligibilityRules, v
<1>8. rules[12].when
  BY <1>7 DEF Rule
<1> QED BY <1>3, <1>4, <1>5, <1>6, <1>8

\* The first rule that applies exists and is the one assess_eligibility returns.
LEMMA EligibilityFirst ==
  ASSUME NEW st, NEW f, NEW stamp, NEW e, NEW fr
  PROVE  LET rules == EligibilityRules(st, f, stamp, e, fr)
         IN  \E i \in 1..12 :
               /\ rules[i].when
               /\ \A j \in 1..(i - 1) : ~rules[j].when
               /\ assess_eligibility(st, f, stamp, e, fr)
                    = Verdict(rules[i].result, rules[i].reason)
<1> DEFINE rules == EligibilityRules(st, f, stamp, e, fr)
           T     == {i \in 1..12 : rules[i].when}
           first == CHOOSE i \in DOMAIN rules :
                      rules[i].when /\ \A j \in 1..(i - 1) : ~rules[j].when
<1>0. DOMAIN rules = 1..12 /\ 12 \in 1..12 /\ rules[12].when
  BY EligibilityTypes
<1>1. T \subseteq Nat /\ T # {}
  <2>1. 12 \in T BY <1>0, Zenon
  <2>2. T \subseteq Nat OBVIOUS
  <2> QED BY <2>1, <2>2
<1>2. PICK i \in T : \A j \in T : i <= j
  BY <1>1, LeastOf
<1>3. \E k \in DOMAIN rules : rules[k].when /\ \A j \in 1..(k - 1) : ~rules[j].when
  BY <1>0, <1>2
<1>4. first \in DOMAIN rules /\ rules[first].when /\ \A j \in 1..(first - 1) : ~rules[j].when
  BY <1>3
<1>5. assess_eligibility(st, f, stamp, e, fr) = Verdict(rules[first].result, rules[first].reason)
  BY DEF assess_eligibility
<1> QED BY <1>0, <1>4, <1>5

\* A verdict has a decision and a reason.
LEMMA EligibilityType ==
  ASSUME NEW st, NEW f, NEW e, NEW fr
  PROVE  /\ assess_eligibility(st, f, "aware", e, fr).decision \in EligibilityDecision
         /\ assess_eligibility(st, f, "aware", e, fr).reason \in EligibilityReason
BY EligibilityTypes, EligibilityFirst DEF Verdict

\* An eligible case is open, reconciled within the window, and failed or halted.
LEMMA EligibleMeans ==
  ASSUME NEW st, NEW f, NEW e \in Int, NEW fr \in Nat,
         assess_eligibility(st, f, "aware", e, fr).decision = "ELIGIBLE"
  PROVE  /\ st \notin TERMINAL_CASE_STATES /\ st # "DETECTED"
         /\ ~Stale(e, fr)
         /\ f.payment_status = "failed" \/ f.subscription_status = "halted"
<1> DEFINE rules == EligibilityRules(st, f, "aware", e, fr)
<1>1. PICK i \in 1..12 : /\ rules[i].when
                         /\ \A j \in 1..(i - 1) : ~rules[j].when
                         /\ assess_eligibility(st, f, "aware", e, fr)
                              = Verdict(rules[i].result, rules[i].reason)
  BY EligibilityFirst
<1>2. rules[i].result = "ELIGIBLE"
  BY <1>1 DEF Verdict
<1>3. i = 12
  BY <1>2, EligibilityTypes
<1>4. ~rules[1].when /\ ~rules[6].when
  BY <1>1, <1>3
<1>5. rules[1] = Rule(st \in TERMINAL_CASE_STATES, "STOP", TerminalReason(st))
  BY DEF EligibilityRules
<1>6. rules[6] = Rule(Stale(e, fr), "WAIT", "RECONCILIATION_STALE")
  BY DEF EligibilityRules
<1>7. st \notin TERMINAL_CASE_STATES
  <2> DEFINE closed == st \in TERMINAL_CASE_STATES
  <2>1. closed \in BOOLEAN OBVIOUS
  <2>2. rules[1] = Rule(closed, "STOP", TerminalReason(st)) BY <1>5
  <2> HIDE DEF closed
  <2>3. rules[1].when = closed BY <2>1, <2>2, RuleWhen
  <2>4. ~closed BY <1>4, <2>3
  <2> QED BY <2>4 DEF closed
<1>8. ~Stale(e, fr)
  BY <1>4, <1>6 DEF Rule
<1>9. rules[12].result = StatusVerdict(st, f).decision
  BY DEF EligibilityRules, Rule
<1>10. StatusVerdict(st, f).decision = "ELIGIBLE"
  BY <1>2, <1>3, <1>9
<1>11. st # "DETECTED" /\ (f.payment_status = "failed" \/ f.subscription_status = "halted")
  BY <1>10 DEF StatusVerdict, assess_payment_status, assess_subscription_status, Verdict
<1> QED BY <1>7, <1>8, <1>11

Open(st) == st \notin TERMINAL_CASE_STATES /\ st # "DETECTED"

\* Between two instants of the window and between two open states the verdict is the
\* same: neither the passing of time nor the progress of the case changes it.
LEMMA EligibilityStands ==
  ASSUME NEW st, NEW su, NEW f, NEW e \in Nat, NEW g \in Nat, NEW fr \in Nat,
         Open(st), Open(su), ~Stale(e, fr), ~Stale(g, fr)
  PROVE  assess_eligibility(st, f, "aware", e, fr) = assess_eligibility(su, f, "aware", g, fr)
<1>1. StatusVerdict(st, f) = StatusVerdict(su, f)
  BY DEF Open, StatusVerdict, assess_payment_status, assess_subscription_status
<1>2. TerminalReason(st) = TerminalReason(su)
  BY DEF Open, TerminalReason, TERMINAL_CASE_STATES
<1>3. (st \in TERMINAL_CASE_STATES) = FALSE /\ (su \in TERMINAL_CASE_STATES) = FALSE
  BY DEF Open
<1>4. (e < 0) = FALSE /\ (g < 0) = FALSE
  OBVIOUS
<1>5. Stale(e, fr) = FALSE /\ Stale(g, fr) = FALSE
  BY DEF Stale
<1>6. EligibilityRules(st, f, "aware", e, fr) = EligibilityRules(su, f, "aware", g, fr)
  BY <1>1, <1>2, <1>3, <1>4, <1>5, Zenon DEF EligibilityRules
<1> QED BY <1>6, Zenon DEF assess_eligibility

-----------------------------------------------------------------------------
(* Diagnosis and the shape of the rows.                                     *)

\* A diagnosis is a category with its disposition: the last entry always matches.
LEMMA DiagnosisType ==
  ASSUME NEW f
  PROVE  classify_failure(f) \in DiagnosisRow
<1> DEFINE found == << IF f.subscription_status = "halted"
                         THEN "SUBSCRIPTION_RETRY_EXHAUSTED" ELSE "none",
                       REASON_RULES(f.error_reason), SOURCE_RULES(f.error_source),
                       STEP_RULES(f.error_step), "UNKNOWN" >>
           first == CHOOSE i \in DOMAIN found :
                      found[i] # "none" /\ \A j \in 1..(i - 1) : found[j] = "none"
<1>1. REASON_RULES(f.error_reason) \in FailureCategories \cup {"none"}
  BY DEF REASON_RULES, FailureCategories
<1>2. SOURCE_RULES(f.error_source) \in FailureCategories \cup {"none"}
  BY DEF SOURCE_RULES, FailureCategories
<1>3. STEP_RULES(f.error_step) \in FailureCategories \cup {"none"}
  BY DEF STEP_RULES, FailureCategories
<1>4. /\ DOMAIN found = 1..5 /\ found[5] = "UNKNOWN"
      /\ \A i \in 1..5 : found[i] \in FailureCategories \cup {"none"}
  BY <1>1, <1>2, <1>3 DEF FailureCategories
<1> HIDE DEF found
<1>5. \E i \in DOMAIN found : found[i] # "none" /\ \A j \in 1..(i - 1) : found[j] = "none"
  <2>1. CASE found[1] # "none" BY <1>4, <2>1
  <2>2. CASE found[1] = "none" /\ found[2] # "none" BY <1>4, <2>2
  <2>3. CASE found[1] = "none" /\ found[2] = "none" /\ found[3] # "none" BY <1>4, <2>3
  <2>4. CASE found[1] = "none" /\ found[2] = "none" /\ found[3] = "none" /\ found[4] # "none"
    BY <1>4, <2>4
  <2>5. CASE found[1] = "none" /\ found[2] = "none" /\ found[3] = "none" /\ found[4] = "none"
    BY <1>4, <2>5
  <2> QED BY <2>1, <2>2, <2>3, <2>4, <2>5
<1>6. first \in DOMAIN found /\ found[first] # "none"
  BY <1>5
<1>7. FailureCategory(f) = found[first]
  BY DEF FailureCategory, found
<1>8. FailureCategory(f) \in FailureCategories
  BY <1>4, <1>6, <1>7
<1>9. DISPOSITIONS(FailureCategory(f)) \in RecoveryDisposition
  BY DEF DISPOSITIONS, RecoveryDisposition
<1> QED BY <1>8, <1>9 DEF classify_failure, DiagnosisRow

\* The facts of a case carry a stamp.
LEMMA StampType ==
  ASSUME NEW f \in CaseFacts
  PROVE  f.last_reconciled_at \in 1..MaxReconciliations
BY DEF CaseFacts, WithStamp

\* A fingerprint has a stamp, which is at least zero.
LEMMA FingerprintStamp ==
  ASSUME NEW a \in Fingerprints
  PROVE  a.facts.last_reconciled_at \in Nat
BY StampType, FreshnessAssumption
   DEF Fingerprints, NoFingerprint, build_assessment_fingerprint

\* The missing fingerprint and the missing diagnosis are values of their columns.
LEMMA NoneTypes ==
  /\ NoFingerprint \in Fingerprints /\ NoDiagnosis \in DiagnosisRow
  /\ NoInput \in StrategyInput /\ Idle \in CallerState /\ NotAssessed \in AssessmentRow
<1>1. NoFingerprint \in Fingerprints /\ NoDiagnosis \in DiagnosisRow
  BY DEF Fingerprints, NoDiagnosis, DiagnosisRow
<1>2. NoInput \in StrategyInput
  BY <1>1 DEF NoInput, StrategyInput
<1>3. Idle \in CallerState /\ NotAssessed \in AssessmentRow
  BY <1>1, <1>2 DEF Idle, CallerState, NotAssessed, AssessmentRow
<1> QED BY <1>1, <1>2, <1>3

\* The current assessment is an assessment, of the case's present facts.
LEMMA CurrentAssessmentType ==
  ASSUME TypeOK
  PROVE  /\ Fingerprint \in Fingerprints
         /\ Fingerprint.facts = facts
         /\ CurrentAssessment \in AssessmentRow
<1>1. Fingerprint \in Fingerprints /\ Fingerprint.facts = facts
  BY DEF Fingerprint, build_assessment_fingerprint, Fingerprints, TypeOK
<1>2. Eligibility.decision \in EligibilityDecision /\ Eligibility.reason \in EligibilityReason
  BY EligibilityType DEF Eligibility
<1>3. (IF Eligibility.decision = "ELIGIBLE" THEN classify_failure(facts) ELSE NoDiagnosis)
        \in DiagnosisRow
  BY DiagnosisType, NoneTypes
<1>4. CurrentAssessment \in AssessmentRow
  BY <1>1, <1>2, <1>3 DEF CurrentAssessment, AssessmentRow
<1> QED BY <1>1, <1>4

\* What the snapshot holds is an input.
LEMMA InputType ==
  ASSUME TypeOK, NEW m \in Models \cup {NoModel}
  PROVE  InputFingerprint(m) \in StrategyInput
BY DEF TypeOK, InputFingerprint, AssessmentRow, StrategyInput

\* A guarded transition of a row ends in the row's state or in its target, and starts
\* reconciling only a detected case.
LEMMA TransitionState ==
  ASSUME NEW c \in CaseRow, NEW t \in CaseState
  PROVE  /\ transition_if_allowed(c, t) \in CaseRow
         /\ transition_if_allowed(c, t).state \in {c.state, t}
         /\ t = "RECONCILING" /\ c.state \in CaseState \ {"DETECTED"}
              => transition_if_allowed(c, t).state = c.state
         /\ CloseAs(c, t).state \in {c.state, t}
<1> DEFINE m == transition_if_allowed(c, t)
           moved == [c EXCEPT !.state = t, !.trail = Append(@, <<c.state, t>>)]
<1>1. moved \in CaseRow /\ moved.state = t
  <2>1. c.trail \in Seq((CaseState \cup {"NONE"}) \X CaseState)
    BY DEF CaseRow
  <2>2. <<c.state, t>> \in (CaseState \cup {"NONE"}) \X CaseState
    BY DEF CaseRow
  <2>3. Append(c.trail, <<c.state, t>>) \in Seq((CaseState \cup {"NONE"}) \X CaseState)
    BY <2>1, <2>2
  <2> QED BY <2>3 DEF CaseRow
<1>2. m \in {c, moved}
  BY DEF transition_if_allowed, transition_case
<1>3. m \in CaseRow /\ m.state \in {c.state, t}
  BY <1>1, <1>2
<1>4. t = "RECONCILING" /\ c.state \in CaseState \ {"DETECTED"} => m.state = c.state
  <2> SUFFICES ASSUME t = "RECONCILING", c.state \in CaseState \ {"DETECTED"}
               PROVE  m.state = c.state
    OBVIOUS
  <2>1. can_transition(c.state, t) => c.state = t
    BY DEF can_transition, AllowedTransitions, ForwardTransitions, TERMINAL_CASE_STATES
  <2> QED BY <2>1 DEF transition_if_allowed, transition_case
<1> HIDE DEF m
<1>5. CloseAs(c, t).state = m.state
  BY <1>3 DEF CloseAs, m, CaseRow
<1> QED BY <1>3, <1>4, <1>5 DEF m

\* Reconciliation of an existing, no longer only detected case leaves its state or
\* closes it.
LEMMA ReconciledStateMoves ==
  ASSUME NEW s \in CaseState \ {"DETECTED"}, NEW r \in Snapshots
  PROVE  ReconciledState(s, r) \in {s} \cup TERMINAL_CASE_STATES
<1> DEFINE row == [NoCase EXCEPT !.state = s]
           Status == ExternalStatus \cup {"none"}
<1>1. row \in CaseRow /\ row.state = s /\ s # "NONE" /\ s \in CaseState
  <2>1. <<>> \in Seq((CaseState \cup {"NONE"}) \X CaseState)
    OBVIOUS
  <2>2. NoCase \in CaseRow
    BY <2>1 DEF NoCase, CaseRow
  <2>3. s # "NONE"
    BY DEF CaseState, TERMINAL_CASE_STATES
  <2> QED BY <2>2, <2>3 DEF CaseRow
<1>2. {"RECONCILING", "RECOVERED", "EXHAUSTED"} \subseteq CaseState
      /\ {"RECOVERED", "EXHAUSTED"} \subseteq TERMINAL_CASE_STATES
  BY DEF CaseState, TERMINAL_CASE_STATES
<1> HIDE DEF row
<1>3. ASSUME NEW b \in {row, StartReconciling(row)}, NEW x \in Status
      PROVE  /\ Refresh(b, x).state = s
             /\ CloseAs(Refresh(b, x), "RECOVERED").state \in {s, "RECOVERED"}
             /\ CloseAs(Refresh(b, x), "EXHAUSTED").state \in {s, "EXHAUSTED"}
  <2>1. b \in CaseRow /\ b.state = s
    <3>1. "RECONCILING" \in CaseState
      BY <1>2
    <3>2. /\ transition_if_allowed(row, "RECONCILING") \in CaseRow
          /\ transition_if_allowed(row, "RECONCILING").state = row.state
      BY <1>1, <3>1, TransitionState
    <3> QED BY <1>1, <1>3, <3>2 DEF StartReconciling
  <2>2. Refresh(b, x) \in CaseRow /\ Refresh(b, x).state = s
    BY <2>1 DEF Refresh, CaseRow
  <2> QED BY <1>2, <2>2, TransitionState
<1>4. r.payment_status \in Status /\ r.subscription_status \in Status
  BY SnapshotsAssumption DEF ProviderFacts
<1>5. reconcile_payment(row, "payment.failed", r.payment_status).state
        \in {s, "RECOVERED", "EXHAUSTED"}
  BY <1>1, <1>3, <1>4 DEF reconcile_payment
<1>6. reconcile_subscription(row, r.subscription_status).state
        \in {s, "RECOVERED", "EXHAUSTED"}
  BY <1>1, <1>3, <1>4 DEF reconcile_subscription
<1> QED BY <1>2, <1>5, <1>6 DEF ReconciledState, row

-----------------------------------------------------------------------------
(* Types.                                                                   *)

CallersOK ==
  /\ caller \in [Callers -> CallerState]
  /\ \A w \in Callers : caller[w].pc = "answered" => caller[w].answer \in RecoveryAction

\* The row of the case, without the callers.
CaseOK ==
  /\ state \in CaseState /\ facts \in CaseFacts /\ age \in 0..(Freshness + 1)
  /\ assessment \in AssessmentRow /\ attempts \in Nat /\ proposals \subseteq Proposal

\* The type invariant is the row and the callers.
LEMMA TypeParts == TypeOK <=> CaseOK /\ CallersOK
BY DEF TypeOK, CaseOK, CallersOK

\* A caller's step to a well-formed local state keeps every caller well formed.
LEMMA CallerMoves ==
  ASSUME CallersOK, NEW w \in Callers, NEW v \in CallerState,
         v.pc = "answered" => v.answer \in RecoveryAction,
         caller' = [caller EXCEPT ![w] = v]
  PROVE  CallersOK'
BY DEF CallersOK

\* The rest of the row is not touched by what callers do between their transactions.
LEMMA CaseUnchanged ==
  ASSUME CaseOK, UNCHANGED <<state, facts, age, assessment, attempts, proposals>>
  PROVE  CaseOK'
BY DEF CaseOK

\* A new snapshot is well formed, and its model is none exactly when a rule decides.
LEMMA SnapshotType ==
  ASSUME TypeOK, NEW w \in Callers, NEW m \in Models, prepare_snapshot(w, m)
  PROVE  \E v \in CallerState :
           /\ caller' = [caller EXCEPT ![w] = v]
           /\ v.pc \in {"asking", "answered"}
           /\ v.pc = "answered" => v.answer \in RecoveryAction
           /\ v.input.model = NoModel <=> RuleDecides(v.input.diagnosis.recovery_disposition)
<1> DEFINE ruled == RuleDecides(assessment.diagnosis.recovery_disposition)
           model == IF ruled THEN NoModel ELSE m
           input == InputFingerprint(model)
           v     == [pc     |-> IF ruled THEN "answered" ELSE "asking",
                     input  |-> input,
                     answer |-> IF ruled THEN "ESCALATE_TO_HUMAN" ELSE "none"]
<1>1. caller' = [caller EXCEPT ![w] = v]
  BY DEF prepare_snapshot
<1>2. model \in Models \cup {NoModel} /\ (model = NoModel <=> ruled)
  BY ModelsAssumption
<1> HIDE DEF model
<1>3. /\ input \in StrategyInput /\ input.model = model
      /\ input.diagnosis = assessment.diagnosis
  BY <1>2, InputType DEF InputFingerprint
<1> HIDE DEF input
<1>4. "ESCALATE_TO_HUMAN" \in RecoveryAction
  BY DEF RecoveryAction, SAFE_INTERNAL_ACTIONS
<1>5. v \in CallerState
  BY <1>3, <1>4 DEF CallerState
<1>6. v.pc \in {"asking", "answered"} /\ (v.pc = "answered" => v.answer \in RecoveryAction)
  BY <1>4
<1>7. v.input = input
  OBVIOUS
<1>8. v.input.model = NoModel <=> RuleDecides(v.input.diagnosis.recovery_disposition)
  BY <1>2, <1>3, <1>7
<1> QED BY <1>1, <1>5, <1>6, <1>8

\* The superseded copy of a row is a row, and the stored proposal is one.
LEMMA ProposalTypes ==
  ASSUME TypeOK
  PROVE  /\ \A p \in Proposal : SupersededProposal(p) \in Proposal
         /\ \A w \in Callers : caller[w].pc = "answered" => NewProposal(w) \in Proposal
<1>1. \A p \in Proposal : SupersededProposal(p) \in Proposal
  BY DEF Proposal, SupersededProposal
<1>2. ASSUME NEW w \in Callers, caller[w].pc = "answered"
      PROVE  NewProposal(w) \in Proposal
  <2>1. caller[w].input \in StrategyInput /\ caller[w].answer \in RecoveryAction
    BY <1>2 DEF TypeOK, CallerState
  <2>2. (CASE state = "DECISIONED" -> "STRATEGY_REGENERATED"
           [] state # "DECISIONED" /\ caller[w].input.model = NoModel
                -> "STRATEGY_RULE_GENERATED"
           [] OTHER -> "STRATEGY_GENERATED")
          \in {"STRATEGY_GENERATED", "STRATEGY_RULE_GENERATED", "STRATEGY_REGENERATED"}
    OBVIOUS
  <2> QED BY <2>1, <2>2 DEF NewProposal, Proposal
<1> QED BY <1>1, <1>2

\* Every step keeps the types and never leads back to DETECTED.
LEMMA TypeStep ==
  ASSUME TypeOK, state # "DETECTED", [Next]_vars
  PROVE  TypeOK' /\ state' # "DETECTED"
<1>0. CaseOK /\ CallersOK
  BY TypeParts
<1>a. {"DIAGNOSED", "DECISIONED", "POLICY_VALIDATED", "WAITING_FOR_OUTCOME", "RECOVERED",
       "EXHAUSTED", "ESCALATED"} \subseteq CaseState \ {"DETECTED"}
  BY DEF CaseState, TERMINAL_CASE_STATES
<1>b. \A s \in TERMINAL_CASE_STATES : s \in CaseState /\ s # "DETECTED"
  BY DEF CaseState, TERMINAL_CASE_STATES
<1> SUFFICES CaseOK' /\ CallersOK' /\ state' # "DETECTED"
  BY DEF TypeOK, CaseOK, CallersOK
<1>1. CASE assess_case
  <2>1. state' \in {state, "DIAGNOSED"} /\ assessment' \in AssessmentRow
    BY <1>1, CurrentAssessmentType DEF assess_case
  <2>2. UNCHANGED <<facts, age, attempts, proposals, caller>>
    BY <1>1 DEF assess_case
  <2> QED BY <1>0, <1>a, <2>1, <2>2 DEF CaseOK, CallersOK
<1>2. ASSUME NEW w \in Callers, NEW m \in Models, prepare_snapshot(w, m)
      PROVE  CaseOK' /\ CallersOK' /\ state' # "DETECTED"
  <2>1. UNCHANGED <<state, facts, age, assessment, attempts, proposals>>
    BY <1>2 DEF prepare_snapshot
  <2>2. CallersOK'
    BY <1>0, <1>2, SnapshotType, CallerMoves
  <2> QED BY <1>0, <2>1, <2>2, CaseUnchanged
<1>3. ASSUME NEW w \in Callers, propose(w)
      PROVE  CaseOK' /\ CallersOK' /\ state' # "DETECTED"
  <2>1. UNCHANGED <<state, facts, age, assessment, attempts, proposals>>
    BY <1>3 DEF propose
  <2>2. PICK a \in Answers : caller' = [caller EXCEPT ![w] =
                                [pc |-> "answered", input |-> caller[w].input, answer |-> a]]
    BY <1>0, <1>3 DEF propose, CallersOK
  <2>3. a \in RecoveryAction /\ caller[w].input \in StrategyInput
    BY <1>0, ModelsAssumption DEF CallersOK, CallerState
  <2>4. [pc |-> "answered", input |-> caller[w].input, answer |-> a] \in CallerState
    BY <2>3 DEF CallerState
  <2>5. CallersOK'
    BY <1>0, <2>2, <2>3, <2>4, CallerMoves
  <2> QED BY <1>0, <2>1, <2>5, CaseUnchanged
<1>4. ASSUME NEW w \in Callers, generation_fails(w) \/ discard_answer(w) \/ crash(w)
      PROVE  CaseOK' /\ CallersOK' /\ state' # "DETECTED"
  <2>1. /\ UNCHANGED <<state, facts, age, assessment, attempts, proposals>>
        /\ caller' = [caller EXCEPT ![w] = Idle]
    BY <1>4 DEF generation_fails, discard_answer, crash
  <2>2. Idle.pc # "answered"
    BY DEF Idle
  <2>3. CallersOK'
    BY <1>0, <2>1, <2>2, NoneTypes, CallerMoves
  <2> QED BY <1>0, <2>1, <2>3, CaseUnchanged
<1>5. ASSUME NEW w \in Callers, persist_locked(w)
      PROVE  CaseOK' /\ CallersOK' /\ state' # "DETECTED"
  <2>1. /\ caller' = [caller EXCEPT ![w] = Idle] /\ Idle.pc # "answered"
        /\ proposals' = Superseded(proposals) \cup {NewProposal(w)}
        /\ state' \in {"DECISIONED", state}
        /\ UNCHANGED <<facts, age, assessment, attempts>>
        /\ caller[w].pc = "answered"
    BY <1>5 DEF persist_locked, Idle
  <2>2. CallersOK'
    BY <1>0, <2>1, NoneTypes, CallerMoves
  <2>3. proposals' \subseteq Proposal
    BY <1>0, <2>1, ProposalTypes DEF Superseded, CaseOK
  <2> QED BY <1>0, <1>a, <2>1, <2>2, <2>3 DEF CaseOK
<1>6. ASSUME NEW r \in Snapshots, reconciled(r)
      PROVE  CaseOK' /\ CallersOK' /\ state' # "DETECTED"
  <2>1. state' \in {state} \cup TERMINAL_CASE_STATES
    BY <1>0, <1>6, ReconciledStateMoves DEF reconciled, CaseOK
  <2>2. facts.last_reconciled_at + 1 \in 1..MaxReconciliations
    BY <1>0, <1>6, StampType, FreshnessAssumption DEF reconciled, CaseOK
  <2>3. facts' \in CaseFacts
    BY <1>6, <2>2 DEF reconciled, CaseFacts
  <2>4. age' \in 0..(Freshness + 1)
    BY <1>6, FreshnessAssumption DEF reconciled
  <2>5. UNCHANGED <<assessment, attempts, proposals, caller>>
    BY <1>6 DEF reconciled
  <2> QED BY <1>0, <1>b, <2>1, <2>3, <2>4, <2>5 DEF CaseOK, CallersOK
<1>7. CASE Tick
  <2>1. age' \in 0..(Freshness + 1)
    BY <1>0, <1>7, FreshnessAssumption DEF Tick, CaseOK
  <2> QED BY <1>0, <1>7, <2>1 DEF Tick, CaseOK, CallersOK
<1>8. CASE evaluate_policy
  <2>1. state' \in {"POLICY_VALIDATED", "EXHAUSTED", "ESCALATED"}
    BY <1>8 DEF evaluate_policy, PolicyTarget
  <2> QED BY <1>0, <1>8, <1>a, <2>1 DEF evaluate_policy, CaseOK, CallersOK
<1>9. CASE execute_action
  <2>1. /\ state' \in {"WAITING_FOR_OUTCOME", "EXHAUSTED", "ESCALATED"}
        /\ attempts' \in {attempts, attempts + 1}
    BY <1>9 DEF execute_action
  <2> QED BY <1>0, <1>9, <1>a, <2>1 DEF execute_action, CaseOK, CallersOK
<1>10. CASE case_closed
  <2>1. state' \in TERMINAL_CASE_STATES
    BY <1>10 DEF case_closed, TERMINAL_CASE_STATES
  <2> QED BY <1>0, <1>10, <1>b, <2>1 DEF case_closed, CaseOK, CallersOK
<1>11. CASE UNCHANGED vars
  BY <1>0, <1>11 DEF vars, CaseOK, CallersOK
<1> QED
  BY <1>1, <1>2, <1>3, <1>4, <1>5, <1>6, <1>7, <1>8, <1>9, <1>10, <1>11
     DEF Next, CallerStep, Persist

\* The first reconciliation opens a well-formed case.
LEMMA TypeInit == Init => TypeOK /\ state # "DETECTED"
<1> SUFFICES ASSUME Init PROVE TypeOK /\ state # "DETECTED"
  OBVIOUS
<1>1. facts \in CaseFacts
  BY FreshnessAssumption DEF Init, CaseFacts
<1>2. "RECONCILING" \in CaseState
  BY DEF CaseState
<1>3. \A w \in Callers : caller[w] = Idle /\ Idle.pc # "answered"
  BY DEF Init, Idle
<1> QED BY <1>1, <1>2, <1>3, NoneTypes, FreshnessAssumption DEF Init, TypeOK

\* Whatever is configured, asked, answered and interleaved, the case row, its proposals
\* and the callers keep their types; no case falls back to DETECTED.
THEOREM TypeCorrect == Spec => []TypeOK
<1>1. Init => TypeOK /\ state # "DETECTED"
  BY TypeInit
<1>2. (TypeOK /\ state # "DETECTED") /\ [Next]_vars => (TypeOK /\ state # "DETECTED")'
  BY TypeStep
<1> QED BY <1>1, <1>2, PTL DEF Spec

-----------------------------------------------------------------------------
(* The inductive invariant.                                                 *)

\* A caller that was snapshotted asks no model exactly where a rule decides.
CallersKnow ==
  \A w \in Callers :
    caller[w].pc # "idle" =>
      (caller[w].input.model = NoModel
         <=> RuleDecides(caller[w].input.diagnosis.recovery_disposition))

\* A proposal was made in an open case, at the present reconciliation with its present
\* facts or at an earlier one.
Recorded ==
  \A p \in proposals :
    /\ p.input.assessment.terminal_case_state = "none"
    /\ ReconciledAt(p) <= facts.last_reconciled_at
    /\ ReconciledAt(p) = facts.last_reconciled_at => p.input.assessment.facts = facts

\* An assessment that was decided upon stands until the window or the case closes or the
\* case is reconciled again: nobody can assess the same facts to a different end.
DecidedStands ==
  \A p \in proposals :
    ReconciledAt(p) = facts.last_reconciled_at /\ Open(state) /\ ~Stale(age, Freshness)
      => ContextHolds

Inv ==
  /\ TypeOK /\ state # "DETECTED" /\ CallersKnow /\ Recorded /\ DecidedStands
  /\ OneProposalInForce /\ OneProposalPerAssessment /\ ProposalsAreSound

\* What an assessment that holds says about the case.
LEMMA ContextMeans ==
  ASSUME TypeOK, ContextHolds
  PROVE  /\ Open(state) /\ ~Stale(age, Freshness)
         /\ assessment.fingerprint = Fingerprint
         /\ Fingerprint.facts = facts /\ Fingerprint.terminal_case_state = "none"
         /\ assessment.diagnosis = classify_failure(facts)
         /\ facts.payment_status = "failed" \/ facts.subscription_status = "halted"
<1>1. assessment = CurrentAssessment /\ assessment.decision = "ELIGIBLE"
  BY DEF ContextHolds
<1>2. Eligibility.decision = "ELIGIBLE"
  BY <1>1 DEF CurrentAssessment
<1>3. assessment.fingerprint = Fingerprint /\ assessment.diagnosis = classify_failure(facts)
  BY <1>1, <1>2 DEF CurrentAssessment
<1>4. age \in Int /\ Freshness \in Nat
  BY FreshnessAssumption DEF TypeOK
<1>5. /\ Open(state) /\ ~Stale(age, Freshness)
      /\ facts.payment_status = "failed" \/ facts.subscription_status = "halted"
  BY <1>2, <1>4, EligibleMeans DEF Eligibility, Open
<1>6. Fingerprint.facts = facts /\ Fingerprint.terminal_case_state = "none"
  BY <1>5 DEF Fingerprint, build_assessment_fingerprint, Open
<1> QED BY <1>3, <1>5, <1>6

\* A fresh assessment of the same facts, in the window and while the case is open, has
\* the same result.
LEMMA SameAssessment ==
  ASSUME TypeOK, TypeOK', facts' = facts, Open(state), Open(state'),
         ~Stale(age, Freshness), ~Stale(age', Freshness)
  PROVE  CurrentAssessment' = CurrentAssessment
<1>1. age \in Nat /\ age' \in Nat /\ Freshness \in Nat
  BY FreshnessAssumption DEF TypeOK
<1>2. assess_eligibility(state, facts, "aware", age, Freshness)
        = assess_eligibility(state', facts, "aware", age', Freshness)
  BY <1>1, EligibilityStands
<1>3. Eligibility' = Eligibility
  BY <1>2 DEF Eligibility
<1>4. Fingerprint' = Fingerprint
  BY DEF Fingerprint, build_assessment_fingerprint, Open
<1> QED BY <1>3, <1>4 DEF CurrentAssessment

\* A superseded copy differs from its row in the flag alone.
LEMMA SupersededFields ==
  ASSUME NEW p
  PROVE  /\ SupersededProposal(p).input = p.input /\ SupersededProposal(p).source = p.source
         /\ SupersededProposal(p).action = p.action /\ SupersededProposal(p).audit = p.audit
         /\ SupersededProposal(p).superseded = TRUE
BY DEF SupersededProposal

\* What is stored: a proposal for the case as it is under the lock, which nobody decided
\* before.
LEMMA Accepted ==
  ASSUME Inv, NEW w \in Callers, persist_locked(w)
  PROVE  LET n == NewProposal(w)
         IN  /\ ContextHolds /\ state \in {"DIAGNOSED", "DECISIONED"}
             /\ n.input.assessment = Fingerprint /\ n.superseded = FALSE
             /\ n.input.diagnosis = classify_failure(facts)
             /\ n.action \in compatible_actions(n.input.diagnosis.recovery_disposition)
             /\ n.source = "RULE" <=> RuleDecides(n.input.diagnosis.recovery_disposition)
             /\ n.audit # "STRATEGY_REGENERATED" <=> state = "DIAGNOSED"
             /\ \A q \in proposals : q.input.assessment # n.input.assessment
<1> DEFINE n == NewProposal(w)
<1>0. TypeOK
  BY DEF Inv
<1>1. ContextHolds /\ InputFingerprint(caller[w].input.model) = caller[w].input
  BY DEF persist_locked, Acceptable, SnapshotStillCurrent
<1>2. GenerationState /\ ActionCompatible(w) /\ caller[w].pc = "answered"
  BY DEF persist_locked, Acceptable
<1>3. state \in {"DIAGNOSED", "DECISIONED"}
  BY <1>2 DEF GenerationState
<1>4. /\ caller[w].input.assessment = assessment.fingerprint
      /\ caller[w].input.diagnosis = assessment.diagnosis
  BY <1>1 DEF InputFingerprint
<1>5. n.input = caller[w].input /\ n.action = caller[w].answer /\ n.superseded = FALSE
  BY DEF NewProposal
<1>6. /\ n.input.assessment = Fingerprint
      /\ n.input.diagnosis = classify_failure(facts)
  BY <1>0, <1>1, <1>4, <1>5, ContextMeans
<1>7. n.action \in compatible_actions(n.input.diagnosis.recovery_disposition)
  BY <1>2, <1>4, <1>5 DEF ActionCompatible
<1>8. n.source = "RULE" <=> RuleDecides(n.input.diagnosis.recovery_disposition)
  <2>1. caller[w].input.model = NoModel
          <=> RuleDecides(caller[w].input.diagnosis.recovery_disposition)
    BY <1>2 DEF Inv, CallersKnow
  <2>2. n.source = "RULE" <=> caller[w].input.model = NoModel
    BY DEF NewProposal
  <2> QED BY <1>5, <2>1, <2>2
<1>9. n.audit # "STRATEGY_REGENERATED" <=> state = "DIAGNOSED"
  BY <1>3 DEF NewProposal
<1>10. ASSUME NEW q \in proposals, q.input.assessment = n.input.assessment
       PROVE  FALSE
  <2>1. state = "DECISIONED" /\ \E p \in InForce : p.input.assessment # assessment.fingerprint
    BY <1>2, <1>3, <1>10 DEF GenerationState, Inv, OneProposalInForce
  <2>2. PICK p \in InForce : p.input.assessment # assessment.fingerprint
    BY <2>1
  <2>3. assessment.fingerprint = Fingerprint /\ Fingerprint.facts = facts
        /\ Fingerprint.terminal_case_state = "none" /\ Fingerprint \in Fingerprints
    BY <1>0, <1>1, ContextMeans, CurrentAssessmentType
  <2>4. ReconciledAt(q) = facts.last_reconciled_at
    BY <1>6, <1>10, <2>3 DEF ReconciledAt
  <2>5. p \in proposals /\ ReconciledAt(q) <= ReconciledAt(p)
        /\ ReconciledAt(p) <= facts.last_reconciled_at
    BY DEF Inv, OneProposalInForce, Recorded, InForce
  <2>6. p.input.assessment \in Fingerprints /\ ReconciledAt(p) \in Nat
    BY <1>0, <2>5, FingerprintStamp DEF TypeOK, Proposal, StrategyInput, ReconciledAt
  <2>7. facts.last_reconciled_at \in Nat
    BY <1>0, StampType DEF TypeOK
  <2>8. ReconciledAt(p) = facts.last_reconciled_at
    BY <2>4, <2>5, <2>6, <2>7
  <2>9. p.input.assessment.facts = facts /\ p.input.assessment.terminal_case_state = "none"
    BY <2>5, <2>8 DEF Inv, Recorded
  <2>10. \A a \in Fingerprints : a = [terminal_case_state |-> a.terminal_case_state,
                                        facts |-> a.facts]
    BY DEF Fingerprints, NoFingerprint, build_assessment_fingerprint
  <2>11. p.input.assessment = Fingerprint
    BY <2>3, <2>6, <2>9, <2>10
  <2> QED BY <2>2, <2>3, <2>11
<1> QED BY <1>1, <1>3, <1>5, <1>6, <1>7, <1>8, <1>9, <1>10

\* Storing an answer keeps what is known of the proposals.
LEMMA PersistStep ==
  ASSUME Inv, TypeOK', NEW w \in Callers, persist_locked(w)
  PROVE  /\ Recorded' /\ DecidedStands' /\ OneProposalInForce'
         /\ OneProposalPerAssessment' /\ ProposalsAreSound'
<1> DEFINE d == classify_failure(facts)
<1>0. TypeOK
  BY DEF Inv
<1>1. PICK n : /\ n = NewProposal(w)
               /\ proposals' = Superseded(proposals) \cup {n}
               /\ UNCHANGED <<facts, age, assessment, attempts>>
  BY DEF persist_locked
<1>2. /\ ContextHolds /\ state \in {"DIAGNOSED", "DECISIONED"}
      /\ n.input.assessment = Fingerprint /\ n.superseded = FALSE
      /\ n.input.diagnosis = d
      /\ n.action \in compatible_actions(n.input.diagnosis.recovery_disposition)
      /\ n.source = "RULE" <=> RuleDecides(n.input.diagnosis.recovery_disposition)
      /\ n.audit # "STRATEGY_REGENERATED" <=> state = "DIAGNOSED"
      /\ \A q \in proposals : q.input.assessment # n.input.assessment
  BY <1>1, Accepted
<1>3. state' = "DECISIONED"
  BY <1>2 DEF persist_locked
<1>4. /\ Fingerprint.facts = facts /\ Fingerprint.terminal_case_state = "none"
      /\ Open(state) /\ ~Stale(age, Freshness)
      /\ facts.payment_status = "failed" \/ facts.subscription_status = "halted"
  BY <1>0, <1>2, ContextMeans
<1>5. /\ ReconciledAt(n) = facts.last_reconciled_at
      /\ facts.last_reconciled_at \in Nat
  BY <1>0, <1>2, <1>4, StampType DEF ReconciledAt, TypeOK
<1>6. \A q \in proposals' :
        \/ q = n
        \/ \E p \in proposals : q = SupersededProposal(p)
  BY <1>1 DEF Superseded
<1>7. Recorded'
  <2>1. ASSUME NEW q \in proposals'
        PROVE  /\ q.input.assessment.terminal_case_state = "none"
               /\ ReconciledAt(q) <= facts.last_reconciled_at
               /\ ReconciledAt(q) = facts.last_reconciled_at => q.input.assessment.facts = facts
    <3>1. CASE q = n
      BY <1>2, <1>4, <1>5, <3>1
    <3>2. CASE q # n
      <4>1. PICK p \in proposals : q = SupersededProposal(p)
        BY <1>6, <2>1, <3>2
      <4>2. q.input = p.input
        BY <4>1, SupersededFields
      <4> QED BY <4>2 DEF Inv, Recorded, ReconciledAt
    <3> QED BY <3>1, <3>2
  <2> QED BY <1>1, <2>1 DEF Recorded, ReconciledAt
<1>8. DecidedStands'
  <2>1. Open(state') /\ ~Stale(age', Freshness)
    BY <1>1, <1>3, <1>4 DEF Open, TERMINAL_CASE_STATES
  <2>2. CurrentAssessment' = CurrentAssessment
    BY <1>0, <1>1, <1>4, <2>1, SameAssessment
  <2>3. ContextHolds'
    BY <1>1, <1>2, <2>2 DEF ContextHolds
  <2> QED BY <2>3 DEF DecidedStands
<1>9. OneProposalInForce'
  <2>1. n \in proposals'
    BY <1>1
  <2>2. InForce' = {n}
    <3>1. \A q \in InForce' : q = n
      BY <1>6, SupersededFields DEF InForce
    <3>2. n \in InForce'
      BY <1>2, <2>1 DEF InForce
    <3> QED BY <3>1, <3>2
  <2>3. ASSUME NEW q \in proposals'
        PROVE  ReconciledAt(q) <= ReconciledAt(n)
    <3>1. ReconciledAt(q) <= facts.last_reconciled_at
      BY <1>1, <1>7, <2>3 DEF Recorded, ReconciledAt
    <3> QED BY <1>5, <3>1
  <2>4. \A p \in InForce', q \in proposals' : ReconciledAt(q) <= ReconciledAt(p)
    BY <2>2, <2>3
  <2>5. \A p, q \in InForce' : p = q
    BY <2>2
  <2>6. state' \notin {"RECONCILING", "DIAGNOSED"} /\ InForce' # {}
    BY <1>3, <2>2
  <2> QED BY <2>4, <2>5, <2>6 DEF OneProposalInForce, ReconciledAt
<1>10. OneProposalPerAssessment'
  <2>1. ASSUME NEW p \in proposals', NEW q \in proposals',
               p.input.assessment = q.input.assessment
        PROVE  p = q
    <3>1. CASE p = n /\ q = n
      BY <3>1
    <3>2. CASE p = n /\ q # n
      <4>1. PICK b \in proposals : q = SupersededProposal(b)
        BY <1>6, <2>1, <3>2
      <4>2. b.input.assessment = n.input.assessment
        BY <2>1, <3>2, <4>1, SupersededFields
      <4> QED BY <1>2, <4>2
    <3>3. CASE p # n /\ q = n
      <4>1. PICK a \in proposals : p = SupersededProposal(a)
        BY <1>6, <2>1, <3>3
      <4>2. a.input.assessment = n.input.assessment
        BY <2>1, <3>3, <4>1, SupersededFields
      <4> QED BY <1>2, <4>2
    <3>4. CASE p # n /\ q # n
      <4>1. PICK a \in proposals : p = SupersededProposal(a)
        BY <1>6, <2>1, <3>4
      <4>2. PICK b \in proposals : q = SupersededProposal(b)
        BY <1>6, <2>1, <3>4
      <4>3. a.input.assessment = b.input.assessment
        BY <2>1, <4>1, <4>2, SupersededFields
      <4>4. a = b
        BY <4>3 DEF Inv, OneProposalPerAssessment
      <4> QED BY <4>1, <4>2, <4>4
    <3> QED BY <3>1, <3>2, <3>3, <3>4
  <2> QED BY <2>1 DEF OneProposalPerAssessment
<1>11. ProposalsAreSound'
  <2> DEFINE sound(p) ==
        LET f == p.input.assessment.facts
            e == p.input.diagnosis
        IN  /\ p.input.assessment.terminal_case_state = "none"
            /\ f.payment_status = "failed" \/ f.subscription_status = "halted"
            /\ e = classify_failure(f)
            /\ p.action \in compatible_actions(e.recovery_disposition)
            /\ p.source = "RULE" <=> RuleDecides(e.recovery_disposition)
             first(S) == {q \in S : q.audit # "STRATEGY_REGENERATED"}
  <2>1. sound(n)
    BY <1>2, <1>4
  <2>2. \A p \in proposals : sound(p)
    BY DEF Inv, ProposalsAreSound
  <2>3. ASSUME NEW p \in proposals
        PROVE  sound(SupersededProposal(p))
    BY <2>2, <2>3, SupersededFields
  <2>4. \A p \in proposals' : sound(p)
    BY <1>6, <2>1, <2>3
  <2>5. \E p \in proposals' : first(proposals') = {p}
    <3>1. CASE state = "DIAGNOSED"
      <4>1. proposals = {}
        BY <3>1 DEF Inv, OneProposalInForce
      <4>2. proposals' = {n} /\ n.audit # "STRATEGY_REGENERATED"
        BY <1>1, <1>2, <3>1, <4>1 DEF Superseded
      <4> QED BY <4>2
    <3>2. CASE state = "DECISIONED"
      <4>1. proposals # {}
        BY <3>2 DEF Inv, OneProposalInForce, InForce
      <4>2. PICK p \in proposals : first(proposals) = {p}
        BY <4>1 DEF Inv, ProposalsAreSound
      <4>3. n.audit = "STRATEGY_REGENERATED"
        BY <1>2, <3>2
      <4>4. SupersededProposal(p) \in proposals'
        BY <1>1 DEF Superseded
      <4>5. SupersededProposal(p).audit # "STRATEGY_REGENERATED"
        BY <4>2, SupersededFields
      <4>6. \A q \in first(proposals') : q = SupersededProposal(p)
        BY <1>6, <4>2, <4>3, SupersededFields
      <4>7. first(proposals') = {SupersededProposal(p)}
        BY <4>4, <4>5, <4>6
      <4> QED BY <4>4, <4>7
    <3> QED BY <1>2, <3>1, <3>2
  <2> QED BY <2>4, <2>5 DEF ProposalsAreSound
<1> QED BY <1>7, <1>8, <1>9, <1>10, <1>11

\* Every other step leaves the proposals as they are, and a case that waits for its
\* first proposal, or has one, stays where it is in that respect.
LEMMA OtherSteps ==
  ASSUME Inv, [Next]_vars, ~\E w \in Callers : persist_locked(w)
  PROVE  /\ proposals' = proposals
         /\ state' \in {"DECISIONED", "POLICY_VALIDATED", "WAITING_FOR_OUTCOME"}
              => state \in {"DECISIONED", "POLICY_VALIDATED", "WAITING_FOR_OUTCOME"}
         /\ state' \in {"RECONCILING", "DIAGNOSED"} => state \in {"RECONCILING", "DIAGNOSED"}
<1>0. \A s \in TERMINAL_CASE_STATES :
        s \notin {"DECISIONED", "POLICY_VALIDATED", "WAITING_FOR_OUTCOME",
                  "RECONCILING", "DIAGNOSED"}
  BY DEF TERMINAL_CASE_STATES
<1>1. CASE assess_case
  <2>1. proposals' = proposals
    BY <1>1 DEF assess_case
  <2>2. state' = state \/ (state = "RECONCILING" /\ state' = "DIAGNOSED")
    BY <1>1 DEF assess_case
  <2> QED BY <2>1, <2>2
<1>2. ASSUME NEW w \in Callers,
             \/ \E m \in Models : prepare_snapshot(w, m)
             \/ propose(w) \/ generation_fails(w) \/ discard_answer(w) \/ crash(w)
      PROVE  UNCHANGED <<proposals, state>>
  BY <1>2 DEF prepare_snapshot, propose, generation_fails, discard_answer, crash
<1>3. ASSUME NEW r \in Snapshots, reconciled(r)
      PROVE  proposals' = proposals /\ state' \in {state} \cup TERMINAL_CASE_STATES
  BY <1>3, ReconciledStateMoves DEF reconciled, Inv, TypeOK
<1>4. CASE Tick
  BY <1>4 DEF Tick
<1>5. CASE evaluate_policy
  <2>1. state' \in {"POLICY_VALIDATED", "EXHAUSTED", "ESCALATED"}
    BY <1>5 DEF evaluate_policy, PolicyTarget
  <2> QED BY <1>5, <2>1 DEF evaluate_policy
<1>6. CASE execute_action
  <2>1. state' \in {"WAITING_FOR_OUTCOME", "EXHAUSTED", "ESCALATED"}
    BY <1>6 DEF execute_action
  <2> QED BY <1>6, <2>1 DEF execute_action
<1>7. CASE case_closed
  <2>1. state' \in TERMINAL_CASE_STATES
    BY <1>7 DEF case_closed, TERMINAL_CASE_STATES
  <2> QED BY <1>0, <1>7, <2>1 DEF case_closed
<1>8. CASE UNCHANGED vars
  BY <1>8 DEF vars
<1> QED
  BY <1>0, <1>1, <1>2, <1>3, <1>4, <1>5, <1>6, <1>7, <1>8 DEF Next, CallerStep, Persist

\* A reconciliation carries a stamp that no proposal has.
LEMMA NewStamp ==
  ASSUME Inv, NEW r \in Snapshots, reconciled(r), NEW p \in proposals
  PROVE  /\ ReconciledAt(p) < facts'.last_reconciled_at
         /\ facts'.last_reconciled_at = facts.last_reconciled_at + 1
<1>1. facts'.last_reconciled_at = facts.last_reconciled_at + 1
  BY DEF reconciled, WithStamp
<1>2. facts.last_reconciled_at \in Nat
  BY StampType DEF Inv, TypeOK
<1>3. p.input.assessment \in Fingerprints
  BY DEF Inv, TypeOK, Proposal, StrategyInput
<1>4. ReconciledAt(p) \in Nat /\ ReconciledAt(p) <= facts.last_reconciled_at
  BY <1>3, FingerprintStamp DEF Inv, Recorded, ReconciledAt
<1> QED BY <1>1, <1>2, <1>4

\* Where neither reconciliation nor assessment steps in, the case keeps its facts and
\* its assessment, it does not get younger, and what is closed stays closed.
LEMMA QuietSteps ==
  ASSUME Inv, [Next]_vars, ~assess_case, ~\E r \in Snapshots : reconciled(r)
  PROVE  /\ facts' = facts /\ assessment' = assessment /\ age' \in {age, age + 1}
         /\ Open(state') => Open(state)
<1>0. \A s \in CaseState : s \in {"DIAGNOSED", "DECISIONED", "POLICY_VALIDATED",
                               "WAITING_FOR_OUTCOME"} => Open(s)
  BY DEF Open, TERMINAL_CASE_STATES
<1>1. ASSUME NEW w \in Callers,
             \/ \E m \in Models : prepare_snapshot(w, m)
             \/ propose(w) \/ generation_fails(w) \/ discard_answer(w) \/ crash(w)
      PROVE  UNCHANGED <<facts, assessment, age, state>>
  BY <1>1 DEF prepare_snapshot, propose, generation_fails, discard_answer, crash
<1>2. ASSUME NEW w \in Callers, persist_locked(w)
      PROVE  /\ UNCHANGED <<facts, assessment, age>>
             /\ state \in {"DIAGNOSED", "DECISIONED"}
  BY <1>2, Accepted DEF persist_locked
<1>3. CASE Tick
  BY <1>3 DEF Tick
<1>4. CASE evaluate_policy
  BY <1>4 DEF evaluate_policy, Open, TERMINAL_CASE_STATES
<1>5. CASE execute_action
  BY <1>5 DEF execute_action, Open, TERMINAL_CASE_STATES
<1>6. CASE case_closed
  BY <1>6 DEF case_closed, Open, TERMINAL_CASE_STATES
<1>7. CASE UNCHANGED vars
  BY <1>7 DEF vars
<1>8. state \in CaseState
  BY DEF Inv, TypeOK
<1> QED
  BY <1>0, <1>1, <1>2, <1>3, <1>4, <1>5, <1>6, <1>7, <1>8 DEF Next, CallerStep, Persist

\* Proposals that are left alone stay recorded: the facts change only with their stamp.
LEMMA RecordedStep ==
  ASSUME Inv, [Next]_vars, ~\E w \in Callers : persist_locked(w)
  PROVE  Recorded'
<1>1. proposals' = proposals
  BY OtherSteps
<1>2. CASE \E r \in Snapshots : reconciled(r)
  <2>1. PICK r \in Snapshots : reconciled(r)
    BY <1>2
  <2>2. ASSUME NEW p \in proposals
        PROVE  ReconciledAt(p) < facts'.last_reconciled_at
    BY <2>1, NewStamp
  <2>3. ASSUME NEW p \in proposals
        PROVE  ReconciledAt(p) \in Nat /\ facts'.last_reconciled_at \in Nat
    <3>1. p.input.assessment \in Fingerprints
      BY DEF Inv, TypeOK, Proposal, StrategyInput
    <3>2. facts.last_reconciled_at \in Nat
      BY StampType DEF Inv, TypeOK
    <3> QED BY <2>1, <3>1, <3>2, NewStamp, FingerprintStamp DEF ReconciledAt
  <2> QED BY <1>1, <2>2, <2>3 DEF Inv, Recorded, ReconciledAt
<1>3. CASE ~\E r \in Snapshots : reconciled(r)
  <2>1. facts' = facts
    BY <1>3, QuietSteps DEF assess_case
  <2> QED BY <1>1, <2>1 DEF Inv, Recorded, ReconciledAt
<1> QED BY <1>2, <1>3

\* No step lets go of an assessment that was decided upon.
LEMMA DecidedStep ==
  ASSUME Inv, TypeOK', [Next]_vars, ~\E w \in Callers : persist_locked(w)
  PROVE  DecidedStands'
<1> SUFFICES ASSUME NEW p \in proposals', ReconciledAt(p) = facts'.last_reconciled_at,
                    Open(state'), ~Stale(age', Freshness)
             PROVE  ContextHolds'
  BY DEF DecidedStands, ReconciledAt
<1>0. p \in proposals /\ age \in Nat /\ Freshness \in Nat
  BY OtherSteps, FreshnessAssumption DEF Inv, TypeOK
<1>1. CASE assess_case
  <2>1. UNCHANGED <<facts, age>> /\ Open(state)
    BY <1>1 DEF assess_case, Open, TERMINAL_CASE_STATES
  <2>2. ContextHolds
    BY <1>0, <2>1 DEF Inv, DecidedStands
  <2> QED BY <1>1, <2>2 DEF ContextHolds, assess_case
<1>2. ASSUME NEW r \in Snapshots, reconciled(r)
      PROVE  ContextHolds'
  <2>1. ReconciledAt(p) < facts'.last_reconciled_at
        /\ facts'.last_reconciled_at = facts.last_reconciled_at + 1
    BY <1>0, <1>2, NewStamp
  <2>2. facts.last_reconciled_at \in Nat
    BY StampType DEF Inv, TypeOK
  <2> QED BY <2>1, <2>2
<1>3. CASE ~assess_case /\ ~\E r \in Snapshots : reconciled(r)
  <2>1. /\ facts' = facts /\ assessment' = assessment /\ age' \in {age, age + 1}
        /\ Open(state)
    BY <1>3, QuietSteps
  <2>2. ~Stale(age, Freshness)
    BY <1>0, <2>1 DEF Stale
  <2>3. ContextHolds
    BY <1>0, <2>1, <2>2 DEF Inv, DecidedStands
  <2>4. CurrentAssessment' = CurrentAssessment
    BY <2>1, <2>2, SameAssessment DEF Inv
  <2> QED BY <2>1, <2>3, <2>4 DEF ContextHolds
<1> QED BY <1>1, <1>2, <1>3

\* A caller's snapshot is fixed when it is taken.
LEMMA CallersKnowStep ==
  ASSUME Inv, [Next]_vars
  PROVE  CallersKnow'
<1> DEFINE knows(v) == v.pc # "idle" =>
             (v.input.model = NoModel <=> RuleDecides(v.input.diagnosis.recovery_disposition))
<1>0. TypeOK /\ caller \in [Callers -> CallerState] /\ \A w \in Callers : knows(caller[w])
  BY DEF Inv, TypeOK, CallersKnow
<1>1. SUFFICES \/ caller' = caller
               \/ \E w \in Callers : \E v : knows(v) /\ caller' = [caller EXCEPT ![w] = v]
  <2>1. CASE caller' = caller
    BY <1>0, <2>1 DEF CallersKnow
  <2>2. CASE \E w \in Callers : \E v : knows(v) /\ caller' = [caller EXCEPT ![w] = v]
    <3>1. PICK w \in Callers : \E v : knows(v) /\ caller' = [caller EXCEPT ![w] = v]
      BY <2>2
    <3>2. PICK v : knows(v) /\ caller' = [caller EXCEPT ![w] = v]
      BY <3>1
    <3>3. \A u \in Callers : caller'[u] = IF u = w THEN v ELSE caller[u]
      BY <1>0, <3>2
    <3>4. \A u \in Callers : knows(caller'[u])
      BY <1>0, <3>2, <3>3
    <3> QED BY <3>4 DEF CallersKnow
  <2> QED BY <2>1, <2>2
<1>2. knows(Idle)
  BY DEF Idle
<1>3. ASSUME NEW w \in Callers,
             \/ generation_fails(w) \/ discard_answer(w) \/ crash(w) \/ persist_locked(w)
      PROVE  caller' = [caller EXCEPT ![w] = Idle]
  BY <1>3 DEF generation_fails, discard_answer, crash, persist_locked
<1>4. ASSUME NEW w \in Callers, propose(w)
      PROVE  \E v : knows(v) /\ caller' = [caller EXCEPT ![w] = v]
  <2>1. PICK a \in Answers : caller' = [caller EXCEPT ![w] =
                                [pc |-> "answered", input |-> caller[w].input, answer |-> a]]
    BY <1>0, <1>4 DEF propose
  <2>2. knows([pc |-> "answered", input |-> caller[w].input, answer |-> a])
    BY <1>0, <1>4 DEF propose
  <2> QED BY <2>1, <2>2
<1>5. ASSUME NEW w \in Callers, NEW m \in Models, prepare_snapshot(w, m)
      PROVE  \E v : knows(v) /\ caller' = [caller EXCEPT ![w] = v]
  BY <1>0, <1>5, SnapshotType
<1>6. CASE assess_case \/ (\E r \in Snapshots : reconciled(r)) \/ Tick \/ evaluate_policy
           \/ execute_action \/ case_closed \/ UNCHANGED vars
  BY <1>6 DEF assess_case, reconciled, Tick, evaluate_policy, execute_action, case_closed, vars
<1> HIDE DEF knows
<1> QED BY <1>2, <1>3, <1>4, <1>5, <1>6 DEF Next, CallerStep, Persist

\* The invariant is inductive.
LEMMA InvStep == Inv /\ [Next]_vars => Inv'
<1> SUFFICES ASSUME Inv, [Next]_vars PROVE Inv'
  OBVIOUS
<1>1. TypeOK' /\ state' # "DETECTED" /\ CallersKnow'
  BY TypeStep, CallersKnowStep DEF Inv
<1>2. CASE \E w \in Callers : persist_locked(w)
  BY <1>1, <1>2, PersistStep DEF Inv
<1>3. CASE ~\E w \in Callers : persist_locked(w)
  <2>1. proposals' = proposals /\ InForce' = InForce
    BY <1>3, OtherSteps DEF InForce
  <2>2. Recorded' /\ DecidedStands'
    BY <1>1, <1>3, RecordedStep, DecidedStep
  <2>3. OneProposalInForce'
    <3>1. state' \in {"DECISIONED", "POLICY_VALIDATED", "WAITING_FOR_OUTCOME"}
            => InForce' # {}
      BY <1>3, <2>1, OtherSteps DEF Inv, OneProposalInForce
    <3>2. state' \in {"RECONCILING", "DIAGNOSED"} => proposals' = {}
      BY <1>3, <2>1, OtherSteps DEF Inv, OneProposalInForce
    <3> QED BY <2>1, <3>1, <3>2 DEF Inv, OneProposalInForce, ReconciledAt
  <2>4. OneProposalPerAssessment'
    BY <2>1 DEF Inv, OneProposalPerAssessment
  <2>5. ProposalsAreSound'
    BY <2>1, Zenon DEF Inv, ProposalsAreSound
  <2> QED BY <1>1, <2>2, <2>3, <2>4, <2>5 DEF Inv
<1> QED BY <1>2, <1>3

\* It holds when the case has just been opened.
LEMMA InvInit == Init => Inv
<1> SUFFICES ASSUME Init PROVE Inv
  OBVIOUS
<1>1. proposals = {} /\ InForce = {} /\ state = "RECONCILING"
  BY DEF Init, InForce
<1>2. CallersKnow
  BY DEF Init, CallersKnow, Idle
<1> QED
  BY <1>1, <1>2, TypeInit
     DEF Inv, Recorded, DecidedStands, OneProposalInForce, OneProposalPerAssessment,
         ProposalsAreSound

LEMMA Invariant == Spec => []Inv
BY InvInit, InvStep, PTL DEF Spec

-----------------------------------------------------------------------------
(* The theorems.                                                            *)

\* A decided case has exactly one proposal in force, made for the newest reconciliation
\* of all; an undecided one has none: for any number of callers racing, reconciliations
\* and crashes (_persist_locked).
THEOREM OneProposalInForceHolds == Spec => []OneProposalInForce
<1>1. Inv => OneProposalInForce
  BY DEF Inv
<1> QED BY <1>1, Invariant, PTL

\* One assessment is decided at most once, by whatever models callers were configured
\* with (_validate_generation_state).
THEOREM OneProposalPerAssessmentHolds == Spec => []OneProposalPerAssessment
<1>1. Inv => OneProposalPerAssessment
  BY DEF Inv
<1> QED BY <1>1, Invariant, PTL

\* Every stored proposal was made for an open confirmed failure, with the diagnosis of
\* those facts and an action that fits it, by a rule where rules decide.
THEOREM ProposalsAreSoundHolds == Spec => []ProposalsAreSound
<1>1. Inv => ProposalsAreSound
  BY DEF Inv
<1> QED BY <1>1, Invariant, PTL

\* An answer is stored only into the case the model was asked about.
LEMMA AnswersFitStep ==
  ASSUME Inv, [Next]_vars
  PROVE  \A p \in proposals' :
           Identical(p.input) = {} =>
             /\ p.input.assessment = Fingerprint
             /\ ~Stale(age, Freshness)
             /\ state \in {"DIAGNOSED", "DECISIONED"}
<1> SUFFICES ASSUME NEW p, p \in proposals', Identical(p.input) = {}
             PROVE  /\ p.input.assessment = Fingerprint
                    /\ ~Stale(age, Freshness)
                    /\ state \in {"DIAGNOSED", "DECISIONED"}
  OBVIOUS
<1>0. p \notin proposals /\ \A q \in proposals : p # SupersededProposal(q)
  BY SupersededFields DEF Identical
<1>1. \E w \in Callers : persist_locked(w)
  BY <1>0, OtherSteps
<1>2. PICK w \in Callers : persist_locked(w)
  BY <1>1
<1>3. proposals' = Superseded(proposals) \cup {NewProposal(w)}
  BY <1>2 DEF persist_locked
<1>4. p = NewProposal(w)
  BY <1>0, <1>3 DEF Superseded
<1> QED BY <1>2, <1>4, Accepted, ContextMeans DEF Inv

\* A model's answer never reaches a case that was reconciled or closed since, or that is
\* stale at the commit (the context fence of _persist_locked).
THEOREM AnswersFitTheCaseHolds == Spec => AnswersFitTheCase
<1>1. Inv /\ [Next]_vars =>
        [\A p \in proposals' :
           Identical(p.input) = {} =>
             /\ p.input.assessment = Fingerprint
             /\ ~Stale(age, Freshness)
             /\ state \in {"DIAGNOSED", "DECISIONED"}]_vars
  BY AnswersFitStep
<1> QED BY <1>1, Invariant, PTL DEF Spec, AnswersFitTheCase

\* A validated case without a current proposal never gets one again.
LEMMA LapsedStep ==
  ASSUME Inv, TypeOK', [Next]_vars, state = "POLICY_VALIDATED", ~HasCurrentProposal
  PROVE  /\ ~HasCurrentProposal'
         /\ state' \in {"POLICY_VALIDATED"} \cup TERMINAL_CASE_STATES
<1>0. TypeOK /\ Open(state) /\ ~\E w \in Callers : persist_locked(w)
  BY Accepted DEF Inv, Open, TERMINAL_CASE_STATES
<1>1. proposals' = proposals /\ InForce' = InForce
  BY <1>0, OtherSteps DEF InForce
<1>2. ~evaluate_policy /\ ~execute_action
  BY DEF evaluate_policy, execute_action, HasCurrentProposal
<1>3. state' \in {"POLICY_VALIDATED"} \cup TERMINAL_CASE_STATES
  <2>1. CASE assess_case
    BY <2>1 DEF assess_case
  <2>2. ASSUME NEW w \in Callers,
               \/ \E m \in Models : prepare_snapshot(w, m)
               \/ propose(w) \/ generation_fails(w) \/ discard_answer(w) \/ crash(w)
        PROVE  state' = state
    BY <2>2 DEF prepare_snapshot, propose, generation_fails, discard_answer, crash
  <2>3. ASSUME NEW r \in Snapshots, reconciled(r)
        PROVE  state' \in {state} \cup TERMINAL_CASE_STATES
    BY <1>0, <2>3, ReconciledStateMoves DEF reconciled, Inv, TypeOK
  <2>4. CASE Tick \/ UNCHANGED vars
    BY <2>4 DEF Tick, vars
  <2>5. CASE case_closed
    BY <2>5 DEF case_closed, TERMINAL_CASE_STATES
  <2> QED BY <1>0, <1>2, <2>1, <2>2, <2>3, <2>4, <2>5 DEF Next, CallerStep, Persist
<1>4. ASSUME HasCurrentProposal'
      PROVE  FALSE
  <2>1. PICK p \in InForce : p.input.assessment = assessment'.fingerprint /\ ContextHolds'
    BY <1>1, <1>4 DEF HasCurrentProposal, ProposalIsCurrent
  <2>2. p \in proposals
    BY DEF InForce
  <2>3. /\ Open(state') /\ ~Stale(age', Freshness)
        /\ assessment'.fingerprint = Fingerprint' /\ Fingerprint'.facts = facts'
    <3>1. TypeOK' /\ ContextHolds'
      BY <2>1
    <3>2. (TypeOK /\ ContextHolds =>
             /\ Open(state) /\ ~Stale(age, Freshness)
             /\ assessment.fingerprint = Fingerprint /\ Fingerprint.facts = facts)'
      BY ContextMeans, PTL
    <3> QED BY <3>1, <3>2
  <2>4. ReconciledAt(p) = facts'.last_reconciled_at
    BY <2>1, <2>3 DEF ReconciledAt
  <2>5. CASE assess_case
    <3>1. UNCHANGED <<facts, age>>
      BY <2>5 DEF assess_case
    <3>2. ContextHolds
      BY <1>0, <2>2, <2>3, <2>4, <3>1 DEF Inv, DecidedStands
    <3> QED BY <2>5, <3>2 DEF ContextHolds, assess_case
  <2>6. ASSUME NEW r \in Snapshots, reconciled(r)
        PROVE  FALSE
    <3>1. ReconciledAt(p) < facts'.last_reconciled_at
          /\ facts'.last_reconciled_at = facts.last_reconciled_at + 1
      BY <2>2, <2>6, NewStamp
    <3>2. facts.last_reconciled_at \in Nat
      BY <1>0, StampType DEF TypeOK
    <3> QED BY <2>4, <3>1, <3>2
  <2>7. CASE ~assess_case /\ ~\E r \in Snapshots : reconciled(r)
    <3>1. facts' = facts /\ assessment' = assessment /\ age' \in {age, age + 1}
      BY <2>7, QuietSteps
    <3>2. age \in Nat /\ Freshness \in Nat
      BY <1>0, FreshnessAssumption DEF TypeOK
    <3>3. ~Stale(age, Freshness)
      BY <2>3, <3>1, <3>2 DEF Stale
    <3>4. ContextHolds
      BY <1>0, <2>2, <2>4, <3>1, <3>3 DEF Inv, DecidedStands
    <3>5. ProposalIsCurrent(p)
      BY <2>1, <3>1, <3>4 DEF ProposalIsCurrent
    <3> QED BY <2>2, <3>5 DEF HasCurrentProposal
  <2> QED BY <2>5, <2>6, <2>7
<1> QED BY <1>3, <1>4

\* Authority that lapsed stays lapsed: a POLICY_VALIDATED case whose proposal went stale
\* or was overtaken by a reconciliation is never acted upon, only closed.
THEOREM LapsedAuthorityIsFinalHolds == Spec => LapsedAuthorityIsFinal
<1>1. Inv /\ Inv' /\ [Next]_vars =>
        [state = "POLICY_VALIDATED" /\ ~HasCurrentProposal =>
           /\ ~HasCurrentProposal'
           /\ state' \in {"POLICY_VALIDATED"} \cup TERMINAL_CASE_STATES]_vars
  BY LapsedStep DEF Inv
<1> QED BY <1>1, Invariant, PTL DEF Spec, LapsedAuthorityIsFinal

-----------------------------------------------------------------------------
(* The book of decisions.                                                   *)

Decisions == {ReconciledAt(p) : p \in proposals}

Entries == {BookEntry(p) : p \in InForce}

\* The phase follows the state alone.
LEMMA PhaseIs ==
  /\ state \in {"RECONCILING", "DIAGNOSED"} => Phase = "undecided"
  /\ state = "DECISIONED" => Phase = "decided"
  /\ state = "POLICY_VALIDATED" => Phase = "validated"
  /\ state = "WAITING_FOR_OUTCOME" => Phase = "waiting"
  /\ state \in TERMINAL_CASE_STATES => Phase = "closed"
BY DEF Phase, TERMINAL_CASE_STATES

LEMMA PhaseIsNext ==
  /\ state' \in {"RECONCILING", "DIAGNOSED"} => Phase' = "undecided"
  /\ state' = "DECISIONED" => Phase' = "decided"
  /\ state' = "POLICY_VALIDATED" => Phase' = "validated"
  /\ state' = "WAITING_FOR_OUTCOME" => Phase' = "waiting"
  /\ state' \in TERMINAL_CASE_STATES => Phase' = "closed"
BY DEF Phase, TERMINAL_CASE_STATES

\* What is recorded depends on the proposals alone.
LEMMA BookUnchanged ==
  ASSUME proposals' = proposals
  PROVE  Decisions' = Decisions /\ Entries' = Entries
BY DEF Decisions, Entries, InForce, ReconciledAt, BookEntry

\* A proposal that is stored is the decision about the present reading, the first one.
LEMMA PersistDecides ==
  ASSUME Inv, NEW w \in Callers, persist_locked(w)
  PROVE  Book!Decide(NewProposal(w).action)
<1> DEFINE n == NewProposal(w)
           at == facts.last_reconciled_at
<1>1. /\ ContextHolds /\ state \in {"DIAGNOSED", "DECISIONED"}
      /\ n.input.assessment = Fingerprint /\ n.superseded = FALSE
      /\ \A q \in proposals : q.input.assessment # n.input.assessment
  BY Accepted
<1>2. /\ proposals' = Superseded(proposals) \cup {n}
      /\ state' = "DECISIONED" /\ UNCHANGED <<facts, attempts>>
  BY <1>1 DEF persist_locked
<1>3. TypeOK
  BY DEF Inv
<1>4. /\ Fingerprint.facts = facts /\ Fingerprint.terminal_case_state = "none"
      /\ Fingerprint \in Fingerprints
  BY <1>1, <1>3, ContextMeans, CurrentAssessmentType
<1>5. ReconciledAt(n) = at
  BY <1>1, <1>4 DEF ReconciledAt
<1>6. at \notin Decisions
  <2> SUFFICES ASSUME NEW q \in proposals, ReconciledAt(q) = at
               PROVE  FALSE
    BY DEF Decisions
  <2>1. q.input.assessment.facts = facts /\ q.input.assessment.terminal_case_state = "none"
    BY DEF Inv, Recorded
  <2>2. q.input.assessment \in Fingerprints
    BY <1>3 DEF TypeOK, Proposal, StrategyInput
  <2>3. \A a \in Fingerprints : a = [terminal_case_state |-> a.terminal_case_state,
                                       facts |-> a.facts]
    BY DEF Fingerprints, NoFingerprint, build_assessment_fingerprint
  <2>4. q.input.assessment = Fingerprint
    BY <1>4, <2>1, <2>2, <2>3
  <2> QED BY <1>1, <2>4
<1> HIDE DEF n
<1>7. Decisions' = Decisions \cup {at}
  <2>1. Decisions' = {ReconciledAt(p) : p \in proposals'}
    BY DEF Decisions, ReconciledAt
  <2>2. \A p \in proposals : ReconciledAt(SupersededProposal(p)) = ReconciledAt(p)
    BY SupersededFields DEF ReconciledAt
  <2> QED BY <1>2, <1>5, <2>1, <2>2 DEF Decisions, Superseded
<1>8. Entries' = {[reading |-> at, action |-> n.action]}
  <2>1. InForce' = {p \in proposals' : ~p.superseded}
    BY DEF InForce
  <2>2. \A p \in Superseded(proposals) : p.superseded = TRUE
    BY SupersededFields DEF Superseded
  <2>3. InForce' = {n}
    BY <1>1, <1>2, <2>1, <2>2 DEF n
  <2>4. Entries' = {BookEntry(p) : p \in InForce'}
    BY DEF Entries, BookEntry, ReconciledAt
  <2>5. Entries' = {BookEntry(n)}
    BY <2>3, <2>4
  <2> QED BY <1>5, <2>5 DEF BookEntry
<1>9. Phase \in {"undecided", "decided"} /\ Phase' = "decided"
  BY <1>1, <1>2, PhaseIs, PhaseIsNext
<1> QED BY <1>2, <1>6, <1>7, <1>8, <1>9 DEF Book!Decide, Decisions, Entries, n

\* A current proposal is the entry in force about the present reading.
LEMMA CurrentIsEntered ==
  ASSUME Inv, NEW p \in proposals, ProposalIsCurrent(p)
  PROVE  /\ p.action \in RecoveryAction
         /\ [reading |-> facts.last_reconciled_at, action |-> p.action] \in Entries
<1>1. p \in InForce /\ p.input.assessment = assessment.fingerprint /\ ContextHolds
  BY DEF ProposalIsCurrent
<1>2. TypeOK
  BY DEF Inv
<1>3. p.input.assessment.facts = facts
  BY <1>1, <1>2, ContextMeans
<1>4. BookEntry(p) = [reading |-> facts.last_reconciled_at, action |-> p.action]
  BY <1>3 DEF BookEntry, ReconciledAt
<1>5. BookEntry(p) \in Entries
  BY <1>1 DEF Entries
<1> QED BY <1>2, <1>4, <1>5 DEF TypeOK, Proposal

\* Every step of the services is a step of the book, or none.
LEMMA BookStep ==
  ASSUME Inv, Inv', [Next]_vars
  PROVE  [Book!Next]_(Book!bookVars)
<1> USE DEF Decisions, Entries
<1>0. /\ state \in CaseState \ {"DETECTED"} /\ state' \in CaseState
      /\ facts.last_reconciled_at \in Nat
  BY StampType DEF Inv, TypeOK
<1>1. CASE assess_case
  <2>1. proposals' = proposals /\ UNCHANGED <<facts, attempts>>
    BY <1>1 DEF assess_case
  <2>2. Phase' = Phase
    <3>1. state' = state \/ (state = "RECONCILING" /\ state' = "DIAGNOSED")
      BY <1>1 DEF assess_case
    <3>2. state' = state => Phase' = Phase
      BY DEF Phase
    <3> QED BY <3>1, <3>2, PhaseIs, PhaseIsNext
  <2> QED BY <2>1, <2>2, BookUnchanged DEF Book!bookVars
<1>2. ASSUME \/ Tick \/ UNCHANGED vars
             \/ \E w \in Callers :
                  \/ \E m \in Models : prepare_snapshot(w, m)
                  \/ propose(w) \/ generation_fails(w) \/ discard_answer(w) \/ crash(w)
      PROVE  UNCHANGED Book!bookVars
  <2>1. UNCHANGED <<state, facts, attempts, proposals>>
    BY <1>2 DEF Tick, vars, prepare_snapshot, propose, generation_fails, discard_answer, crash
  <2>2. Phase' = Phase
    BY <2>1 DEF Phase
  <2> QED BY <2>1, <2>2, BookUnchanged DEF Book!bookVars
<1>3. ASSUME NEW w \in Callers, persist_locked(w)
      PROVE  Book!Next
  <2>1. NewProposal(w).action \in RecoveryAction
    BY <1>3 DEF persist_locked, NewProposal, Inv, TypeOK
  <2> QED BY <1>3, <2>1, PersistDecides DEF Book!Next
<1>4. ASSUME NEW r \in Snapshots, reconciled(r)
      PROVE  Book!Read
  <2>1. /\ proposals' = proposals /\ UNCHANGED attempts
        /\ facts'.last_reconciled_at = facts.last_reconciled_at + 1
        /\ state' \in {state} \cup TERMINAL_CASE_STATES
    BY <1>0, <1>4, ReconciledStateMoves DEF reconciled, WithStamp
  <2>2. Phase' \in {Phase, "closed"}
    <3>1. state' = state => Phase' = Phase
      BY DEF Phase
    <3> QED BY <2>1, <3>1, PhaseIsNext
  <2> QED BY <2>1, <2>2, BookUnchanged DEF Book!Read
<1>5. CASE evaluate_policy
  <2>1. PICK p \in proposals :
          /\ ProposalIsCurrent(p)
          /\ state' \in {"POLICY_VALIDATED", "EXHAUSTED", "ESCALATED"}
    BY <1>5 DEF evaluate_policy, PolicyTarget
  <2>2. /\ state \in {"DECISIONED", "POLICY_VALIDATED"}
        /\ UNCHANGED <<facts, attempts, proposals>>
    BY <1>5 DEF evaluate_policy
  <2>3. Phase \in {"decided", "validated"} /\ Phase' \in {"validated", "closed"}
    BY <2>1, <2>2, PhaseIs, PhaseIsNext DEF TERMINAL_CASE_STATES
  <2>4. Book!Validate(p.action)
    BY <2>1, <2>2, <2>3, CurrentIsEntered, BookUnchanged DEF Book!Validate
  <2> QED BY <2>1, <2>4, CurrentIsEntered DEF Book!Next
<1>6. CASE execute_action
  <2>1. PICK p \in proposals :
          /\ ProposalIsCurrent(p)
          /\ attempts' = IF p.action = "CREATE_RECOVERY_LINK" THEN attempts + 1 ELSE attempts
          /\ state' \in {"WAITING_FOR_OUTCOME", "EXHAUSTED", "ESCALATED"}
    BY <1>6 DEF execute_action
  <2>2. state = "POLICY_VALIDATED" /\ UNCHANGED <<facts, proposals>>
    BY <1>6 DEF execute_action
  <2>3. Phase = "validated" /\ Phase' \in {"waiting", "closed"}
    BY <2>1, <2>2, PhaseIs, PhaseIsNext DEF TERMINAL_CASE_STATES
  <2>4. Book!Act(p.action)
    BY <2>1, <2>2, <2>3, CurrentIsEntered, BookUnchanged DEF Book!Act
  <2> QED BY <2>1, <2>4, CurrentIsEntered DEF Book!Next
<1>7. CASE case_closed
  <2>1. /\ state \in {"POLICY_VALIDATED", "WAITING_FOR_OUTCOME"}
        /\ state' \in TERMINAL_CASE_STATES
        /\ UNCHANGED <<facts, attempts, proposals>>
    BY <1>7 DEF case_closed, TERMINAL_CASE_STATES
  <2>2. Phase \in {"validated", "waiting"} /\ Phase' = "closed"
    BY <2>1, PhaseIs, PhaseIsNext
  <2>3. Book!Close
    BY <2>1, <2>2, BookUnchanged DEF Book!Close
  <2> QED BY <2>3 DEF Book!Next
<1>8. (\E r \in Snapshots : reconciled(r)) => Book!Next
  BY <1>4 DEF Book!Next
<1> QED
  BY <1>1, <1>2, <1>3, <1>5, <1>6, <1>7, <1>8 DEF Next, CallerStep, Persist

\* Strategy generation keeps the book of decisions (KeepsTheBook): for any number of
\* callers, reconciliations and policies each reading is decided upon once at most and
\* only a decision about the newest reading is validated or acted upon.
THEOREM ImplementsBook == Spec => KeepsTheBook
<1>1. Init => Book!Init
  <2> SUFFICES ASSUME Init PROVE Book!Init
    OBVIOUS
  <2>1. state = "RECONCILING" /\ proposals = {} /\ InForce = {} /\ attempts = 0
    BY DEF Init, InForce
  <2>2. facts.last_reconciled_at = 1
    BY DEF Init, WithStamp
  <2>3. Phase = "undecided"
    BY <2>1, PhaseIs
  <2> QED BY <2>1, <2>2, <2>3 DEF Book!Init
<1>2. Inv /\ Inv' /\ [Next]_vars => [Book!Next]_(Book!bookVars)
  BY BookStep
<1> QED BY <1>1, <1>2, Invariant, PTL DEF Spec, KeepsTheBook, Book!Spec
=============================================================================
