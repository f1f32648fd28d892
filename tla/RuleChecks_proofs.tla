-------------------------- MODULE RuleChecks_proofs --------------------------
(***************************************************************************)
(* The rule tables against their references for every input, not only the  *)
(* bounded ones, and what follows for the case they decide about: whatever *)
(* policies, provider reports, models and callers there are.               *)
(***************************************************************************)
EXTENDS RuleChecks, Strategy_proofs, FiniteSetTheorems

-----------------------------------------------------------------------------
(* Eligibility.                                                             *)

\* When each of the early returns of assess_eligibility applies.
LEMMA EligibilityWhen ==
  ASSUME NEW st, NEW f, NEW stamp, NEW e, NEW fr
  PROVE  LET rules == EligibilityRules(st, f, stamp, e, fr)
         IN  /\ rules[1].when <=> st \in TERMINAL_CASE_STATES
             /\ rules[2].when <=> ~f.payment_id /\ ~f.subscription_id
             /\ rules[3].when <=> stamp = "missing"
             /\ rules[4].when <=> stamp = "naive"
             /\ rules[5].when <=> e < 0
             /\ rules[6].when <=> Stale(e, fr)
             /\ rules[7].when <=> f.payment_status # "none" /\ f.subscription_status # "none"
             /\ rules[8].when <=> f.payment_status = "none" /\ f.subscription_status = "none"
             /\ rules[9].when <=> f.payment_status # "none" /\ ~f.payment_id
             /\ rules[10].when <=> f.subscription_status # "none" /\ ~f.subscription_id
             /\ rules[11].when <=> f.subscription_status # "none" /\ f.payment_id
<1> DEFINE rules == EligibilityRules(st, f, stamp, e, fr)
<1>1. /\ rules[1].when <=> st \in TERMINAL_CASE_STATES
      /\ rules[2].when <=> ~f.payment_id /\ ~f.subscription_id
      /\ rules[3].when <=> stamp = "missing"
      /\ rules[4].when <=> stamp = "naive"
  BY DEF EligibilityRules, Rule
<1>2. /\ rules[5].when <=> e < 0
      /\ rules[6].when <=> Stale(e, fr)
      /\ rules[7].when <=> f.payment_status # "none" /\ f.subscription_status # "none"
      /\ rules[8].when <=> f.payment_status = "none" /\ f.subscription_status = "none"
  BY DEF EligibilityRules, Rule
<1>3. /\ rules[9].when <=> f.payment_status # "none" /\ ~f.payment_id
      /\ rules[10].when <=> f.subscription_status # "none" /\ ~f.subscription_id
      /\ rules[11].when <=> f.subscription_status # "none" /\ f.payment_id
  BY DEF EligibilityRules, Rule
<1> QED BY <1>1, <1>2, <1>3

\* What the early returns leave: an open case, reconciled within the window, with one
\* status of its own subject.
Assessable(st, f, stamp, e, fr) ==
  /\ st \notin TERMINAL_CASE_STATES
  /\ stamp = "aware" /\ ~(e < 0) /\ ~Stale(e, fr)
  /\ \/ f.payment_id /\ f.payment_status # "none" /\ f.subscription_status = "none"
     \/ /\ f.subscription_id /\ ~f.payment_id
        /\ f.subscription_status # "none" /\ f.payment_status = "none"

\* assess_eligibility without its table: a case that is not assessable is stopped only
\* because it is closed, and the status of an assessable one decides.
LEMMA EligibilityIs ==
  ASSUME NEW st, NEW f, NEW stamp \in {"missing", "naive", "aware"},
         NEW e \in Int, NEW fr \in Nat
  PROVE  /\ Assessable(st, f, stamp, e, fr) =>
              assess_eligibility(st, f, stamp, e, fr).decision = StatusVerdict(st, f).decision
         /\ ~Assessable(st, f, stamp, e, fr) =>
              /\ assess_eligibility(st, f, stamp, e, fr).decision # "ELIGIBLE"
              /\ assess_eligibility(st, f, stamp, e, fr).decision = "STOP" =>
                   st \in TERMINAL_CASE_STATES
<1> DEFINE rules == EligibilityRules(st, f, stamp, e, fr)
           decision == assess_eligibility(st, f, stamp, e, fr).decision
<1>1. PICK i \in 1..12 :
        /\ rules[i].when /\ \A j \in 1..(i - 1) : ~rules[j].when
        /\ assess_eligibility(st, f, stamp, e, fr) = Verdict(rules[i].result, rules[i].reason)
  BY EligibilityFirst
<1>2. decision = rules[i].result
  BY <1>1 DEF Verdict
<1>3. Assessable(st, f, stamp, e, fr) <=> \A j \in 1..11 : ~rules[j].when
  <2>1. \A j : j \in 1..11 <=> j \in {1, 2, 3, 4, 5, 6, 7, 8, 9, 10, 11}
    OBVIOUS
  <2> HIDE DEF rules
  <2>2. (\A j \in 1..11 : ~rules[j].when) <=>
          /\ ~rules[1].when /\ ~rules[2].when /\ ~rules[3].when /\ ~rules[4].when
          /\ ~rules[5].when /\ ~rules[6].when /\ ~rules[7].when /\ ~rules[8].when
          /\ ~rules[9].when /\ ~rules[10].when /\ ~rules[11].when
    BY <2>1
  <2> QED BY <2>2, EligibilityWhen DEF Assessable, rules
<1>4. /\ rules[12].result = StatusVerdict(st, f).decision
      /\ \A j \in 1..11 : rules[j].result # "ELIGIBLE"
      /\ \A j \in 2..11 : rules[j].result # "STOP"
  BY DEF EligibilityRules, Rule
<1>5. rules[1].when => st \in TERMINAL_CASE_STATES
  BY EligibilityWhen
<1> HIDE DEF rules, decision
<1>6. CASE i = 12
  <2>1. Assessable(st, f, stamp, e, fr)
    BY <1>1, <1>3, <1>6
  <2> QED BY <1>2, <1>4, <1>6, <2>1 DEF decision
<1>7. CASE i \in 1..11
  <2>1. ~Assessable(st, f, stamp, e, fr) /\ decision # "ELIGIBLE"
    BY <1>1, <1>2, <1>3, <1>4, <1>7
  <2>2. decision = "STOP" => i = 1
    <3>1. i = 1 \/ i \in 2..11
      BY <1>7
    <3> QED BY <1>2, <1>4, <3>1
  <2> QED BY <1>1, <1>5, <2>1, <2>2 DEF decision
<1> QED BY <1>6, <1>7

\* For every case, instant and window: eligible is just what the rules are for, and
\* only a closed case or a settled status is stopped.
LEMMA EligibleIff ==
  ASSUME NEW st \in CaseState, NEW f, NEW stamp \in {"missing", "naive", "aware"},
         NEW e \in Int, NEW fr \in Nat
  PROVE  LET decision == assess_eligibility(st, f, stamp, e, fr).decision
         IN  /\ decision = "ELIGIBLE" <=> Recoverable(st, f, stamp, e, fr)
             /\ decision = "STOP" => \/ st \in TERMINAL_CASE_STATES
                                     \/ {f.payment_status, f.subscription_status}
                                          \cap SettledStatus # {}
<1> DEFINE verdict == StatusVerdict(st, f).decision
<1>1. (e < 0 \/ Stale(e, fr)) <=> e \notin 0..fr
  BY DEF Stale
<1>2. f.payment_status # "none" =>
        /\ verdict = "ELIGIBLE" <=> f.payment_status = "failed" /\ st # "DETECTED"
        /\ verdict = "STOP" => f.payment_status \in {"captured", "refunded"}
  BY DEF StatusVerdict, assess_payment_status, Verdict
<1>3. f.payment_status = "none" =>
        /\ verdict = "ELIGIBLE" <=> f.subscription_status = "halted" /\ st # "DETECTED"
        /\ verdict = "STOP" =>
             f.subscription_status \in {"active", "cancelled", "completed", "expired"}
  BY DEF StatusVerdict, assess_subscription_status, Verdict
<1> HIDE DEF verdict
<1>4. Recoverable(st, f, stamp, e, fr) <=>
        Assessable(st, f, stamp, e, fr) /\ verdict = "ELIGIBLE"
  BY <1>1, <1>2, <1>3 DEF Recoverable, Assessable
<1>5. Assessable(st, f, stamp, e, fr) /\ verdict = "STOP" =>
        {f.payment_status, f.subscription_status} \cap SettledStatus # {}
  BY <1>2, <1>3 DEF Assessable, SettledStatus
<1> DEFINE decision == assess_eligibility(st, f, stamp, e, fr).decision
<1>6. /\ Assessable(st, f, stamp, e, fr) => decision = verdict
      /\ ~Assessable(st, f, stamp, e, fr) =>
           decision # "ELIGIBLE" /\ (decision = "STOP" => st \in TERMINAL_CASE_STATES)
  BY EligibilityIs DEF verdict
<1> HIDE DEF decision
<1>7. /\ decision = "ELIGIBLE" <=> Recoverable(st, f, stamp, e, fr)
      /\ decision = "STOP" => \/ st \in TERMINAL_CASE_STATES
                              \/ {f.payment_status, f.subscription_status}
                                   \cap SettledStatus # {}
  BY <1>4, <1>5, <1>6
<1> QED BY <1>7 DEF decision

\* Eligibility is exact (EligibilityIsExact): for every row, and for the case that the
\* strategy is generated for (assess_eligibility, validate_strategy_context).
THEOREM EligibilityIsExactHolds == Spec => []EligibilityIsExact
<1>1. EligibilityTable
  <2>1. 1 \in Nat /\ \A a \in -1..2 : a \in Int
    OBVIOUS
  <2> QED BY <2>1, EligibleIff DEF EligibilityTable
<1>2. ASSUME TypeOK, ContextHolds
      PROVE  Recoverable(state, facts, "aware", age, Freshness)
  <2>1. Eligibility.decision = "ELIGIBLE"
    BY <1>2 DEF ContextHolds, CurrentAssessment
  <2>2. state \in CaseState /\ age \in Int /\ Freshness \in Nat
    BY <1>2, FreshnessAssumption DEF TypeOK
  <2> QED BY <2>1, <2>2, EligibleIff DEF Eligibility
<1>3. TypeOK => EligibilityIsExact
  BY <1>1, <1>2 DEF EligibilityIsExact
<1> QED BY <1>3, TypeCorrect, PTL
-----------------------------------------------------------------------------
(* Policy.                                                                  *)

\* The three results in their order.
LEMMA PermissivenessIs ==
  /\ Permissiveness("BLOCKED") = 0
  /\ Permissiveness("REQUIRES_APPROVAL") = 1
  /\ Permissiveness("AUTHORIZED") = 2
BY DEF Permissiveness

\* An answer is at most as permissive as another when whatever refuses or holds the
\* second request refuses or holds the first.
LEMMA Stricter2 ==
  ASSUME NEW f, NEW c, NEW g, NEW d,
         g.action \in SAFE_INTERNAL_ACTIONS => f.action \in SAFE_INTERNAL_ACTIONS,
         Refused(f, c) => Refused(g, d),
         Held(f, c) => Refused(g, d) \/ Held(g, d)
  PROVE  Permissiveness(evaluate_authorization(g, d).result)
           <= Permissiveness(evaluate_authorization(f, c).result)
<1> DEFINE x == evaluate_authorization(f, c).result
           y == evaluate_authorization(g, d).result
<1>1. x = IF f.action \in SAFE_INTERNAL_ACTIONS THEN "AUTHORIZED"
          ELSE IF Refused(f, c) THEN "BLOCKED"
          ELSE IF Held(f, c) THEN "REQUIRES_APPROVAL" ELSE "AUTHORIZED"
  BY AuthorizationIs
<1>2. y = IF g.action \in SAFE_INTERNAL_ACTIONS THEN "AUTHORIZED"
          ELSE IF Refused(g, d) THEN "BLOCKED"
          ELSE IF Held(g, d) THEN "REQUIRES_APPROVAL" ELSE "AUTHORIZED"
  BY AuthorizationIs
<1> HIDE DEF x, y
<1>3. Permissiveness(y) <= Permissiveness(x)
  BY <1>1, <1>2, PermissivenessIs
<1> QED BY <1>3 DEF x, y

\* The numbers of a request and of a configuration are numbers.
Counted(f) ==
  f.attempts \in Nat /\ f.contacts \in Nat /\ f.amount \subseteq Nat

Limited(c) ==
  /\ c.max_automated_attempts \in Int /\ c.max_contact_attempts \in Int
  /\ c.require_approval_above \subseteq Int

\* More attempts, contacts, time or money, or an unknown amount, never permit more,
\* whatever the configuration.
LEMMA StricterRequest ==
  ASSUME NEW f, NEW g, NEW c, Counted(f), Counted(g), Limited(c),
         g.action = f.action,
         f.attempts <= g.attempts, f.contacts <= g.contacts,
         f.windowPassed => g.windowPassed,
         f.amount = {} => g.amount = {},
         g.amount = {} \/ \A a \in f.amount : \E b \in g.amount : a <= b
  PROVE  Permissiveness(evaluate_authorization(g, c).result)
           <= Permissiveness(evaluate_authorization(f, c).result)
<1>1. AttemptsReached(f, c) => AttemptsReached(g, c)
  BY DEF AttemptsReached, Counted, Limited
<1>2. f.contacts >= c.max_contact_attempts => g.contacts >= c.max_contact_attempts
  BY DEF Counted, Limited
<1>3. Refused(f, c) => Refused(g, c)
  BY <1>1, <1>2 DEF Refused
<1>4. ASSUME NEW t \in c.require_approval_above, NEW a \in f.amount, a >= t, g.amount # {}
      PROVE  \E b \in g.amount : b >= t
  <2>1. PICK b \in g.amount : a <= b
    BY <1>4
  <2>2. a \in Int /\ b \in Int /\ t \in Int
    BY DEF Counted, Limited
  <2>3. b >= t
    BY <1>4, <2>1, <2>2
  <2> QED BY <2>3
<1>5. Held(f, c) => Refused(g, c) \/ Held(g, c)
  BY <1>4 DEF Held, Refused
<1> QED BY <1>3, <1>5, Stricter2

\* An automated action that is not refused leaves the counts within their maxima.
LEMMA WithinLimits ==
  ASSUME NEW f, NEW c, Counted(f), Limited(c), f.action \in AUTOMATED_RECOVERY_ACTIONS,
         evaluate_authorization(f, c).result # "BLOCKED"
  PROVE  /\ f.attempts + 1 <= c.max_automated_attempts
         /\ f.action \in CUSTOMER_CONTACT_ACTIONS => f.contacts + 1 <= c.max_contact_attempts
<1>1. f.action \notin SAFE_INTERNAL_ACTIONS
  BY DEF AUTOMATED_RECOVERY_ACTIONS, SAFE_INTERNAL_ACTIONS
<1>2. ~Refused(f, c)
  BY <1>1, AuthorizationIs
<1>3. /\ ~(f.attempts >= c.max_automated_attempts)
      /\ f.action \in CUSTOMER_CONTACT_ACTIONS => ~(f.contacts >= c.max_contact_attempts)
  BY <1>2 DEF Refused, AttemptsReached
<1> QED BY <1>3 DEF Counted, Limited

\* The inputs of the table are of that kind.
LEMMA BoundedInputs ==
  /\ \A f \in BoundedFacts : Counted(f) /\ f.action \in AUTOMATED_RECOVERY_ACTIONS
  /\ \A c \in BoundedConfigurations : Limited(c)
<1>1. \A f \in BoundedFacts : Counted(f) /\ f.action \in AUTOMATED_RECOVERY_ACTIONS
  BY DEF BoundedFacts, Counted
<1>2. ASSUME NEW c \in BoundedConfigurations
      PROVE  Limited(c)
  <2>1. c.max_automated_attempts \in 0..2
    BY DEF BoundedConfigurations
  <2>2. c.max_contact_attempts \in 0..1
    BY DEF BoundedConfigurations
  <2>3. c.require_approval_above \in {{}, {2}}
    BY DEF BoundedConfigurations
  <2>4. {} \subseteq Int /\ {2} \subseteq Int
    OBVIOUS
  <2>5. c.require_approval_above \subseteq Int
    BY <2>3, <2>4
  <2> QED BY <2>1, <2>2, <2>5 DEF Limited
<1> QED BY <1>1, <1>2

\* The answers to the bounded requests under the bounded configurations.
LEMMA PolicyTableHolds == PolicyTable
<1> SUFFICES ASSUME NEW f \in BoundedFacts, NEW c \in BoundedConfigurations
             PROVE  LET result   == evaluate_authorization(f, c).result
                        later(g) == Permissiveness(evaluate_authorization(g, c).result)
                                      <= Permissiveness(result)
                    IN  /\ result # "BLOCKED" =>
                             /\ f.attempts + 1 <= c.max_automated_attempts
                             /\ f.action \in CUSTOMER_CONTACT_ACTIONS =>
                                  f.contacts + 1 <= c.max_contact_attempts
                        /\ later([f EXCEPT !.attempts = @ + 1])
                        /\ later([f EXCEPT !.contacts = @ + 1])
                        /\ later([f EXCEPT !.windowPassed = TRUE])
                        /\ f.amount # {} => later([f EXCEPT !.amount = {a + 1 : a \in @}])
                        /\ later([f EXCEPT !.amount = {}])
  BY DEF PolicyTable
<1> DEFINE later(g) == Permissiveness(evaluate_authorization(g, c).result)
                         <= Permissiveness(evaluate_authorization(f, c).result)
<1>1. /\ Counted(f) /\ Limited(c) /\ f.action \in AUTOMATED_RECOVERY_ACTIONS
      /\ f \in [action : AUTOMATED_RECOVERY_ACTIONS, amount : SUBSET Nat, attempts : Nat,
                contacts : Nat, windowPassed : BOOLEAN]
  <2>1. Counted(f) /\ Limited(c) /\ f.action \in AUTOMATED_RECOVERY_ACTIONS
    BY BoundedInputs
  <2> QED BY <2>1 DEF Counted, BoundedFacts
<1>2. evaluate_authorization(f, c).result # "BLOCKED" =>
        /\ f.attempts + 1 <= c.max_automated_attempts
        /\ f.action \in CUSTOMER_CONTACT_ACTIONS => f.contacts + 1 <= c.max_contact_attempts
  BY <1>1, WithinLimits
<1>3. later([f EXCEPT !.attempts = @ + 1])
  <2> DEFINE g == [f EXCEPT !.attempts = @ + 1]
  <2>1. /\ g.action = f.action /\ g.attempts = f.attempts + 1 /\ g.contacts = f.contacts
        /\ g.windowPassed = f.windowPassed /\ g.amount = f.amount
    BY <1>1
  <2> HIDE DEF g
  <2>2. Counted(g) /\ f.attempts <= g.attempts /\ f.contacts <= g.contacts
    BY <1>1, <2>1 DEF Counted
  <2>3. \A a \in f.amount : a <= a
    BY <1>1 DEF Counted
  <2>4. later(g)
    BY <1>1, <2>1, <2>2, <2>3, StricterRequest
  <2> QED BY <2>4 DEF g
<1>4. later([f EXCEPT !.contacts = @ + 1])
  <2> DEFINE g == [f EXCEPT !.contacts = @ + 1]
  <2>1. /\ g.action = f.action /\ g.attempts = f.attempts /\ g.contacts = f.contacts + 1
        /\ g.windowPassed = f.windowPassed /\ g.amount = f.amount
    BY <1>1
  <2> HIDE DEF g
  <2>2. Counted(g) /\ f.attempts <= g.attempts /\ f.contacts <= g.contacts
    BY <1>1, <2>1 DEF Counted
  <2>3. \A a \in f.amount : a <= a
    BY <1>1 DEF Counted
  <2>4. later(g)
    BY <1>1, <2>1, <2>2, <2>3, StricterRequest
  <2> QED BY <2>4 DEF g
<1>5. later([f EXCEPT !.windowPassed = TRUE])
  <2> DEFINE g == [f EXCEPT !.windowPassed = TRUE]
  <2>1. /\ g.action = f.action /\ g.attempts = f.attempts /\ g.contacts = f.contacts
        /\ g.windowPassed /\ g.amount = f.amount
    BY <1>1
  <2> HIDE DEF g
  <2>2. Counted(g) /\ f.attempts <= g.attempts /\ f.contacts <= g.contacts
    BY <1>1, <2>1 DEF Counted
  <2>3. \A a \in f.amount : a <= a
    BY <1>1 DEF Counted
  <2>4. later(g)
    BY <1>1, <2>1, <2>2, <2>3, StricterRequest
  <2> QED BY <2>4 DEF g
<1>6. ASSUME f.amount # {}
      PROVE  later([f EXCEPT !.amount = {a + 1 : a \in @}])
  <2> DEFINE g == [f EXCEPT !.amount = {a + 1 : a \in @}]
  <2>1. /\ g.action = f.action /\ g.attempts = f.attempts /\ g.contacts = f.contacts
        /\ g.windowPassed = f.windowPassed /\ g.amount = {a + 1 : a \in f.amount}
    BY <1>1
  <2> HIDE DEF g
  <2>2. \A a \in f.amount : a \in Nat /\ a + 1 \in g.amount /\ a <= a + 1
    BY <1>1, <2>1 DEF Counted
  <2>3. Counted(g) /\ f.attempts <= g.attempts /\ f.contacts <= g.contacts
    BY <1>1, <2>1 DEF Counted
  <2>4. \A a \in f.amount : \E b \in g.amount : a <= b
    BY <2>2
  <2>5. later(g)
    BY <1>1, <1>6, <2>1, <2>3, <2>4, StricterRequest
  <2> QED BY <2>5 DEF g
<1>7. later([f EXCEPT !.amount = {}])
  <2> DEFINE g == [f EXCEPT !.amount = {}]
  <2>1. /\ g.action = f.action /\ g.attempts = f.attempts /\ g.contacts = f.contacts
        /\ g.windowPassed = f.windowPassed /\ g.amount = {}
    BY <1>1
  <2> HIDE DEF g
  <2>2. Counted(g) /\ f.attempts <= g.attempts /\ f.contacts <= g.contacts
    BY <1>1, <2>1 DEF Counted
  <2>3. later(g)
    BY <1>1, <2>1, <2>2, StricterRequest
  <2> QED BY <2>3 DEF g
<1> QED BY <1>2, <1>3, <1>4, <1>5, <1>6, <1>7

\* A link is authorized by a policy whose maximum it does not exceed, and the attempts
\* of a case stay what they were when it was authorized.
AttemptsAuthorized ==
  /\ \E c \in Configurations : attempts <= c.max_automated_attempts
  /\ state = "POLICY_VALIDATED" =>
       \A p \in InForce : p.action = "CREATE_RECOVERY_LINK" =>
         \E c \in Configurations : attempts + 1 <= c.max_automated_attempts

\* What evaluate_policy moves to POLICY_VALIDATED it did not block.
LEMMA EvaluateStep ==
  ASSUME Inv, AttemptsAuthorized, evaluate_policy
  PROVE  AttemptsAuthorized'
<1>1. PICK p \in proposals, c \in Configurations, passed \in BOOLEAN :
        /\ ProposalIsCurrent(p)
        /\ state' = PolicyTarget(evaluate_authorization(
             [action |-> p.action, amount |-> IF facts.payment_id THEN {100} ELSE {},
              attempts |-> attempts, contacts |-> attempts, windowPassed |-> passed], c))
  BY DEF evaluate_policy
<1>2. UNCHANGED <<attempts, proposals>>
  BY DEF evaluate_policy
<1> DEFINE amount == IF facts.payment_id THEN {100} ELSE {}
           f == [action |-> p.action, amount |-> amount, attempts |-> attempts,
                 contacts |-> attempts, windowPassed |-> passed]
<1>3. amount \subseteq Nat
  OBVIOUS
<1> HIDE DEF amount
<1>4. f.action = p.action /\ f.amount = amount /\ f.attempts = attempts /\ f.contacts = attempts
  OBVIOUS
<1>5. state' = PolicyTarget(evaluate_authorization(f, c))
  BY <1>1 DEF amount
<1> HIDE DEF f
<1>6. Counted(f) /\ f.attempts = attempts
  BY <1>3, <1>4 DEF Counted, Inv, TypeOK
<1>7. c \in PolicyConfiguration
  BY ConfigurationsAssumption
<1>8. Limited(c)
  BY <1>7 DEF Limited, PolicyConfiguration
<1>9. ASSUME state' = "POLICY_VALIDATED", p.action = "CREATE_RECOVERY_LINK"
      PROVE  attempts + 1 <= c.max_automated_attempts
  <2>1. evaluate_authorization(f, c).result # "BLOCKED"
    BY <1>5, <1>9 DEF PolicyTarget
  <2>2. f.action \in AUTOMATED_RECOVERY_ACTIONS
    BY <1>4, <1>9 DEF AUTOMATED_RECOVERY_ACTIONS
  <2> QED BY <1>6, <1>8, <2>1, <2>2, WithinLimits
<1>10. \A q \in InForce : q = p
  BY <1>1 DEF ProposalIsCurrent, Inv, OneProposalInForce
<1>11. InForce' = InForce
  BY <1>2 DEF InForce
<1> QED BY <1>2, <1>9, <1>10, <1>11 DEF AttemptsAuthorized

\* Every step: only execution counts an attempt, the one that was authorized.
LEMMA AttemptsStep ==
  ASSUME Inv, AttemptsAuthorized, [Next]_vars
  PROVE  AttemptsAuthorized'
<1>1. ASSUME UNCHANGED <<attempts, proposals>>,
             state' = "POLICY_VALIDATED" => state = "POLICY_VALIDATED"
      PROVE  AttemptsAuthorized'
  <2>1. InForce' = InForce
    BY <1>1 DEF InForce
  <2> QED BY <1>1, <2>1 DEF AttemptsAuthorized
<1>2. CASE assess_case
  BY <1>1, <1>2 DEF assess_case
<1>3. ASSUME NEW w \in Callers,
             \/ \E m \in Models : prepare_snapshot(w, m)
             \/ propose(w) \/ generation_fails(w) \/ discard_answer(w) \/ crash(w)
      PROVE  AttemptsAuthorized'
  BY <1>1, <1>3 DEF prepare_snapshot, propose, generation_fails, discard_answer, crash
<1>4. ASSUME NEW w \in Callers, persist_locked(w)
      PROVE  AttemptsAuthorized'
  <2>1. state' # "POLICY_VALIDATED" /\ attempts' = attempts
    BY <1>4, Accepted DEF persist_locked, Inv
  <2> QED BY <2>1 DEF AttemptsAuthorized
<1>5. ASSUME NEW r \in Snapshots, reconciled(r)
      PROVE  AttemptsAuthorized'
  <2>1. state' \in {state} \cup TERMINAL_CASE_STATES /\ UNCHANGED <<attempts, proposals>>
    BY <1>5, ReconciledStateMoves DEF reconciled, Inv, TypeOK
  <2> QED BY <1>1, <2>1 DEF TERMINAL_CASE_STATES
<1>6. CASE Tick
  BY <1>1, <1>6 DEF Tick
<1>7. CASE evaluate_policy
  BY <1>7, EvaluateStep
<1>8. CASE execute_action
  <2>1. PICK p \in proposals :
          /\ ProposalIsCurrent(p)
          /\ attempts' = IF p.action = "CREATE_RECOVERY_LINK" THEN attempts + 1 ELSE attempts
    BY <1>8 DEF execute_action
  <2>2. state = "POLICY_VALIDATED" /\ state' # "POLICY_VALIDATED" /\ p \in InForce
    BY <1>8, <2>1 DEF execute_action, ProposalIsCurrent
  <2> QED BY <2>1, <2>2 DEF AttemptsAuthorized
<1>9. CASE case_closed
  BY <1>1, <1>9 DEF case_closed, TERMINAL_CASE_STATES
<1>10. CASE UNCHANGED vars
  BY <1>1, <1>10 DEF vars
<1> QED
  BY <1>2, <1>3, <1>4, <1>5, <1>6, <1>7, <1>8, <1>9, <1>10 DEF Next, CallerStep, Persist

\* Policy limits bound what will have happened (PolicyIsConservative): the rules only
\* get stricter, and no case collects more attempts than some policy allows
\* (evaluate_authorization).
THEOREM PolicyIsConservativeHolds == Spec => []PolicyIsConservative
<1>1. Init => AttemptsAuthorized
  <2> SUFFICES ASSUME Init PROVE AttemptsAuthorized
    OBVIOUS
  <2>1. PICK c \in Configurations : c \in PolicyConfiguration
    BY ConfigurationsAssumption
  <2>2. attempts = 0 /\ state # "POLICY_VALIDATED" /\ c.max_automated_attempts \in Nat
    BY <2>1 DEF Init, PolicyConfiguration
  <2> QED BY <2>2 DEF AttemptsAuthorized
<1>2. AttemptsAuthorized => PolicyIsConservative
  BY PolicyTableHolds DEF AttemptsAuthorized, PolicyIsConservative
<1> QED BY <1>1, <1>2, AttemptsStep, Invariant, PTL DEF Spec
-----------------------------------------------------------------------------
(* Merchant policy rows.                                                    *)

\* A set of three is finite.
LEMMA ThreeAreFinite ==
  ASSUME NEW a, NEW b, NEW c
  PROVE  IsFiniteSet({a, b, c})
<1>1. IsFiniteSet({} \cup {a})
  BY FS_EmptySet, FS_AddElement
<1>2. IsFiniteSet(({} \cup {a}) \cup {b})
  BY <1>1, FS_AddElement
<1>3. IsFiniteSet((({} \cup {a}) \cup {b}) \cup {c})
  BY <1>2, FS_AddElement
<1>4. {a, b, c} = (({} \cup {a}) \cup {b}) \cup {c}
  OBVIOUS
<1> QED BY <1>3, <1>4

\* The lists of a row are finite: so are the names they can hold.
LEMMA NamesAreFinite == IsFiniteSet(RecoveryAction \cup Strange)
<1>1. IsFiniteSet({"NO_ACTION", "WAIT", "ESCALATE_TO_HUMAN"})
  BY ThreeAreFinite
<1>2. IsFiniteSet({"REQUEST_RETRY", "CREATE_RECOVERY_LINK", "REQUEST_PAYMENT_METHOD_UPDATE"})
  BY ThreeAreFinite
<1>3. IsFiniteSet({"unknown_name", "blank", "not_a_string"})
  BY ThreeAreFinite
<1>4. IsFiniteSet(RecoveryAction)
  BY <1>1, <1>2, FS_Union DEF RecoveryAction, SAFE_INTERNAL_ACTIONS, AUTOMATED_RECOVERY_ACTIONS
<1> QED BY <1>3, <1>4, FS_Union DEF Strange

\* No name is one of the strange members.
LEMMA StrangeIsStrange ==
  /\ RecoveryAction \cap Strange = {}
  /\ FailureCategories \cap Strange = {}
<1>1. RecoveryAction \cap Strange = {}
  BY DEF RecoveryAction, SAFE_INTERNAL_ACTIONS, AUTOMATED_RECOVERY_ACTIONS, Strange
<1>2. FailureCategories \cap Strange = {}
  BY DEF FailureCategories, Strange
<1> QED BY <1>1, <1>2

\* Counting what is left after the strings are kept misses nothing: a list is valid just
\* when it is an array of actions.
LEMMA ActionsValid ==
  ASSUME NEW list \in List(RecoveryAction)
  PROVE  validate_actions(list) <=> list.array /\ list.members \subseteq RecoveryAction
<1> DEFINE S == list.members
           strings == S \ {"not_a_string"}
<1>1. IsFiniteSet(S)
  BY NamesAreFinite, FS_Subset DEF List
<1>2. "not_a_string" \notin RecoveryAction
  BY StrangeIsStrange DEF Strange
<1>3. ASSUME "not_a_string" \in S
      PROVE  Cardinality(strings) # Cardinality(S)
  <2>1. Cardinality(strings) = Cardinality(S) - 1
    BY <1>1, <1>3, FS_RemoveElement
  <2> QED BY <1>1, <2>1, FS_CardinalityType
<1>4. "not_a_string" \notin S => strings = S
  OBVIOUS
<1>5. validate_actions(list) <=>
        list.array /\ strings \subseteq RecoveryAction /\ Cardinality(strings) = Cardinality(S)
  BY DEF validate_actions
<1>6. S \subseteq RecoveryAction => "not_a_string" \notin S
  BY <1>2
<1> HIDE DEF strings
<1> QED BY <1>3, <1>4, <1>5, <1>6

\* What the rules see of a row.
LEMMA ConfigurationFields ==
  ASSUME NEW p, NEW action, NEW category, NEW method
  PROVE  LET c == configuration(p, action, category, method)
             rules == p.stopping_rules
         IN  /\ c.present /\ c.valid = validate_policy(p)
             /\ c.allowed = (action \in p.allowed_actions.members)
             /\ c.blocked_category = (category \in rules.blocked_failure_categories.members)
             /\ c.blocked_method =
                  (normalized(method) \in {normalized(m) : m \in rules.blocked_payment_methods.members})
             /\ c.window = (p.recovery_window_minutes > 0)
             /\ c.max_automated_attempts = p.max_automated_attempts
             /\ c.max_contact_attempts = p.max_contact_attempts
             /\ c.approval_action = (action \in rules.require_approval_actions.members)
             /\ c.require_approval_above = p.require_approval_above_minor
             /\ c.automation_enabled = p.automation_enabled
BY DEF configuration

\* The request of Answer, and its answer without the table.
Asked(action) ==
  [action |-> action, amount |-> {1}, attempts |-> 0, contacts |-> 0, windowPassed |-> FALSE]

Seen(p, action, method) == configuration(p, action, "CUSTOMER_FUNDS", method)

LEMMA AnswerIs ==
  ASSUME NEW p, NEW action, NEW method
  PROVE  Answer(p, action, method) =
           IF action \in SAFE_INTERNAL_ACTIONS THEN "AUTHORIZED"
           ELSE IF Refused(Asked(action), Seen(p, action, method)) THEN "BLOCKED"
           ELSE IF Held(Asked(action), Seen(p, action, method)) THEN "REQUIRES_APPROVAL"
           ELSE "AUTHORIZED"
<1>1. Asked(action).action = action
  BY DEF Asked
<1>2. Answer(p, action, method) =
        evaluate_authorization(Asked(action), Seen(p, action, method)).result
  BY DEF Answer, Asked, Seen
<1> HIDE DEF Asked, Seen
<1> QED BY <1>1, <1>2, AuthorizationIs

\* Rows that differ in their lists alone: the one whose rules name more, and whose rules
\* are understood only if the other's are, is never more permissive.
LEMMA StricterConfiguration ==
  ASSUME NEW p, NEW q, NEW action, NEW method,
         q.allowed_actions = p.allowed_actions,
         q.max_automated_attempts = p.max_automated_attempts,
         q.max_contact_attempts = p.max_contact_attempts,
         q.recovery_window_minutes = p.recovery_window_minutes,
         q.high_value_threshold_minor = p.high_value_threshold_minor,
         q.require_approval_above_minor = p.require_approval_above_minor,
         q.automation_enabled = p.automation_enabled,
         validate_stopping_rules(q.stopping_rules) => validate_stopping_rules(p.stopping_rules),
         p.stopping_rules.blocked_failure_categories.members
           \subseteq q.stopping_rules.blocked_failure_categories.members,
         p.stopping_rules.blocked_payment_methods.members
           \subseteq q.stopping_rules.blocked_payment_methods.members,
         p.stopping_rules.require_approval_actions.members
           \subseteq q.stopping_rules.require_approval_actions.members
  PROVE  Stricter(q, p, action, method)
<1> DEFINE f == Asked(action)
           c == Seen(p, action, method)
           d == Seen(q, action, method)
<1>1. validate_policy(q) => validate_policy(p)
  BY DEF validate_policy
<1>2. /\ d.present /\ (d.valid => c.valid) /\ d.allowed = c.allowed
      /\ c.blocked_category => d.blocked_category
      /\ d.window = c.window
      /\ d.max_automated_attempts = c.max_automated_attempts
      /\ d.max_contact_attempts = c.max_contact_attempts
      /\ c.approval_action => d.approval_action
      /\ d.require_approval_above = c.require_approval_above
      /\ d.automation_enabled = c.automation_enabled
      /\ c.present
  <2> DEFINE cats(r) == r.stopping_rules.blocked_failure_categories.members
             asks(r) == r.stopping_rules.require_approval_actions.members
  <2>1. /\ c.present /\ c.valid = validate_policy(p)
        /\ c.allowed = (action \in p.allowed_actions.members)
        /\ c.blocked_category = ("CUSTOMER_FUNDS" \in cats(p))
        /\ c.window = (p.recovery_window_minutes > 0)
        /\ c.max_automated_attempts = p.max_automated_attempts
        /\ c.max_contact_attempts = p.max_contact_attempts
        /\ c.approval_action = (action \in asks(p))
        /\ c.require_approval_above = p.require_approval_above_minor
        /\ c.automation_enabled = p.automation_enabled
    BY ConfigurationFields DEF Seen
  <2>2. /\ d.present /\ d.valid = validate_policy(q)
        /\ d.allowed = (action \in q.allowed_actions.members)
        /\ d.blocked_category = ("CUSTOMER_FUNDS" \in cats(q))
        /\ d.window = (q.recovery_window_minutes > 0)
        /\ d.max_automated_attempts = q.max_automated_attempts
        /\ d.max_contact_attempts = q.max_contact_attempts
        /\ d.approval_action = (action \in asks(q))
        /\ d.require_approval_above = q.require_approval_above_minor
        /\ d.automation_enabled = q.automation_enabled
    BY ConfigurationFields DEF Seen
  <2>3. cats(p) \subseteq cats(q) /\ asks(p) \subseteq asks(q)
    OBVIOUS
  <2> HIDE DEF c, d, cats, asks
  <2> QED BY <1>1, <2>1, <2>2, <2>3
<1>3. c.blocked_method => d.blocked_method
  <2>1. /\ c.blocked_method = (normalized(method) \in
             {normalized(m) : m \in p.stopping_rules.blocked_payment_methods.members})
        /\ d.blocked_method = (normalized(method) \in
             {normalized(m) : m \in q.stopping_rules.blocked_payment_methods.members})
    BY ConfigurationFields DEF Seen
  <2>2. {normalized(m) : m \in p.stopping_rules.blocked_payment_methods.members}
          \subseteq {normalized(m) : m \in q.stopping_rules.blocked_payment_methods.members}
    OBVIOUS
  <2> HIDE DEF c, d
  <2> QED BY <2>1, <2>2
<1> HIDE DEF f, c, d
<1>4. Refused(f, c) => Refused(f, d)
  BY <1>2, <1>3 DEF Refused, AttemptsReached
<1>5. Held(f, c) => Held(f, d)
  BY <1>2 DEF Held
<1>6. Permissiveness(evaluate_authorization(f, d).result)
        <= Permissiveness(evaluate_authorization(f, c).result)
  BY <1>4, <1>5, Stricter2
<1>7. /\ Answer(p, action, method) = evaluate_authorization(f, c).result
      /\ Answer(q, action, method) = evaluate_authorization(f, d).result
  BY DEF Answer, f, c, d, Asked, Seen
<1> QED BY <1>6, <1>7 DEF Stricter

\* A row that answers anything but a refusal is understood and names the action.
LEMMA PermittedIsUnderstood ==
  ASSUME NEW p \in MerchantPolicy, NEW action, NEW method,
         action \notin SAFE_INTERNAL_ACTIONS, Answer(p, action, method) # "BLOCKED"
  PROVE  Understood(p) /\ action \in p.allowed_actions.members
<1> DEFINE c == Seen(p, action, method)
           rules == p.stopping_rules
<1>1. c.valid = validate_policy(p) /\ c.allowed = (action \in p.allowed_actions.members)
  BY ConfigurationFields DEF Seen
<1>2. c.valid /\ c.allowed
  <2> HIDE DEF c
  <2>1. ~Refused(Asked(action), c)
    BY AnswerIs DEF c
  <2> QED BY <2>1 DEF Refused
<1> HIDE DEF c
<1>3. validate_policy(p)
  BY <1>1, <1>2
<1>4. /\ p.allowed_actions \in List(RecoveryAction)
      /\ rules \in StoppingRules
      /\ p.max_automated_attempts \in Int /\ p.max_contact_attempts \in Int
      /\ p.recovery_window_minutes \in Int /\ p.require_approval_above_minor \subseteq Int
  BY DEF MerchantPolicy
<1>5. p.allowed_actions.array /\ p.allowed_actions.members \subseteq RecoveryAction
  BY <1>3, <1>4, ActionsValid DEF validate_policy
<1>6. /\ rules.object /\ ~rules.extra
      /\ rules.blocked_failure_categories.array /\ rules.blocked_payment_methods.array
      /\ rules.require_approval_actions.array
      /\ rules.blocked_failure_categories.members \subseteq FailureCategories
      /\ rules.require_approval_actions.members \subseteq RecoveryAction
      /\ rules.blocked_payment_methods.members \cap {"blank", "not_a_string"} = {}
  BY <1>3 DEF validate_policy, validate_stopping_rules
<1>7. {p.max_automated_attempts, p.max_contact_attempts, p.recovery_window_minutes}
        \cup p.require_approval_above_minor \subseteq Nat
  <2>1. /\ p.max_automated_attempts \in Nat /\ p.max_contact_attempts \in Nat
        /\ p.recovery_window_minutes \in Nat
    BY <1>3, <1>4 DEF validate_policy
  <2>2. \A t \in p.require_approval_above_minor : t \in Nat
    BY <1>3, <1>4 DEF validate_policy
  <2> QED BY <2>1, <2>2
<1>8. /\ p.allowed_actions.members \cap Strange = {}
      /\ rules.blocked_failure_categories.members \cap Strange = {}
      /\ rules.require_approval_actions.members \cap Strange = {}
      /\ rules.blocked_payment_methods.members \cap Strange \subseteq {"unknown_name"}
  <2>1. rules.blocked_payment_methods.members \cap Strange \subseteq {"unknown_name"}
    BY <1>6 DEF Strange
  <2> QED BY <1>5, <1>6, <2>1, StrangeIsStrange
<1> QED BY <1>1, <1>2, <1>5, <1>6, <1>7, <1>8 DEF Understood

\* A row that allows no action refuses them all.
LEMMA NothingAllowed ==
  ASSUME NEW p, NEW q, NEW action, NEW method,
         action \notin SAFE_INTERNAL_ACTIONS, q.allowed_actions.members = {}
  PROVE  Stricter(q, p, action, method)
<1> DEFINE d == Seen(q, action, method)
           x == Answer(p, action, method)
<1>1. d.allowed = (action \in q.allowed_actions.members)
  BY ConfigurationFields DEF Seen
<1> HIDE DEF d
<1>2. Refused(Asked(action), d)
  <2>1. ~d.allowed
    BY <1>1
  <2> QED BY <2>1 DEF Refused
<1>3. Answer(q, action, method) = "BLOCKED"
  BY <1>2, AnswerIs DEF d
<1>4. x \in {"AUTHORIZED", "BLOCKED", "REQUIRES_APPROVAL"}
  BY AnswerIs
<1> HIDE DEF x
<1>5. Permissiveness("BLOCKED") <= Permissiveness(x)
  BY <1>4, PermissivenessIs
<1> QED BY <1>3, <1>5 DEF Stricter, x

\* The same row with other stopping rules.
LEMMA StricterRules ==
  ASSUME NEW p \in MerchantPolicy, NEW rules, NEW action, NEW method,
         validate_stopping_rules(rules) => validate_stopping_rules(p.stopping_rules),
         p.stopping_rules.blocked_failure_categories.members
           \subseteq rules.blocked_failure_categories.members,
         p.stopping_rules.blocked_payment_methods.members
           \subseteq rules.blocked_payment_methods.members,
         p.stopping_rules.require_approval_actions.members
           \subseteq rules.require_approval_actions.members
  PROVE  Stricter([p EXCEPT !.stopping_rules = rules], p, action, method)
<1> DEFINE q == [p EXCEPT !.stopping_rules = rules]
<1>1. /\ q.stopping_rules = rules /\ q.allowed_actions = p.allowed_actions
      /\ q.max_automated_attempts = p.max_automated_attempts
      /\ q.max_contact_attempts = p.max_contact_attempts
      /\ q.recovery_window_minutes = p.recovery_window_minutes
      /\ q.high_value_threshold_minor = p.high_value_threshold_minor
      /\ q.require_approval_above_minor = p.require_approval_above_minor
      /\ q.automation_enabled = p.automation_enabled
  BY DEF MerchantPolicy
<1> HIDE DEF q
<1>2. Stricter(q, p, action, method)
  BY <1>1, StricterConfiguration
<1> QED BY <1>2 DEF q

\* One more member of one of its stopping rules.
LEMMA StricterWithMore ==
  ASSUME NEW p \in MerchantPolicy, NEW action, NEW method, NEW x
  PROVE  /\ Stricter([p EXCEPT !.stopping_rules.blocked_payment_methods.members = @ \cup {x}],
                     p, action, method)
         /\ Stricter([p EXCEPT !.stopping_rules.blocked_failure_categories.members = @ \cup {x}],
                     p, action, method)
         /\ Stricter([p EXCEPT !.stopping_rules.require_approval_actions.members = @ \cup {x}],
                     p, action, method)
<1> DEFINE s == p.stopping_rules
<1>1. /\ s \in StoppingRules
      /\ p = [p EXCEPT !.stopping_rules = s]
  BY DEF MerchantPolicy
<1>2. /\ s.blocked_failure_categories \in List(FailureCategories)
      /\ s.blocked_payment_methods \in List(PaymentMethods)
      /\ s.require_approval_actions \in List(RecoveryAction)
  BY <1>1 DEF StoppingRules
<1>3. Stricter([p EXCEPT !.stopping_rules.blocked_payment_methods.members = @ \cup {x}],
               p, action, method)
  <2> DEFINE t == [s EXCEPT !.blocked_payment_methods.members = @ \cup {x}]
  <2>1. /\ t.object = s.object /\ t.extra = s.extra
        /\ t.blocked_failure_categories = s.blocked_failure_categories
        /\ t.require_approval_actions = s.require_approval_actions
        /\ t.blocked_payment_methods =
             [s.blocked_payment_methods EXCEPT !.members = @ \cup {x}]
    BY <1>1 DEF StoppingRules
  <2>2. /\ t.blocked_payment_methods.array = s.blocked_payment_methods.array
        /\ t.blocked_payment_methods.members = s.blocked_payment_methods.members \cup {x}
    BY <1>2, <2>1 DEF List
  <2>3. [p EXCEPT !.stopping_rules.blocked_payment_methods.members = @ \cup {x}]
          = [p EXCEPT !.stopping_rules = t]
    OBVIOUS
  <2> HIDE DEF t, s
  <2>4. validate_stopping_rules(t) => validate_stopping_rules(s)
    BY <2>1, <2>2 DEF validate_stopping_rules
  <2> QED BY <2>1, <2>2, <2>3, <2>4, StricterRules DEF s
<1>4. Stricter([p EXCEPT !.stopping_rules.blocked_failure_categories.members = @ \cup {x}],
               p, action, method)
  <2> DEFINE t == [s EXCEPT !.blocked_failure_categories.members = @ \cup {x}]
  <2>1. /\ t.object = s.object /\ t.extra = s.extra
        /\ t.blocked_payment_methods = s.blocked_payment_methods
        /\ t.require_approval_actions = s.require_approval_actions
        /\ t.blocked_failure_categories =
             [s.blocked_failure_categories EXCEPT !.members = @ \cup {x}]
    BY <1>1 DEF StoppingRules
  <2>2. /\ t.blocked_failure_categories.array = s.blocked_failure_categories.array
        /\ t.blocked_failure_categories.members
             = s.blocked_failure_categories.members \cup {x}
    BY <1>2, <2>1 DEF List
  <2>3. [p EXCEPT !.stopping_rules.blocked_failure_categories.members = @ \cup {x}]
          = [p EXCEPT !.stopping_rules = t]
    OBVIOUS
  <2> HIDE DEF t, s
  <2>4. validate_stopping_rules(t) => validate_stopping_rules(s)
    BY <2>1, <2>2 DEF validate_stopping_rules
  <2> QED BY <2>1, <2>2, <2>3, <2>4, StricterRules DEF s
<1>5. Stricter([p EXCEPT !.stopping_rules.require_approval_actions.members = @ \cup {x}],
               p, action, method)
  <2> DEFINE t == [s EXCEPT !.require_approval_actions.members = @ \cup {x}]
  <2>1. /\ t.object = s.object /\ t.extra = s.extra
        /\ t.blocked_payment_methods = s.blocked_payment_methods
        /\ t.blocked_failure_categories = s.blocked_failure_categories
        /\ t.require_approval_actions =
             [s.require_approval_actions EXCEPT !.members = @ \cup {x}]
    BY <1>1 DEF StoppingRules
  <2>2. /\ t.require_approval_actions.array = s.require_approval_actions.array
        /\ t.require_approval_actions.members = s.require_approval_actions.members \cup {x}
    BY <1>2, <2>1 DEF List
  <2>3. [p EXCEPT !.stopping_rules.require_approval_actions.members = @ \cup {x}]
          = [p EXCEPT !.stopping_rules = t]
    OBVIOUS
  <2> HIDE DEF t, s
  <2>4. validate_stopping_rules(t) => validate_stopping_rules(s)
    BY <2>1, <2>2 DEF validate_stopping_rules
  <2> QED BY <2>1, <2>2, <2>3, <2>4, StricterRules DEF s
<1> QED BY <1>3, <1>4, <1>5

\* The bounded rows are rows.
LEMMA BoundedPoliciesAreRows == BoundedPolicies \subseteq MerchantPolicy
<1>1. Array({}) \in List(FailureCategories) /\ Array({}) \in List(PaymentMethods)
      /\ Array({}) \in List(RecoveryAction)
  BY DEF Array, List
<1>2. SoundRules \in StoppingRules
  BY <1>1 DEF SoundRules, StoppingRules
<1>3. BoundedLists \subseteq List(RecoveryAction)
  BY DEF BoundedLists, Lists, List, Strange, RecoveryAction, AUTOMATED_RECOVERY_ACTIONS
<1>4. Lists({"CUSTOMER_FUNDS", "unknown_name", "not_a_string"}) \subseteq List(FailureCategories)
  BY DEF Lists, List, Strange, FailureCategories
<1>5. Lists({"Card", "unknown_name", "blank", "not_a_string"}) \subseteq List(PaymentMethods)
  BY DEF Lists, List, Strange, PaymentMethods
<1>6. BoundedRules \subseteq StoppingRules
  <2>1. ASSUME NEW o \in BOOLEAN, NEW x \in BOOLEAN
        PROVE  [SoundRules EXCEPT !.object = o, !.extra = x] \in StoppingRules
    BY <1>2 DEF StoppingRules
  <2>2. ASSUME NEW l \in Lists({"CUSTOMER_FUNDS", "unknown_name", "not_a_string"})
        PROVE  [SoundRules EXCEPT !.blocked_failure_categories = l] \in StoppingRules
    BY <1>2, <1>4 DEF StoppingRules
  <2>3. ASSUME NEW l \in Lists({"Card", "unknown_name", "blank", "not_a_string"})
        PROVE  [SoundRules EXCEPT !.blocked_payment_methods = l] \in StoppingRules
    BY <1>2, <1>5 DEF StoppingRules
  <2>4. ASSUME NEW l \in BoundedLists
        PROVE  [SoundRules EXCEPT !.require_approval_actions = l] \in StoppingRules
    BY <1>2, <1>3 DEF StoppingRules
  <2> DEFINE with(o, x) == [SoundRules EXCEPT !.object = o, !.extra = x]
             A == {with(o, x) : o \in BOOLEAN, x \in BOOLEAN}
             B == {[SoundRules EXCEPT !.blocked_failure_categories = l] :
                     l \in Lists({"CUSTOMER_FUNDS", "unknown_name", "not_a_string"})}
             C == {[SoundRules EXCEPT !.blocked_payment_methods = l] :
                     l \in Lists({"Card", "unknown_name", "blank", "not_a_string"})}
             D == {[SoundRules EXCEPT !.require_approval_actions = l] : l \in BoundedLists}
  <2>5. A \subseteq StoppingRules
    <3>1. \A o \in BOOLEAN, x \in BOOLEAN : with(o, x) \in StoppingRules
      BY <2>1
    <3> HIDE DEF with
    <3> QED BY <3>1
  <2>6. B \subseteq StoppingRules /\ C \subseteq StoppingRules /\ D \subseteq StoppingRules
    BY <2>2, <2>3, <2>4
  <2>7. BoundedRules = A \cup B \cup C \cup D
    BY DEF BoundedRules
  <2> HIDE DEF A, B, C, D
  <2> QED BY <2>5, <2>6, <2>7
<1>7. ASSUME NEW list \in List(RecoveryAction), NEW rules \in StoppingRules
      PROVE  SoundPolicy(list, rules) \in MerchantPolicy
  BY DEF SoundPolicy, MerchantPolicy
<1>8. ASSUME NEW row \in MerchantPolicy, NEW i \in -1..1, NEW j \in -1..1, NEW k \in -1..1,
             NEW t \in {{}, {-1}, {0}}
      PROVE  [row EXCEPT !.max_automated_attempts = i, !.max_contact_attempts = j,
                         !.recovery_window_minutes = k, !.require_approval_above_minor = t]
               \in MerchantPolicy
  <2>1. i \in Int /\ j \in Int /\ k \in Int
    OBVIOUS
  <2>2. t \in SUBSET Int
    <3>1. {} \subseteq Int /\ {-1} \subseteq Int /\ {0} \subseteq Int
      OBVIOUS
    <3> QED BY <3>1
  <2> QED BY <2>1, <2>2 DEF MerchantPolicy
<1>9. SoundPolicy(Array({"CREATE_RECOVERY_LINK"}), SoundRules) \in MerchantPolicy
  <2>1. Array({"CREATE_RECOVERY_LINK"}) \in List(RecoveryAction)
    BY DEF Array, List, RecoveryAction, AUTOMATED_RECOVERY_ACTIONS
  <2> QED BY <1>2, <1>7, <2>1
<1>10. {SoundPolicy(actions, rules) : actions \in BoundedLists, rules \in BoundedRules}
         \subseteq MerchantPolicy
  BY <1>3, <1>6, <1>7
<1> DEFINE row == SoundPolicy(Array({"CREATE_RECOVERY_LINK"}), SoundRules)
           with(i, j, k, t) ==
             [row EXCEPT !.max_automated_attempts = i, !.max_contact_attempts = j,
                         !.recovery_window_minutes = k, !.require_approval_above_minor = t]
<1>11. {with(i, j, k, t) : i \in -1..1, j \in -1..1, k \in -1..1, t \in {{}, {-1}, {0}}}
         \subseteq MerchantPolicy
  <2>1. \A i \in -1..1, j \in -1..1, k \in -1..1, t \in {{}, {-1}, {0}} :
          with(i, j, k, t) \in MerchantPolicy
    BY <1>8, <1>9
  <2> HIDE DEF with
  <2> QED BY <2>1
<1> QED BY <1>10, <1>11 DEF BoundedPolicies

\* The answers under any row, not only the bounded ones.
LEMMA RowFailsClosed ==
  ASSUME NEW p \in MerchantPolicy, NEW action, NEW method
  PROVE  IF action \in SAFE_INTERNAL_ACTIONS THEN Answer(p, action, method) = "AUTHORIZED"
         ELSE /\ Answer(p, action, method) # "BLOCKED" =>
                   Understood(p) /\ action \in p.allowed_actions.members
              /\ Stricter([p EXCEPT !.allowed_actions.members = {}], p, action, method)
<1>1. action \in SAFE_INTERNAL_ACTIONS => Answer(p, action, method) = "AUTHORIZED"
  BY AnswerIs
<1>2. action \notin SAFE_INTERNAL_ACTIONS =>
        (Answer(p, action, method) # "BLOCKED" =>
           Understood(p) /\ action \in p.allowed_actions.members)
  BY PermittedIsUnderstood
<1>3. action \notin SAFE_INTERNAL_ACTIONS =>
        Stricter([p EXCEPT !.allowed_actions.members = {}], p, action, method)
  <2> DEFINE q == [p EXCEPT !.allowed_actions.members = {}]
  <2>1. q.allowed_actions.members = {}
    BY DEF MerchantPolicy, List
  <2> HIDE DEF q
  <2>2. action \notin SAFE_INTERNAL_ACTIONS => Stricter(q, p, action, method)
    BY <2>1, NothingAllowed
  <2> QED BY <2>2 DEF q
<1> QED BY <1>1, <1>2, <1>3

\* A policy nobody can have meant authorizes nothing outside the system
\* (PolicyFailsClosed), and a proposal names an action a merchant can allow
\* (validate_policy, evaluate_authorization).
THEOREM PolicyFailsClosedHolds == Spec => []PolicyFailsClosed
<1>1. PolicyRows
  <2> SUFFICES ASSUME NEW p \in BoundedPolicies,
                      NEW action \in {"CREATE_RECOVERY_LINK", "REQUEST_RETRY", "WAIT"},
                      NEW method \in {"none"} \cup PaymentMethods
               PROVE  IF action \in SAFE_INTERNAL_ACTIONS
                      THEN Answer(p, action, method) = "AUTHORIZED"
                      ELSE /\ Answer(p, action, method) # "BLOCKED" =>
                                Understood(p) /\ action \in p.allowed_actions.members
                           /\ Stricter([p EXCEPT !.allowed_actions.members = {}], p, action, method)
                           /\ \A m \in PaymentMethods \cup Strange :
                                Stricter([p EXCEPT !.stopping_rules.blocked_payment_methods.members
                                            = @ \cup {m}], p, action, method)
                           /\ \A c \in {"CUSTOMER_FUNDS", "UNKNOWN", "unknown_name"} :
                                Stricter([p EXCEPT !.stopping_rules.blocked_failure_categories.members
                                            = @ \cup {c}], p, action, method)
                           /\ \A a \in {action, "unknown_name"} :
                                Stricter([p EXCEPT !.stopping_rules.require_approval_actions.members
                                            = @ \cup {a}], p, action, method)
    BY Zenon DEF PolicyRows
  <2> DEFINE methods(x) == Stricter([p EXCEPT !.stopping_rules.blocked_payment_methods.members
                                        = @ \cup {x}], p, action, method)
             categories(x) == Stricter([p EXCEPT !.stopping_rules.blocked_failure_categories.members
                                           = @ \cup {x}], p, action, method)
             approvals(x) == Stricter([p EXCEPT !.stopping_rules.require_approval_actions.members
                                          = @ \cup {x}], p, action, method)
  <2>1. p \in MerchantPolicy
    BY BoundedPoliciesAreRows
  <2>2. \A x : methods(x) /\ categories(x) /\ approvals(x)
    BY <2>1, StricterWithMore
  <2>3. IF action \in SAFE_INTERNAL_ACTIONS THEN Answer(p, action, method) = "AUTHORIZED"
        ELSE /\ Answer(p, action, method) # "BLOCKED" =>
                  Understood(p) /\ action \in p.allowed_actions.members
             /\ Stricter([p EXCEPT !.allowed_actions.members = {}], p, action, method)
    BY <2>1, RowFailsClosed
  <2>4. /\ \A m \in PaymentMethods \cup Strange : methods(m)
        /\ \A c \in {"CUSTOMER_FUNDS", "UNKNOWN", "unknown_name"} : categories(c)
        /\ \A a \in {action, "unknown_name"} : approvals(a)
    <3> HIDE DEF methods, categories, approvals
    <3> QED BY <2>2
  <2> QED BY <2>3, <2>4
<1>2. ASSUME TypeOK, NEW p \in proposals
      PROVE  validate_actions(Array({p.action}))
  <2>1. p.action \in RecoveryAction
    BY <1>2 DEF TypeOK, Proposal
  <2> DEFINE list == Array({p.action})
  <2>2. list.array /\ list.members = {p.action} /\ list \in List(RecoveryAction)
    BY <2>1 DEF Array, List
  <2> HIDE DEF list
  <2>3. validate_actions(list)
    BY <2>1, <2>2, ActionsValid
  <2> QED BY <2>3 DEF list
<1>3. TypeOK => PolicyFailsClosed
  BY <1>1, <1>2 DEF PolicyFailsClosed
<1> QED BY <1>3, TypeCorrect, PTL

-----------------------------------------------------------------------------
(* The evaluation harness.                                                  *)

\* The steps of _evaluate_scenario by name.
HarnessVerdict(s) ==
  assess_eligibility("RECONCILING", payment_case(s), "aware", 60, RECONCILIATION_FRESHNESS)

HarnessDisposition(s) == classify_failure(payment_case(s)).recovery_disposition

HarnessAction(s, answer) ==
  IF provider_invoked(HarnessDisposition(s)) THEN answer ELSE "ESCALATE_TO_HUMAN"

HarnessPolicy(s, action) ==
  evaluate_authorization(
    [action |-> action, amount |-> {s.amount_minor}, attempts |-> s.attempt_count,
     contacts |-> s.contact_attempt_count,
     windowPassed |-> s.detected_minutes_ago > recovery_window_minutes],
    policy_configuration(s.policy_profile, classify_failure(payment_case(s)).failure_category))

Diagnosed(s) ==
  [case_result(s, HarnessVerdict(s).decision) EXCEPT
     !.failure_category = classify_failure(payment_case(s)).failure_category,
     !.strategy_provider_invoked = provider_invoked(HarnessDisposition(s))]

Decided(s, action) ==
  [Diagnosed(s) EXCEPT !.strategy_action = action, !.policy_result = HarnessPolicy(s, action).result]

\* How a scenario may end before its strategy is accepted.
Stopped(s, captured, classification) ==
  [case_result(s, HarnessVerdict(s).decision) EXCEPT
     !.captured_truth_observed = captured, !.final_classification = classification]

StrategyFailed(s) ==
  [Diagnosed(s) EXCEPT !.strategy_failed = TRUE, !.final_classification = "safe_stop"]

\* A scenario is stopped by its eligibility, fails for want of a compatible action, or
\* goes on to the simulated execution.
LEMMA ScenarioPath ==
  ASSUME NEW s, NEW answer, NEW keys
  PROVE  /\ HarnessVerdict(s).decision # "ELIGIBLE" =>
              \E captured \in BOOLEAN, c \in {"protected_captured", "wait", "safe_stop"} :
                evaluate_scenario(s, answer, keys) = Stopped(s, captured, c)
         /\ /\ HarnessVerdict(s).decision = "ELIGIBLE"
            /\ HarnessAction(s, answer) \notin compatible_actions(HarnessDisposition(s))
            => evaluate_scenario(s, answer, keys) = StrategyFailed(s)
         /\ /\ HarnessVerdict(s).decision = "ELIGIBLE"
            /\ HarnessAction(s, answer) \in compatible_actions(HarnessDisposition(s))
            => evaluate_scenario(s, answer, keys)
                 = Controlled(s, HarnessAction(s, answer), keys,
                              Decided(s, HarnessAction(s, answer)))
<1> DEFINE verdict  == HarnessVerdict(s)
           captured == verdict.reason \in {"PAYMENT_ALREADY_CAPTURED", "STOP_ALREADY_RECOVERED"}
           c        == CASE captured -> "protected_captured"
                         [] ~captured /\ verdict.decision = "WAIT" -> "wait"
                         [] OTHER -> "safe_stop"
           action   == HarnessAction(s, answer)
<1>1. evaluate_scenario(s, answer, keys)
        = IF verdict.decision # "ELIGIBLE" THEN Stopped(s, captured, c)
          ELSE IF action \notin compatible_actions(HarnessDisposition(s)) THEN StrategyFailed(s)
          ELSE Controlled(s, action, keys, Decided(s, action))
  BY Zenon DEF evaluate_scenario, HarnessVerdict, HarnessDisposition, HarnessAction,
               HarnessPolicy, Diagnosed, Decided, Stopped, StrategyFailed
<1>2. captured \in BOOLEAN /\ c \in {"protected_captured", "wait", "safe_stop"}
  OBVIOUS
<1> HIDE DEF verdict, captured, c, action
<1> QED BY <1>1, <1>2 DEF verdict, action

\* The columns of a result that the properties read.
ResultColumns ==
  {"eligibility_decision", "failure_category", "strategy_action",
   "strategy_provider_invoked", "strategy_failed", "policy_result", "execution_count",
   "duplicate_actions_prevented", "captured_truth_observed",
   "synthetic_recovered_amount_minor", "final_classification"}

\* A result on which nothing was executed yet.
LEMMA DecidedFields ==
  ASSUME NEW s, NEW action
  PROVE  /\ ResultColumns \subseteq DOMAIN Decided(s, action)
         /\ Decided(s, action).eligibility_decision = HarnessVerdict(s).decision
         /\ Decided(s, action).failure_category
              = classify_failure(payment_case(s)).failure_category
         /\ Decided(s, action).strategy_action = action
         /\ Decided(s, action).strategy_provider_invoked
              = provider_invoked(HarnessDisposition(s))
         /\ ~Decided(s, action).strategy_failed
         /\ Decided(s, action).policy_result = HarnessPolicy(s, action).result
         /\ Decided(s, action).execution_count = 0
         /\ Decided(s, action).captured_truth_observed = FALSE
         /\ Decided(s, action).synthetic_recovered_amount_minor = 0
         /\ Decided(s, action).final_classification = "unresolved"
BY DEF Decided, Diagnosed, case_result, ResultColumns

\* The action of the result is the one that was decided upon.
LEMMA DecidedAction ==
  ASSUME NEW s, NEW action
  PROVE  Decided(s, action).strategy_action = action
BY DecidedFields, Zenon

\* A scenario that ends without an execution.
LEMMA EndsUnexecuted ==
  ASSUME NEW s, NEW keys, NEW r,
         r.execution_count = 0, r.synthetic_recovered_amount_minor = 0,
         r.final_classification # "synthetic_recovered"
  PROVE  SafeResult(s, keys, r)
BY DEF SafeResult, Recovered

\* What fits a diagnosis is a recovery action, and nothing but an escalation fits a
\* failure nobody can name.
LEMMA CompatibleActions ==
  /\ \A d : compatible_actions(d) \subseteq RecoveryAction
  /\ \A f : classify_failure(f).failure_category = "UNKNOWN" =>
       compatible_actions(classify_failure(f).recovery_disposition) = {"ESCALATE_TO_HUMAN"}
<1>1. \A d : compatible_actions(d) \subseteq RecoveryAction
  BY DEF compatible_actions, RecoveryAction, AUTOMATED_RECOVERY_ACTIONS,
         SAFE_INTERNAL_ACTIONS, CUSTOMER_CONTACT_ACTIONS
<1>2. ASSUME NEW f, classify_failure(f).failure_category = "UNKNOWN"
      PROVE  compatible_actions(classify_failure(f).recovery_disposition) = {"ESCALATE_TO_HUMAN"}
  <2> DEFINE category == FailureCategory(f)
  <2>1. category = "UNKNOWN" /\ classify_failure(f).recovery_disposition = DISPOSITIONS(category)
    BY <1>2 DEF classify_failure
  <2> HIDE DEF category
  <2>2. classify_failure(f).recovery_disposition = "MANUAL_REVIEW"
    BY <2>1 DEF DISPOSITIONS
  <2> QED BY <2>2 DEF compatible_actions
<1> QED BY <1>1, <1>2

\* The path a result tells of: all but how it ended.
SameColumns(r, d) ==
  /\ r.eligibility_decision = d.eligibility_decision
  /\ r.failure_category = d.failure_category
  /\ r.strategy_action = d.strategy_action
  /\ r.strategy_provider_invoked = d.strategy_provider_invoked
  /\ r.strategy_failed = d.strategy_failed
  /\ r.policy_result = d.policy_result

\* The simulated execution counts its key once and recovers money by it alone.
LEMMA ExecutedOnce ==
  ASSUME NEW s, NEW action, NEW keys, NEW d, ResultColumns \subseteq DOMAIN d,
         NEW r, r = Executed(s, action, keys, d)
  PROVE  /\ SameColumns(r, d) /\ r.captured_truth_observed = d.captured_truth_observed
         /\ r.execution_count \in {0, 1}
         /\ r.execution_count = 1 => execution_key(s, action) \notin keys
         /\ Recovered(r) =>
              r.execution_count = 1 /\ s.synthetic_outcome = "successful_capture"
         /\ Recovered(r) <=> r.final_classification = "synthetic_recovered"
<1> DEFINE count  == IF execution_key(s, action) \in keys \/ s.execution_request_count = 0
                       THEN 0 ELSE 1
           amount == IF s.synthetic_outcome = "successful_capture" /\ count = 1
                       THEN s.amount_minor ELSE 0
           paid   == amount > 0
           class  == IF paid THEN "synthetic_recovered" ELSE "unresolved"
           prevented == s.execution_request_count - count
<1>1. r = [d EXCEPT !.execution_count = count,
                    !.duplicate_actions_prevented = prevented,
                    !.synthetic_recovered_amount_minor = amount,
                    !.final_classification = class]
  BY DEF Executed
<1>2. /\ count \in {0, 1}
      /\ count = 1 => execution_key(s, action) \notin keys
      /\ paid => count = 1 /\ s.synthetic_outcome = "successful_capture"
      /\ paid <=> class = "synthetic_recovered"
  OBVIOUS
<1> HIDE DEF count, amount, class, prevented, paid
<1>3. /\ SameColumns(r, d) /\ r.captured_truth_observed = d.captured_truth_observed
      /\ r.execution_count = count /\ r.synthetic_recovered_amount_minor = amount
      /\ r.final_classification = class
  BY <1>1 DEF SameColumns, ResultColumns
<1>4. Recovered(r) <=> paid
  BY <1>3 DEF Recovered, paid
<1> QED BY <1>2, <1>3, <1>4

\* An accepted strategy keeps its path, and its result is safe.
LEMMA ControlledIsSafe ==
  ASSUME NEW s, NEW action, NEW keys, HarnessVerdict(s).decision = "ELIGIBLE",
         action \in compatible_actions(HarnessDisposition(s))
  PROVE  /\ SameColumns(Controlled(s, action, keys, Decided(s, action)), Decided(s, action))
         /\ SafeResult(s, keys, Controlled(s, action, keys, Decided(s, action)))
<1> DEFINE d == Decided(s, action)
           r == Controlled(s, action, keys, d)
           policy == HarnessPolicy(s, action).result
           fresh  == assess_eligibility("RECOVERED",
                       [payment_case(s) EXCEPT !.payment_status = "captured"],
                       "aware", 0, RECONCILIATION_FRESHNESS)
           stopped == fresh.decision = "STOP"
<1>1. /\ ResultColumns \subseteq DOMAIN d /\ d.strategy_action = action
      /\ d.eligibility_decision = "ELIGIBLE" /\ d.policy_result = policy
      /\ d.failure_category = classify_failure(payment_case(s)).failure_category
      /\ d.execution_count = 0 /\ d.captured_truth_observed = FALSE
      /\ d.synthetic_recovered_amount_minor = 0
  <2>1. /\ ResultColumns \subseteq DOMAIN d /\ d.strategy_action = action
        /\ d.eligibility_decision = HarnessVerdict(s).decision
    BY DecidedFields, Zenon
  <2>2. /\ d.policy_result = policy
        /\ d.failure_category = classify_failure(payment_case(s)).failure_category
    BY DecidedFields, Zenon
  <2>3. /\ d.execution_count = 0 /\ d.captured_truth_observed = FALSE
        /\ d.synthetic_recovered_amount_minor = 0
    BY DecidedFields, Zenon
  <2> QED BY <2>1, <2>2, <2>3
<1>2. action \in RecoveryAction /\ policy \in PolicyDecisionResult
  BY CompatibleActions, EvaluationType DEF HarnessPolicy
<1>3. r = CASE action = "WAIT" -> [d EXCEPT !.final_classification = "wait"]
            [] action \in {"NO_ACTION", "ESCALATE_TO_HUMAN"} ->
                 [d EXCEPT !.final_classification = "safe_stop"]
            [] action \in AUTOMATED_RECOVERY_ACTIONS /\ policy = "BLOCKED" ->
                 [d EXCEPT !.final_classification = "safe_stop"]
            [] action \in AUTOMATED_RECOVERY_ACTIONS /\ policy = "REQUIRES_APPROVAL" ->
                 [d EXCEPT !.final_classification = "unresolved"]
            [] action \in AUTOMATED_RECOVERY_ACTIONS /\ policy = "AUTHORIZED" ->
                 IF s.stale_capture_before_execution
                   THEN [d EXCEPT !.final_classification = "protected_captured",
                                  !.captured_truth_observed = stopped]
                   ELSE Executed(s, action, keys, d)
  <2> HIDE DEF d
  <2>1. d.policy_result = policy
    BY <1>1
  <2> HIDE DEF policy
  <2> QED BY <2>1, Zenon DEF Controlled
<1> HIDE DEF d, policy, stopped
<1>5. ASSUME action \in AUTOMATED_RECOVERY_ACTIONS, policy = "AUTHORIZED",
             ~s.stale_capture_before_execution
      PROVE  SameColumns(r, d) /\ SafeResult(s, keys, r)
  <2>1. r = Executed(s, action, keys, d)
    BY <1>3, <1>5 DEF AUTOMATED_RECOVERY_ACTIONS
  <2> HIDE DEF r
  <2>2. /\ SameColumns(r, d) /\ r.captured_truth_observed = d.captured_truth_observed
        /\ r.execution_count \in {0, 1}
        /\ r.execution_count = 1 => execution_key(s, action) \notin keys
        /\ Recovered(r) => r.execution_count = 1 /\ s.synthetic_outcome = "successful_capture"
        /\ Recovered(r) <=> r.final_classification = "synthetic_recovered"
    BY <1>1, <2>1, ExecutedOnce
  <2>3. r.strategy_action = action /\ r.policy_result = "AUTHORIZED"
        /\ r.eligibility_decision = "ELIGIBLE" /\ r.failure_category = d.failure_category
    BY <1>1, <1>5, <2>2 DEF SameColumns
  <2>4. d.failure_category # "UNKNOWN"
    BY <1>1, <1>5, CompatibleActions DEF AUTOMATED_RECOVERY_ACTIONS, HarnessDisposition
  <2>5. SafeResult(s, keys, r)
    BY <1>1, <1>5, <2>2, <2>3, <2>4 DEF SafeResult, Eligible, Automated
  <2> QED BY <2>2, <2>5
<1>6. ASSUME ~(/\ action \in AUTOMATED_RECOVERY_ACTIONS /\ policy = "AUTHORIZED"
               /\ ~s.stale_capture_before_execution)
      PROVE  SameColumns(r, d) /\ SafeResult(s, keys, r)
  <2>1. \/ \E c \in {"wait", "safe_stop", "unresolved"} :
             r = [d EXCEPT !.final_classification = c]
        \/ r = [d EXCEPT !.final_classification = "protected_captured",
                         !.captured_truth_observed = stopped]
    BY <1>2, <1>3, <1>6
       DEF RecoveryAction, SAFE_INTERNAL_ACTIONS, AUTOMATED_RECOVERY_ACTIONS,
           PolicyDecisionResult
  <2> HIDE DEF r
  <2>2. /\ SameColumns(r, d) /\ r.execution_count = 0
        /\ r.synthetic_recovered_amount_minor = 0
        /\ r.final_classification # "synthetic_recovered"
    BY <1>1, <2>1 DEF SameColumns, ResultColumns
  <2> QED BY <2>2, EndsUnexecuted
<1> QED BY <1>5, <1>6 DEF d

\* The result of every scenario whatsoever is safe, whatever the provider answers and
\* whatever was executed before.
LEMMA ScenarioIsSafe ==
  ASSUME NEW s, NEW answer, NEW keys
  PROVE  SafeResult(s, keys, evaluate_scenario(s, answer, keys))
<1> DEFINE r == evaluate_scenario(s, answer, keys)
           action == HarnessAction(s, answer)
<1>1. CASE HarnessVerdict(s).decision # "ELIGIBLE"
  <2>1. PICK captured \in BOOLEAN, c \in {"protected_captured", "wait", "safe_stop"} :
          r = Stopped(s, captured, c)
    BY <1>1, ScenarioPath
  <2> HIDE DEF r
  <2>2. /\ r.execution_count = 0 /\ r.synthetic_recovered_amount_minor = 0
        /\ r.final_classification # "synthetic_recovered"
    BY <2>1 DEF Stopped, case_result
  <2>3. SafeResult(s, keys, r)
    BY <2>2, EndsUnexecuted
  <2> QED BY <2>3 DEF r
<1>2. CASE /\ HarnessVerdict(s).decision = "ELIGIBLE"
           /\ action \notin compatible_actions(HarnessDisposition(s))
  <2>1. r = StrategyFailed(s)
    BY <1>2, ScenarioPath
  <2> HIDE DEF r
  <2>2. /\ r.execution_count = 0 /\ r.synthetic_recovered_amount_minor = 0
        /\ r.final_classification # "synthetic_recovered"
    BY <2>1 DEF StrategyFailed, Diagnosed, case_result
  <2>3. SafeResult(s, keys, r)
    BY <2>2, EndsUnexecuted
  <2> QED BY <2>3 DEF r
<1>3. CASE /\ HarnessVerdict(s).decision = "ELIGIBLE"
           /\ action \in compatible_actions(HarnessDisposition(s))
  <2>1. r = Controlled(s, action, keys, Decided(s, action))
    BY <1>3, ScenarioPath
  <2>2. SafeResult(s, keys, Controlled(s, action, keys, Decided(s, action)))
    BY <1>3, ControlledIsSafe
  <2> QED BY <2>1, <2>2, Zenon
<1> QED BY <1>1, <1>2, <1>3

\* The case the harness builds for a proposal's facts has these facts.
LEMMA ScenarioRow ==
  ASSUME NEW f, f.payment_id \in BOOLEAN
  PROVE  /\ payment_case(ScenarioOf(f)).payment_id = f.payment_id
         /\ payment_case(ScenarioOf(f)).subscription_id = ~f.payment_id
         /\ payment_case(ScenarioOf(f)).payment_status = f.payment_status
         /\ payment_case(ScenarioOf(f)).subscription_status = f.subscription_status
         /\ payment_case(ScenarioOf(f)).error_reason = f.error_reason
         /\ payment_case(ScenarioOf(f)).error_source = f.error_source
         /\ payment_case(ScenarioOf(f)).error_step = f.error_step
<1> DEFINE s == ScenarioOf(f)
<1>1. /\ s.identity_kind = IF f.payment_id THEN "payment" ELSE "subscription"
      /\ s.payment_status = f.payment_status
      /\ s.subscription_status = f.subscription_status
      /\ s.error_reason = f.error_reason /\ s.error_source = f.error_source
      /\ s.error_step = f.error_step
  BY DEF ScenarioOf, Base
<1> HIDE DEF s
<1>2. /\ payment_case(s).payment_id = f.payment_id
      /\ payment_case(s).subscription_id = ~f.payment_id
      /\ payment_case(s).payment_status = f.payment_status
      /\ payment_case(s).subscription_status = f.subscription_status
      /\ payment_case(s).error_reason = f.error_reason
      /\ payment_case(s).error_source = f.error_source
      /\ payment_case(s).error_step = f.error_step
  BY <1>1 DEF payment_case
<1> QED BY <1>2 DEF s

\* The subject of the case failed for good.
FailedSubject(f) ==
  \/ f.payment_id /\ f.payment_status = "failed" /\ f.subscription_status = "none"
  \/ /\ f.subscription_id /\ ~f.payment_id
     /\ f.subscription_status = "halted" /\ f.payment_status = "none"

\* On such facts the harness reasons about the case, with the same diagnosis.
LEMMA HarnessAssesses ==
  ASSUME NEW f, f.payment_id \in BOOLEAN, FailedSubject(f)
  PROVE  /\ HarnessVerdict(ScenarioOf(f)).decision = "ELIGIBLE"
         /\ classify_failure(payment_case(ScenarioOf(f))) = classify_failure(f)
<1> DEFINE row == payment_case(ScenarioOf(f))
<1>1. /\ row.payment_id = f.payment_id /\ row.subscription_id = ~f.payment_id
      /\ row.payment_status = f.payment_status
      /\ row.subscription_status = f.subscription_status
      /\ row.error_reason = f.error_reason /\ row.error_source = f.error_source
      /\ row.error_step = f.error_step
  BY ScenarioRow
<1>2. HarnessVerdict(ScenarioOf(f))
        = assess_eligibility("RECONCILING", row, "aware", 60, RECONCILIATION_FRESHNESS)
  BY DEF HarnessVerdict
<1> HIDE DEF row
<1>3. "RECONCILING" \in CaseState \ (TERMINAL_CASE_STATES \cup {"DETECTED"})
  BY DEF CaseState, TERMINAL_CASE_STATES
<1>4. 60 \in 0..RECONCILIATION_FRESHNESS /\ 60 \in Int /\ RECONCILIATION_FRESHNESS \in Nat
  BY DEF RECONCILIATION_FRESHNESS
<1>5. Recoverable("RECONCILING", row, "aware", 60, RECONCILIATION_FRESHNESS)
  BY <1>1, <1>3, <1>4 DEF Recoverable, FailedSubject
<1>6. assess_eligibility("RECONCILING", row, "aware", 60, RECONCILIATION_FRESHNESS).decision
        = "ELIGIBLE"
  BY <1>3, <1>4, <1>5, EligibleIff
<1>7. classify_failure(row) = classify_failure(f)
  BY <1>1, Zenon DEF classify_failure, FailureCategory
<1> QED BY <1>2, <1>6, <1>7 DEF row

\* The harness takes the path of a proposal that is sound for its facts.
LEMMA HarnessFollows ==
  ASSUME NEW p \in Proposal, p.input.assessment.facts.payment_id \in BOOLEAN,
         FailedSubject(p.input.assessment.facts),
         p.input.diagnosis = classify_failure(p.input.assessment.facts),
         p.action \in compatible_actions(p.input.diagnosis.recovery_disposition),
         p.source = "RULE" <=> RuleDecides(p.input.diagnosis.recovery_disposition)
  PROVE  SamePath(evaluate_scenario(ScenarioOf(p.input.assessment.facts), p.action, {}), p)
<1> DEFINE f == p.input.assessment.facts
           s == ScenarioOf(f)
           d == Decided(s, p.action)
           r == evaluate_scenario(s, p.action, {})
<1>1. /\ HarnessVerdict(s).decision = "ELIGIBLE"
      /\ classify_failure(payment_case(s)) = p.input.diagnosis
  BY HarnessAssesses
<1>2. HarnessDisposition(s) = p.input.diagnosis.recovery_disposition
  BY <1>1 DEF HarnessDisposition
<1>3. HarnessAction(s, p.action) = p.action
  <2>1. RuleDecides(HarnessDisposition(s)) =>
          compatible_actions(HarnessDisposition(s)) = {"ESCALATE_TO_HUMAN"}
    BY DEF RuleDecides, compatible_actions
  <2> QED BY <1>2, <2>1 DEF HarnessAction, provider_invoked
<1>4. r = Controlled(s, p.action, {}, d)
  BY <1>1, <1>2, <1>3, ScenarioPath
<1>5. SameColumns(r, d)
  BY <1>1, <1>2, <1>4, ControlledIsSafe
<1>6. /\ d.eligibility_decision = "ELIGIBLE" /\ ~d.strategy_failed
      /\ d.strategy_action = p.action
      /\ d.failure_category = p.input.diagnosis.failure_category
      /\ d.strategy_provider_invoked = provider_invoked(HarnessDisposition(s))
  <2>1. d.eligibility_decision = "ELIGIBLE" /\ d.strategy_action = p.action
    <3>1. d.eligibility_decision = HarnessVerdict(s).decision
      BY DecidedFields, Zenon
    <3>2. d.strategy_action = p.action
      BY DecidedAction, Zenon
    <3> HIDE DEF d, s
    <3> QED BY <1>1, <3>1, <3>2
  <2>2. ~d.strategy_failed
    BY DecidedFields, Zenon
  <2>3. d.failure_category = p.input.diagnosis.failure_category
    <3>1. d.failure_category = classify_failure(payment_case(s)).failure_category
      BY DecidedFields, Zenon
    <3> HIDE DEF d, s
    <3> QED BY <1>1, <3>1
  <2>4. d.strategy_provider_invoked = provider_invoked(HarnessDisposition(s))
    BY DecidedFields, Zenon
  <2> QED BY <2>1, <2>2, <2>3, <2>4
<1>7. provider_invoked(HarnessDisposition(s)) <=> p.source = "AI"
  BY <1>2 DEF provider_invoked, Proposal
<1> HIDE DEF r, d, s
<1>8. SamePath(r, p)
  BY <1>5, <1>6, <1>7 DEF SamePath, SameColumns
<1> QED BY <1>8 DEF r, s

\* Every proposal was made for a final failure of the case's own subject.
MadeForFailure == \A p \in proposals : FailedSubject(p.input.assessment.facts)

LEMMA MadeForFailureStep ==
  ASSUME Inv, MadeForFailure, [Next]_vars
  PROVE  MadeForFailure'
<1>1. CASE \E w \in Callers : persist_locked(w)
  <2>1. PICK w \in Callers : persist_locked(w)
    BY <1>1
  <2>2. proposals' = Superseded(proposals) \cup {NewProposal(w)}
    BY <2>1 DEF persist_locked
  <2>3. ContextHolds /\ NewProposal(w).input.assessment = Fingerprint
    BY <2>1, Accepted
  <2>4. TypeOK
    BY DEF Inv
  <2>5. Recoverable(state, facts, "aware", age, Freshness)
    <3>1. Eligibility.decision = "ELIGIBLE"
      BY <2>3 DEF ContextHolds, CurrentAssessment
    <3>2. state \in CaseState /\ age \in Int /\ Freshness \in Nat
      BY <2>4, FreshnessAssumption DEF TypeOK
    <3> QED BY <3>1, <3>2, EligibleIff DEF Eligibility
  <2>6. FailedSubject(NewProposal(w).input.assessment.facts)
    BY <2>3, <2>4, <2>5, ContextMeans DEF Recoverable, FailedSubject
  <2>7. \A q \in Superseded(proposals) : FailedSubject(q.input.assessment.facts)
    BY SupersededFields DEF MadeForFailure, Superseded
  <2> QED BY <2>2, <2>6, <2>7 DEF MadeForFailure
<1>2. CASE ~\E w \in Callers : persist_locked(w)
  BY <1>2, OtherSteps DEF MadeForFailure
<1> QED BY <1>1, <1>2

\* The harness measures the system it claims to measure (HarnessAgrees): it takes the
\* path of every proposal the services may ever store, and no scenario executes more
\* than one authorized action for a known failure (_evaluate_scenario).
THEOREM HarnessAgreesHolds == Spec => []HarnessAgrees
<1>1. Init => Inv /\ MadeForFailure
  <2>1. Init => MadeForFailure
    BY DEF Init, MadeForFailure
  <2> QED BY <2>1, InvInit
<1>2. (Inv /\ MadeForFailure) /\ [Next]_vars => (Inv /\ MadeForFailure)'
  BY InvStep, MadeForFailureStep
<1>3. Inv /\ MadeForFailure => HarnessAgrees
  <2> SUFFICES ASSUME Inv, MadeForFailure PROVE HarnessAgrees
    OBVIOUS
  <2>1. ScenariosAreSafe
    BY ScenarioIsSafe DEF ScenariosAreSafe
  <2>2. ASSUME NEW p \in proposals
        PROVE  SamePath(evaluate_scenario(ScenarioOf(p.input.assessment.facts), p.action, {}), p)
    <3>1. p \in Proposal /\ p.input.assessment \in Fingerprints
      BY DEF Inv, TypeOK, Proposal, StrategyInput
    <3>2. p.input.assessment.facts.payment_id \in BOOLEAN
      <4>1. CASE p.input.assessment = NoFingerprint
        <5>1. NoFingerprint.facts.payment_id = FALSE
          BY DEF NoFingerprint, build_assessment_fingerprint
        <5> QED BY <4>1, <5>1
      <4>2. CASE p.input.assessment \in [terminal_case_state : TERMINAL_CASE_STATES \cup {"none"},
                                         facts : CaseFacts]
        <5>1. PICK x \in Snapshots, n \in 1..MaxReconciliations :
                p.input.assessment.facts = WithStamp(x, n)
          BY <4>2 DEF CaseFacts
        <5>2. x.payment_id \in BOOLEAN
          BY SnapshotsAssumption DEF ProviderFacts
        <5> QED BY <5>1, <5>2 DEF WithStamp
      <4> QED BY <3>1, <4>1, <4>2 DEF Fingerprints
    <3>3. /\ p.input.diagnosis = classify_failure(p.input.assessment.facts)
          /\ p.action \in compatible_actions(p.input.diagnosis.recovery_disposition)
          /\ p.source = "RULE" <=> RuleDecides(p.input.diagnosis.recovery_disposition)
      BY DEF Inv, ProposalsAreSound
    <3> QED BY <3>1, <3>2, <3>3, HarnessFollows DEF MadeForFailure
  <2> QED BY <2>1, <2>2 DEF HarnessAgrees
<1> QED BY <1>1, <1>2, <1>3, PTL DEF Spec
=============================================================================
