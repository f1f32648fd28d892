-------------------------- MODULE PolicyRules_proofs --------------------------
(***************************************************************************)
(* What the merchant-authorization rules decide, for every request and     *)
(* every configuration: the answer of the ordered table in closed form,    *)
(* and that nothing but a laxer request or configuration makes it laxer.   *)
(***************************************************************************)
EXTENDS PolicyRules, Integers, WellFoundedInduction, TLAPS

\* A set of natural numbers that is not empty has a least one.
LEMMA LeastOf ==
  ASSUME NEW T, T \subseteq Nat, T # {}
  PROVE  \E i \in T : \A j \in T : i <= j
<1>1. PICK i \in T : \A j \in T : ~(<<j, i>> \in OpToRel(<, Nat))
  BY NatLessThanWellFounded, WFMin
<1>2. \A j \in T : ~(j < i)
  BY <1>1 DEF OpToRel
<1> QED BY <1>2

\* Every rule of the table has a policy result and a reason code.
LEMMA RuleTable ==
  ASSUME NEW f, NEW c
  PROVE  /\ DOMAIN Rules(f, c) = 1..15
         /\ \A i \in 1..15 : /\ Rules(f, c)[i].result \in PolicyDecisionResult
                             /\ Rules(f, c)[i].reason \in PolicyReason
         /\ Rules(f, c)[15].when
<1>1. DOMAIN Rules(f, c) = 1..15
  BY DEF Rules
<1>2. \A i \in 1..15 : Rules(f, c)[i].result \in PolicyDecisionResult
  BY DEF Rules, Rule, PolicyDecisionResult
<1>3. \A i \in 1..15 : Rules(f, c)[i].reason \in PolicyReason
  BY DEF Rules, Rule, PolicyReason, HARD_STOP_REASONS
<1>4. Rules(f, c)[15] = Rule(TRUE, "AUTHORIZED", "POLICY_AUTHORIZED")
  BY DEF Rules
<1>5. Rules(f, c)[15].when
  BY <1>4 DEF Rule
<1> QED BY <1>1, <1>2, <1>3, <1>5

\* The first rule that applies exists, the last one always does, and decides.
LEMMA FirstRule ==
  ASSUME NEW f, NEW c
  PROVE  \E i \in 1..15 :
           /\ Rules(f, c)[i].when
           /\ \A j \in 1..(i - 1) : ~Rules(f, c)[j].when
           /\ evaluate_authorization(f, c) = [result |-> Rules(f, c)[i].result,
                                              reason |-> Rules(f, c)[i].reason]
<1> DEFINE T == {i \in 1..15 : Rules(f, c)[i].when}
           first == CHOOSE i \in DOMAIN Rules(f, c) :
                      Rules(f, c)[i].when /\ \A j \in 1..(i - 1) : ~Rules(f, c)[j].when
<1>0. 15 \in 1..15 /\ Rules(f, c)[15].when
  BY RuleTable
<1>1. T \subseteq Nat /\ T # {}
  <2>1. 15 \in T BY <1>0, Zenon
  <2>2. T \subseteq Nat OBVIOUS
  <2> QED BY <2>1, <2>2
<1>2. PICK i \in T : \A j \in T : i <= j
  BY <1>1, LeastOf
<1>3. \E k \in DOMAIN Rules(f, c) :
        Rules(f, c)[k].when /\ \A j \in 1..(k - 1) : ~Rules(f, c)[j].when
  BY <1>2, RuleTable
<1>4. /\ first \in 1..15 /\ Rules(f, c)[first].when
      /\ \A j \in 1..(first - 1) : ~Rules(f, c)[j].when
  BY <1>3, RuleTable
<1>5. evaluate_authorization(f, c) = [result |-> Rules(f, c)[first].result,
                                      reason |-> Rules(f, c)[first].reason]
  BY DEF evaluate_authorization
<1> QED BY <1>4, <1>5

\* evaluate_authorization returns a policy result with a reason code.
LEMMA EvaluationType ==
  ASSUME NEW f, NEW c
  PROVE  /\ evaluate_authorization(f, c).result \in PolicyDecisionResult
         /\ evaluate_authorization(f, c).reason \in PolicyReason
BY FirstRule, RuleTable

-----------------------------------------------------------------------------
(* The answer without the table.                                            *)

\* What refuses an automated action, and what needs a human for it.
Refused(f, c) ==
  \/ ~c.present \/ ~c.valid \/ ~c.allowed
  \/ c.blocked_category \/ c.blocked_method
  \/ ~c.window \/ f.windowPassed
  \/ AttemptsReached(f, c)
  \/ f.action \in CUSTOMER_CONTACT_ACTIONS /\ f.contacts >= c.max_contact_attempts
  \/ f.amount = {}

Held(f, c) ==
  \/ c.approval_action
  \/ \E t \in c.require_approval_above : \E a \in f.amount : a >= t
  \/ ~c.automation_enabled

\* When each group of rules applies.
LEMMA RuleGroups ==
  ASSUME NEW f, NEW c
  PROVE  LET rules == Rules(f, c)
         IN  /\ rules[1].when <=> f.action \in SAFE_INTERNAL_ACTIONS
             /\ (\E i \in 2..11 : rules[i].when) <=> Refused(f, c)
             /\ (\E i \in 12..14 : rules[i].when) <=> Held(f, c)
             /\ rules[1].result = "AUTHORIZED" /\ rules[15].result = "AUTHORIZED"
             /\ \A i \in 2..11 : rules[i].result = "BLOCKED"
             /\ \A i \in 12..14 : rules[i].result = "REQUIRES_APPROVAL"
<1> DEFINE rules == Rules(f, c)
<1>1. rules[1].when <=> f.action \in SAFE_INTERNAL_ACTIONS
  BY DEF Rules, Rule
<1>2. (\E i \in 2..11 : rules[i].when) <=> Refused(f, c)
  <2>1. /\ rules[2].when <=> ~c.present
        /\ rules[3].when <=> ~c.valid
        /\ rules[4].when <=> ~c.allowed
    BY DEF Rules, Rule
  <2>2. /\ rules[5].when <=> c.blocked_category
        /\ rules[6].when <=> c.blocked_method
        /\ rules[7].when <=> ~c.window
        /\ rules[8].when <=> f.windowPassed
    BY DEF Rules, Rule
  <2>3. /\ rules[9].when <=> AttemptsReached(f, c)
        /\ rules[10].when <=> f.action \in CUSTOMER_CONTACT_ACTIONS
                              /\ f.contacts >= c.max_contact_attempts
        /\ rules[11].when <=> f.amount = {}
    BY DEF Rules, Rule
  <2> HIDE DEF rules
  <2>4. \A i \in 2..11 : i \in {2, 3, 4, 5, 6, 7, 8, 9, 10, 11}
    OBVIOUS
  <2>5. {2, 3, 4, 5, 6, 7, 8, 9, 10, 11} \subseteq 2..11
    OBVIOUS
  <2> QED BY <2>1, <2>2, <2>3, <2>4, <2>5 DEF Refused
<1>3. (\E i \in 12..14 : rules[i].when) <=> Held(f, c)
  <2>1. /\ rules[12].when <=> c.approval_action
        /\ rules[13].when <=> \E t \in c.require_approval_above : \E a \in f.amount : a >= t
        /\ rules[14].when <=> ~c.automation_enabled
    BY DEF Rules, Rule
  <2> HIDE DEF rules
  <2>2. \A i : i \in 12..14 <=> i \in {12, 13, 14}
    OBVIOUS
  <2> QED BY <2>1, <2>2 DEF Held
<1>4. rules[1].result = "AUTHORIZED" /\ rules[15].result = "AUTHORIZED"
  BY DEF Rules, Rule
<1>5. \A i \in 2..11 : rules[i].result = "BLOCKED"
  BY DEF Rules, Rule
<1>6. \A i \in 12..14 : rules[i].result = "REQUIRES_APPROVAL"
  BY DEF Rules, Rule
<1> QED BY <1>1, <1>2, <1>3, <1>4, <1>5, <1>6

\* A safe action is authorized; any other is blocked by what refuses it, held by what
\* needs a human, and authorized otherwise.
LEMMA AuthorizationIs ==
  ASSUME NEW f, NEW c
  PROVE  evaluate_authorization(f, c).result
           = IF f.action \in SAFE_INTERNAL_ACTIONS THEN "AUTHORIZED"
             ELSE IF Refused(f, c) THEN "BLOCKED"
             ELSE IF Held(f, c) THEN "REQUIRES_APPROVAL" ELSE "AUTHORIZED"
<1> DEFINE rules == Rules(f, c)
<1>1. PICK i \in 1..15 :
        /\ rules[i].when /\ \A j \in 1..(i - 1) : ~rules[j].when
        /\ evaluate_authorization(f, c) = [result |-> rules[i].result, reason |-> rules[i].reason]
  BY FirstRule
<1>2. evaluate_authorization(f, c).result = rules[i].result
  BY <1>1
<1>3. /\ rules[1].when <=> f.action \in SAFE_INTERNAL_ACTIONS
      /\ (\E k \in 2..11 : rules[k].when) <=> Refused(f, c)
      /\ (\E k \in 12..14 : rules[k].when) <=> Held(f, c)
      /\ rules[1].result = "AUTHORIZED" /\ rules[15].result = "AUTHORIZED"
      /\ \A k \in 2..11 : rules[k].result = "BLOCKED"
      /\ \A k \in 12..14 : rules[k].result = "REQUIRES_APPROVAL"
  BY RuleGroups
<1> HIDE DEF rules
<1>4. CASE i = 1
  BY <1>1, <1>2, <1>3, <1>4
<1>5. CASE i \in 2..11
  <2>1. ~rules[1].when
    BY <1>1, <1>5
  <2> QED BY <1>1, <1>2, <1>3, <1>5, <2>1
<1>6. CASE i \in 12..14
  <2>1. ~rules[1].when /\ \A k \in 2..11 : ~rules[k].when
    BY <1>1, <1>6
  <2> QED BY <1>1, <1>2, <1>3, <1>6, <2>1
<1>7. CASE i = 15
  <2>1. ~rules[1].when /\ \A k \in 2..11 : ~rules[k].when /\ \A m \in 12..14 : ~rules[m].when
    BY <1>1, <1>7
  <2> QED BY <1>1, <1>2, <1>3, <1>7, <2>1
<1> QED BY <1>4, <1>5, <1>6, <1>7
=============================================================================
