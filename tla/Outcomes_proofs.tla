--------------------------- MODULE Outcomes_proofs ---------------------------
(***************************************************************************)
(* What outcome observation guarantees for any number of cases and         *)
(* observers, whatever the provider reports and reconciliation writes.     *)
(***************************************************************************)
EXTENDS Outcomes, TLAPS

-----------------------------------------------------------------------------
(* The classification.                                                      *)

\* Every snapshot has a classification.
LEMMA ClassifyType ==
  ASSUME NEW s \in Snapshots, NEW a \in Nat
  PROVE  classify_payment_link_outcome(a, s) \in OutcomeClassification
<1>1. s.payments \subseteq CapturedPayment
  BY OutcomesAssumption DEF PaymentLinkSnapshot
<1>2. \A o \in RecoveryOutcomeStatus : Outcome(o) \in OutcomeClassification
  BY DEF Outcome, OutcomeClassification
<1>3. UnpaidOutcome(s.status) \in RecoveryOutcomeStatus /\ "REVIEW_REQUIRED" \in RecoveryOutcomeStatus
  BY DEF UnpaidOutcome, RecoveryOutcomeStatus
<1>4. ASSUME NEW p \in s.payments
      PROVE  [outcome |-> "RECOVERED", payment |-> (CHOOSE q \in s.payments : TRUE).id]
               \in OutcomeClassification
  <2>1. (CHOOSE q \in s.payments : TRUE) \in CapturedPayment
    BY <1>1, <1>4
  <2> QED BY <2>1 DEF CapturedPayment, OutcomeClassification, RecoveryOutcomeStatus
<1> QED BY <1>2, <1>3, <1>4 DEF classify_payment_link_outcome

\* A link that evidences a recovery by payment id over amount a.
Evidences(s, a, id) ==
  s.status = "paid" /\ \E p \in s.payments : p.id = id /\ PaidInFull(a, s, p)

\* RECOVERED is said of a link paid by exactly one captured payment in full only.
LEMMA RecoveredIsPaid ==
  ASSUME NEW s \in Snapshots, NEW a \in Nat,
         classify_payment_link_outcome(a, s).outcome = "RECOVERED"
  PROVE  Evidences(s, a, classify_payment_link_outcome(a, s).payment)
<1> DEFINE r == classify_payment_link_outcome(a, s)
<1>1. UnpaidOutcome(s.status) # "RECOVERED"
  BY DEF UnpaidOutcome
<1>2. s.status = "paid" /\ \E p \in s.payments : PaidInFull(a, s, p)
  BY <1>1 DEF classify_payment_link_outcome, Outcome
<1>3. PICK p \in s.payments : PaidInFull(a, s, p)
  BY <1>2
<1>4. s.payments = {p}
  BY <1>3 DEF PaidInFull
<1>5. ~Mismatch(a, s)
  BY DEF classify_payment_link_outcome, Outcome
<1>6. r.payment = (CHOOSE q \in s.payments : TRUE).id
  BY <1>2, <1>5 DEF classify_payment_link_outcome
<1>7. r.payment = p.id
  BY <1>4, <1>6
<1> QED BY <1>2, <1>3, <1>7 DEF Evidences

\* Neither protection turns anything into a recovery or changes its payment.
LEMMA ProtectKeeps ==
  ASSUME TypeOK, NEW c \in Cases, NEW r \in OutcomeClassification
  PROVE  /\ protect(c, r) \in OutcomeClassification
         /\ insert_attribution(c, r) \in OutcomeClassification
         /\ protect(c, r).outcome = "RECOVERED" =>
              /\ r.outcome = "RECOVERED"
              /\ protect(c, r).payment = r.payment
              /\ attribution[c].payment \in {NoPayment, r.payment}
              /\ attribution[c].payment = NoPayment => row[c].state # "RECOVERED"
         /\ insert_attribution(c, r).outcome = "RECOVERED" =>
              /\ r.outcome = "RECOVERED"
              /\ insert_attribution(c, r).payment = r.payment
              /\ \A d \in Cases \ {c} : attribution[d].payment # r.payment
BY DEF protect, insert_attribution, OutcomeClassification, RecoveryOutcomeStatus

-----------------------------------------------------------------------------
(* Types.                                                                   *)

\* One observer moves, the others stay where they are.
Moves(o, next) ==
  /\ observer' \in [Observers -> Observer]
  /\ observer'[o] = next
  /\ \A p \in Observers \ {o} : observer'[p] = observer[p]

\* Overwriting the state of one observer with a well typed one.
LEMMA MovesBy ==
  ASSUME TypeOK, NEW o \in Observers, NEW next \in Observer,
         observer' = [observer EXCEPT ![o] = next]
  PROVE  Moves(o, next)
BY DEF TypeOK, Moves

\* An idle observer is well typed, and so is one that returns.
LEMMA ReturnMoves ==
  ASSUME TypeOK
  PROVE  /\ Idle \in Observer /\ Idle.pc = "idle"
         /\ \A o \in Observers : Return(o) => Moves(o, Idle)
<1>1. Idle \in Observer /\ Idle.pc = "idle"
  BY OutcomesAssumption DEF Idle, Observer, Outcome, OutcomeClassification, RecoveryOutcomeStatus
<1> QED BY <1>1, MovesBy DEF Return

\* What the steps of an observer do to it.
LEMMA ObserverMoves ==
  ASSUME TypeOK, NEW o \in Observers
  PROVE  /\ \A c \in Cases : prepare_claim(o, c) =>
              \E n \in Observer : Moves(o, n) /\ n.pc = "claimed" /\ n.case = c
         /\ fetch_by_id(o) =>
              \E n \in Observer : Moves(o, n) /\ n.pc = "fetched" /\ n.case \in Cases
         /\ classify_observation(o) =>
              \/ Moves(o, Idle)
              \/ \E n \in Observer :
                   /\ Moves(o, n) /\ n.pc = "classified" /\ n.case = observer[o].case
                   /\ n.case \in Cases /\ ~Locked(n.case)
                   /\ n.snapshot = observer[o].snapshot /\ n.expected = observer[o].expected
                   /\ n.expected = row[n.case].amount /\ ~Observed(n.case, n.snapshot)
                   /\ n.result = protect(n.case, classify_payment_link_outcome(n.expected, n.snapshot))
<1>0. /\ observer[o] \in Observer /\ (observer[o].pc # "idle" => observer[o].case \in Cases)
      /\ \A c \in Cases : row[c].amount \in Nat /\ truth[c] \in Snapshots
      /\ Outcome("PENDING") \in OutcomeClassification /\ FirstSnapshot \in Snapshots
  BY OutcomesAssumption
     DEF TypeOK, OutcomeRow, Outcome, OutcomeClassification, RecoveryOutcomeStatus
<1>1. ASSUME NEW c \in Cases, prepare_claim(o, c)
      PROVE  \E n \in Observer : Moves(o, n) /\ n.pc = "claimed" /\ n.case = c
  <2> DEFINE n == [pc |-> "claimed", case |-> c, expected |-> row[c].amount,
                   snapshot |-> FirstSnapshot, result |-> Outcome("PENDING")]
  <2>1. n \in Observer
    BY <1>0 DEF Observer
  <2>2. Moves(o, n)
    BY <1>1, <2>1, MovesBy DEF prepare_claim
  <2> QED BY <2>1, <2>2
<1>2. ASSUME fetch_by_id(o)
      PROVE  \E n \in Observer : Moves(o, n) /\ n.pc = "fetched" /\ n.case \in Cases
  <2> DEFINE c == observer[o].case
             n == [pc |-> "fetched", case |-> c, expected |-> observer[o].expected,
                   snapshot |-> truth[c], result |-> Outcome("PENDING")]
  <2>0. c \in Cases
    BY <1>0, <1>2 DEF fetch_by_id
  <2>1. n \in Observer
    BY <1>0, <2>0 DEF Observer
  <2>2. observer' = [observer EXCEPT ![o] = n]
    BY <1>2 DEF fetch_by_id, TypeOK
  <2>3. Moves(o, n)
    BY <2>1, <2>2, MovesBy
  <2> QED BY <2>0, <2>1, <2>3
<1>3. ASSUME classify_observation(o), ~Moves(o, Idle)
      PROVE  \E n \in Observer :
               /\ Moves(o, n) /\ n.pc = "classified" /\ n.case = observer[o].case
               /\ n.case \in Cases /\ ~Locked(n.case)
               /\ n.snapshot = observer[o].snapshot /\ n.expected = observer[o].expected
               /\ n.expected = row[n.case].amount /\ ~Observed(n.case, n.snapshot)
               /\ n.result = protect(n.case, classify_payment_link_outcome(n.expected, n.snapshot))
  <2> DEFINE c == observer[o].case
             s == observer[o].snapshot
             e == observer[o].expected
             n == [pc |-> "classified", case |-> c, expected |-> e, snapshot |-> s,
                   result |-> protect(c, classify_payment_link_outcome(e, s))]
  <2>0. c \in Cases /\ s \in Snapshots /\ e \in Nat /\ ~Locked(c)
    BY <1>0, <1>3 DEF classify_observation, Observer
  <2>1. n \in Observer
    BY <2>0, ClassifyType, ProtectKeeps DEF Observer
  <2>2. ContextUnchanged(o) /\ ~Observed(c, s) /\ observer' = [observer EXCEPT ![o] = n]
    BY <1>3, ReturnMoves DEF classify_observation, TypeOK
  <2>3. Moves(o, n) /\ e = row[c].amount
    BY <2>1, <2>2, MovesBy DEF ContextUnchanged
  <2> QED BY <2>0, <2>1, <2>2, <2>3
<1> QED BY <1>1, <1>2, <1>3

\* The case rows that outcomes and reconciliation write are well typed.
LEMMA RowTypes ==
  ASSUME TypeOK, NEW c \in Cases
  PROVE  /\ \A o \in RecoveryOutcomeStatus : AfterOutcome(c, o) \in OutcomeRow
         /\ \A s \in {"WAITING_FOR_OUTCOME"} \cup TERMINAL_CASE_STATES, a \in Amounts,
              r \in BOOLEAN : [state |-> s, amount |-> a, resolved |-> r] \in OutcomeRow
<1>0. row[c] \in OutcomeRow /\ Amounts \subseteq Nat
  BY OutcomesAssumption DEF TypeOK
<1>1. \A s \in {"WAITING_FOR_OUTCOME"} \cup TERMINAL_CASE_STATES, a \in Nat, r \in BOOLEAN :
        [state |-> s, amount |-> a, resolved |-> r] \in OutcomeRow
  BY DEF OutcomeRow
<1>2. ASSUME NEW o \in RecoveryOutcomeStatus
      PROVE  AfterOutcome(c, o) \in OutcomeRow
  <2>1. OutcomeTarget(c, o) \in {"WAITING_FOR_OUTCOME"} \cup TERMINAL_CASE_STATES
    BY <1>0 DEF OutcomeTarget, OutcomeRow, TERMINAL_CASE_STATES
  <2>2. row[c].amount \in Nat
    BY <1>0 DEF OutcomeRow
  <2>3. (row[c].resolved \/ o # "PENDING") \in BOOLEAN
    OBVIOUS
  <2> QED BY <1>0, <1>1, <2>1, <2>2, <2>3, Zenon DEF AfterOutcome
<1> QED BY <1>0, <1>1, <1>2

\* Every step keeps the types.
LEMMA TypeStep ==
  ASSUME TypeOK, [Next]_vars
  PROVE  TypeOK'
<1>0. /\ row \in [Cases -> OutcomeRow]
      /\ execution \in [Cases -> {"SUCCEEDED", "COMPENSATION_REQUIRED"}]
      /\ truth \in [Cases -> Snapshots]
      /\ observations \in [Cases -> Seq(Observation)]
      /\ attribution \in [Cases -> Attribution]
      /\ observer \in [Observers -> Observer]
      /\ \A o \in Observers : observer[o].pc # "idle" => observer[o].case \in Cases
      /\ captured \in [Cases -> BOOLEAN]
  BY DEF TypeOK
<1>1. ASSUME NEW o \in Observers, NEW n \in Observer, Moves(o, n),
             n.pc # "idle" => n.case \in Cases
      PROVE  /\ observer' \in [Observers -> Observer]
             /\ \A p \in Observers : observer'[p].pc # "idle" => observer'[p].case \in Cases
  BY <1>0, <1>1 DEF Moves
<1>2. ASSUME NEW o \in Observers, NEW c \in Cases, prepare_claim(o, c)
      PROVE  TypeOK'
  <2>1. PICK n \in Observer : Moves(o, n) /\ n.pc = "claimed" /\ n.case = c
    BY <1>2, ObserverMoves
  <2>2. /\ observer' \in [Observers -> Observer]
        /\ \A p \in Observers : observer'[p].pc # "idle" => observer'[p].case \in Cases
    BY <1>1, <2>1
  <2> QED BY <1>0, <1>2, <2>2 DEF prepare_claim, TypeOK
<1>3. ASSUME NEW o \in Observers, fetch_by_id(o)
      PROVE  TypeOK'
  BY <1>0, <1>1, <1>3, ObserverMoves DEF fetch_by_id, TypeOK
<1>4. ASSUME NEW o \in Observers, classify_observation(o)
      PROVE  TypeOK'
  BY <1>0, <1>1, <1>4, ObserverMoves, ReturnMoves DEF classify_observation, TypeOK
<1>5. ASSUME NEW o \in Observers, persist_observation(o)
      PROVE  TypeOK'
  <2> DEFINE c == observer[o].case
             s == observer[o].snapshot
             r == insert_attribution(c, observer[o].result)
  <2>0. c \in Cases /\ s \in Snapshots /\ observer[o].result \in OutcomeClassification
    BY <1>0, <1>5 DEF persist_observation, Observer
  <2>1. r.outcome \in RecoveryOutcomeStatus /\ r.payment \in Payments \cup {NoPayment}
    <3>1. r \in OutcomeClassification
      BY <2>0, ProtectKeeps
    <3> QED BY <3>1 DEF OutcomeClassification
  <2> HIDE DEF r
  <2>2. [evidence |-> s, outcome |-> r.outcome, payment |-> r.payment] \in Observation
    BY <2>0, <2>1 DEF Observation
  <2>3. Append(observations[c], [evidence |-> s, outcome |-> r.outcome, payment |-> r.payment])
          \in Seq(Observation)
    BY <1>0, <2>0, <2>2
  <2>4. observations' \in [Cases -> Seq(Observation)]
    BY <1>0, <1>5, <2>3 DEF persist_observation, r
  <2>5. row[c].amount \in Nat
    BY <1>0, <2>0 DEF OutcomeRow
  <2>6. [payment |-> r.payment, amount |-> row[c].amount] \in Attribution
    BY <2>1, <2>5 DEF Attribution
  <2>7. attribution' \in [Cases -> Attribution]
    BY <1>0, <1>5, <2>0, <2>6 DEF persist_observation, r
  <2>8. row' \in [Cases -> OutcomeRow]
    BY <1>0, <1>5, <2>0, <2>1, RowTypes DEF persist_observation, r
  <2>9. /\ observer' \in [Observers -> Observer]
        /\ \A p \in Observers : observer'[p].pc # "idle" => observer'[p].case \in Cases
    BY <1>1, <1>5, ReturnMoves DEF persist_observation
  <2> QED BY <1>0, <1>5, <2>4, <2>7, <2>8, <2>9 DEF persist_observation, TypeOK
<1>6. ASSUME NEW o \in Observers, observation_fails(o)
      PROVE  TypeOK'
  BY <1>0, <1>1, <1>6, ReturnMoves DEF observation_fails, TypeOK
<1>7. ASSUME NEW c \in Cases, late_finalizer(c)
      PROVE  TypeOK'
  BY <1>0, <1>7 DEF late_finalizer, TypeOK
<1>8. ASSUME NEW c \in Cases, ProviderMoves(c)
      PROVE  TypeOK'
  BY <1>0, <1>8 DEF ProviderMoves, TypeOK
<1>9. ASSUME NEW c \in Cases, NEW status \in {"captured", "refunded", "failed"},
             NEW amount \in Amounts, reconcile(c, status, amount)
      PROVE  TypeOK'
  <2> DEFINE open == row[c].state \notin TERMINAL_CASE_STATES
             target == IF status = "captured" THEN "RECOVERED" ELSE "EXHAUSTED"
             st == IF open /\ status # "failed" THEN target ELSE row[c].state
             rs == row[c].resolved \/ (open /\ status # "failed")
  <2>1. st \in {"WAITING_FOR_OUTCOME"} \cup TERMINAL_CASE_STATES
    BY <1>0 DEF OutcomeRow, TERMINAL_CASE_STATES
  <2>2. rs \in BOOLEAN
    OBVIOUS
  <2>3. row' = [row EXCEPT ![c] = [state |-> st, amount |-> amount, resolved |-> rs]]
    BY <1>9, Zenon DEF reconcile
  <2> HIDE DEF st, rs
  <2>4. [state |-> st, amount |-> amount, resolved |-> rs] \in OutcomeRow
    BY <2>1, <2>2, RowTypes, Zenon
  <2>5. row' \in [Cases -> OutcomeRow]
    BY <1>0, <2>3, <2>4
  <2>6. captured' \in [Cases -> BOOLEAN]
    BY <1>0, <1>9, Zenon DEF reconcile
  <2> QED BY <1>0, <1>9, <2>5, <2>6 DEF reconcile, TypeOK
<1>10. CASE UNCHANGED vars
  BY <1>0, <1>10 DEF vars, TypeOK
<1> QED BY <1>2, <1>3, <1>4, <1>5, <1>6, <1>7, <1>8, <1>9, <1>10 DEF Next, ObserverStep

\* The state of outcome observation stays well typed (Outcomes.TypeOK).
THEOREM TypeCorrect == Spec => []TypeOK
<1>1. Init => TypeOK
  <2> SUFFICES ASSUME Init PROVE TypeOK
    OBVIOUS
  <2>1. [state |-> "WAITING_FOR_OUTCOME", amount |-> FirstAmount, resolved |-> FALSE] \in OutcomeRow
    BY OutcomesAssumption DEF OutcomeRow
  <2>2. Idle \in Observer /\ Idle.pc = "idle"
    BY OutcomesAssumption DEF Idle, Observer, Outcome, OutcomeClassification, RecoveryOutcomeStatus
  <2>3. NoAttribution \in Attribution
    BY DEF NoAttribution, Attribution
  <2> QED BY <2>1, <2>2, <2>3, OutcomesAssumption DEF Init, TypeOK
<1> QED BY <1>1, TypeStep, PTL DEF Spec

-----------------------------------------------------------------------------
(* What an observer that holds the lock knows.                              *)

Exclusive ==
  \A o, p \in Observers :
    /\ observer[o].pc = "classified" /\ observer[p].pc = "classified"
    /\ observer[o].case = observer[p].case
    => o = p

\* A classification n of what was read is right at present.
Sound(n) ==
  /\ n.expected = row[n.case].amount
  /\ ~Observed(n.case, n.snapshot)
  /\ n.result.outcome = "RECOVERED" =>
       /\ Evidences(n.snapshot, row[n.case].amount, n.result.payment)
       /\ attribution[n.case].payment \in {NoPayment, n.result.payment}
       /\ attribution[n.case].payment = NoPayment => row[n.case].state # "RECOVERED"

ClassifiedSound ==
  \A o \in Observers : observer[o].pc = "classified" => Sound(observer[o])

\* Nobody but the holder of the lock writes the rows of a case.
LEMMA OnlyHolderWrites ==
  ASSUME TypeOK, [Next]_vars, NEW c \in Cases,
         ~(\E o \in Observers : persist_observation(o) /\ observer[o].case = c)
  PROVE  /\ observations'[c] = observations[c]
         /\ attribution'[c] = attribution[c]
         /\ Locked(c) => row'[c] = row[c]
<1>0. /\ row \in [Cases -> OutcomeRow] /\ observations \in [Cases -> Seq(Observation)]
      /\ attribution \in [Cases -> Attribution]
  BY DEF TypeOK
<1>1. ASSUME NEW o \in Observers, persist_observation(o)
      PROVE  /\ observations'[c] = observations[c]
             /\ attribution'[c] = attribution[c]
             /\ row'[c] = row[c]
  BY <1>0, <1>1 DEF persist_observation
<1>2. ASSUME NEW d \in Cases, NEW status \in {"captured", "refunded", "failed"},
             NEW amount \in Amounts, reconcile(d, status, amount)
      PROVE  /\ observations'[c] = observations[c]
             /\ attribution'[c] = attribution[c]
             /\ Locked(c) => row'[c] = row[c]
  <2>1. UNCHANGED <<observations, attribution>> /\ ~Locked(d)
    BY <1>2 DEF reconcile
  <2>2. d # c => row'[c] = row[c]
    BY <1>0, <1>2 DEF reconcile
  <2> QED BY <2>1, <2>2
<1>3. CASE UNCHANGED <<row, observations, attribution>>
  BY <1>3
<1>4. \/ UNCHANGED <<row, observations, attribution>>
      \/ \E o \in Observers : persist_observation(o)
      \/ \E d \in Cases, status \in {"captured", "refunded", "failed"}, amount \in Amounts :
           reconcile(d, status, amount)
  BY DEF Next, ObserverStep, prepare_claim, fetch_by_id, classify_observation,
     observation_fails, late_finalizer, ProviderMoves, vars
<1> QED BY <1>1, <1>2, <1>3, <1>4

\* An observer that is classified after a step was so before, or has just taken the
\* lock; the lock stays with one observer and its classification stays right.
LEMMA SoundStep ==
  ASSUME TypeOK, Exclusive, ClassifiedSound, [Next]_vars
  PROVE  Exclusive' /\ ClassifiedSound'
<1>0. /\ observer \in [Observers -> Observer]
      /\ \A o \in Observers : observer[o].pc # "idle" => observer[o].case \in Cases
  BY DEF TypeOK
<1> DEFINE Kept(o) == observer'[o] = observer[o] \/ observer'[o].pc # "classified"
           Taken(o) == /\ observer[o].pc # "classified" /\ observer'[o].pc = "classified"
                       /\ observer'[o].case \in Cases /\ ~Locked(observer'[o].case)
                       /\ Sound(observer'[o])
                       /\ UNCHANGED <<row, observations, attribution>>
<1>1. ASSUME NEW o \in Observers, classify_observation(o)
      PROVE  /\ \A p \in Observers \ {o} : Kept(p)
             /\ Kept(o) \/ Taken(o)
  <2>1. CASE Moves(o, Idle)
    BY <2>1, ReturnMoves DEF Moves
  <2>2. ASSUME ~Moves(o, Idle)
        PROVE  /\ \A p \in Observers \ {o} : Kept(p)
               /\ Taken(o)
    <3>1. PICK n \in Observer :
            /\ Moves(o, n) /\ n.pc = "classified" /\ n.case = observer[o].case
            /\ n.case \in Cases /\ ~Locked(n.case)
            /\ n.snapshot = observer[o].snapshot /\ n.expected = observer[o].expected
            /\ n.expected = row[n.case].amount /\ ~Observed(n.case, n.snapshot)
            /\ n.result = protect(n.case, classify_payment_link_outcome(n.expected, n.snapshot))
      BY <1>1, <2>2, ObserverMoves
    <3>2. n.snapshot \in Snapshots /\ n.expected \in Nat
      BY DEF Observer
    <3>3. n.result.outcome = "RECOVERED" =>
            /\ Evidences(n.snapshot, row[n.case].amount, n.result.payment)
            /\ attribution[n.case].payment \in {NoPayment, n.result.payment}
            /\ attribution[n.case].payment = NoPayment => row[n.case].state # "RECOVERED"
      BY <3>1, <3>2, ClassifyType, ProtectKeeps, RecoveredIsPaid
    <3>4. Sound(n)
      BY <3>1, <3>3 DEF Sound
    <3>5. observer'[o] = n /\ \A p \in Observers \ {o} : observer'[p] = observer[p]
      BY <3>1 DEF Moves
    <3>6. observer[o].pc = "fetched" /\ UNCHANGED <<row, observations, attribution>>
      BY <1>1 DEF classify_observation
    <3> QED BY <3>1, <3>4, <3>5, <3>6
  <2> QED BY <2>1, <2>2
<1>2. ASSUME NEW o \in Observers,
             \/ \E c \in Cases : prepare_claim(o, c)
             \/ fetch_by_id(o) \/ persist_observation(o) \/ observation_fails(o)
      PROVE  \A p \in Observers : Kept(p)
  <2>1. \E n \in Observer : Moves(o, n) /\ n.pc # "classified"
    BY <1>2, ObserverMoves, ReturnMoves DEF persist_observation, observation_fails
  <2> QED BY <2>1 DEF Moves
<1>3. \/ \A p \in Observers : Kept(p)
      \/ \E o \in Observers : Taken(o) /\ \A p \in Observers \ {o} : Kept(p)
  <2>1. CASE UNCHANGED observer
    BY <2>1
  <2> QED BY <1>1, <1>2, <2>1
          DEF Next, ObserverStep, late_finalizer, ProviderMoves, reconcile, vars
<1>4. Exclusive'
  <2> SUFFICES ASSUME NEW o \in Observers, NEW p \in Observers,
                      observer'[o].pc = "classified", observer'[p].pc = "classified",
                      observer'[o].case = observer'[p].case
               PROVE  o = p
    BY DEF Exclusive
  <2>1. CASE Kept(o) /\ Kept(p)
    BY <2>1 DEF Exclusive
  <2>2. CASE Taken(o) /\ Kept(p)
    BY <2>2 DEF Locked
  <2>3. CASE Taken(p) /\ Kept(o)
    BY <2>3 DEF Locked
  <2> QED BY <1>3, <2>1, <2>2, <2>3
<1>5. ASSUME NEW o \in Observers, observer'[o].pc = "classified", Kept(o)
      PROVE  Sound(observer[o])'
  <2>1. observer'[o] = observer[o] /\ Sound(observer[o]) /\ observer[o].case \in Cases
    BY <1>0, <1>5 DEF ClassifiedSound
  <2>2. PICK c \in Cases, n \in Observer : c = observer[o].case /\ n = observer[o]
    BY <1>0, <2>1
  <2>3. Locked(c)
    BY <1>5, <2>1, <2>2 DEF Locked
  <2>4. ASSUME NEW p \in Observers, persist_observation(p), observer[p].case = c
        PROVE  FALSE
    <3>1. p = o
      BY <1>5, <2>1, <2>2, <2>4 DEF Exclusive, persist_observation
    <3>2. observer'[o].pc = "idle"
      BY <2>4, <3>1, ReturnMoves DEF persist_observation, Moves
    <3> QED BY <1>5, <3>2
  <2>5. /\ observations'[c] = observations[c] /\ attribution'[c] = attribution[c]
        /\ row'[c] = row[c]
    BY <2>3, <2>4, OnlyHolderWrites
  <2>6. Sound(n)'
    BY <2>1, <2>2, <2>5 DEF Sound, Observed
  <2> QED BY <2>1, <2>2, <2>6
<1>6. ASSUME NEW o \in Observers, Taken(o)
      PROVE  Sound(observer[o])'
  BY <1>6 DEF Sound, Observed
<1> QED BY <1>3, <1>4, <1>5, <1>6 DEF ClassifiedSound

-----------------------------------------------------------------------------
(* Attribution.                                                             *)

\* What the commit of an observation of s with the final classification r writes.
Commits(c, s, r) ==
  /\ ~Observed(c, s)
  /\ observations' = [observations EXCEPT ![c] =
       Append(@, [evidence |-> s, outcome |-> r.outcome, payment |-> r.payment])]
  /\ attribution' = [attribution EXCEPT ![c] =
       IF r.outcome = "RECOVERED" /\ @.payment = NoPayment
         THEN [payment |-> r.payment, amount |-> row[c].amount]
         ELSE @]
  /\ row' = [row EXCEPT ![c] = AfterOutcome(c, r.outcome)]
  /\ r.outcome = "RECOVERED" =>
       /\ Evidences(s, row[c].amount, r.payment)
       /\ r.payment \in Payments
       /\ attribution[c].payment = NoPayment => row[c].state # "RECOVERED"
       /\ \A d \in Cases \ {c} : attribution[d].payment # r.payment

\* persist_observation commits just that.
LEMMA PersistWrites ==
  ASSUME TypeOK, ClassifiedSound, NEW o \in Observers, persist_observation(o)
  PROVE  \E c \in Cases, s \in Snapshots, r \in OutcomeClassification : Commits(c, s, r)
<1> DEFINE c == observer[o].case
           s == observer[o].snapshot
           q == observer[o].result
           r == insert_attribution(c, q)
<1>0. c \in Cases /\ s \in Snapshots /\ q \in OutcomeClassification /\ Sound(observer[o])
  BY DEF persist_observation, TypeOK, Observer, ClassifiedSound
<1>1. /\ r \in OutcomeClassification
      /\ r.outcome = "RECOVERED" =>
           /\ q.outcome = "RECOVERED" /\ r.payment = q.payment
           /\ \A d \in Cases \ {c} : attribution[d].payment # q.payment
  BY <1>0, ProtectKeeps
<1>2. /\ observations' = [observations EXCEPT ![c] =
           Append(@, [evidence |-> s, outcome |-> r.outcome, payment |-> r.payment])]
      /\ attribution' = [attribution EXCEPT ![c] =
           IF r.outcome = "RECOVERED" /\ @.payment = NoPayment
             THEN [payment |-> r.payment, amount |-> row[c].amount]
             ELSE @]
      /\ row' = [row EXCEPT ![c] = AfterOutcome(c, r.outcome)]
  BY Zenon DEF persist_observation
<1> HIDE DEF r
<1>3. ~Observed(c, s)
  BY <1>0 DEF Sound
<1>4. r.outcome = "RECOVERED" =>
        /\ Evidences(s, row[c].amount, r.payment)
        /\ attribution[c].payment = NoPayment => row[c].state # "RECOVERED"
        /\ \A d \in Cases \ {c} : attribution[d].payment # r.payment
  BY <1>0, <1>1 DEF Sound
<1>5. Evidences(s, row[c].amount, r.payment) => r.payment \in Payments
  BY <1>0, OutcomesAssumption DEF Evidences, PaymentLinkSnapshot, CapturedPayment
<1>6. Commits(c, s, r)
  BY <1>2, <1>3, <1>4, <1>5, Zenon DEF Commits
<1> QED BY <1>0, <1>1, <1>6

\* Nothing but the commit of an observation writes observations and attributions.
LEMMA OnlyPersistWrites ==
  ASSUME [Next]_vars
  PROVE  \/ UNCHANGED <<observations, attribution>>
         \/ \E o \in Observers : persist_observation(o)
BY DEF Next, ObserverStep, prepare_claim, fetch_by_id, classify_observation,
   observation_fails, late_finalizer, ProviderMoves, reconcile, vars

\* Every step of observation is a credit of the ledger or leaves it alone.
LEMMA LedgerStep ==
  ASSUME TypeOK, ClassifiedSound, [Next]_vars
  PROVE  [Ledger!Next]_([c \in Cases |-> attribution[c].payment])
<1> DEFINE L == [c \in Cases |-> attribution[c].payment]
           M == [c \in Cases |-> attribution'[c].payment]
<1>0. attribution \in [Cases -> Attribution]
  BY DEF TypeOK
<1>1. CASE UNCHANGED attribution
  <2>1. M = L
    BY <1>1
  <2> QED BY <2>1
<1>2. ASSUME NEW o \in Observers, persist_observation(o)
      PROVE  M = L \/ Ledger!Next
  <2>1. PICK c \in Cases, s \in Snapshots, r \in OutcomeClassification : Commits(c, s, r)
    BY <1>2, PersistWrites
  <2>2. CASE r.outcome = "RECOVERED" /\ attribution[c].payment = NoPayment
    <3>1. M = [L EXCEPT ![c] = r.payment]
      BY <1>0, <2>1, <2>2 DEF Commits
    <3>2. L[c] = NoPayment /\ \A d \in Cases : L[d] # r.payment
      BY <2>1, <2>2, NoPaymentAssumption DEF Commits
    <3>3. Ledger!Credit(c, r.payment)
      BY <3>1, <3>2 DEF Ledger!Credit
    <3> QED BY <2>1, <2>2, <3>3 DEF Ledger!Next, Commits
  <2>3. CASE ~(r.outcome = "RECOVERED" /\ attribution[c].payment = NoPayment)
    <3>1. attribution' = attribution
      BY <1>0, <2>1, <2>3 DEF Commits
    <3> QED BY <3>1
  <2> QED BY <2>2, <2>3
<1> QED BY <1>1, <1>2, OnlyPersistWrites

\* The lock and what its holder knows, in every reachable state.
LEMMA SoundAlways == Spec => [](Exclusive /\ ClassifiedSound)
<1>1. Init => Exclusive /\ ClassifiedSound
  BY DEF Init, Exclusive, ClassifiedSound, Idle
<1> QED BY <1>1, SoundStep, TypeCorrect, PTL DEF Spec

\* Attribution implements the revenue ledger (CreditedExactlyOnce): whichever
\* observers race, no case is credited twice and no payment for two cases.
THEOREM ImplementsLedger == Spec => CreditedExactlyOnce
<1>1. Init => Ledger!Init
  BY DEF Init, Ledger!Init, NoAttribution
<1> QED BY <1>1, LedgerStep, TypeCorrect, SoundAlways, PTL
        DEF Spec, CreditedExactlyOnce, Ledger!Spec

\* A step writes no attribution to a case that is RECOVERED.
LEMMA CreditStep ==
  ASSUME TypeOK, ClassifiedSound, [Next]_vars, NEW c \in Cases, ~Attributed(c), Attributed(c)'
  PROVE  row[c].state # "RECOVERED"
<1>0. attribution \in [Cases -> Attribution]
  BY DEF TypeOK
<1>1. PICK o \in Observers : persist_observation(o)
  BY OnlyPersistWrites DEF Attributed
<1>2. PICK d \in Cases, s \in Snapshots, r \in OutcomeClassification : Commits(d, s, r)
  BY <1>1, PersistWrites
<1> QED BY <1>0, <1>2 DEF Attributed, Commits

\* A case recovered for another reason is never credited (RecoveredIsNotCreditedAgain).
THEOREM RecoveredIsNotCreditedAgainHolds == Spec => RecoveredIsNotCreditedAgain
<1>1. TypeOK /\ ClassifiedSound /\ [Next]_vars =>
        [\A c \in Cases : ~Attributed(c) /\ Attributed(c)' => row[c].state # "RECOVERED"]_vars
  BY CreditStep
<1> QED BY <1>1, TypeCorrect, SoundAlways, PTL DEF Spec, RecoveredIsNotCreditedAgain

-----------------------------------------------------------------------------
(* The observations on record.                                              *)

\* No evidence is recorded twice: its observer found it missing and held the lock.
LEMMA OnceStep ==
  ASSUME TypeOK, ClassifiedSound, EvidenceIsRecordedOnce, [Next]_vars
  PROVE  EvidenceIsRecordedOnce'
<1>0. observations \in [Cases -> Seq(Observation)]
  BY DEF TypeOK
<1>1. CASE UNCHANGED observations
  BY <1>1 DEF EvidenceIsRecordedOnce
<1>2. ASSUME NEW o \in Observers, persist_observation(o)
      PROVE  EvidenceIsRecordedOnce'
  <2>1. PICK c \in Cases, s \in Snapshots, r \in OutcomeClassification : Commits(c, s, r)
    BY <1>2, PersistWrites
  <2> SUFFICES ASSUME NEW d \in Cases, NEW i \in DOMAIN observations'[d],
                      NEW j \in DOMAIN observations'[d],
                      observations'[d][i].evidence = observations'[d][j].evidence
               PROVE  i = j
    BY DEF EvidenceIsRecordedOnce
  <2>2. CASE d # c
    BY <1>0, <2>1, <2>2 DEF EvidenceIsRecordedOnce, Commits
  <2>3. CASE d = c
    <3> DEFINE x == [evidence |-> s, outcome |-> r.outcome, payment |-> r.payment]
               n == Len(observations[c])
    <3>1. observations[c] \in Seq(Observation) /\ n \in Nat /\ x.evidence = s
      BY <1>0
    <3>2. observations'[c] = Append(observations[c], x)
      BY <1>0, <2>1 DEF Commits
    <3> HIDE DEF x
    <3>3. /\ DOMAIN observations[c] = 1..n /\ DOMAIN observations'[c] = 1..(n + 1)
          /\ observations'[c][n + 1] = x
          /\ \A m \in 1..n : observations'[c][m] = observations[c][m]
      BY <3>1, <3>2
    <3>4. \A m \in 1..n : observations'[c][m].evidence # s
      BY <2>1, <3>3 DEF Observed, Commits
    <3>5. i \in 1..(n + 1) /\ j \in 1..(n + 1)
      BY <2>3, <3>3
    <3>6. i \in 1..n /\ j \in 1..n => i = j
      BY <2>3, <3>3 DEF EvidenceIsRecordedOnce
    <3> QED BY <2>3, <3>1, <3>3, <3>4, <3>5, <3>6
  <2> QED BY <2>2, <2>3
<1> QED BY <1>1, <1>2, OnlyPersistWrites

\* Concurrent polls and retries leave one observation per evidence
\* (EvidenceIsRecordedOnce).
THEOREM EvidenceIsRecordedOnceHolds == Spec => []EvidenceIsRecordedOnce
<1>1. Init => EvidenceIsRecordedOnce
  BY DEF Init, EvidenceIsRecordedOnce
<1> QED BY <1>1, OnceStep, TypeCorrect, SoundAlways, PTL DEF Spec

\* Observations are only added, so evidence on record stays there; a credit is
\* written together with the observation that evidences it.
LEMMA EvidenceStep ==
  ASSUME TypeOK, ClassifiedSound, RevenueIsEvidenced, [Next]_vars
  PROVE  RevenueIsEvidenced'
<1> DEFINE Backs(x, a) == /\ x.outcome = "RECOVERED" /\ x.evidence.status = "paid"
                          /\ x.payment = a.payment
                          /\ \E p \in x.evidence.payments :
                               p.id = x.payment /\ PaidInFull(a.amount, x.evidence, p)
<1>0. observations \in [Cases -> Seq(Observation)] /\ attribution \in [Cases -> Attribution]
  BY DEF TypeOK
<1>1. \A c \in Cases : Attributed(c) =>
        \E i \in DOMAIN observations[c] : Backs(observations[c][i], attribution[c])
  BY DEF RevenueIsEvidenced
<1>2. SUFFICES \A c \in Cases : Attributed(c)' =>
        \E i \in DOMAIN observations'[c] : Backs(observations'[c][i], attribution'[c])
  BY DEF RevenueIsEvidenced
<1>3. CASE UNCHANGED <<observations, attribution>>
  BY <1>1, <1>3 DEF Attributed
<1>4. ASSUME NEW o \in Observers, persist_observation(o), NEW d \in Cases, Attributed(d)'
      PROVE  \E i \in DOMAIN observations'[d] : Backs(observations'[d][i], attribution'[d])
  <2>1. PICK c \in Cases, s \in Snapshots, r \in OutcomeClassification : Commits(c, s, r)
    BY <1>4, PersistWrites
  <2> DEFINE x == [evidence |-> s, outcome |-> r.outcome, payment |-> r.payment]
             n == Len(observations[c])
  <2>2. n \in Nat /\ observations[c] \in Seq(Observation)
    BY <1>0
  <2>3. /\ observations'[c] = Append(observations[c], x)
        /\ d # c => observations'[d] = observations[d] /\ attribution'[d] = attribution[d]
    BY <1>0, <2>1 DEF Commits
  <2>4. /\ n + 1 \in DOMAIN observations'[c] /\ observations'[c][n + 1] = x
        /\ \A i \in DOMAIN observations[c] :
             i \in DOMAIN observations'[c] /\ observations'[c][i] = observations[c][i]
    BY <2>2, <2>3
  <2>5. CASE d # c
    BY <1>1, <1>4, <2>3, <2>5 DEF Attributed
  <2>6. CASE d = c /\ attribution'[c] = attribution[c]
    BY <1>1, <1>4, <2>4, <2>6 DEF Attributed
  <2>7. CASE d = c /\ attribution'[c] # attribution[c]
    <3>1. r.outcome = "RECOVERED" /\ attribution'[c] = [payment |-> r.payment, amount |-> row[c].amount]
      BY <1>0, <2>1, <2>7 DEF Commits
    <3>2. /\ x.outcome = "RECOVERED" /\ x.evidence = s /\ x.payment = r.payment
          /\ attribution'[c].payment = r.payment /\ attribution'[c].amount = row[c].amount
      BY <3>1
    <3>3. Evidences(s, row[c].amount, r.payment)
      BY <2>1, <3>1 DEF Commits
    <3> HIDE DEF x
    <3>4. Backs(x, attribution'[c])
      BY <3>2, <3>3 DEF Evidences
    <3> QED BY <2>4, <2>7, <3>4
  <2> QED BY <2>5, <2>6, <2>7
<1> QED BY <1>3, <1>4, OnlyPersistWrites

\* Every attributed amount is the amount of one captured payment seen by a persisted
\* observation (RevenueIsEvidenced), whatever was reconciled meanwhile.
THEOREM RevenueIsEvidencedHolds == Spec => []RevenueIsEvidenced
<1>1. Init => RevenueIsEvidenced
  BY DEF Init, RevenueIsEvidenced, Attributed, NoAttribution
<1> QED BY <1>1, EvidenceStep, TypeCorrect, SoundAlways, PTL DEF Spec

-----------------------------------------------------------------------------
(* Why a case is closed.                                                    *)

Outcomes(c) == {observations[c][i].outcome : i \in DOMAIN observations[c]}

\* What is on record for case c.
OnRecord(c) ==
  /\ row[c].state = "RECOVERED" => Attributed(c) \/ captured[c]
  /\ row[c].state = "ESCALATED" => "REVIEW_REQUIRED" \in Outcomes(c)
  /\ row[c].state = "WAITING_FOR_OUTCOME" => Outcomes(c) \subseteq {"PENDING"}
  /\ row[c].resolved <=> row[c].state \in TERMINAL_CASE_STATES

\* The commit of an observation adds its outcome to those on record.
LEMMA CommitsOutcome ==
  ASSUME TypeOK, NEW c \in Cases, NEW s \in Snapshots, NEW r \in OutcomeClassification,
         Commits(c, s, r)
  PROVE  Outcomes(c)' = Outcomes(c) \cup {r.outcome}
<1>0. observations \in [Cases -> Seq(Observation)]
  BY DEF TypeOK
<1> DEFINE x == [evidence |-> s, outcome |-> r.outcome, payment |-> r.payment]
           n == Len(observations[c])
<1>1. n \in Nat /\ observations[c] \in Seq(Observation) /\ x.outcome = r.outcome
  BY <1>0
<1>2. observations'[c] = Append(observations[c], x)
  BY <1>0 DEF Commits
<1> HIDE DEF x
<1>3. /\ DOMAIN observations[c] = 1..n /\ DOMAIN observations'[c] = 1..(n + 1)
      /\ observations'[c][n + 1] = x
      /\ \A m \in 1..n : observations'[c][m] = observations[c][m]
  BY <1>1, <1>2
<1>4. \A y : y \in Outcomes(c)' <=> \E m \in 1..(n + 1) : y = observations'[c][m].outcome
  BY <1>3 DEF Outcomes
<1>5. \A y : y \in Outcomes(c) <=> \E m \in 1..n : y = observations[c][m].outcome
  BY <1>3 DEF Outcomes
<1>6. \A m \in 1..(n + 1) : m \in 1..n \/ m = n + 1
  BY <1>1
<1>7. n + 1 \in 1..(n + 1) /\ \A m \in 1..n : m \in 1..(n + 1)
  BY <1>1
<1>8. ASSUME NEW y \in Outcomes(c)' PROVE y \in Outcomes(c) \cup {r.outcome}
  <2>1. PICK m \in 1..(n + 1) : y = observations'[c][m].outcome
    BY <1>4, <1>8
  <2>2. CASE m \in 1..n
    BY <1>3, <1>5, <2>1, <2>2
  <2>3. CASE m = n + 1
    BY <1>1, <1>3, <2>1, <2>3
  <2> QED BY <1>6, <2>2, <2>3
<1>9. ASSUME NEW y \in Outcomes(c) PROVE y \in Outcomes(c)'
  <2>1. PICK m \in 1..n : y = observations[c][m].outcome
    BY <1>5, <1>9
  <2>2. m \in 1..(n + 1) /\ y = observations'[c][m].outcome
    BY <1>3, <1>7, <2>1
  <2> QED BY <1>4, <2>2
<1>10. r.outcome \in Outcomes(c)'
  BY <1>1, <1>3, <1>4, <1>7
<1> QED BY <1>8, <1>9, <1>10

\* The commit of an observation moves a waiting case to where its outcome belongs.
LEMMA PersistOnRecord ==
  ASSUME TypeOK, NEW c \in Cases, NEW s \in Snapshots, NEW r \in OutcomeClassification,
         Commits(c, s, r), OnRecord(c), UNCHANGED captured
  PROVE  OnRecord(c)'
<1>0. /\ observations \in [Cases -> Seq(Observation)] /\ attribution \in [Cases -> Attribution]
      /\ row \in [Cases -> OutcomeRow] /\ r.outcome \in RecoveryOutcomeStatus
  BY DEF TypeOK, OutcomeClassification
<1>1. Outcomes(c)' = Outcomes(c) \cup {r.outcome}
  BY CommitsOutcome
<1>2. /\ Attributed(c) => Attributed(c)'
      /\ r.outcome = "RECOVERED" => Attributed(c)'
  BY <1>0, NoPaymentAssumption DEF Commits, Attributed
<1>3. row'[c] = AfterOutcome(c, r.outcome)
  BY <1>0 DEF Commits
<1>4. CASE row[c].state # "WAITING_FOR_OUTCOME"
  <2>1. row'[c] = row[c]
    BY <1>3, <1>4 DEF AfterOutcome
  <2> QED BY <1>1, <1>2, <1>4, <2>1 DEF OnRecord
<1>5. CASE row[c].state = "WAITING_FOR_OUTCOME"
  <2>1. /\ row'[c].state = OutcomeTarget(c, r.outcome)
        /\ row'[c].resolved <=> row[c].resolved \/ r.outcome # "PENDING"
    <3> DEFINE st == OutcomeTarget(c, r.outcome)
               rs == row[c].resolved \/ r.outcome # "PENDING"
    <3>1. row'[c] = [state |-> st, amount |-> row[c].amount, resolved |-> rs]
      BY <1>3, <1>5, Zenon DEF AfterOutcome
    <3> HIDE DEF st, rs
    <3>2. row'[c].state = st
      BY <3>1
    <3>3. row'[c].resolved = rs
      BY <3>1
    <3>4. row'[c].resolved <=> rs
      BY <3>3, Zenon
    <3> QED BY <3>2, <3>4, Zenon DEF st, rs
  <2>2. row[c].resolved <=> FALSE
    BY <1>5 DEF OnRecord, TERMINAL_CASE_STATES
  <2>3. CASE r.outcome = "PENDING"
    <3>1. row'[c].state = "WAITING_FOR_OUTCOME"
      BY <1>5, <2>1, <2>3 DEF OutcomeTarget
    <3> QED BY <1>1, <1>5, <2>1, <2>2, <2>3, <3>1 DEF OnRecord, TERMINAL_CASE_STATES
  <2>4. CASE r.outcome = "RECOVERED"
    <3>1. row'[c].state = "RECOVERED"
      BY <2>1, <2>4 DEF OutcomeTarget
    <3> QED BY <1>2, <2>1, <2>4, <3>1 DEF OnRecord, TERMINAL_CASE_STATES
  <2>5. CASE r.outcome = "REVIEW_REQUIRED"
    <3>1. row'[c].state = "ESCALATED"
      BY <2>1, <2>5 DEF OutcomeTarget
    <3> QED BY <1>1, <2>1, <2>5, <3>1 DEF OnRecord, TERMINAL_CASE_STATES
  <2>6. CASE r.outcome \in {"EXPIRED", "CANCELLED"}
    <3>1. row'[c].state = "EXHAUSTED"
      BY <2>1, <2>6 DEF OutcomeTarget
    <3> QED BY <2>1, <2>6, <3>1 DEF OnRecord, TERMINAL_CASE_STATES
  <2> QED BY <1>0, <2>3, <2>4, <2>5, <2>6 DEF RecoveryOutcomeStatus
<1> QED BY <1>4, <1>5

\* Reconciliation closes an open case as captured or refunded.
LEMMA ReconcileOnRecord ==
  ASSUME TypeOK, NEW c \in Cases, NEW status \in {"captured", "refunded", "failed"},
         NEW amount \in Amounts, reconcile(c, status, amount), OnRecord(c)
  PROVE  OnRecord(c)'
<1>0. row \in [Cases -> OutcomeRow] /\ captured \in [Cases -> BOOLEAN]
  BY DEF TypeOK
<1>1. Outcomes(c)' = Outcomes(c) /\ (Attributed(c)' <=> Attributed(c))
  BY DEF reconcile, Outcomes, Attributed
<1>2. captured'[c] <=> captured[c] \/ status = "captured"
  BY <1>0 DEF reconcile
<1> DEFINE open == row[c].state \notin TERMINAL_CASE_STATES
           target == IF status = "captured" THEN "RECOVERED" ELSE "EXHAUSTED"
<1>3. /\ row'[c].state = IF open /\ status # "failed" THEN target ELSE row[c].state
      /\ row'[c].resolved <=> row[c].resolved \/ (open /\ status # "failed")
  <2> DEFINE st == IF open /\ status # "failed" THEN target ELSE row[c].state
             rs == row[c].resolved \/ (open /\ status # "failed")
  <2>1. row'[c] = [state |-> st, amount |-> amount, resolved |-> rs]
    BY <1>0 DEF reconcile
  <2> HIDE DEF st, rs
  <2>2. row'[c].state = st
    BY <2>1
  <2>3. row'[c].resolved = rs
    BY <2>1
  <2>4. row'[c].resolved <=> rs
    BY <2>3, Zenon
  <2> QED BY <2>2, <2>4, Zenon DEF st, rs
<1>4. CASE open /\ status # "failed"
  BY <1>1, <1>2, <1>3, <1>4 DEF OnRecord, TERMINAL_CASE_STATES
<1>5. CASE ~(open /\ status # "failed")
  BY <1>1, <1>2, <1>3, <1>5 DEF OnRecord, TERMINAL_CASE_STATES
<1> QED BY <1>4, <1>5

\* Every step keeps what is on record for every case.
LEMMA OnRecordStep ==
  ASSUME TypeOK, ClassifiedSound, ClosureIsOnRecord, [Next]_vars
  PROVE  ClosureIsOnRecord'
<1>0. \A c \in Cases : OnRecord(c)
  BY DEF ClosureIsOnRecord, OnRecord, Outcomes
<1>q. SUFFICES ASSUME NEW c \in Cases PROVE OnRecord(c)'
  BY DEF ClosureIsOnRecord, OnRecord, Outcomes
<1>t. /\ observations \in [Cases -> Seq(Observation)] /\ attribution \in [Cases -> Attribution]
      /\ row \in [Cases -> OutcomeRow] /\ captured \in [Cases -> BOOLEAN]
  BY DEF TypeOK
<1>1. CASE /\ row'[c] = row[c] /\ observations'[c] = observations[c]
           /\ attribution'[c] = attribution[c] /\ captured'[c] = captured[c]
  BY <1>0, <1>1 DEF OnRecord, Outcomes, Attributed
<1>2. ASSUME NEW o \in Observers, persist_observation(o)
      PROVE  OnRecord(c)'
  <2>1. PICK d \in Cases, s \in Snapshots, r \in OutcomeClassification : Commits(d, s, r)
    BY <1>2, PersistWrites
  <2>2. UNCHANGED captured
    BY <1>2 DEF persist_observation
  <2>3. CASE d = c
    BY <1>0, <2>1, <2>2, <2>3, PersistOnRecord
  <2>4. CASE d # c
    BY <1>1, <1>t, <2>1, <2>2, <2>4 DEF Commits
  <2> QED BY <2>3, <2>4
<1>3. ASSUME NEW d \in Cases, NEW status \in {"captured", "refunded", "failed"},
             NEW amount \in Amounts, reconcile(d, status, amount)
      PROVE  OnRecord(c)'
  <2>1. CASE d = c
    BY <1>0, <1>3, <2>1, ReconcileOnRecord
  <2>2. CASE d # c
    BY <1>1, <1>3, <1>t, <2>2 DEF reconcile
  <2> QED BY <2>1, <2>2
<1>4. CASE UNCHANGED <<row, observations, attribution, captured>>
  BY <1>1, <1>4
<1>5. \/ UNCHANGED <<row, observations, attribution, captured>>
      \/ \E o \in Observers : persist_observation(o)
      \/ \E d \in Cases, status \in {"captured", "refunded", "failed"}, amount \in Amounts :
           reconcile(d, status, amount)
  BY DEF Next, ObserverStep, prepare_claim, fetch_by_id, classify_observation,
     observation_fails, late_finalizer, ProviderMoves, vars
<1> QED BY <1>2, <1>3, <1>4, <1>5

\* A case is closed only for a reason on record, and whatever is on record but pending
\* outcomes has closed it (ClosureIsOnRecord).
THEOREM ClosureIsOnRecordHolds == Spec => []ClosureIsOnRecord
<1>1. Init => ClosureIsOnRecord
  BY DEF Init, ClosureIsOnRecord, TERMINAL_CASE_STATES
<1> QED BY <1>1, OnRecordStep, TypeCorrect, SoundAlways, PTL DEF Spec
=============================================================================
