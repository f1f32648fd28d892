------------------------------- MODULE Outcomes -------------------------------
(***************************************************************************)
(* Outcome observation and revenue attribution (arc/outcomes/service.py)   *)
(* for cases whose recovery link was created and recorded as SUCCEEDED.    *)
(*                                                                         *)
(* Pollers and webhook processing observe concurrently.  An observer       *)
(* validates the action in one transaction, reads the link outside any     *)
(* transaction and persists what it read in a second one.  The second      *)
(* transaction is two steps here, because its check for an already         *)
(* attributed payment reads rows that its own lock, on the case, does not  *)
(* protect.  Meanwhile the provider moves, reconciliation writes the case, *)
(* and an executor that outlived its lease may still overwrite the action. *)
(***************************************************************************)
EXTENDS OutcomeRules, CaseStates

CONSTANTS
  Cases,            \* cases with one SUCCEEDED link action each (CountedExactlyOnce)
  Observers,        \* concurrent callers of observe_recovery_action
  Snapshots,        \* what the provider may report about a link
  FirstSnapshot,    \* what it reports about a link just created
  Amounts,          \* amounts reconciliation may write into a case
  FirstAmount,
  LateFinalizers,   \* may an overdue executor still overwrite the action row?
  MaxObservations   \* bound: no new claim once a case has this many observations

ASSUME OutcomesAssumption ==
  /\ Snapshots \subseteq PaymentLinkSnapshot /\ FirstSnapshot \in Snapshots
  /\ Amounts \subseteq Nat \ {0} /\ FirstAmount \in Amounts
  /\ LateFinalizers \in BOOLEAN /\ MaxObservations \in Nat

VARIABLES
  row,            \* payment_cases: case -> [state, amount, resolved]
  execution,      \* recovery_actions.execution_status of the case's action
  truth,          \* the link at the provider
  observations,   \* recovery_outcome_observations, in order of their commits
  attribution,    \* recovery_attributions
  observer,       \* the local state of every caller
  captured        \* history: was the original payment captured?

vars == <<row, execution, truth, observations, attribution, observer, captured>>

-----------------------------------------------------------------------------
NoAttribution == [payment |-> NoPayment, amount |-> 0]

Attribution == [payment : Payments \cup {NoPayment}, amount : Nat]

\* evidence stands for the evidence fingerprint, a hash of it and the action.
Observation == [evidence : Snapshots, outcome : RecoveryOutcomeStatus,
                payment : Payments \cup {NoPayment}]

OutcomeRow == [state : {"WAITING_FOR_OUTCOME"} \cup TERMINAL_CASE_STATES,
               amount : Nat, resolved : BOOLEAN]

Idle == [pc |-> "idle", case |-> "none", expected |-> 0, snapshot |-> FirstSnapshot,
         result |-> Outcome("PENDING")]

Observer == [pc : {"idle", "claimed", "fetched", "classified"}, case : Cases \cup {"none"},
             expected : Nat, snapshot : Snapshots, result : OutcomeClassification]

\* Every variable keeps its type, and a caller that is under way has a case.
TypeOK ==
  /\ row \in [Cases -> OutcomeRow]
  /\ execution \in [Cases -> {"SUCCEEDED", "COMPENSATION_REQUIRED"}]
  /\ truth \in [Cases -> Snapshots]
  /\ observations \in [Cases -> Seq(Observation)]
  /\ attribution \in [Cases -> Attribution]
  /\ observer \in [Observers -> Observer]
  /\ \A o \in Observers : observer[o].pc # "idle" => observer[o].case \in Cases
  /\ captured \in [Cases -> BOOLEAN]

Init ==
  /\ row = [c \in Cases |-> [state |-> "WAITING_FOR_OUTCOME", amount |-> FirstAmount,
                             resolved |-> FALSE]]
  /\ execution = [c \in Cases |-> "SUCCEEDED"]
  /\ truth = [c \in Cases |-> FirstSnapshot]
  /\ observations = [c \in Cases |-> <<>>]
  /\ attribution = [c \in Cases |-> NoAttribution]
  /\ observer = [o \in Observers |-> Idle]
  /\ captured = [c \in Cases |-> FALSE]

-----------------------------------------------------------------------------
(* Observation.                                                             *)

\* (mutant) the case row is not locked
NeverLocked(c) == FALSE

\* _lock_action_and_case: held from the check to the commit of persist_observation.
Locked(c) == \E o \in Observers : observer[o].pc = "classified" /\ observer[o].case = c

\* _validate_observable.  Every state of OutcomeRow is observable and every amount
\* in it positive.
Observable(c) == execution[c] = "SUCCEEDED"

Return(o) == observer' = [observer EXCEPT ![o] = Idle]

prepare_claim(o, c) ==
  /\ observer[o].pc = "idle"
  /\ ~Locked(c)
  /\ Observable(c)
  /\ Len(observations[c]) < MaxObservations
  /\ observer' = [observer EXCEPT ![o] =
                    [pc |-> "claimed", case |-> c, expected |-> row[c].amount,
                     snapshot |-> FirstSnapshot, result |-> Outcome("PENDING")]]
  /\ UNCHANGED <<row, execution, truth, observations, attribution, captured>>

fetch_by_id(o) ==
  LET c == observer[o].case
  IN  /\ observer[o].pc = "claimed"
      /\ observer' = [observer EXCEPT ![o] =
                        [pc |-> "fetched", case |-> c, expected |-> @.expected,
                         snapshot |-> truth[c], result |-> Outcome("PENDING")]]
      /\ UNCHANGED <<row, execution, truth, observations, attribution, captured>>

\* The read fails, the transaction fails and rolls back, or the caller dies.
observation_fails(o) ==
  /\ observer[o].pc # "idle"
  /\ Return(o)
  /\ UNCHANGED <<row, execution, truth, observations, attribution, captured>>

\* (mutant) a case that is RECOVERED already does not matter
protect_attribution_only(c, result) ==
  IF result.outcome = "RECOVERED" /\ attribution[c].payment \notin {NoPayment, result.payment}
    THEN [outcome |-> "REVIEW_REQUIRED", payment |-> result.payment]
    ELSE result

\* _protect_existing_case_and_attribution
protect(c, result) ==
  IF /\ result.outcome = "RECOVERED"
     /\ \/ \E d \in Cases \ {c} : attribution[d].payment = result.payment
        \/ attribution[c].payment \notin {NoPayment, result.payment}
        \/ attribution[c].payment = NoPayment /\ row[c].state = "RECOVERED"
    THEN [outcome |-> "REVIEW_REQUIRED", payment |-> result.payment]
    ELSE result

Observed(c, s) == \E i \in DOMAIN observations[c] : observations[c][i].evidence = s

\* (mutant) the context is taken from the claim, never compared again
ContextOfClaim(o) == Observable(observer[o].case)

\* The context the claim was made in is still the present one.
ContextUnchanged(o) ==
  LET c == observer[o].case
  IN  Observable(c) /\ row[c].amount = observer[o].expected

\* First half of _persist_observation: lock, compare the context, look for the same
\* evidence, classify and protect.  A changed context raises, known evidence returns.
classify_observation(o) ==
  LET c == observer[o].case
      s == observer[o].snapshot
  IN  /\ observer[o].pc = "fetched"
      /\ ~Locked(c)
      /\ IF ContextUnchanged(o) /\ ~Observed(c, s)
           THEN observer' = [observer EXCEPT ![o] =
                  [pc |-> "classified", case |-> c, expected |-> @.expected, snapshot |-> s,
                   result |-> protect(c, classify_payment_link_outcome(@.expected, s))]]
           ELSE Return(o)
      /\ UNCHANGED <<row, execution, truth, observations, attribution, captured>>

\* (mutant) the unique index on the payment is missing
no_uniqueness_conflict(c, result) == result

\* The insert meets the unique index on provider_payment_id: someone else attributed
\* the payment since it was checked.
insert_attribution(c, result) ==
  IF /\ result.outcome = "RECOVERED"
     /\ \E d \in Cases \ {c} : attribution[d].payment = result.payment
    THEN [outcome |-> "REVIEW_REQUIRED", payment |-> result.payment]
    ELSE result

\* (mutant) the outcome is written as the state
outcome_as_state(c, outcome) == IF outcome = "PENDING" THEN row[c].state ELSE outcome

\* (mutant) an expired link is not noticed by the case
transition_on_payment_only(c, outcome) ==
  CASE outcome = "RECOVERED" -> "RECOVERED"
    [] outcome = "REVIEW_REQUIRED" -> "ESCALATED"
    [] OTHER -> row[c].state

\* _apply_outcome_transition: only a waiting case moves.
OutcomeTarget(c, outcome) ==
  CASE outcome = "RECOVERED"              -> "RECOVERED"
    [] outcome \in {"EXPIRED", "CANCELLED"} -> "EXHAUSTED"
    [] outcome = "REVIEW_REQUIRED"        -> "ESCALATED"
    [] OTHER                              -> row[c].state

AfterOutcome(c, outcome) ==
  IF row[c].state = "WAITING_FOR_OUTCOME"
    THEN [state |-> OutcomeTarget(c, outcome), amount |-> row[c].amount,
          resolved |-> row[c].resolved \/ outcome # "PENDING"]
    ELSE row[c]

\* Second half of _persist_observation: insert the observation and, for a recovery
\* not yet attributed, the attribution; move the case; commit.
persist_observation(o) ==
  LET c == observer[o].case
      final == insert_attribution(c, observer[o].result)
  IN  /\ observer[o].pc = "classified"
      /\ observations' = [observations EXCEPT ![c] =
           Append(@, [evidence |-> observer[o].snapshot, outcome |-> final.outcome,
                      payment |-> final.payment])]
      /\ attribution' = [attribution EXCEPT ![c] =
           IF final.outcome = "RECOVERED" /\ @.payment = NoPayment
             THEN [payment |-> final.payment, amount |-> row[c].amount]
             ELSE @]
      /\ row' = [row EXCEPT ![c] = AfterOutcome(c, final.outcome)]
      /\ Return(o)
      /\ UNCHANGED <<execution, truth, captured>>

-----------------------------------------------------------------------------
(* Surroundings.                                                            *)

\* A webhook reconciles the original payment: amount and status are written into
\* any case, and a capture or a refund closes an open one.
reconcile(c, status, amount) ==
  LET target == IF status = "captured" THEN "RECOVERED" ELSE "EXHAUSTED"
      open   == row[c].state \notin TERMINAL_CASE_STATES
  IN  /\ ~Locked(c)
      /\ row' = [row EXCEPT ![c] =
           [state |-> IF open /\ status # "failed" THEN target ELSE row[c].state,
            amount |-> amount,
            resolved |-> row[c].resolved \/ (open /\ status # "failed")]]
      /\ captured' = [captured EXCEPT ![c] = @ \/ status = "captured"]
      /\ UNCHANGED <<execution, truth, observations, attribution, observer>>

\* An executor that outlived its lease finds the case waiting and flags the action
\* for compensation (RecoveryExecution, run execution_late_finalizer).  A cancellation
\* that follows changes nothing for observers.
late_finalizer(c) ==
  /\ LateFinalizers
  /\ ~Locked(c)
  /\ execution[c] = "SUCCEEDED"
  /\ execution' = [execution EXCEPT ![c] = "COMPENSATION_REQUIRED"]
  /\ UNCHANGED <<row, truth, observations, attribution, observer, captured>>

FinalLink(s) == s.status \in {"paid", "expired", "cancelled"}

\* The link at the provider moves; a final status stays, its details may not.
ProviderMoves(c) ==
  /\ \E s \in Snapshots \ {truth[c], FirstSnapshot} :
       /\ FinalLink(truth[c]) => s.status = truth[c].status
       /\ s.updated_at >= truth[c].updated_at
       /\ truth' = [truth EXCEPT ![c] = s]
  /\ UNCHANGED <<row, execution, observations, attribution, observer, captured>>

ObserverStep(o) == fetch_by_id(o) \/ classify_observation(o) \/ persist_observation(o)

Next ==
  \/ \E o \in Observers, c \in Cases : prepare_claim(o, c)
  \/ \E o \in Observers : ObserverStep(o) \/ observation_fails(o)
  \/ \E c \in Cases : late_finalizer(c) \/ ProviderMoves(c)
  \/ \E c \in Cases, status \in {"captured", "refunded", "failed"}, amount \in Amounts :
       reconcile(c, status, amount)

Spec == Init /\ [][Next]_vars

\* Somebody, a poller or the webhook processor with its retries, keeps observing every
\* case, and no step attempted again and again for a case fails every time.
Fairness ==
  /\ \A c \in Cases : SF_vars(\E o \in Observers : prepare_claim(o, c))
  /\ \A o \in Observers, c \in Cases :
       /\ SF_vars(observer[o].case = c /\ fetch_by_id(o))
       /\ SF_vars(observer[o].case = c /\ classify_observation(o))
       /\ SF_vars(observer[o].case = c /\ persist_observation(o))

FairSpec == Spec /\ Fairness

-----------------------------------------------------------------------------
(* Properties.                                                              *)

Attributed(c) == attribution[c].payment # NoPayment

\* Recovered revenue is evidenced: whoever observed and whatever reconciliation wrote
\* in between, an attributed amount is the amount of one captured payment that a
\* persisted observation of this case saw as the link's only payment.
RevenueIsEvidenced ==
  \A c \in Cases : Attributed(c) =>
    \E i \in DOMAIN observations[c] :
      LET seen == observations[c][i]
      IN  /\ seen.outcome = "RECOVERED" /\ seen.evidence.status = "paid"
          /\ seen.payment = attribution[c].payment
          /\ \E p \in seen.evidence.payments :
               p.id = seen.payment /\ PaidInFull(attribution[c].amount, seen.evidence, p)

\* "Existing recovery ... conflicts fail into review rather than double-counting":
\* a case that is RECOVERED for another reason is never credited afterwards, although
\* check and insert are separate steps.
RecoveredIsNotCreditedAgain ==
  [][\A c \in Cases : ~Attributed(c) /\ Attributed(c)' => row[c].state # "RECOVERED"]_vars

\* A case leaves WAITING_FOR_OUTCOME only for a reason that is on record: RECOVERED
\* with an attribution or a captured payment, ESCALATED with an observation for
\* review; and any observation but a pending one has closed it.
ClosureIsOnRecord ==
  \A c \in Cases :
    LET outcomes == {observations[c][i].outcome : i \in DOMAIN observations[c]}
    IN  /\ row[c].state = "RECOVERED" => Attributed(c) \/ captured[c]
        /\ row[c].state = "ESCALATED" => "REVIEW_REQUIRED" \in outcomes
        /\ row[c].state = "WAITING_FOR_OUTCOME" => outcomes \subseteq {"PENDING"}
        /\ row[c].resolved <=> row[c].state \in TERMINAL_CASE_STATES

Ledger == INSTANCE RevenueLedger WITH credited <- [c \in Cases |-> attribution[c].payment]

\* Attribution implements the ledger: one credit per case, for good, and no payment
\* credited to two cases by observers that hold different locks.
CreditedExactlyOnce == Ledger!Spec

\* "unique per action and evidence fingerprint": concurrent polls and webhook retries
\* that read the same thing leave one observation.
EvidenceIsRecordedOnce ==
  \A c \in Cases : \A i, j \in DOMAIN observations[c] :
    observations[c][i].evidence = observations[c][j].evidence => i = j

\* A waiting case whose link is paid, expired or cancelled is closed in the end.
FinalLinkClosesCase ==
  \A c \in Cases :
    (FinalLink(truth[c]) /\ row[c].state = "WAITING_FOR_OUTCOME")
      ~> (row[c].state \in TERMINAL_CASE_STATES)

-----------------------------------------------------------------------------
(* What the metrics show.                                                   *)

\* requires_attention of calculate_recovery_metrics: the latest observation counts.
\* observed_at is stamped just before the lock is taken; here it follows the order of
\* the locks, one of the orders that callers waiting for a lock may have.
requires_attention(c) ==
  /\ observations[c] # <<>>
  /\ \/ observations[c][Len(observations[c])].outcome = "REVIEW_REQUIRED"
     \/ row[c].state = "ESCALATED"

\* A conflict, money that arrived and could not be credited, stays visible: "Existing
\* recovery or attribution conflicts fail into review".
ConflictsStayInReview ==
  \A c \in Cases : \A i \in DOMAIN observations[c] :
    observations[c][i].outcome = "REVIEW_REQUIRED" /\ observations[c][i].payment # NoPayment
      => requires_attention(c)
=============================================================================
