-------------------------- MODULE WebhookProcessing --------------------------
(***************************************************************************)
(* The webhook inbox: durable ingestion (services/api/routes and           *)
(* arc/persistence/webhook_events.py) and the event processor with its     *)
(* 120-second claim lease (arc/reconciliation/service.py).                 *)
(*                                                                         *)
(* Any number of callers run process_webhook_event concurrently.  A caller *)
(* claims an event in one transaction, talks to the provider outside any   *)
(* transaction, and commits the result in a second one; each transaction   *)
(* is one action here, and everything may happen between two of them: time *)
(* passes, the caller dies, another caller reclaims, provider truth moves. *)
(* A call that returns early (unsupported, already processed, freshly      *)
(* leased, duplicate delivery) writes nothing and is not a step.           *)
(***************************************************************************)
EXTENDS Reconciliation

CONSTANTS
  Events,        \* Razorpay event identifiers
  Entities,      \* payments, subscriptions and Payment Links
  EventType,     \* event -> its event_type
  EventEntity,   \* event -> the entity it is about
  ArcLinks,      \* the Payment Links that have a recovery-action row
  Workers,       \* concurrent callers of process_webhook_event
  FirstTruth,    \* how things may stand at the provider to begin with
  TruthMoves,    \* the status changes the provider may make
  Lease,         \* PROCESSING_LEASE, in ticks
  MaxAttempts    \* bound: claims of one event

PaymentEvents      == {"payment.failed", "payment.captured"}
SubscriptionEvents == {"subscription.pending", "subscription.halted"}
LinkEvents         == {"payment_link.paid", "payment_link.cancelled",
                       "payment_link.expired", "payment_link.partially_paid"}

\* "none": the provider has no such entity.
ProviderStatus == ExternalStatus \cup {"none"}

SUPPORTED_RAZORPAY_EVENTS == PaymentEvents \cup SubscriptionEvents \cup LinkEvents

ASSUME EventsAssumption ==
  /\ EventType \in [Events -> SUPPORTED_RAZORPAY_EVENTS \cup {"other"}]
  /\ EventEntity \in [Events -> Entities]
ASSUME BoundsAssumption == Lease \in Nat \ {0} /\ MaxAttempts \in Nat \ {0}
ASSUME TruthAssumption ==
  /\ FirstTruth \subseteq [Entities -> ProviderStatus]
  /\ TruthMoves \subseteq ExternalStatus \X ExternalStatus

VARIABLES
  ledger,       \* webhook_events: event -> [status, attempts, age]
  cases,        \* payment_cases: entity -> case row (or NoCase)
  worker,       \* the local state of every caller
  truth,        \* what the provider would answer about each entity
  \* history, read by the properties only
  seen,         \* entity -> the statuses the provider has ever had for it
  observed,     \* Payment Link events after whose claim the link was observed
  settlements   \* event -> commits that set it PROCESSED

vars == <<ledger, cases, worker, truth, seen, observed, settlements>>

-----------------------------------------------------------------------------
EventProcessingStatus == {"RECEIVED", "PROCESSING", "PROCESSED", "FAILED", "UNSUPPORTED"}

\* age is the time since processing_started_at, kept up to the lease length
\* (nothing distinguishes later instants) and only while PROCESSING, the only
\* status in which the code reads it.  "ABSENT" stands for no row.
NoEvent == [status |-> "ABSENT", attempts |-> 0, age |-> 0]

Idle == [pc |-> "idle", event |-> "none", attempt |-> 0, snapshot |-> "none"]

EventRow == [status : EventProcessingStatus \cup {"ABSENT"}, attempts : Nat, age : 0..Lease]

WorkerState == [pc : {"idle", "claimed", "fetched", "observed", "failing"},
                event : Events \cup {"none"}, attempt : Nat,
                snapshot : ExternalStatus \cup {"none"}]

\* Every variable keeps its type: the rows of webhook_events and payment_cases, and
\* a caller between its two transactions always has the event it claimed.
TypeOK ==
  /\ ledger \in [Events -> EventRow]
  /\ cases \in [Entities -> CaseRow]
  /\ worker \in [Workers -> WorkerState]
  /\ \A w \in Workers :
       /\ worker[w].pc # "idle" => worker[w].event \in Events
       /\ worker[w].pc = "fetched" => worker[w].snapshot \in ExternalStatus
  /\ truth \in [Entities -> ProviderStatus]
  /\ seen \in [Entities -> SUBSET ProviderStatus]
  /\ observed \subseteq Events
  /\ settlements \in [Events -> Nat]

Init ==
  /\ ledger = [e \in Events |-> NoEvent]
  /\ cases = [x \in Entities |-> NoCase]
  /\ worker = [w \in Workers |-> Idle]
  /\ truth \in FirstTruth
  /\ seen = [x \in Entities |-> {truth[x]}]
  /\ observed = {}
  /\ settlements = [e \in Events |-> 0]

-----------------------------------------------------------------------------
(* Ingestion.  INSERT ... ON CONFLICT DO NOTHING on the event id: the first *)
(* delivery is recorded, a repeated one changes nothing whether its body    *)
(* digest is the same (202, duplicate) or not (409).  The provider notifies *)
(* about entities it has.                                                   *)

ingest_razorpay_webhook(e) ==
  /\ ledger[e].status = "ABSENT"
  /\ truth[EventEntity[e]] # "none"
  /\ ledger' = [ledger EXCEPT ![e] =
                  [NoEvent EXCEPT !.status = IF EventType[e] \in SUPPORTED_RAZORPAY_EVENTS
                                               THEN "RECEIVED" ELSE "UNSUPPORTED"]]
  /\ UNCHANGED <<cases, worker, truth, seen, observed, settlements>>

-----------------------------------------------------------------------------
(* Processing.                                                              *)

\* (mutant) a claim is never taken over
ClaimableWithoutReclaim(row) == row.status \in {"RECEIVED", "FAILED"}

Claimable(row) ==
  \/ row.status \in {"RECEIVED", "FAILED"}
  \/ row.status = "PROCESSING" /\ row.age >= Lease

\* _claim_event: status, lease and attempt number in one committed step.
claim_event(w, e) ==
  /\ worker[w].pc = "idle"
  /\ Claimable(ledger[e])
  /\ ledger[e].attempts < MaxAttempts
  /\ ledger' = [ledger EXCEPT ![e] =
                  [status |-> "PROCESSING", attempts |-> @.attempts + 1, age |-> 0]]
  /\ worker' = [worker EXCEPT ![w] = [pc |-> "claimed", event |-> e,
                                      attempt |-> ledger[e].attempts + 1,
                                      snapshot |-> "none"]]
  /\ UNCHANGED <<cases, truth, seen, observed, settlements>>

\* _fetch_authoritative_entity: the provider's answer of this instant.
fetch_authoritative_entity(w) ==
  /\ worker[w].pc = "claimed"
  /\ EventType[worker[w].event] \in PaymentEvents \cup SubscriptionEvents
  /\ truth[EventEntity[worker[w].event]] \in ExternalStatus
  /\ worker' = [worker EXCEPT ![w] =
                  [pc |-> "fetched", event |-> @.event, attempt |-> @.attempt,
                   snapshot |-> truth[EventEntity[@.event]]]]
  /\ UNCHANGED <<ledger, cases, truth, seen, observed, settlements>>

\* _process_payment_link_event: an event about one of ARC's own links is passed
\* to the outcome observer, which reads the link and commits what it finds in
\* transactions of its own; an event about any other link is only acknowledged.
process_payment_link_event(w) ==
  LET e == worker[w].event
  IN  /\ worker[w].pc = "claimed"
      /\ EventType[e] \in LinkEvents
      /\ worker' = [worker EXCEPT ![w].pc = "observed"]
      /\ observed' = IF EventEntity[e] \in ArcLinks THEN observed \cup {e} ELSE observed
      /\ UNCHANGED <<ledger, cases, truth, seen, settlements>>

\* Faults are bounded by the attempts left: the bound on claims never turns a
\* handled fault into a permanent one.
FaultsLeft(w) == worker[w].attempt < MaxAttempts

\* (mutant) an observer error is swallowed and the event acknowledged
observer_error_swallowed(w) ==
  /\ worker[w].pc \in {"claimed", "fetched", "observed"}
  /\ FaultsLeft(w)
  /\ worker' = [worker EXCEPT ![w].pc =
                   IF EventType[worker[w].event] \in LinkEvents THEN "observed" ELSE "failing"]
  /\ UNCHANGED <<ledger, cases, truth, seen, observed, settlements>>

\* Anything process_webhook_event catches: a provider or observer error, a
\* missing identifier, a mismatched response, a failed (rolled back) commit.
processing_raises(w) ==
  /\ worker[w].pc \in {"claimed", "fetched", "observed"}
  /\ FaultsLeft(w)
  /\ worker' = [worker EXCEPT ![w].pc = "failing"]
  /\ UNCHANGED <<ledger, cases, truth, seen, observed, settlements>>

\* (mutants) one half of the fence is missing
SupersededWithoutAttempt(w) == ledger[worker[w].event].status = "PROCESSED"
SupersededWithoutStatus(w)  == ledger[worker[w].event].attempts # worker[w].attempt

\* The fence of the three finishing transactions: the event is locked and must
\* still be this caller's.
Superseded(w) ==
  LET row == ledger[worker[w].event]
  IN  row.status = "PROCESSED" \/ row.attempts # worker[w].attempt

\* The caller that finds itself superseded returns without writing.
return_superseded(w) ==
  /\ worker[w].pc \in {"fetched", "observed", "failing"}
  /\ Superseded(w)
  /\ worker' = [worker EXCEPT ![w] = Idle]
  /\ UNCHANGED <<ledger, cases, truth, seen, observed, settlements>>

Reconciled(c, e, status) ==
  IF EventType[e] \in PaymentEvents
    THEN reconcile_payment(c, EventType[e], status)
    ELSE reconcile_subscription(c, status)

\* The row of an event whose claim ends.
Released(row, status) == [status |-> status, attempts |-> row.attempts, age |-> 0]

\* The settling commit.  The database may apply it and the caller still see an
\* error (a lost acknowledgement), which sends it to the failure handler.
Settle(w) ==
  LET e == worker[w].event
  IN  /\ ledger' = [ledger EXCEPT ![e] = Released(@, "PROCESSED")]
      /\ settlements' = [settlements EXCEPT ![e] = @ + 1]
      /\ \/ worker' = [worker EXCEPT ![w] = Idle]
         \/ worker' = [worker EXCEPT ![w].pc = "failing"]

\* _apply_reconciliation: the case update and PROCESSED commit together.
apply_reconciliation(w) ==
  LET e == worker[w].event
      x == EventEntity[e]
  IN  /\ worker[w].pc = "fetched"
      /\ ~Superseded(w)
      /\ ledger[e].status = "PROCESSING"
      /\ cases' = [cases EXCEPT ![x] = Reconciled(@, e, worker[w].snapshot)]
      /\ Settle(w)
      /\ UNCHANGED <<truth, seen, observed>>

\* _mark_processed_without_case
mark_processed_without_case(w) ==
  LET e == worker[w].event
  IN  /\ worker[w].pc = "observed"
      /\ ~Superseded(w)
      /\ ledger[e].status = "PROCESSING"
      /\ Settle(w)
      /\ UNCHANGED <<cases, truth, seen, observed>>

\* _mark_failed
mark_failed(w) ==
  LET e == worker[w].event
  IN  /\ worker[w].pc = "failing"
      /\ ~Superseded(w)
      /\ ledger' = [ledger EXCEPT ![e] = Released(@, "FAILED")]
      /\ worker' = [worker EXCEPT ![w] = Idle]
      /\ UNCHANGED <<cases, truth, seen, observed, settlements>>

\* The process dies between two transactions; its claim stays in the ledger.
crash(w) ==
  /\ worker[w].pc # "idle"
  /\ FaultsLeft(w)
  /\ worker' = [worker EXCEPT ![w] = Idle]
  /\ UNCHANGED <<ledger, cases, truth, seen, observed, settlements>>

-----------------------------------------------------------------------------
(* Environment: time, and the provider's own state.                         *)

\* (mutant) the boundary instant still counts as leased
LeasedAtBoundary(e) == ledger[e].status = "PROCESSING" /\ ledger[e].age <= Lease

Leased(e) == ledger[e].status = "PROCESSING" /\ ledger[e].age < Lease

Tick ==
  /\ \E e \in Events : Leased(e)
  /\ ledger' = [e \in Events |-> IF Leased(e) THEN [ledger[e] EXCEPT !.age = @ + 1]
                                              ELSE ledger[e]]
  /\ UNCHANGED <<cases, worker, truth, seen, observed, settlements>>

TruthChanges(x) ==
  /\ \E t \in ExternalStatus :
       /\ <<truth[x], t>> \in TruthMoves
       /\ truth' = [truth EXCEPT ![x] = t]
       /\ seen' = [seen EXCEPT ![x] = @ \cup {t}]
  /\ UNCHANGED <<ledger, cases, worker, observed, settlements>>

WorkerStep(w) ==
  \/ fetch_authoritative_entity(w)
  \/ process_payment_link_event(w)
  \/ return_superseded(w)
  \/ apply_reconciliation(w)
  \/ mark_processed_without_case(w)
  \/ mark_failed(w)

Next ==
  \/ \E e \in Events : ingest_razorpay_webhook(e)
  \/ \E w \in Workers, e \in Events : claim_event(w, e)
  \/ \E w \in Workers : WorkerStep(w) \/ processing_raises(w) \/ crash(w)
  \/ Tick
  \/ \E x \in Entities : TruthChanges(x)

Spec == Init /\ [][Next]_vars

\* A running caller goes on, time passes, and somebody keeps invoking
\* process_webhook_event for an event that can be claimed (strongly, because
\* every caller may be busy now and then).  Faults need not happen.
Fairness ==
  /\ \A w \in Workers : WF_vars(WorkerStep(w))
  /\ \A e \in Events : SF_vars(\E w \in Workers : claim_event(w, e))
  /\ WF_vars(Tick)

FairSpec == Spec /\ Fairness

-----------------------------------------------------------------------------
(* Properties.                                                              *)

About(x) == {e \in Events : EventEntity[e] = x}

Busy(w) == worker[w].pc # "idle"

ClaimsAreUnique ==
  \A v, w \in Workers :
    /\ v # w /\ Busy(v) /\ Busy(w)
    /\ worker[v].event = worker[w].event
    => worker[v].attempt # worker[w].attempt

NewestClaimIsLive ==
  \A w \in Workers :
    Busy(w) =>
      LET row == ledger[worker[w].event]
      IN  /\ row.status # "ABSENT"
          /\ worker[w].attempt <= row.attempts
          /\ worker[w].attempt = row.attempts =>
               \/ row.status = "PROCESSING"
               \/ row.status = "PROCESSED" /\ worker[w].pc = "failing"

\* The claim fence.  No two callers ever hold the same claim of an event, and the
\* caller that holds the newest one finds the event PROCESSING (or settled by
\* itself) whatever slower callers, crashes and reclaims have done: an abandoned
\* worker can neither fail nor settle an event under a newer claim.
ClaimFence == ClaimsAreUnique /\ NewestClaimIsLive

\* A case is closed only on what the provider really answered at some time,
\* never on what a webhook merely says: RECOVERED needs a capture (or an active
\* subscription), EXHAUSTED a refund (or a dead subscription).
ClosureIsWitnessed ==
  \A x \in Entities :
    /\ cases[x].state = "RECOVERED" => seen[x] \cap {"captured", "active"} # {}
    /\ cases[x].state = "EXHAUSTED" =>
         seen[x] \cap {"refunded", "cancelled", "completed", "expired"} # {}

\* The audit trail replays to the row: it starts with the detection, every entry
\* starts where the one before it ended, and the last one ends in the current
\* state; resolved_at is set exactly on closed cases.
AuditTrailReplays ==
  \A x \in Entities :
    LET c == cases[x]
        n == Len(c.trail)
    IN  /\ c.state = "NONE" <=> n = 0
        /\ n > 0 => c.trail[1] = <<"NONE", "DETECTED">> /\ c.trail[n][2] = c.state
        /\ \A i \in 2..n : c.trail[i][1] = c.trail[i - 1][2]
        /\ c.resolved <=> c.state \in TERMINAL_CASE_STATES

\* A Payment Link event about an ARC link is acknowledged only after the link was
\* read authoritatively on its behalf, also when the caller that read it died
\* and another one acknowledges.
LinkReadBeforeSettled ==
  \A e \in Events :
    /\ ledger[e].status = "PROCESSED"
    /\ EventType[e] \in LinkEvents
    /\ EventEntity[e] \in ArcLinks
    => e \in observed

Lifecycle == INSTANCE CaseLifecycle WITH Cases <- Entities,
                                         caseState <- [x \in Entities |-> cases[x].state]

\* Case rows follow the lifecycle (arc/reconciliation/state_machine.py) in every
\* commit: opened once, only allowed transitions, closed for ever.
LifecycleRespected == Lifecycle!Spec

\* How the ledger looks from outside: a claim or a failure is still pending.
InboxStatus(row) ==
  CASE row.status = "ABSENT"      -> "absent"
    [] row.status = "UNSUPPORTED" -> "ignored"
    [] row.status = "PROCESSED"   -> "settled"
    [] OTHER                      -> "pending"
InboxView == INSTANCE Inbox WITH inbox <- [e \in Events |-> InboxStatus(ledger[e])],
                                 effects <- settlements

\* The processor implements the inbox: each accepted event is settled at most
\* once and stays settled, with its effect in the settling commit.
SettledExactlyOnce == InboxView!Spec

\* Crash recovery: whatever callers die or fail between the claim and the commit,
\* every supported event that was accepted is processed in the end.
EveryEventSettles ==
  \A e \in Events : (ledger[e].status = "RECEIVED") ~> (ledger[e].status = "PROCESSED")

\* What the reconcile stage is for, "Fetch authoritative provider state and
\* prevent stale regression": when all events about a captured payment are
\* processed, its capture among them, no open case for it is left to be acted
\* upon.
CaptureLeavesNoOpenCase ==
  \A x \in Entities :
    /\ truth[x] = "captured"
    /\ \A e \in About(x) : ledger[e].status = "PROCESSED"
    /\ \E e \in About(x) : EventType[e] = "payment.captured"
    => cases[x].state \in TERMINAL_CASE_STATES \cup {"NONE"}
=============================================================================
