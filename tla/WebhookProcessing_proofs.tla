----------------------- MODULE WebhookProcessing_proofs -----------------------
(***************************************************************************)
(* Proofs about webhook processing, for any number of events, entities and *)
(* callers, any lease and any provider.                                    *)
(***************************************************************************)
EXTENDS WebhookProcessing, SequenceTheorems, TLAPS

-----------------------------------------------------------------------------
(* The case row under reconciliation.                                      *)

\* A transition keeps the row a row.
LEMMA TransitionType ==
  ASSUME NEW c \in CaseRow, NEW t \in CaseState
  PROVE  /\ transition_case(c, t) \in CaseRow
         /\ transition_if_allowed(c, t) \in CaseRow
         /\ CloseAs(c, t) \in CaseRow
<1> DEFINE Entry == (CaseState \cup {"NONE"}) \X CaseState
<1>1. <<c.state, t>> \in Entry /\ c.trail \in Seq(Entry)
  BY DEF CaseRow
<1>2. Append(c.trail, <<c.state, t>>) \in Seq(Entry)
  BY <1>1
<1>3. transition_case(c, t) \in CaseRow
  BY <1>2 DEF transition_case, CaseRow
<1>4. transition_if_allowed(c, t) \in CaseRow
  BY <1>3 DEF transition_if_allowed
<1>5. CloseAs(c, t) \in CaseRow
  <2> DEFINE m == transition_if_allowed(c, t)
  <2>1. m \in CaseRow
    BY <1>4
  <2> HIDE DEF m
  <2>2. [m EXCEPT !.resolved = TRUE] \in CaseRow
    BY <2>1 DEF CaseRow
  <2> QED BY <2>1, <2>2 DEF CloseAs, m
<1> QED BY <1>3, <1>4, <1>5

\* A new case row and its audit row are well formed.
LEMMA DetectedType == DetectedCase \in CaseRow
<1>1. <<"NONE", "DETECTED">> \in (CaseState \cup {"NONE"}) \X CaseState
  BY DEF CaseState
<1>2. <<<<"NONE", "DETECTED">>>> \in Seq((CaseState \cup {"NONE"}) \X CaseState)
  BY <1>1
<1> QED BY <1>2 DEF DetectedCase, NoCase, CaseRow, CaseState

\* Overwriting the provider status keeps the row a row.
LEMMA RefreshType ==
  ASSUME NEW c \in CaseRow, NEW s \in ExternalStatus
  PROVE  Refresh(c, s) \in CaseRow
BY DEF Refresh, CaseRow

\* Both reconciliation rules keep the row a row.
LEMMA ReconciledType ==
  ASSUME NEW c \in CaseRow, NEW e \in Events, NEW s \in ExternalStatus
  PROVE  Reconciled(c, e, s) \in CaseRow
<1>0. /\ "RECONCILING" \in CaseState
      /\ "RECOVERED" \in CaseState
      /\ "EXHAUSTED" \in CaseState
  BY DEF CaseState, TERMINAL_CASE_STATES
<1>1. ASSUME NEW f \in CaseRow
      PROVE  /\ StartReconciling(f) \in CaseRow
             /\ Refresh(f, s) \in CaseRow
             /\ CloseAs(f, "RECOVERED") \in CaseRow
             /\ CloseAs(f, "EXHAUSTED") \in CaseRow
  BY <1>0, <1>1, TransitionType, RefreshType DEF StartReconciling
<1>2. reconcile_payment(c, EventType[e], s) \in CaseRow
  BY <1>1, DetectedType DEF reconcile_payment
<1>3. reconcile_subscription(c, s) \in CaseRow
  BY <1>1, DetectedType DEF reconcile_subscription
<1> QED BY <1>2, <1>3 DEF Reconciled

-----------------------------------------------------------------------------
(* Type correctness.                                                       *)

\* Every action keeps the state well typed; the two that write a case rest on
\* ReconciledType, the others only move a row or a caller.
LEMMA TypeStep ==
  ASSUME TypeOK, [Next]_vars
  PROVE  TypeOK'
<1> USE EventsAssumption, BoundsAssumption, TruthAssumption
<1>0. Idle \in WorkerState /\ NoEvent \in EventRow
  BY DEF Idle, WorkerState, NoEvent, EventRow
<1>1. ASSUME NEW e \in Events, ingest_razorpay_webhook(e)
      PROVE  TypeOK'
  BY <1>0, <1>1 DEF TypeOK, ingest_razorpay_webhook, EventRow, EventProcessingStatus, NoEvent
<1>2. ASSUME NEW w \in Workers, NEW e \in Events, claim_event(w, e)
      PROVE  TypeOK'
  <2>1. ledger' \in [Events -> EventRow]
    BY <1>2 DEF TypeOK, claim_event, EventRow, EventProcessingStatus
  <2>2. worker' \in [Workers -> WorkerState]
    BY <1>2 DEF TypeOK, claim_event, EventRow, WorkerState
  <2> QED BY <1>2, <2>1, <2>2 DEF TypeOK, claim_event
<1>3. ASSUME NEW w \in Workers, fetch_authoritative_entity(w)
      PROVE  TypeOK'
  <2>1. truth[EventEntity[worker[w].event]] \in ExternalStatus
    BY <1>3 DEF TypeOK, fetch_authoritative_entity
  <2>2. worker' \in [Workers -> WorkerState]
    BY <1>3, <2>1 DEF TypeOK, fetch_authoritative_entity, WorkerState
  <2>3. \A v \in Workers : v # w => worker'[v] = worker[v]
    BY <1>3 DEF TypeOK, fetch_authoritative_entity
  <2>4. /\ worker'[w].event = worker[w].event
        /\ worker'[w].snapshot = truth[EventEntity[worker[w].event]]
        /\ worker[w].pc = "claimed"
    BY <1>3 DEF TypeOK, fetch_authoritative_entity, WorkerState
  <2> QED BY <1>3, <2>1, <2>2, <2>3, <2>4 DEF TypeOK, fetch_authoritative_entity
<1>4. ASSUME NEW w \in Workers, process_payment_link_event(w)
      PROVE  TypeOK'
  BY <1>4 DEF TypeOK, process_payment_link_event, WorkerState
<1>5. ASSUME NEW w \in Workers, return_superseded(w) \/ crash(w)
      PROVE  TypeOK'
  BY <1>0, <1>5 DEF TypeOK, return_superseded, crash, Idle
<1>6. ASSUME NEW w \in Workers, processing_raises(w)
      PROVE  TypeOK'
  BY <1>6 DEF TypeOK, processing_raises, WorkerState
<1>7. ASSUME NEW w \in Workers, worker[w].pc # "idle", Settle(w)
      PROVE  /\ ledger' \in [Events -> EventRow]
             /\ settlements' \in [Events -> Nat]
             /\ worker' \in [Workers -> WorkerState]
             /\ \A v \in Workers :
                  /\ worker'[v].pc # "idle" => worker'[v].event \in Events
                  /\ worker'[v].pc = "fetched" => worker'[v].snapshot \in ExternalStatus
  <2>1. worker[w].event \in Events
    BY <1>7 DEF TypeOK
  <2>2. ledger' \in [Events -> EventRow]
    BY <1>7, <2>1 DEF TypeOK, Settle, Released, EventRow, EventProcessingStatus
  <2>3. settlements' \in [Events -> Nat]
    BY <1>7, <2>1 DEF TypeOK, Settle
  <2>4. CASE worker' = [worker EXCEPT ![w] = Idle]
    BY <1>0, <2>2, <2>3, <2>4 DEF TypeOK, Idle
  <2>5. CASE worker' = [worker EXCEPT ![w].pc = "failing"]
    <3>1. worker' \in [Workers -> WorkerState]
      BY <2>5 DEF TypeOK, WorkerState
    <3>2. \A v \in Workers : v # w => worker'[v] = worker[v]
      BY <2>5 DEF TypeOK
    <3>3. worker'[w].pc = "failing" /\ worker'[w].event = worker[w].event
      BY <2>5 DEF TypeOK, WorkerState
    <3> QED BY <2>1, <2>2, <2>3, <3>1, <3>2, <3>3 DEF TypeOK
  <2> QED BY <1>7, <2>4, <2>5 DEF Settle
<1>8. ASSUME NEW w \in Workers, apply_reconciliation(w)
      PROVE  TypeOK'
  <2> DEFINE e == worker[w].event
             x == EventEntity[e]
  <2>1. e \in Events /\ x \in Entities /\ worker[w].snapshot \in ExternalStatus
    BY <1>8 DEF apply_reconciliation, TypeOK
  <2>2. Reconciled(cases[x], e, worker[w].snapshot) \in CaseRow
    BY <2>1, ReconciledType DEF TypeOK
  <2>3. cases' \in [Entities -> CaseRow]
    BY <1>8, <2>1, <2>2 DEF apply_reconciliation, TypeOK
  <2> QED BY <1>7, <1>8, <2>3 DEF apply_reconciliation, TypeOK
<1>9. ASSUME NEW w \in Workers, mark_processed_without_case(w)
      PROVE  TypeOK'
  BY <1>7, <1>9 DEF mark_processed_without_case, TypeOK
<1>10. ASSUME NEW w \in Workers, mark_failed(w)
       PROVE  TypeOK'
  BY <1>0, <1>10 DEF mark_failed, Released, TypeOK, EventRow, EventProcessingStatus, Idle
<1>11. CASE Tick
  <2>1. \A e \in Events : ledger'[e] \in EventRow
    BY <1>11 DEF Tick, Leased, TypeOK, EventRow
  <2> QED BY <1>11, <2>1 DEF Tick, TypeOK
<1>12. ASSUME NEW x \in Entities, TruthChanges(x)
       PROVE  TypeOK'
  BY <1>12 DEF TruthChanges, TypeOK, ProviderStatus
<1>13. CASE UNCHANGED vars
  BY <1>13 DEF vars, TypeOK
<1> QED
  BY <1>1, <1>2, <1>3, <1>4, <1>5, <1>6, <1>8, <1>9, <1>10, <1>11, <1>12, <1>13
     DEF Next, WorkerStep

\* Ledger rows, case rows, callers and histories keep their types in every
\* behaviour of the processor; a caller past its fetch has a snapshot.
THEOREM TypeCorrect == Spec => []TypeOK
<1>1. Init => TypeOK
  BY EventsAssumption, BoundsAssumption, TruthAssumption
     DEF Init, TypeOK, EventRow, WorkerState, CaseRow, NoEvent, NoCase, Idle
<1> QED BY <1>1, TypeStep, PTL DEF Spec

-----------------------------------------------------------------------------
(* The claim fence.                                                        *)

\* A claim takes a number above every number handed out for the event, and a
\* commit is only made under the newest number, so no action can change an event
\* behind the back of its newest claim.
LEMMA FenceStep ==
  ASSUME TypeOK, ClaimFence, [Next]_vars
  PROVE  ClaimFence'
<1> USE DEF ClaimFence, ClaimsAreUnique, NewestClaimIsLive, Busy
<1>0. /\ \A w \in Workers : Busy(w) => worker[w].event \in Events /\ worker[w].attempt \in Nat
      /\ \A e \in Events : ledger[e].attempts \in Nat
  BY DEF TypeOK, EventRow, WorkerState
<1>1. ASSUME NEW e \in Events, ingest_razorpay_webhook(e)
      PROVE  ClaimFence'
  <2>1. UNCHANGED worker /\ \A f \in Events : f # e => ledger'[f] = ledger[f]
    BY <1>1 DEF ingest_razorpay_webhook, TypeOK
  <2>2. ledger[e].status = "ABSENT" /\ ledger'[e].attempts = 0
    BY <1>1 DEF ingest_razorpay_webhook, TypeOK, NoEvent
  <2> QED BY <1>0, <2>1, <2>2
<1>2. ASSUME NEW w \in Workers, NEW e \in Events, claim_event(w, e)
      PROVE  ClaimFence'
  <2>1. /\ ledger'[e] = [status |-> "PROCESSING", attempts |-> ledger[e].attempts + 1, age |-> 0]
        /\ \A f \in Events : f # e => ledger'[f] = ledger[f]
    BY <1>2 DEF claim_event, TypeOK
  <2>2. /\ worker'[w] = [pc |-> "claimed", event |-> e, attempt |-> ledger[e].attempts + 1,
                         snapshot |-> "none"]
        /\ \A v \in Workers : v # w => worker'[v] = worker[v]
    BY <1>2 DEF claim_event, TypeOK
  <2> QED BY <1>0, <2>1, <2>2
<1>3. ASSUME NEW w \in Workers, UNCHANGED ledger, Busy(w),
             \A v \in Workers : v # w => worker'[v] = worker[v],
             \/ worker'[w].pc = "idle"
             \/ /\ worker'[w].event = worker[w].event
                /\ worker'[w].attempt = worker[w].attempt
                /\ worker'[w].pc = "failing" \/ worker[w].pc # "failing"
      PROVE  ClaimFence'
  BY <1>0, <1>3
<1>4. ASSUME NEW w \in Workers,
             \/ fetch_authoritative_entity(w)
             \/ process_payment_link_event(w)
             \/ processing_raises(w)
      PROVE  ClaimFence'
  <2>1. /\ UNCHANGED ledger /\ Busy(w) /\ worker[w].pc # "failing"
        /\ \A v \in Workers : v # w => worker'[v] = worker[v]
        /\ worker'[w].event = worker[w].event /\ worker'[w].attempt = worker[w].attempt
    BY <1>4 DEF fetch_authoritative_entity, process_payment_link_event, processing_raises,
                TypeOK, WorkerState
  <2> QED BY <1>3, <2>1
<1>5. ASSUME NEW w \in Workers, return_superseded(w) \/ crash(w)
      PROVE  ClaimFence'
  <2>1. /\ UNCHANGED ledger /\ Busy(w) /\ worker'[w].pc = "idle"
        /\ \A v \in Workers : v # w => worker'[v] = worker[v]
    BY <1>5 DEF return_superseded, crash, TypeOK, Idle
  <2> QED BY <1>3, <2>1
<1>6. ASSUME NEW w \in Workers, Busy(w), ~Superseded(w), Settle(w)
      PROVE  ClaimFence'
  <2>1. /\ ledger'[worker[w].event] = Released(ledger[worker[w].event], "PROCESSED")
        /\ \A f \in Events : f # worker[w].event => ledger'[f] = ledger[f]
        /\ ledger[worker[w].event].attempts = worker[w].attempt
    BY <1>0, <1>6 DEF Settle, Superseded, TypeOK
  <2>2. \A v \in Workers : v # w => worker'[v] = worker[v]
    BY <1>6 DEF Settle, TypeOK
  <2>3. \/ worker'[w].pc = "idle"
        \/ /\ worker'[w].pc = "failing" /\ worker'[w].event = worker[w].event
           /\ worker'[w].attempt = worker[w].attempt
    BY <1>6 DEF Settle, TypeOK, WorkerState, Idle
  <2> QED BY <1>0, <1>6, <2>1, <2>2, <2>3 DEF Released
<1>7. ASSUME NEW w \in Workers, apply_reconciliation(w) \/ mark_processed_without_case(w)
      PROVE  ClaimFence'
  BY <1>6, <1>7 DEF apply_reconciliation, mark_processed_without_case
<1>8. ASSUME NEW w \in Workers, mark_failed(w)
      PROVE  ClaimFence'
  <2>1. /\ ledger'[worker[w].event] = Released(ledger[worker[w].event], "FAILED")
        /\ \A f \in Events : f # worker[w].event => ledger'[f] = ledger[f]
        /\ ledger[worker[w].event].attempts = worker[w].attempt
    BY <1>0, <1>8 DEF mark_failed, Superseded, TypeOK
  <2>2. worker'[w].pc = "idle" /\ \A v \in Workers : v # w => worker'[v] = worker[v]
    BY <1>8 DEF mark_failed, TypeOK, Idle
  <2>3. worker[w].pc # "idle"
    BY <1>8 DEF mark_failed
  <2> QED BY <1>0, <2>1, <2>2, <2>3 DEF Released
<1>9. CASE Tick
  <2>1. UNCHANGED worker
    BY <1>9 DEF Tick
  <2>2. \A e \in Events : /\ ledger'[e].status = ledger[e].status
                           /\ ledger'[e].attempts = ledger[e].attempts
    BY <1>9 DEF Tick, TypeOK, EventRow
  <2> QED BY <1>0, <2>1, <2>2
<1>10. ASSUME NEW x \in Entities, TruthChanges(x)
       PROVE  ClaimFence'
  BY <1>10 DEF TruthChanges
<1>11. CASE UNCHANGED vars
  BY <1>11 DEF vars
<1> QED
  BY <1>1, <1>2, <1>4, <1>5, <1>7, <1>8, <1>9, <1>10, <1>11 DEF Next, WorkerStep

\* The claim fence holds in every behaviour: however many callers, reclaims and
\* crashes, an abandoned caller cannot overwrite a newer claim.
THEOREM ClaimFenceHolds == Spec => []ClaimFence
<1>1. Init => ClaimFence
  BY DEF Init, ClaimFence, ClaimsAreUnique, NewestClaimIsLive, Busy, Idle
<1> QED BY <1>1, FenceStep, TypeCorrect, PTL DEF Spec

-----------------------------------------------------------------------------
(* The processor implements the inbox.                                     *)

\* What the refinement mapping makes of each ledger status.
LEMMA InboxStatusOf ==
  ASSUME NEW row
  PROVE  /\ row.status = "ABSENT" => InboxStatus(row) = "absent"
         /\ row.status = "UNSUPPORTED" => InboxStatus(row) = "ignored"
         /\ row.status = "PROCESSED" => InboxStatus(row) = "settled"
         /\ row.status \in {"RECEIVED", "PROCESSING", "FAILED"} => InboxStatus(row) = "pending"
BY DEF InboxStatus

\* Every step of the processor accepts one event, settles one, or leaves the
\* inbox as it is.  That a failing caller only fails an event that is still
\* pending is where the claim fence is needed.
LEMMA InboxStep ==
  ASSUME TypeOK, ClaimFence, [Next]_vars
  PROVE  [InboxView!Next]_(InboxView!inboxVars)
<1> DEFINE view(l) == [e \in Events |-> InboxStatus(l[e])]
<1>1. ASSUME UNCHANGED settlements,
             \A e \in Events : InboxStatus(ledger'[e]) = InboxStatus(ledger[e])
      PROVE  UNCHANGED InboxView!inboxVars
  BY <1>1 DEF InboxView!inboxVars
<1>2. ASSUME NEW e \in Events, ingest_razorpay_webhook(e)
      PROVE  InboxView!Accept(e)
  <2>1. /\ ledger'[e].status \in {"RECEIVED", "UNSUPPORTED"}
        /\ ledger[e].status = "ABSENT"
        /\ \A f \in Events : f # e => ledger'[f] = ledger[f]
        /\ UNCHANGED settlements
    BY <1>2 DEF ingest_razorpay_webhook, TypeOK, NoEvent
  <2>2. view(ledger') = [view(ledger) EXCEPT ![e] = InboxStatus(ledger'[e])]
    BY <2>1
  <2>3. view(ledger)[e] = "absent" /\ InboxStatus(ledger'[e]) \in {"pending", "ignored"}
    BY <2>1, InboxStatusOf
  <2> QED BY <2>1, <2>2, <2>3 DEF InboxView!Accept
<1>3. ASSUME NEW w \in Workers, NEW e \in Events, claim_event(w, e)
      PROVE  UNCHANGED InboxView!inboxVars
  <2>1. /\ ledger[e].status \in {"RECEIVED", "FAILED", "PROCESSING"}
        /\ ledger'[e].status = "PROCESSING"
        /\ \A f \in Events : f # e => ledger'[f] = ledger[f]
        /\ UNCHANGED settlements
    BY <1>3 DEF claim_event, Claimable, TypeOK
  <2> QED BY <1>1, <2>1, InboxStatusOf
<1>4. ASSUME NEW w \in Workers, worker[w].pc # "idle", ~Superseded(w),
             ledger[worker[w].event].status = "PROCESSING", Settle(w)
      PROVE  \E e \in Events : InboxView!Settle(e)
  <2> DEFINE e == worker[w].event
  <2>1. e \in Events
    BY <1>4 DEF TypeOK
  <2>2. /\ ledger'[e].status = "PROCESSED"
        /\ \A f \in Events : f # e => ledger'[f] = ledger[f]
        /\ settlements' = [settlements EXCEPT ![e] = @ + 1]
    BY <1>4, <2>1 DEF Settle, Released, TypeOK
  <2>3. view(ledger') = [view(ledger) EXCEPT ![e] = "settled"]
    BY <2>1, <2>2, InboxStatusOf
  <2>4. view(ledger)[e] = "pending"
    BY <1>4, <2>1, InboxStatusOf
  <2> QED BY <2>1, <2>2, <2>3, <2>4 DEF InboxView!Settle
<1>5. ASSUME NEW w \in Workers, mark_failed(w)
      PROVE  UNCHANGED InboxView!inboxVars
  <2> DEFINE e == worker[w].event
  <2>1. e \in Events /\ worker[w].pc = "failing"
    BY <1>5 DEF TypeOK, mark_failed
  <2>2. ledger[e].status = "PROCESSING"
    BY <1>5, <2>1 DEF mark_failed, Superseded, ClaimFence, NewestClaimIsLive, Busy
  <2>3. /\ ledger'[e].status = "FAILED"
        /\ \A f \in Events : f # e => ledger'[f] = ledger[f]
        /\ UNCHANGED settlements
    BY <1>5, <2>1 DEF mark_failed, Released, TypeOK
  <2> QED BY <1>1, <2>2, <2>3, InboxStatusOf
<1>6. CASE Tick
  <2>1. UNCHANGED settlements /\ \A e \in Events : ledger'[e].status = ledger[e].status
    BY <1>6 DEF Tick, TypeOK, EventRow
  <2>2. \A e \in Events : ledger[e].status \in EventProcessingStatus \cup {"ABSENT"}
    BY DEF TypeOK, EventRow
  <2> QED BY <1>1, <2>1, <2>2, InboxStatusOf DEF EventProcessingStatus
<1>7. ASSUME UNCHANGED <<ledger, settlements>>
      PROVE  UNCHANGED InboxView!inboxVars
  BY <1>1, <1>7
<1>8. ASSUME NEW w \in Workers, WorkerStep(w) \/ processing_raises(w) \/ crash(w)
      PROVE  [InboxView!Next]_(InboxView!inboxVars)
  <2>1. CASE apply_reconciliation(w) \/ mark_processed_without_case(w)
    BY <1>4, <2>1 DEF apply_reconciliation, mark_processed_without_case, InboxView!Next
  <2>2. CASE mark_failed(w)
    BY <1>5, <2>2
  <2>3. CASE fetch_authoritative_entity(w) \/ process_payment_link_event(w)
               \/ return_superseded(w) \/ processing_raises(w) \/ crash(w)
    BY <1>7, <2>3 DEF fetch_authoritative_entity, process_payment_link_event,
                      return_superseded, processing_raises, crash
  <2> QED BY <1>8, <2>1, <2>2, <2>3 DEF WorkerStep
<1>9. ASSUME NEW x \in Entities, TruthChanges(x)
      PROVE  UNCHANGED InboxView!inboxVars
  BY <1>7, <1>9 DEF TruthChanges
<1>10. CASE UNCHANGED vars
  BY <1>7, <1>10 DEF vars
<1> QED
  BY <1>2, <1>3, <1>6, <1>8, <1>9, <1>10 DEF Next, InboxView!Next

\* Webhook processing implements the inbox: every accepted event is settled at
\* most once, stays settled, and has its effect in the settling commit, however
\* often it is delivered, claimed, failed and reclaimed.
THEOREM ImplementsInbox == Spec => SettledExactlyOnce
<1>1. Init => InboxView!Init
  BY InboxStatusOf DEF Init, InboxView!Init, NoEvent
<1> QED
  BY <1>1, InboxStep, TypeCorrect, ClaimFenceHolds, PTL
     DEF Spec, SettledExactlyOnce, InboxView!Spec

-----------------------------------------------------------------------------
(* Case rows follow the lifecycle.                                         *)

\* The lifecycle specification has the transition relation of the case rows.
LEMMA SameRelation ==
  /\ Lifecycle!CaseState = CaseState
  /\ \A p, q : Lifecycle!can_transition(p, q) = can_transition(p, q)
<1>1. Lifecycle!CaseState = CaseState
  BY DEF CaseState, Lifecycle!CaseState, TERMINAL_CASE_STATES, Lifecycle!TERMINAL_CASE_STATES
<1>2. ASSUME NEW p
      PROVE  Lifecycle!AllowedTransitions(p) = AllowedTransitions(p)
  BY <1>1 DEF AllowedTransitions, Lifecycle!AllowedTransitions, ForwardTransitions,
              Lifecycle!ForwardTransitions, TERMINAL_CASE_STATES, Lifecycle!TERMINAL_CASE_STATES
<1> QED BY <1>1, <1>2 DEF can_transition, Lifecycle!can_transition

\* A path through an intermediate state.
LEMMA PathBy ==
  ASSUME NEW p, NEW m \in CaseState, NEW q, can_transition(p, m), can_transition(m, q)
  PROVE  Lifecycle!Path(p, q)
BY SameRelation DEF Lifecycle!Path

\* A guarded transition moves the state along the relation or not at all.
LEMMA TransitionMoves ==
  ASSUME NEW c \in CaseRow, NEW t \in CaseState, c.state \in CaseState
  PROVE  /\ can_transition(c.state, transition_if_allowed(c, t).state)
         /\ transition_if_allowed(c, t).state \in {c.state, t}
         /\ can_transition(c.state, CloseAs(c, t).state)
         /\ CloseAs(c, t).state \in {c.state, t}
<1> DEFINE m == transition_if_allowed(c, t)
<1>1. m.state \in {c.state, t} /\ can_transition(c.state, m.state)
  BY DEF transition_if_allowed, transition_case, can_transition, CaseRow
<1>2. m \in CaseRow
  BY TransitionType
<1> HIDE DEF m
<1>3. CloseAs(c, t).state = m.state
  BY <1>2 DEF CloseAs, m, CaseRow
<1> QED BY <1>1, <1>3 DEF m

\* One reconciliation takes at most two transitions, from DETECTED when it opens
\* the case.
LEMMA ReconciledPath ==
  ASSUME NEW c \in CaseRow, NEW e \in Events, NEW s \in ExternalStatus
  PROVE  LET n == Reconciled(c, e, s)
         IN  \/ n = c
             \/ c.state = "NONE" /\ n.state \in CaseState /\ Lifecycle!Path("DETECTED", n.state)
             \/ /\ c.state \in CaseState /\ n.state \in CaseState
                /\ Lifecycle!Path(c.state, n.state)
<1> DEFINE f == IF c.state = "NONE" THEN DetectedCase ELSE c
           goal(n) == n \in CaseRow /\ n.state \in CaseState /\ Lifecycle!Path(f.state, n.state)
<1>0. /\ f \in CaseRow /\ f.state \in CaseState
      /\ f.state = IF c.state = "NONE" THEN "DETECTED" ELSE c.state
      /\ "RECONCILING" \in CaseState /\ "RECOVERED" \in CaseState /\ "EXHAUSTED" \in CaseState
  BY DetectedType DEF DetectedCase, NoCase, CaseRow, CaseState, TERMINAL_CASE_STATES
<1> HIDE DEF f
<1>1. ASSUME NEW b \in {f, StartReconciling(f)}
      PROVE  LET r == Refresh(b, s)
             IN  goal(r) /\ goal(CloseAs(r, "RECOVERED")) /\ goal(CloseAs(r, "EXHAUSTED"))
  <2> DEFINE r == Refresh(b, s)
  <2>1. b \in CaseRow /\ b.state \in CaseState /\ can_transition(f.state, b.state)
    <3>1. CASE b = f
      BY <1>0, <3>1 DEF can_transition
    <3>2. CASE b = StartReconciling(f)
      BY <1>0, <3>2, TransitionType, TransitionMoves DEF StartReconciling
    <3> QED BY <1>1, <3>1, <3>2
  <2>2. r \in CaseRow /\ r.state = b.state
    BY <2>1, RefreshType DEF Refresh, CaseRow
  <2> HIDE DEF r
  <2>3. ASSUME NEW t \in {"RECOVERED", "EXHAUSTED"}
        PROVE  /\ CloseAs(r, t) \in CaseRow
               /\ CloseAs(r, t).state \in CaseState
               /\ can_transition(b.state, CloseAs(r, t).state)
    <3>1. t \in CaseState /\ r.state \in CaseState
      BY <1>0, <2>1, <2>2, <2>3
    <3>2. CloseAs(r, t) \in CaseRow
      BY <2>2, <3>1, TransitionType
    <3>3. /\ CloseAs(r, t).state \in {r.state, t}
          /\ can_transition(r.state, CloseAs(r, t).state)
      BY <2>2, <3>1, TransitionMoves
    <3> QED BY <2>2, <3>1, <3>2, <3>3
  <2>4. goal(r)
    <3>1. can_transition(b.state, b.state)
      BY DEF can_transition
    <3> QED BY <2>1, <2>2, <3>1, PathBy
  <2>5. ASSUME NEW t \in {"RECOVERED", "EXHAUSTED"}
        PROVE  goal(CloseAs(r, t))
    BY <2>1, <2>3, PathBy
  <2> QED BY <2>4, <2>5 DEF r
<1>2. \/ reconcile_payment(c, EventType[e], s) = c
      \/ goal(reconcile_payment(c, EventType[e], s))
  BY <1>1 DEF reconcile_payment, f
<1>3. \/ reconcile_subscription(c, s) = c
      \/ goal(reconcile_subscription(c, s))
  BY <1>1 DEF reconcile_subscription, f
<1>4. Reconciled(c, e, s) = c \/ goal(Reconciled(c, e, s))
  BY <1>2, <1>3 DEF Reconciled
<1> QED BY <1>0, <1>4 DEF CaseRow

\* A commit moves one case, along the lifecycle; no other step writes a case.
LEMMA LifecycleStep ==
  ASSUME TypeOK, [Next]_vars
  PROVE  [Lifecycle!Next]_([x \in Entities |-> cases[x].state])
<1> DEFINE states == [x \in Entities |-> cases[x].state]
<1>1. ASSUME UNCHANGED cases
      PROVE  UNCHANGED states
  BY <1>1
<1>2. ASSUME NEW w \in Workers, apply_reconciliation(w)
      PROVE  [Lifecycle!Next]_states
  <2> DEFINE e == worker[w].event
  <2>0. e \in Events /\ worker[w].snapshot \in ExternalStatus
    BY <1>2 DEF apply_reconciliation, TypeOK
  <2>1. PICK x \in Entities : x = EventEntity[e]
    BY <2>0, EventsAssumption
  <2> DEFINE n == Reconciled(cases[x], e, worker[w].snapshot)
  <2>2. cases[x] \in CaseRow
    BY <2>1 DEF TypeOK
  <2>3. /\ cases' = [cases EXCEPT ![x] = n]
        /\ cases' = [y \in Entities |-> IF y = x THEN n ELSE cases[y]]
    BY <1>2, <2>1 DEF apply_reconciliation, TypeOK
  <2>4. states' = [states EXCEPT ![x] = n.state]
    BY <2>1, <2>3
  <2>5. \/ n = cases[x]
        \/ cases[x].state = "NONE" /\ n.state \in CaseState /\ Lifecycle!Path("DETECTED", n.state)
        \/ /\ cases[x].state \in CaseState /\ n.state \in CaseState
           /\ Lifecycle!Path(cases[x].state, n.state)
    BY <2>0, <2>2, ReconciledPath
  <2> HIDE DEF n
  <2>6. CASE n = cases[x]
    BY <2>1, <2>4, <2>6
  <2>7. CASE cases[x].state = "NONE" /\ n.state \in CaseState /\ Lifecycle!Path("DETECTED", n.state)
    <3>1. Lifecycle!Open(x)
      BY <2>1, <2>4, <2>7, SameRelation DEF Lifecycle!Open
    <3> QED BY <2>1, <3>1 DEF Lifecycle!Next
  <2>8. CASE /\ cases[x].state \in CaseState /\ n.state \in CaseState
             /\ Lifecycle!Path(cases[x].state, n.state)
    <3>1. Lifecycle!Advance(x)
      BY <2>1, <2>4, <2>8, SameRelation DEF Lifecycle!Advance
    <3> QED BY <2>1, <3>1 DEF Lifecycle!Next
  <2> QED BY <2>5, <2>6, <2>7, <2>8
<1>3. CASE UNCHANGED cases
  BY <1>1, <1>3
<1>4. UNCHANGED cases \/ \E w \in Workers : apply_reconciliation(w)
  BY DEF Next, WorkerStep, vars, ingest_razorpay_webhook, claim_event,
         fetch_authoritative_entity, process_payment_link_event, processing_raises,
         return_superseded, mark_processed_without_case, mark_failed, crash, Tick, TruthChanges
<1> QED BY <1>2, <1>3, <1>4

\* Case rows follow the lifecycle in every behaviour: opened once, moved along
\* allowed transitions only, and closed for ever.
THEOREM ImplementsLifecycle == Spec => LifecycleRespected
<1>1. Init => Lifecycle!Init
  BY DEF Init, Lifecycle!Init, NoCase
<1> QED
  BY <1>1, LifecycleStep, TypeCorrect, PTL DEF Spec, LifecycleRespected, Lifecycle!Spec

-----------------------------------------------------------------------------
(* What a reconciliation does to a case, for the two theorems below.       *)

Ended == {"refunded", "cancelled", "completed", "expired"}

\* The row a reconciliation starts from, and what it may make of it.
Located(c) == IF c.state = "NONE" THEN DetectedCase ELSE c

Results(r, s) ==
  {r} \cup (IF s \in {"captured", "active"} THEN {CloseAs(r, "RECOVERED")} ELSE {})
      \cup (IF s \in Ended THEN {CloseAs(r, "EXHAUSTED")} ELSE {})

\* A reconciliation is skipped, or it finds or opens the case, may start
\* reconciling, takes over the status, and closes the case only on a closing one.
LEMMA ReconciledShape ==
  ASSUME NEW c, NEW e, NEW s
  PROVE  \/ Reconciled(c, e, s) = c
         \/ \E b \in {Located(c), StartReconciling(Located(c))} :
              Reconciled(c, e, s) \in Results(Refresh(b, s), s)
<1>1. \/ reconcile_payment(c, EventType[e], s) = c
      \/ \E b \in {Located(c), StartReconciling(Located(c))} :
           reconcile_payment(c, EventType[e], s) \in Results(Refresh(b, s), s)
  BY DEF reconcile_payment, Located, Results, Ended
<1>2. \/ reconcile_subscription(c, s) = c
      \/ \E b \in {Located(c), StartReconciling(Located(c))} :
           reconcile_subscription(c, s) \in Results(Refresh(b, s), s)
  BY DEF reconcile_subscription, Located, Results, Ended
<1> QED BY <1>1, <1>2 DEF Reconciled

\* The rows that reconciliation works on, and what its first two steps do to the state.
LEMMA LocatedRow ==
  ASSUME NEW c \in CaseRow
  PROVE  /\ Located(c) \in CaseRow
         /\ Located(c).state \in CaseState
         /\ Located(c).state \in {c.state, "DETECTED"}
         /\ StartReconciling(Located(c)) \in CaseRow
         /\ StartReconciling(Located(c)).state \in {c.state, "DETECTED", "RECONCILING"}
         /\ StartReconciling(Located(c)).state \in CaseState
<1>1. /\ Located(c) \in CaseRow
      /\ Located(c).state \in CaseState
      /\ Located(c).state \in {c.state, "DETECTED"}
      /\ "RECONCILING" \in CaseState
  BY DetectedType DEF Located, DetectedCase, NoCase, CaseRow, CaseState
<1>2. /\ StartReconciling(Located(c)) \in CaseRow
      /\ StartReconciling(Located(c)).state \in {Located(c).state, "RECONCILING"}
  BY <1>1, TransitionType, TransitionMoves DEF StartReconciling
<1> QED BY <1>1, <1>2

\* No reconciliation moves a case to RECOVERED or EXHAUSTED without a status that
\* says so.
LEMMA ReconciledCloses ==
  ASSUME NEW c \in CaseRow, NEW e \in Events, NEW s \in ExternalStatus
  PROVE  LET n == Reconciled(c, e, s)
         IN  /\ n.state = "RECOVERED" => c.state = "RECOVERED" \/ s \in {"captured", "active"}
             /\ n.state = "EXHAUSTED" => c.state = "EXHAUSTED" \/ s \in Ended
<1> DEFINE n == Reconciled(c, e, s)
<1>1. ASSUME NEW b \in {Located(c), StartReconciling(Located(c))}, n \in Results(Refresh(b, s), s)
      PROVE  \/ n.state \in {c.state, "DETECTED", "RECONCILING"}
             \/ n.state = "RECOVERED" /\ s \in {"captured", "active"}
             \/ n.state = "EXHAUSTED" /\ s \in Ended
  <2> DEFINE r == Refresh(b, s)
  <2>1. /\ b \in CaseRow /\ b.state \in CaseState
        /\ b.state \in {c.state, "DETECTED", "RECONCILING"}
    BY <1>1, LocatedRow
  <2>2. r \in CaseRow /\ r.state = b.state
    BY <2>1, RefreshType DEF Refresh, CaseRow
  <2>3. "RECOVERED" \in CaseState /\ "EXHAUSTED" \in CaseState
    BY DEF CaseState, TERMINAL_CASE_STATES
  <2> HIDE DEF r
  <2>4. /\ CloseAs(r, "RECOVERED").state \in {b.state, "RECOVERED"}
        /\ CloseAs(r, "EXHAUSTED").state \in {b.state, "EXHAUSTED"}
    BY <2>1, <2>2, <2>3, TransitionMoves
  <2>5. \/ n = r
        \/ n = CloseAs(r, "RECOVERED") /\ s \in {"captured", "active"}
        \/ n = CloseAs(r, "EXHAUSTED") /\ s \in Ended
    BY <1>1 DEF Results, r
  <2> HIDE DEF n
  <2> QED BY <2>1, <2>2, <2>4, <2>5
<1>2. n = c \/ \E b \in {Located(c), StartReconciling(Located(c))} : n \in Results(Refresh(b, s), s)
  BY ReconciledShape
<1> HIDE DEF n
<1>3. \/ n.state \in {c.state, "DETECTED", "RECONCILING"}
      \/ n.state = "RECOVERED" /\ s \in {"captured", "active"}
      \/ n.state = "EXHAUSTED" /\ s \in Ended
  BY <1>1, <1>2
<1> QED BY <1>3 DEF n

\* A commit writes one case, with what its caller fetched; no other step writes cases.
LEMMA CaseWrites ==
  ASSUME TypeOK, [Next]_vars
  PROVE  \/ UNCHANGED cases
         \/ \E w \in Workers, x \in Entities :
              /\ worker[w].pc = "fetched" /\ worker[w].event \in Events
              /\ x = EventEntity[worker[w].event]
              /\ worker[w].snapshot \in ExternalStatus
              /\ cases'[x] = Reconciled(cases[x], worker[w].event, worker[w].snapshot)
              /\ \A y \in Entities \ {x} : cases'[y] = cases[y]
              /\ UNCHANGED <<truth, seen>>
<1>1. ASSUME NEW w \in Workers, apply_reconciliation(w)
      PROVE  \E x \in Entities :
               /\ worker[w].pc = "fetched" /\ worker[w].event \in Events
               /\ x = EventEntity[worker[w].event]
               /\ worker[w].snapshot \in ExternalStatus
               /\ cases'[x] = Reconciled(cases[x], worker[w].event, worker[w].snapshot)
               /\ \A y \in Entities \ {x} : cases'[y] = cases[y]
               /\ UNCHANGED <<truth, seen>>
  <2>1. /\ worker[w].pc = "fetched" /\ worker[w].event \in Events
        /\ worker[w].snapshot \in ExternalStatus
    BY <1>1 DEF apply_reconciliation, TypeOK
  <2>2. PICK x \in Entities : x = EventEntity[worker[w].event]
    BY <2>1, EventsAssumption
  <2>3. cases' = [cases EXCEPT ![x] = Reconciled(@, worker[w].event, worker[w].snapshot)]
    BY <1>1, <2>2 DEF apply_reconciliation
  <2> QED BY <1>1, <2>1, <2>2, <2>3 DEF apply_reconciliation, TypeOK
<1>2. UNCHANGED cases \/ \E w \in Workers : apply_reconciliation(w)
  BY DEF Next, WorkerStep, vars, ingest_razorpay_webhook, claim_event,
         fetch_authoritative_entity, process_payment_link_event, processing_raises,
         return_superseded, mark_processed_without_case, mark_failed, crash, Tick, TruthChanges
<1> QED BY <1>1, <1>2

-----------------------------------------------------------------------------
(* A closure is witnessed by the provider.                                 *)

\* What a caller has fetched was once the provider's answer, however long ago.
AnswersWitnessed ==
  /\ \A x \in Entities : truth[x] \in seen[x]
  /\ \A w \in Workers :
       worker[w].pc = "fetched" => worker[w].snapshot \in seen[EventEntity[worker[w].event]]

\* The provider's history only grows, and a caller's answer comes from it.
LEMMA WitnessStep ==
  ASSUME TypeOK, AnswersWitnessed, [Next]_vars
  PROVE  /\ AnswersWitnessed'
         /\ \A x \in Entities : seen[x] \subseteq seen'[x]
<1> USE EventsAssumption DEF AnswersWitnessed
<1>0. /\ worker \in [Workers -> WorkerState]
      /\ \A w \in Workers : worker[w].pc # "idle" => EventEntity[worker[w].event] \in Entities
  BY DEF TypeOK
<1>1. ASSUME NEW w \in Workers, fetch_authoritative_entity(w)
      PROVE  AnswersWitnessed'
  <2>1. /\ worker'[w].event = worker[w].event /\ worker[w].pc # "idle"
        /\ worker'[w].snapshot = truth[EventEntity[worker[w].event]]
        /\ \A v \in Workers \ {w} : worker'[v] = worker[v]
    BY <1>0, <1>1 DEF fetch_authoritative_entity, WorkerState
  <2> QED BY <1>0, <1>1, <2>1 DEF fetch_authoritative_entity
<1>2. ASSUME UNCHANGED <<truth, seen>>, NEW w \in Workers, worker'[w].pc # "fetched",
             \A v \in Workers \ {w} : worker'[v] = worker[v]
      PROVE  AnswersWitnessed'
  BY <1>2
<1>3. ASSUME NEW w \in Workers, NEW e \in Events, claim_event(w, e)
      PROVE  AnswersWitnessed'
  <2>1. worker'[w].pc = "claimed" /\ \A v \in Workers \ {w} : worker'[v] = worker[v]
    BY <1>0, <1>3 DEF claim_event
  <2> QED BY <1>2, <1>3, <2>1 DEF claim_event
<1>4. ASSUME NEW w \in Workers,
             \/ process_payment_link_event(w) \/ return_superseded(w) \/ apply_reconciliation(w)
             \/ mark_processed_without_case(w) \/ mark_failed(w)
             \/ processing_raises(w) \/ crash(w)
      PROVE  AnswersWitnessed'
  <2>1. \/ worker' = [worker EXCEPT ![w] = Idle]
        \/ worker' = [worker EXCEPT ![w].pc = "failing"]
        \/ worker' = [worker EXCEPT ![w].pc = "observed"]
    BY <1>4 DEF process_payment_link_event, return_superseded, apply_reconciliation, Settle,
       mark_processed_without_case, mark_failed, processing_raises, crash
  <2>2. worker'[w].pc # "fetched" /\ \A v \in Workers \ {w} : worker'[v] = worker[v]
    BY <1>0, <2>1 DEF Idle, WorkerState
  <2>3. UNCHANGED <<truth, seen>>
    BY <1>4 DEF process_payment_link_event, return_superseded, apply_reconciliation,
       mark_processed_without_case, mark_failed, processing_raises, crash
  <2> QED BY <1>2, <2>2, <2>3
<1>5. ASSUME NEW x \in Entities, TruthChanges(x)
      PROVE  AnswersWitnessed' /\ \A y \in Entities : seen[y] \subseteq seen'[y]
  <2>1. \A y \in Entities : seen[y] \subseteq seen'[y]
    BY <1>5 DEF TruthChanges, TypeOK
  <2>2. \A y \in Entities : truth'[y] \in seen'[y]
    BY <1>5 DEF TruthChanges, TypeOK
  <2>3. UNCHANGED worker
    BY <1>5 DEF TruthChanges
  <2> QED BY <1>0, <2>1, <2>2, <2>3
<1>6. ASSUME UNCHANGED <<truth, seen, worker>>
      PROVE  AnswersWitnessed'
  BY <1>6
<1>7. UNCHANGED seen \/ \E x \in Entities : TruthChanges(x)
  BY DEF Next, WorkerStep, vars, ingest_razorpay_webhook, claim_event,
         fetch_authoritative_entity, process_payment_link_event, processing_raises,
         return_superseded, apply_reconciliation, mark_processed_without_case, mark_failed,
         crash, Tick
<1> QED BY <1>1, <1>3, <1>4, <1>5, <1>6, <1>7
        DEF Next, WorkerStep, ingest_razorpay_webhook, Tick, vars

\* A case that a commit closes had its closing status fetched from the provider.
LEMMA ClosureStep ==
  ASSUME TypeOK, AnswersWitnessed, ClosureIsWitnessed, [Next]_vars
  PROVE  ClosureIsWitnessed'
<1> USE DEF ClosureIsWitnessed
<1>0. \A x \in Entities : seen[x] \subseteq seen'[x]
  BY WitnessStep
<1>1. ASSUME NEW x \in Entities, cases'[x] = cases[x]
      PROVE  /\ cases'[x].state = "RECOVERED" => seen'[x] \cap {"captured", "active"} # {}
             /\ cases'[x].state = "EXHAUSTED" => seen'[x] \cap Ended # {}
  BY <1>0, <1>1 DEF Ended
<1>2. ASSUME NEW w \in Workers, NEW x \in Entities,
             worker[w].pc = "fetched", worker[w].event \in Events,
             x = EventEntity[worker[w].event], worker[w].snapshot \in ExternalStatus,
             cases'[x] = Reconciled(cases[x], worker[w].event, worker[w].snapshot)
      PROVE  /\ cases'[x].state = "RECOVERED" => seen'[x] \cap {"captured", "active"} # {}
             /\ cases'[x].state = "EXHAUSTED" => seen'[x] \cap Ended # {}
  <2>1. worker[w].snapshot \in seen'[x]
    BY <1>0, <1>2 DEF AnswersWitnessed
  <2>2. /\ cases'[x].state = "RECOVERED" =>
             cases[x].state = "RECOVERED" \/ worker[w].snapshot \in {"captured", "active"}
        /\ cases'[x].state = "EXHAUSTED" =>
             cases[x].state = "EXHAUSTED" \/ worker[w].snapshot \in Ended
    BY <1>2, ReconciledCloses DEF TypeOK
  <2> QED BY <1>0, <2>1, <2>2 DEF Ended
<1>3. \A x \in Entities :
        /\ cases'[x].state = "RECOVERED" => seen'[x] \cap {"captured", "active"} # {}
        /\ cases'[x].state = "EXHAUSTED" => seen'[x] \cap Ended # {}
  BY <1>1, <1>2, CaseWrites
<1> QED BY <1>3 DEF Ended

\* Cases are closed on the provider's own answers only (ClosureIsWitnessed), whatever
\* webhooks say, in whatever order and however late they are applied.
THEOREM ClosureIsWitnessedHolds == Spec => []ClosureIsWitnessed
<1>1. Init => AnswersWitnessed /\ ClosureIsWitnessed
  BY DEF Init, AnswersWitnessed, ClosureIsWitnessed, Idle, NoCase
<1> QED BY <1>1, WitnessStep, ClosureStep, TypeCorrect, PTL DEF Spec

-----------------------------------------------------------------------------
(* The audit trail.                                                        *)

Entries == (CaseState \cup {"NONE"}) \X CaseState

\* The two halves of what the trail of one case promises.
Chained(c) ==
  LET n == Len(c.trail)
  IN  /\ c.state = "NONE" <=> n = 0
      /\ n > 0 => c.trail[1] = <<"NONE", "DETECTED">> /\ c.trail[n][2] = c.state
      /\ \A i \in 2..n : c.trail[i][1] = c.trail[i - 1][2]

Stamped(c) == c.resolved <=> c.state \in TERMINAL_CASE_STATES

\* An audited transition appends the entry that starts where the trail ends.
LEMMA TransitionChains ==
  ASSUME NEW c \in CaseRow, c.state \in CaseState, Chained(c), NEW t \in CaseState
  PROVE  /\ Chained(transition_case(c, t))
         /\ Chained(transition_if_allowed(c, t))
         /\ Chained(CloseAs(c, t))
<1> DEFINE entry == <<c.state, t>>
           new == Append(c.trail, entry)
<1>0. "NONE" \notin CaseState
  BY DEF CaseState, TERMINAL_CASE_STATES
<1>1. c.trail \in Seq(Entries) /\ entry \in Entries
  BY DEF CaseRow, Entries
<1>2. /\ new \in Seq(Entries) /\ Len(new) = Len(c.trail) + 1 /\ Len(c.trail) \in Nat
      /\ \A i \in 1..Len(c.trail) : new[i] = c.trail[i]
      /\ new[Len(c.trail) + 1] = entry
  BY <1>1, AppendProperties
<1>3. Len(c.trail) > 0
  BY <1>0, <1>2 DEF Chained
<1>4. ASSUME c.state # t
      PROVE  Chained(transition_case(c, t))
  <2> DEFINE m == transition_case(c, t)
  <2>1. m.state = t /\ m.trail = new
    BY <1>4 DEF transition_case, CaseRow
  <2>2. new[1] = c.trail[1] /\ new[Len(new)] = entry
    BY <1>2, <1>3
  <2>3. \A i \in 2..Len(new) : new[i][1] = new[i - 1][2]
    <3> SUFFICES ASSUME NEW i \in 2..Len(new)
                 PROVE  new[i][1] = new[i - 1][2]
      OBVIOUS
    <3>1. CASE i \in 2..Len(c.trail)
      BY <1>2, <3>1 DEF Chained
    <3>2. CASE i = Len(c.trail) + 1
      <4>1. new[i] = entry /\ new[i - 1] = c.trail[Len(c.trail)]
        BY <1>2, <1>3, <3>2
      <4> QED BY <1>3, <4>1 DEF Chained
    <3> QED BY <1>2, <3>1, <3>2
  <2> HIDE DEF m, new
  <2>4. Chained(m)
    BY <1>0, <1>2, <1>3, <2>1, <2>2, <2>3 DEF Chained
  <2> QED BY <2>4 DEF m
<1>5. Chained(transition_case(c, t))
  BY <1>4 DEF transition_case
<1>6. Chained(transition_if_allowed(c, t))
  BY <1>5 DEF transition_if_allowed
<1>7. ASSUME NEW m \in CaseRow, Chained(m)
      PROVE  Chained([m EXCEPT !.resolved = TRUE])
  BY <1>7 DEF Chained, CaseRow
<1>8. Chained(CloseAs(c, t))
  BY <1>6, <1>7, TransitionType DEF CloseAs
<1> QED BY <1>5, <1>6, <1>8

\* Starting to reconcile leaves a closed case alone, and a close is stamped as one.
LEMMA TransitionStamps ==
  ASSUME NEW c \in CaseRow, c.state \in CaseState, Stamped(c)
  PROVE  /\ Stamped(StartReconciling(c))
         /\ \A t \in TERMINAL_CASE_STATES : Stamped(CloseAs(c, t))
<1>1. /\ "RECONCILING" \notin TERMINAL_CASE_STATES
      /\ TERMINAL_CASE_STATES \subseteq CaseState
  BY DEF TERMINAL_CASE_STATES, CaseState
<1>2. ASSUME NEW t \in CaseState, c.state \in TERMINAL_CASE_STATES, c.state # t
      PROVE  ~can_transition(c.state, t)
  BY <1>2 DEF can_transition, AllowedTransitions, ForwardTransitions, TERMINAL_CASE_STATES
<1>3. ASSUME NEW t \in CaseState
      PROVE  LET m == transition_if_allowed(c, t)
             IN  /\ m = c \/ (m.state = t /\ c.state \notin TERMINAL_CASE_STATES)
                 /\ m \in CaseRow /\ m.resolved = c.resolved
  <2>1. \/ transition_if_allowed(c, t) = c
        \/ c.state # t /\ can_transition(c.state, t) /\ transition_if_allowed(c, t).state = t
    BY DEF transition_if_allowed, transition_case, CaseRow
  <2>2. transition_if_allowed(c, t).resolved = c.resolved
    BY DEF transition_if_allowed, transition_case, CaseRow
  <2> QED BY <1>2, <2>1, <2>2, TransitionType
<1>4. Stamped(StartReconciling(c))
  <2>1. "RECONCILING" \in CaseState
    BY DEF CaseState
  <2> QED BY <1>1, <1>3, <2>1 DEF Stamped, StartReconciling
<1>5. ASSUME NEW t \in TERMINAL_CASE_STATES
      PROVE  Stamped(CloseAs(c, t))
  <2> DEFINE m == transition_if_allowed(c, t)
  <2>1. /\ m = c \/ (m.state = t /\ c.state \notin TERMINAL_CASE_STATES)
        /\ m \in CaseRow /\ m.resolved = c.resolved
    BY <1>1, <1>3
  <2>2. CloseAs(c, t) = IF m.state = t THEN [m EXCEPT !.resolved = TRUE] ELSE m
    BY DEF CloseAs
  <2> HIDE DEF m
  <2>3. CASE m.state = t
    BY <2>1, <2>2, <2>3 DEF Stamped, CaseRow
  <2>4. CASE m.state # t
    BY <2>1, <2>2, <2>4
  <2> QED BY <2>3, <2>4
<1> QED BY <1>4, <1>5

\* One reconciliation keeps the trail in step with its case.
LEMMA ReconciledReplays ==
  ASSUME NEW c \in CaseRow, NEW e \in Events, NEW s \in ExternalStatus, Chained(c), Stamped(c)
  PROVE  Chained(Reconciled(c, e, s)) /\ Stamped(Reconciled(c, e, s))
<1> DEFINE good(r) == r \in CaseRow /\ r.state \in CaseState /\ Chained(r) /\ Stamped(r)
<1>0. /\ {"RECOVERED", "EXHAUSTED"} \subseteq TERMINAL_CASE_STATES
      /\ {"RECOVERED", "EXHAUSTED", "RECONCILING", "DETECTED"} \subseteq CaseState
  BY DEF TERMINAL_CASE_STATES, CaseState
<1>1. good(Located(c))
  <2>1. CASE c.state = "NONE"
    <3>1. /\ DetectedCase.state = "DETECTED" /\ ~DetectedCase.resolved
          /\ DetectedCase.trail = <<<<"NONE", "DETECTED">>>>
      BY DEF DetectedCase, NoCase
    <3>2. Chained(DetectedCase) /\ Stamped(DetectedCase)
      BY <3>1 DEF Chained, Stamped, TERMINAL_CASE_STATES
    <3> QED BY <2>1, <3>2, LocatedRow DEF Located
  <2>2. CASE c.state # "NONE"
    BY <2>2, LocatedRow DEF Located
  <2> QED BY <2>1, <2>2
<1>2. good(StartReconciling(Located(c)))
  BY <1>0, <1>1, LocatedRow, TransitionChains, TransitionStamps DEF StartReconciling
<1>3. ASSUME NEW b, good(b)
      PROVE  \A n \in Results(Refresh(b, s), s) : Chained(n) /\ Stamped(n)
  <2> DEFINE r == Refresh(b, s)
  <2>1. r \in CaseRow /\ r.state = b.state /\ r.trail = b.trail /\ r.resolved = b.resolved
    BY <1>3, RefreshType DEF Refresh, CaseRow
  <2> HIDE DEF r
  <2>2. r.state \in CaseState /\ Chained(r) /\ Stamped(r)
    BY <1>3, <2>1 DEF Chained, Stamped
  <2>3. \A t \in {"RECOVERED", "EXHAUSTED"} : Chained(CloseAs(r, t)) /\ Stamped(CloseAs(r, t))
    BY <1>0, <2>1, <2>2, TransitionChains, TransitionStamps
  <2>4. \A n \in Results(r, s) : n \in {r, CloseAs(r, "RECOVERED"), CloseAs(r, "EXHAUSTED")}
    BY DEF Results
  <2> QED BY <2>2, <2>3, <2>4 DEF r
<1> HIDE DEF good
<1> QED BY <1>1, <1>2, <1>3, ReconciledShape

\* No commit writes a case without the audit rows that lead to it.
LEMMA TrailStep ==
  ASSUME TypeOK, AuditTrailReplays, [Next]_vars
  PROVE  AuditTrailReplays'
<1>0. \A x \in Entities : cases[x] \in CaseRow /\ Chained(cases[x]) /\ Stamped(cases[x])
  BY DEF TypeOK, AuditTrailReplays, Chained, Stamped
<1>1. \A x \in Entities : Chained(cases'[x]) /\ Stamped(cases'[x])
  BY <1>0, CaseWrites, ReconciledReplays
<1> QED BY <1>1 DEF AuditTrailReplays, Chained, Stamped

\* The audit trail of every case replays to its row (AuditTrailReplays): no interleaving
\* of callers loses, repeats or disorders an entry, and resolved_at marks the closed.
THEOREM AuditTrailReplaysHolds == Spec => []AuditTrailReplays
<1>1. Init => AuditTrailReplays
  BY DEF Init, AuditTrailReplays, NoCase, TERMINAL_CASE_STATES
<1> QED BY <1>1, TrailStep, TypeCorrect, PTL DEF Spec

-----------------------------------------------------------------------------
(* Payment Link events are acknowledged after the link was read.           *)

Read(e) == EventType[e] \in LinkEvents /\ EventEntity[e] \in ArcLinks => e \in observed

\* A caller that could settle a link event has had the link read, and so has
\* whoever settled it.
LinkReadsKnown ==
  /\ \A w \in Workers :
       /\ worker[w].pc = "fetched" => EventType[worker[w].event] \notin LinkEvents
       /\ worker[w].pc = "observed" => Read(worker[w].event)
  /\ \A e \in Events : ledger[e].status = "PROCESSED" => Read(e)

\* Only a caller that fetched or observed settles an event.
LEMMA LinkReadStep ==
  ASSUME TypeOK, LinkReadsKnown, [Next]_vars
  PROVE  LinkReadsKnown'
<1> USE DEF LinkReadsKnown, Read
<1>0. /\ worker \in [Workers -> WorkerState]
      /\ ledger \in [Events -> EventRow]
      /\ \A w \in Workers : worker[w].pc # "idle" => worker[w].event \in Events
      /\ observed \subseteq observed'
      /\ \A s \in PaymentEvents \cup SubscriptionEvents : s \notin LinkEvents
  <2>1. observed \subseteq observed'
    BY DEF Next, WorkerStep, vars, ingest_razorpay_webhook, claim_event,
         fetch_authoritative_entity, process_payment_link_event, processing_raises,
         return_superseded, apply_reconciliation, mark_processed_without_case, mark_failed,
         crash, Tick, TruthChanges
  <2>2. \A s \in PaymentEvents \cup SubscriptionEvents : s \notin LinkEvents
    BY DEF PaymentEvents, SubscriptionEvents, LinkEvents
  <2> QED BY <2>1, <2>2 DEF TypeOK
<1>1. ASSUME NEW w \in Workers, \A v \in Workers \ {w} : worker'[v] = worker[v],
             worker'[w].pc = "fetched" => EventType[worker'[w].event] \notin LinkEvents,
             worker'[w].pc = "observed" => Read(worker[w].event)',
             \A e \in Events : ledger'[e].status = "PROCESSED" =>
                                 ledger[e].status = "PROCESSED" \/ Read(e)
      PROVE  LinkReadsKnown'
  BY <1>0, <1>1
<1>2. ASSUME NEW w \in Workers, NEW e \in Events, claim_event(w, e)
      PROVE  LinkReadsKnown'
  <2>1. worker'[w].pc = "claimed" /\ \A v \in Workers \ {w} : worker'[v] = worker[v]
    BY <1>0, <1>2 DEF claim_event
  <2>2. \A f \in Events : ledger'[f].status \in {ledger[f].status, "PROCESSING"}
    BY <1>0, <1>2 DEF claim_event
  <2> QED BY <1>1, <2>1, <2>2
<1>3. ASSUME NEW w \in Workers, fetch_authoritative_entity(w)
      PROVE  LinkReadsKnown'
  <2>1. /\ worker'[w].pc = "fetched" /\ worker'[w].event = worker[w].event
        /\ \A v \in Workers \ {w} : worker'[v] = worker[v]
    BY <1>0, <1>3 DEF fetch_authoritative_entity, WorkerState
  <2>2. EventType[worker[w].event] \notin LinkEvents /\ UNCHANGED ledger
    BY <1>0, <1>3 DEF fetch_authoritative_entity
  <2> QED BY <1>1, <2>1, <2>2
<1>4. ASSUME NEW w \in Workers, process_payment_link_event(w)
      PROVE  LinkReadsKnown'
  <2>1. /\ worker'[w].pc = "observed" /\ worker'[w].event = worker[w].event
        /\ \A v \in Workers \ {w} : worker'[v] = worker[v]
    BY <1>0, <1>4 DEF process_payment_link_event, WorkerState
  <2>2. Read(worker[w].event)' /\ UNCHANGED ledger
    BY <1>4, <2>1 DEF process_payment_link_event
  <2> QED BY <1>1, <2>1, <2>2
<1>5. ASSUME NEW w \in Workers,
             \/ worker' = [worker EXCEPT ![w] = Idle]
             \/ worker' = [worker EXCEPT ![w].pc = "failing"],
             \A e \in Events : ledger'[e].status = "PROCESSED" =>
                                 ledger[e].status = "PROCESSED" \/ Read(e)
      PROVE  LinkReadsKnown'
  <2>1. worker'[w].pc \in {"idle", "failing"} /\ \A v \in Workers \ {w} : worker'[v] = worker[v]
    BY <1>0, <1>5 DEF Idle, WorkerState
  <2> QED BY <1>1, <1>5, <2>1
<1>6. ASSUME NEW w \in Workers, return_superseded(w) \/ processing_raises(w) \/ crash(w)
      PROVE  LinkReadsKnown'
  BY <1>5, <1>6 DEF return_superseded, processing_raises, crash
<1>7. ASSUME NEW w \in Workers, worker[w].pc \in {"fetched", "observed"}, Settle(w)
      PROVE  LinkReadsKnown'
  <2>1. worker[w].event \in Events /\ Read(worker[w].event)
    BY <1>0, <1>7
  <2>2. \A e \in Events : e # worker[w].event => ledger'[e] = ledger[e]
    BY <1>0, <1>7 DEF Settle
  <2> QED BY <1>5, <1>7, <2>1, <2>2 DEF Settle
<1>8. ASSUME NEW w \in Workers, mark_failed(w)
      PROVE  LinkReadsKnown'
  <2>1. \A e \in Events : ledger'[e].status \in {ledger[e].status, "FAILED"}
    BY <1>0, <1>8 DEF mark_failed, Released
  <2> QED BY <1>5, <1>8, <2>1 DEF mark_failed
<1>9. ASSUME UNCHANGED worker,
             \A e \in Events : ledger'[e].status \in {ledger[e].status, "RECEIVED", "UNSUPPORTED"}
      PROVE  LinkReadsKnown'
  BY <1>0, <1>9
<1>10. ASSUME NEW e \in Events, ingest_razorpay_webhook(e)
       PROVE  LinkReadsKnown'
  BY <1>0, <1>9, <1>10 DEF ingest_razorpay_webhook, NoEvent
<1>11. CASE Tick
  BY <1>0, <1>9, <1>11 DEF Tick, EventRow
<1>12. CASE UNCHANGED <<ledger, worker>>
  BY <1>9, <1>12
<1> QED
  BY <1>2, <1>3, <1>4, <1>6, <1>7, <1>8, <1>10, <1>11, <1>12
     DEF Next, WorkerStep, apply_reconciliation, mark_processed_without_case, TruthChanges, vars

\* An event about a link of ARC's own is acknowledged only after the link was read on
\* its behalf (LinkReadBeforeSettled), whichever of its callers died in between.
THEOREM LinkReadBeforeSettledHolds == Spec => []LinkReadBeforeSettled
<1>1. Init => LinkReadsKnown
  BY DEF Init, LinkReadsKnown, Idle, NoEvent
<1>2. LinkReadsKnown => LinkReadBeforeSettled
  BY DEF LinkReadsKnown, LinkReadBeforeSettled, Read
<1> QED BY <1>1, <1>2, LinkReadStep, TypeCorrect, PTL DEF Spec
=============================================================================
