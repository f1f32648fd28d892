--------------------------- MODULE Reconciliation ---------------------------
(***************************************************************************)
(* The two reconciliation rules: how an authoritative provider snapshot is *)
(* applied to the (possibly missing) case of its payment or subscription,  *)
(* arc/reconciliation/payment.py and subscription.py.  Each operator is    *)
(* the effect of one call on the locked case row; the transaction around   *)
(* it belongs to the webhook processor.                                    *)
(***************************************************************************)
EXTENDS CaseStates

RECOGNIZED_PAYMENT_STATUSES == {"created", "authorized", "captured", "refunded", "failed"}

RECOGNIZED_SUBSCRIPTION_STATUSES ==
  {"created", "authenticated", "active", "pending", "halted", "paused",
   "cancelled", "completed", "expired"}

\* A status string ARC does not know yet is stored but never advances a case.
ExternalStatus ==
  RECOGNIZED_PAYMENT_STATUSES \cup RECOGNIZED_SUBSCRIPTION_STATUSES \cup {"unrecognized"}

CaseRow == [state : CaseState \cup {"NONE"}, status : ExternalStatus \cup {"none"},
            resolved : BOOLEAN, trail : Seq((CaseState \cup {"NONE"}) \X CaseState)]

\* Every reconciliation overwrites the projection of provider truth, on closed
\* cases too.
Refresh(c, status) == [c EXCEPT !.status = status]

\* move_detected_case_to_reconciling
StartReconciling(c) == transition_if_allowed(c, "RECONCILING")

\* (mutant) the webhook's word for a capture is taken as truth
reconcile_payment_by_event(c, eventType, status) ==
  CASE c.state = "NONE" /\ eventType = "payment.captured" -> c
    [] c.state = "NONE" -> Refresh(StartReconciling(DetectedCase), status)
    [] c.state # "NONE" /\ eventType = "payment.captured" -> CloseAs(c, "RECOVERED")
    [] OTHER -> Refresh(StartReconciling(c), status)

reconcile_payment(c, eventType, status) ==
  IF eventType = "payment.captured" /\ c.state = "NONE"
    THEN c
    ELSE LET found     == IF c.state = "NONE" THEN DetectedCase ELSE c
             refreshed == Refresh(StartReconciling(found), status)
         IN  CASE status = "captured" -> CloseAs(refreshed, "RECOVERED")
               [] status = "refunded" -> CloseAs(refreshed, "EXHAUSTED")
               [] OTHER               -> refreshed

\* (mutant) halted counts as an ended subscription
reconcile_subscription_halted_ends(c, status) ==
  LET found == IF c.state = "NONE" THEN DetectedCase ELSE c
  IN  CASE status = "active" -> CloseAs(Refresh(found, status), "RECOVERED")
        [] status \in {"halted", "cancelled", "completed", "expired"}
                             -> CloseAs(Refresh(found, status), "EXHAUSTED")
        [] OTHER             -> Refresh(StartReconciling(found), status)

reconcile_subscription(c, status) ==
  IF c.state = "NONE" /\ status \notin {"pending", "halted"}
    THEN c
    ELSE LET found     == IF c.state = "NONE" THEN DetectedCase ELSE c
             started   == IF status \in {"pending", "halted"}
                            THEN StartReconciling(found) ELSE found
             refreshed == Refresh(started, status)
         IN  CASE status = "active" -> CloseAs(refreshed, "RECOVERED")
               [] status \in {"cancelled", "completed", "expired"}
                                    -> CloseAs(refreshed, "EXHAUSTED")
               [] OTHER             -> refreshed
=============================================================================
