------------------------------ MODULE MCWebhook ------------------------------
(* Instances of WebhookProcessing for TLC.                                  *)
EXTENDS WebhookProcessing, TLC

CONSTANTS w1, w2, e1, e2, e3, e4, e5, pay, sub, link, foreignLink

TwoWorkers == {w1, w2}
WorkerSymmetry == Permutations(TwoWorkers)

\* A failed payment that the customer completes late, and its refund.
TwoEvents          == {e1, e2}
PaymentEventType   == (e1 :> "payment.failed") @@ (e2 :> "payment.captured")
PaymentEventEntity == (e1 :> pay) @@ (e2 :> pay)
PaymentFirst       == {pay :> "created", pay :> "failed"}
PaymentMoves       == {<<"created", "failed">>, <<"failed", "captured">>,
                       <<"captured", "refunded">>}

\* Either such a payment, or a subscription whose retries end, that recovers or ends, or
\* reports a status ARC does not know: three events, so that a closed case meets an
\* older snapshot.  The two pending events are alike.
FiveEvents        == {e1, e2, e3, e4, e5}
EitherEventType   == PaymentEventType @@ (e3 :> "subscription.pending")
                       @@ (e4 :> "subscription.halted") @@ (e5 :> "subscription.pending")
EitherEventEntity == PaymentEventEntity @@ (e3 :> sub) @@ (e4 :> sub) @@ (e5 :> sub)
EitherFirst       == {p @@ (sub :> "none") : p \in PaymentFirst}
                       \cup {(pay :> "none") @@ (sub :> "pending")}
EitherMoves       == PaymentMoves \cup
                       {<<"pending", "halted">>, <<"halted", "active">>,
                        <<"halted", "cancelled">>, <<"halted", "unrecognized">>}
EitherSymmetry    == WorkerSymmetry \cup Permutations({e3, e5})

\* A failed payment, a link of ARC's own, a foreign one, and an event type ARC does not
\* support.
MixedEvents      == {e1, e2, e3, e4}
MixedEventType   == (e1 :> "payment_link.paid") @@ (e2 :> "payment_link.expired")
                      @@ (e3 :> "other") @@ (e4 :> "payment.failed")
MixedEventEntity == (e1 :> link) @@ (e2 :> foreignLink) @@ (e3 :> pay) @@ (e4 :> pay)
MixedFirst       == {(pay :> "failed") @@ (link :> "created") @@ (foreignLink :> "created")}
=============================================================================
