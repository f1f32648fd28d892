----------------------------- MODULE OutcomeRules -----------------------------
(***************************************************************************)
(* classify_payment_link_outcome (arc/outcomes/classification.py): what    *)
(* one read of a Payment Link says about a recovery.                       *)
(*                                                                         *)
(* A snapshot keeps what the rules and the evidence fingerprint tell       *)
(* apart: whether identity, reference and currency are the expected ones   *)
(* (known), the amounts, the status, the payments it embeds (own: does the *)
(* payment name this link, or none?), whether that list names one of them  *)
(* more than once (repeated), and the provider's update stamp.             *)
(***************************************************************************)
EXTENDS Naturals, FiniteSets

CONSTANTS Payments,   \* provider payment ids
          NoPayment   \* no payment id

ASSUME NoPaymentAssumption == NoPayment \notin Payments

RecoveryOutcomeStatus == {"PENDING", "RECOVERED", "EXPIRED", "CANCELLED", "REVIEW_REQUIRED"}

CapturedPayment == [id : Payments, amount : Nat, status : {"captured", "refunded", "failed"},
                    own : BOOLEAN]

LinkStatuses == {"created", "issued", "paid", "partially_paid", "expired", "cancelled", "unknown"}

PaymentLinkSnapshot ==
  [known : BOOLEAN, amount : Nat, amount_paid : Nat, status : LinkStatuses,
   payments : SUBSET CapturedPayment, repeated : BOOLEAN, updated_at : Nat]

OutcomeClassification ==
  [outcome : RecoveryOutcomeStatus, payment : Payments \cup {NoPayment}]

-----------------------------------------------------------------------------
Mismatch(expected, s) ==
  \/ ~s.known
  \/ s.amount # expected
  \/ \E p \in s.payments : ~p.own

Untouched(s) == s.amount_paid = 0 /\ s.payments = {}

\* p is the one payment of the link, listed once, captured, for exactly the amount.
PaidInFull(expected, s, p) ==
  /\ s.amount_paid = expected
  /\ s.payments = {p} /\ ~s.repeated
  /\ p.status = "captured"
  /\ p.amount = expected

\* What an untouched link in this status means.
UnpaidOutcome(status) ==
  CASE status \in {"created", "issued"} -> "PENDING"
    [] status = "expired"               -> "EXPIRED"
    [] status = "cancelled"             -> "CANCELLED"
    [] OTHER                            -> "REVIEW_REQUIRED"

Outcome(status) == [outcome |-> status, payment |-> NoPayment]

classify_payment_link_outcome(expected, s) ==
  IF Mismatch(expected, s)
    THEN Outcome("REVIEW_REQUIRED")
    ELSE IF s.status = "paid"
      THEN IF \E p \in s.payments : PaidInFull(expected, s, p)
             THEN [outcome |-> "RECOVERED", payment |-> (CHOOSE p \in s.payments : TRUE).id]
             ELSE Outcome("REVIEW_REQUIRED")
      ELSE IF Untouched(s)
        THEN Outcome(UnpaidOutcome(s.status))
        ELSE Outcome("REVIEW_REQUIRED")
=============================================================================
