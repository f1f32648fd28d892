------------------------------ MODULE MCOutcomes ------------------------------
(* Instances of Outcomes for TLC.                                           *)
EXTENDS Outcomes, TLC

CONSTANTS o1, o2, c1, c2, p1, p2, none

TwoObservers == {o1, o2}
ObserverSymmetry == Permutations(TwoObservers)
RaceSymmetry == ObserverSymmetry \cup Permutations({c1, c2})

Paying(p, amount) == [id |-> p, amount |-> amount, status |-> "captured", own |-> TRUE]

\* A link over 2 minor units.
Pending == [known |-> TRUE, amount |-> 2, amount_paid |-> 0, status |-> "created",
            payments |-> {}, repeated |-> FALSE, updated_at |-> 0]
PaidBy(p) == [Pending EXCEPT !.status = "paid", !.amount_paid = 2, !.payments = {Paying(p, 2)}]
Touched   == [PaidBy(p1) EXCEPT !.updated_at = 1]
Refunded  == [PaidBy(p1) EXCEPT !.payments = {[Paying(p1, 2) EXCEPT !.status = "refunded"]}]
Ambiguous == [PaidBy(p1) EXCEPT !.payments = {Paying(p1, 2), Paying(p2, 2)}]
Repeated  == [PaidBy(p1) EXCEPT !.repeated = TRUE]
Foreign   == [PaidBy(p1) EXCEPT !.payments = {[Paying(p1, 2) EXCEPT !.own = FALSE]}]
Partial   == [Pending EXCEPT !.status = "partially_paid", !.amount_paid = 1,
                             !.payments = {Paying(p1, 1)}]
Expired   == [Pending EXCEPT !.status = "expired"]
Cancelled == [Pending EXCEPT !.status = "cancelled"]
PaidCancelled == [PaidBy(p1) EXCEPT !.status = "cancelled"]
Unknown   == [Pending EXCEPT !.status = "unknown"]
Mistaken  == [Expired EXCEPT !.known = FALSE]

EveryKind == {Pending, PaidBy(p1), PaidBy(p2), Touched, Refunded, Ambiguous, Repeated, Foreign,
              Partial, Expired, Cancelled, PaidCancelled, Unknown, Mistaken}
PaidTwice == {Pending, PaidBy(p1), PaidBy(p2), Expired}
=============================================================================
