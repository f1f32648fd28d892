---------------------------- MODULE RevenueLedger ----------------------------
(***************************************************************************)
(* What revenue attribution promises: a case is credited at most once and  *)
(* for good, and no provider payment is credited twice.                    *)
(***************************************************************************)
CONSTANTS Cases, Payments, NoPayment
VARIABLE credited   \* case -> the payment it was credited with

Init == credited = [c \in Cases |-> NoPayment]

Credit(c, p) ==
  /\ credited[c] = NoPayment
  /\ \A d \in Cases : credited[d] # p
  /\ credited' = [credited EXCEPT ![c] = p]

Next == \E c \in Cases, p \in Payments : Credit(c, p)

Spec == Init /\ [][Next]_credited
=============================================================================
