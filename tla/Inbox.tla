-------------------------------- MODULE Inbox --------------------------------
(***************************************************************************)
(* What webhook processing promises: every accepted event is settled at    *)
(* most once, stays settled, and its effect happens in the very step that  *)
(* settles it.                                                             *)
(***************************************************************************)
EXTENDS Naturals

CONSTANT Events
VARIABLES inbox,    \* event -> "absent", "pending", "settled" or "ignored"
          effects   \* event -> how often the event's effect was committed

inboxVars == <<inbox, effects>>

Init ==
  /\ inbox = [e \in Events |-> "absent"]
  /\ effects = [e \in Events |-> 0]

Accept(e) ==
  /\ inbox[e] = "absent"
  /\ \E s \in {"pending", "ignored"} : inbox' = [inbox EXCEPT ![e] = s]
  /\ UNCHANGED effects

Settle(e) ==
  /\ inbox[e] = "pending"
  /\ inbox' = [inbox EXCEPT ![e] = "settled"]
  /\ effects' = [effects EXCEPT ![e] = @ + 1]

Next == \E e \in Events : Accept(e) \/ Settle(e)

Spec == Init /\ [][Next]_inboxVars
=============================================================================
