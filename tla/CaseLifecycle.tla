---------------------------- MODULE CaseLifecycle ----------------------------
(***************************************************************************)
(* What the lifecycle promises about every case, whichever service moves   *)
(* it: a case is opened once, moves along the transition relation only and *)
(* never leaves a terminal state.  One database transaction may take       *)
(* several transitions (DETECTED, RECONCILING, RECOVERED), so one step     *)
(* here is a short path of allowed transitions.                            *)
(***************************************************************************)
EXTENDS CaseStates

CONSTANT Cases
VARIABLE caseState

\* can_transition is reflexive, so this is a path of at most two transitions.
Path(s, t) == \E m \in CaseState : can_transition(s, m) /\ can_transition(m, t)

Init == caseState = [c \in Cases |-> "NONE"]

Open(c) ==
  /\ caseState[c] = "NONE"
  /\ \E t \in CaseState : caseState' = [caseState EXCEPT ![c] = t] /\ Path("DETECTED", t)

Advance(c) ==
  /\ caseState[c] \in CaseState
  /\ \E t \in CaseState :
       caseState' = [caseState EXCEPT ![c] = t] /\ Path(caseState[c], t)

Next == \E c \in Cases : Open(c) \/ Advance(c)

Spec == Init /\ [][Next]_caseState
=============================================================================
