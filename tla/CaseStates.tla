----------------------------- MODULE CaseStates -----------------------------
(***************************************************************************)
(* The lifecycle of a recovery case (arc/reconciliation/state_machine.py)  *)
(* and the audited transition every service uses to move a case.           *)
(*                                                                         *)
(* A case row keeps the fields the properties tell apart: its lifecycle    *)
(* state, the external status last reconciled into it, whether resolved_at *)
(* is set, and the trail of CASE_DETECTED and CASE_STATE_TRANSITION audit  *)
(* rows.  Reason codes and the other columns are left out.                 *)
(***************************************************************************)
EXTENDS Naturals, Sequences

TERMINAL_CASE_STATES == {"RECOVERED", "EXHAUSTED", "ESCALATED"}

CaseState ==
  {"DETECTED", "RECONCILING", "DIAGNOSED", "DECISIONED", "POLICY_VALIDATED",
   "ACTIONED", "WAITING_FOR_OUTCOME"} \cup TERMINAL_CASE_STATES

\* The single forward step of every open state.
ForwardTransitions ==
  {<<"DETECTED", "RECONCILING">>, <<"RECONCILING", "DIAGNOSED">>,
   <<"DIAGNOSED", "DECISIONED">>, <<"DECISIONED", "POLICY_VALIDATED">>,
   <<"POLICY_VALIDATED", "ACTIONED">>, <<"ACTIONED", "WAITING_FOR_OUTCOME">>}

\* _ALLOWED_TRANSITIONS: an open case steps forward or ends; a terminal one
\* has no successor.
AllowedTransitions(s) ==
  {t \in CaseState : \/ <<s, t>> \in ForwardTransitions
                     \/ s \notin TERMINAL_CASE_STATES /\ t \in TERMINAL_CASE_STATES}

can_transition(s, t) == s = t \/ t \in AllowedTransitions(s)

-----------------------------------------------------------------------------
\* "NONE" stands for a case that has no row.
NoCase == [state |-> "NONE", status |-> "none", resolved |-> FALSE, trail |-> <<>>]

\* A freshly inserted row with its CASE_DETECTED audit row.
DetectedCase ==
  [NoCase EXCEPT !.state = "DETECTED", !.trail = <<<<"NONE", "DETECTED">>>>]

\* (mutant) the move is written without its audit row
transition_case_unaudited(c, t) == [c EXCEPT !.state = t]

\* transition_case once its guard has been passed: repeating the current state
\* writes nothing, any other target is written together with its audit row.
transition_case(c, t) ==
  IF c.state = t
    THEN c
    ELSE [c EXCEPT !.state = t, !.trail = Append(@, <<c.state, t>>)]

\* (mutant) the guard is dropped
transition_always(c, t) == transition_case(c, t)

\* transition_if_allowed: skipped, not refused, when the guard fails.
transition_if_allowed(c, t) ==
  IF can_transition(c.state, t) THEN transition_case(c, t) ELSE c

\* The two steps reconciliation takes to close a case: move it if allowed, then
\* stamp resolved_at when the case is in the target state.
CloseAs(c, t) ==
  LET moved == transition_if_allowed(c, t)
  IN  IF moved.state = t THEN [moved EXCEPT !.resolved = TRUE] ELSE moved
=============================================================================
