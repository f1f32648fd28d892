---------------------------- MODULE DecisionBook ----------------------------
(***************************************************************************)
(* What strategy generation promises about one case.  Each reading of the  *)
(* case at the provider is decided upon once at most, until a decision is  *)
(* validated; a decision replaces the one before it; and only a decision   *)
(* about the newest reading is ever validated or acted upon, once.         *)
(***************************************************************************)
EXTENDS Naturals

CONSTANTS Actions,    \* what may be decided
          Counted     \* the actions that count as an attempt
VARIABLES phase,      \* "undecided", "decided", "validated", "waiting" or "closed"
          reading,    \* the newest reading of the case
          decided,    \* the readings that were decided upon
          inForce,    \* the decision in force, if any
          attempts

bookVars == <<phase, reading, decided, inForce, attempts>>

Init ==
  /\ phase = "undecided"
  /\ reading = 1
  /\ decided = {}
  /\ inForce = {}
  /\ attempts = 0

\* Reading a case may close it, and closed cases are read, too.
Read ==
  /\ reading' = reading + 1
  /\ phase' \in {phase, "closed"}
  /\ UNCHANGED <<decided, inForce, attempts>>

Decide(action) ==
  /\ phase \in {"undecided", "decided"}
  /\ reading \notin decided
  /\ phase' = "decided"
  /\ decided' = decided \cup {reading}
  /\ inForce' = {[reading |-> reading, action |-> action]}
  /\ UNCHANGED <<reading, attempts>>

Validate(action) ==
  /\ phase \in {"decided", "validated"}
  /\ [reading |-> reading, action |-> action] \in inForce
  /\ phase' \in {"validated", "closed"}
  /\ UNCHANGED <<reading, decided, inForce, attempts>>

Act(action) ==
  /\ phase = "validated"
  /\ [reading |-> reading, action |-> action] \in inForce
  /\ phase' \in {"waiting", "closed"}
  /\ attempts' = IF action \in Counted THEN attempts + 1 ELSE attempts
  /\ UNCHANGED <<reading, decided, inForce>>

Close ==
  /\ phase \in {"validated", "waiting"}
  /\ phase' = "closed"
  /\ UNCHANGED <<reading, decided, inForce, attempts>>

Next ==
  \/ Read
  \/ \E action \in Actions : Decide(action) \/ Validate(action) \/ Act(action)
  \/ Close

Spec == Init /\ [][Next]_bookVars
=============================================================================
