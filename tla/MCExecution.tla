----------------------------- MODULE MCExecution -----------------------------
(* Instances of RecoveryExecution for TLC.                                  *)
EXTENDS RecoveryExecution, TLC

CONSTANTS w1, w2, open, strict

TwoWorkers == {w1, w2}
WorkerSymmetry == Permutations(TwoWorkers)

\* open lets the action run on its own, strict asks for approval from 100 on.
Permissive ==
  [present |-> TRUE, valid |-> TRUE, allowed |-> TRUE, blocked_category |-> FALSE,
   blocked_method |-> FALSE, window |-> TRUE, max_automated_attempts |-> 1,
   max_contact_attempts |-> 1, approval_action |-> FALSE, require_approval_above |-> {},
   automation_enabled |-> TRUE]
Configurations ==
  (open :> Permissive) @@ (strict :> [Permissive EXCEPT !.require_approval_above = {100}])
OpenAndStrict == {open, strict}
Invoice == {{100}}
=============================================================================
