--------------------------- MODULE RecoveryMandate ---------------------------
(***************************************************************************)
(* What governed execution promises about one case.  Authority may come    *)
(* and go while the case is open, never for two decisions at a time.  An   *)
(* action is claimed under authority only, a claim opens one link at most  *)
(* (perhaps much later, when the authority is gone), and one action is     *)
(* counted as the recovery, in the step in which authority, a link and an  *)
(* open case come together.                                                *)
(***************************************************************************)
EXTENDS Naturals

CONSTANT Decisions
VARIABLES phase,      \* of the case: "open", "waiting" for its outcome or "closed"
          authority,  \* the decision that permits an action now, if any
          claims,     \* decision -> how often its action was claimed
          opened,     \* decision -> how many links were opened for it
          counted     \* the decision whose link counts as the recovery, if any

mandateVars == <<phase, authority, claims, opened, counted>>

Init ==
  /\ phase = "open"
  /\ authority = {}
  /\ claims = [k \in Decisions |-> 0]
  /\ opened = [k \in Decisions |-> 0]
  /\ counted = {}

Decide ==
  /\ phase = "open"
  /\ authority' \in {{}} \cup {{k} : k \in Decisions}
  /\ phase' \in {"open", "closed"}
  /\ UNCHANGED <<claims, opened, counted>>

Claim(k) ==
  /\ phase = "open"
  /\ k \in authority
  /\ claims' = [claims EXCEPT ![k] = @ + 1]
  /\ UNCHANGED <<phase, authority, opened, counted>>

Open(k) ==
  /\ opened[k] < claims[k]
  /\ opened' = [opened EXCEPT ![k] = @ + 1]
  /\ UNCHANGED <<phase, authority, claims, counted>>

Count(k) ==
  /\ phase = "open"
  /\ k \in authority
  /\ opened[k] > 0
  /\ counted = {}
  /\ counted' = {k}
  /\ phase' = "waiting"
  /\ UNCHANGED <<authority, claims, opened>>

\* The action is to wait: nothing is opened, nothing counted.
Wait(k) ==
  /\ phase = "open"
  /\ k \in authority
  /\ claims[k] > 0
  /\ phase' = "waiting"
  /\ UNCHANGED <<authority, claims, opened, counted>>

Close ==
  /\ phase # "closed"
  /\ phase' = "closed"
  /\ UNCHANGED <<authority, claims, opened, counted>>

Next ==
  \/ Decide
  \/ \E k \in Decisions : Claim(k) \/ Open(k) \/ Count(k) \/ Wait(k)
  \/ Close

Spec == Init /\ [][Next]_mandateVars
=============================================================================
