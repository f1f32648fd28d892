------------------------------ MODULE ReadModels ------------------------------
(***************************************************************************)
(* The page of one case (arc/read_models/queries.py), read while observers *)
(* and reconciliation write it (Outcomes).                                 *)
(*                                                                         *)
(* A projection is not one read.  selectinload fetches the case and then   *)
(* each of its relationships with a SELECT of its own, in an order the     *)
(* library chooses, and at the default isolation of the database every     *)
(* SELECT sees what is committed by then: a page may join a case as it was *)
(* with rows that are younger.  Readers do not disturb each other, so one, *)
(* at any time, stands for all.                                            *)
(*                                                                         *)
(* Every case of Outcomes has an action, so what a page shows of cases     *)
(* without one (ALREADY_CAPTURED) is left out, and so are columns that are *)
(* only displayed and relationships nothing here writes.                   *)
(***************************************************************************)
EXTENDS Outcomes

CONSTANT Page   \* the case that is looked at

ASSUME PageAssumption == Page \in Cases

VARIABLE detail   \* the page: the tables read so far, and what was found in them

pageVars == <<vars, detail>>

Blank == [read |-> {}, state |-> "none", outcome |-> "none", attributed |-> {}]

\* The relationships of _CASE_OPTIONS that are written here.
CASE_OPTIONS == {"outcome_observations", "attributions"}

Tables == {"payment_cases"} \cup CASE_OPTIONS

\* (mutant) the case itself is fetched on demand, as its relationships are
loadable_lazily(read) == Tables \ read

\* selectinload needs the keys of the case before it fetches a relationship.
loadable(read) == IF read = {} THEN {"payment_cases"} ELSE CASE_OPTIONS \ read

\* _latest: the outcome of the youngest observation.
Latest(c) ==
  IF observations[c] = <<>> THEN "none" ELSE observations[c][Len(observations[c])].outcome

\* get_case_detail: one of its SELECTs.
select_table ==
  \E table \in loadable(detail.read) :
    /\ detail' =
         [read       |-> detail.read \cup {table},
          state      |-> IF table = "payment_cases" THEN row[Page].state ELSE detail.state,
          outcome    |-> IF table = "outcome_observations" THEN Latest(Page)
                                                           ELSE detail.outcome,
          attributed |-> IF table = "attributions" /\ Attributed(Page)
                           THEN {attribution[Page].amount} ELSE detail.attributed]
    /\ UNCHANGED vars

\* _resolution_kind, for a case with an action.
resolution_kind(d, decision) ==
  CASE d.attributed # {} -> "ARC_RECOVERED"
    [] d.attributed = {} /\ d.state \in {"EXHAUSTED", "ESCALATED"} -> d.state
    [] d.attributed = {} /\ d.state \notin {"EXHAUSTED", "ESCALATED"} ->
         IF decision = "REQUIRES_APPROVAL" THEN "REQUIRES_APPROVAL"
         ELSE IF d.state = "WAITING_FOR_OUTCOME" THEN "AWAITING_OUTCOME"
         ELSE "PENDING"

PageInit == Init /\ detail = Blank

PageNext == (Next /\ UNCHANGED detail) \/ select_table

PageSpec == PageInit /\ [][PageNext]_pageVars /\ Fairness

-----------------------------------------------------------------------------
(* Properties.                                                              *)

Complete == detail.read = Tables

\* However the writers interleave with the SELECTs of a page, the page neither invents
\* recovered revenue nor hides it behind a case that looks settled: what it calls
\* recovered by ARC is attributed, with the amount shown; a case it shows RECOVERED by
\* anything else is not credited to ARC, then or ever after; and such a case is never
\* shown beside an outcome that claims the recovery (_resolution_kind, get_case_detail).
PageTellsTheTruth ==
  Complete => \A decision \in {"AUTHORIZED", "REQUIRES_APPROVAL"} :
    LET shown == resolution_kind(detail, decision)
    IN  /\ shown = "ARC_RECOVERED" =>
             Attributed(Page) /\ detail.attributed = {attribution[Page].amount}
        /\ detail.state = "RECOVERED" /\ shown # "ARC_RECOVERED" =>
             ~Attributed(Page) /\ detail.outcome # "RECOVERED"
=============================================================================
