-------------------------- MODULE ReadModels_proofs --------------------------
(***************************************************************************)
(* The page of a case tells the truth for any number of observers and      *)
(* cases, and in whatever order its tables are read.  A page only reads,   *)
(* so everything Outcomes_proofs shows holds beside it.                    *)
(***************************************************************************)
EXTENDS ReadModels, Outcomes_proofs

-----------------------------------------------------------------------------
(* What does not change under a page that is being put together.            *)

\* An attribution is written once.
LEMMA AttributionStays ==
  ASSUME TypeOK, ClassifiedSound, [Next]_vars, NEW c \in Cases, Attributed(c)
  PROVE  attribution'[c] = attribution[c]
<1>0. attribution \in [Cases -> Attribution]
  BY DEF TypeOK
<1>1. ASSUME NEW o \in Observers, persist_observation(o)
      PROVE  attribution'[c] = attribution[c]
  <2>1. PICK d \in Cases, s \in Snapshots, r \in OutcomeClassification : Commits(d, s, r)
    BY <1>1, PersistWrites
  <2> QED BY <1>0, <2>1 DEF Commits, Attributed
<1> QED BY <1>1, OnlyPersistWrites

\* A RECOVERED case stays so: an outcome moves waiting cases only, and reconciliation
\* open ones.
LEMMA RecoveredStays ==
  ASSUME TypeOK, ClassifiedSound, [Next]_vars, NEW c \in Cases, row[c].state = "RECOVERED"
  PROVE  row'[c].state = "RECOVERED"
<1>0. row \in [Cases -> OutcomeRow]
  BY DEF TypeOK
<1>1. ASSUME NEW o \in Observers, persist_observation(o)
      PROVE  row'[c].state = "RECOVERED"
  <2>1. PICK d \in Cases, s \in Snapshots, r \in OutcomeClassification : Commits(d, s, r)
    BY <1>1, PersistWrites
  <2>2. row'[c] = row[c]
    BY <1>0, <2>1 DEF Commits, AfterOutcome
  <2> QED BY <2>2
<1>2. ASSUME NEW d \in Cases, NEW status \in {"captured", "refunded", "failed"},
             NEW amount \in Amounts, reconcile(d, status, amount)
      PROVE  row'[c].state = "RECOVERED"
  <2>1. CASE d # c
    BY <1>0, <1>2, <2>1 DEF reconcile
  <2>2. CASE d = c
    <3>1. row[c].state \in TERMINAL_CASE_STATES
      BY DEF TERMINAL_CASE_STATES
    <3>2. row'[c] = [state |-> row[c].state, amount |-> amount, resolved |-> row'[c].resolved]
      BY <1>0, <1>2, <2>2, <3>1 DEF reconcile
    <3> QED BY <3>2
  <2> QED BY <2>1, <2>2
<1>3. CASE UNCHANGED row
  BY <1>3
<1>4. \/ UNCHANGED row
      \/ \E o \in Observers : persist_observation(o)
      \/ \E d \in Cases, status \in {"captured", "refunded", "failed"}, amount \in Amounts :
           reconcile(d, status, amount)
  BY DEF Next, ObserverStep, prepare_claim, fetch_by_id, classify_observation,
     observation_fails, late_finalizer, ProviderMoves, vars
<1> QED BY <1>1, <1>2, <1>3, <1>4

\* An observation that claims the recovery was committed with the attribution.
CreditedWhenObserved ==
  \A c \in Cases : "RECOVERED" \in Outcomes(c) => Attributed(c)

LEMMA CreditedStep ==
  ASSUME TypeOK, ClassifiedSound, CreditedWhenObserved, [Next]_vars
  PROVE  CreditedWhenObserved'
<1>0. attribution \in [Cases -> Attribution] /\ observations \in [Cases -> Seq(Observation)]
  BY DEF TypeOK
<1>1. CASE UNCHANGED <<observations, attribution>>
  BY <1>1 DEF CreditedWhenObserved, Outcomes, Attributed
<1>2. ASSUME NEW o \in Observers, persist_observation(o), NEW c \in Cases,
             "RECOVERED" \in Outcomes(c)'
      PROVE  Attributed(c)'
  <2>1. PICK d \in Cases, s \in Snapshots, r \in OutcomeClassification : Commits(d, s, r)
    BY <1>2, PersistWrites
  <2>2. CASE d # c
    <3>1. observations'[c] = observations[c] /\ attribution'[c] = attribution[c]
      BY <1>0, <2>1, <2>2 DEF Commits
    <3> QED BY <1>2, <3>1 DEF CreditedWhenObserved, Outcomes, Attributed
  <2>3. CASE d = c
    <3>1. "RECOVERED" \in Outcomes(c) \/ r.outcome = "RECOVERED"
      BY <1>2, <2>1, <2>3, CommitsOutcome
    <3>2. CASE Attributed(c)
      BY <3>2, AttributionStays DEF Attributed
    <3>3. CASE ~Attributed(c)
      BY <1>0, <2>1, <2>3, <3>1, <3>3, NoPaymentAssumption
         DEF CreditedWhenObserved, Attributed, Commits
    <3> QED BY <3>2, <3>3
  <2> QED BY <2>2, <2>3
<1> QED BY <1>1, <1>2, OnlyPersistWrites DEF CreditedWhenObserved

-----------------------------------------------------------------------------
(* What the page knows.                                                     *)

\* The case is read first; what was attributed then still is; and a case that was
\* RECOVERED without an attribution, read after it, has none now.
PageKnows ==
  /\ detail.read # {} => "payment_cases" \in detail.read
  /\ detail.attributed # {} =>
       Attributed(Page) /\ detail.attributed = {attribution[Page].amount}
  /\ detail.outcome = "RECOVERED" => Attributed(Page)
  /\ detail.state = "RECOVERED" =>
       /\ row[Page].state = "RECOVERED"
       /\ "attributions" \in detail.read /\ detail.attributed = {} => ~Attributed(Page)

\* The outcome of the youngest observation is one of those on record.
LEMMA LatestIsOnRecord ==
  ASSUME TypeOK, NEW c \in Cases, Latest(c) = "RECOVERED"
  PROVE  "RECOVERED" \in Outcomes(c)
<1>1. observations[c] \in Seq(Observation) /\ observations[c] # <<>>
  BY DEF TypeOK, Latest
<1>2. Len(observations[c]) \in DOMAIN observations[c]
  BY <1>1
<1> QED BY <1>1, <1>2 DEF Latest, Outcomes

\* One more SELECT, whichever table it reads.
LEMMA SelectStep ==
  ASSUME TypeOK, CreditedWhenObserved, PageKnows, select_table
  PROVE  PageKnows'
<1>1. PICK table \in loadable(detail.read) :
        detail' =
          [read       |-> detail.read \cup {table},
           state      |-> IF table = "payment_cases" THEN row[Page].state ELSE detail.state,
           outcome    |-> IF table = "outcome_observations" THEN Latest(Page)
                                                            ELSE detail.outcome,
           attributed |-> IF table = "attributions" /\ Attributed(Page)
                            THEN {attribution[Page].amount} ELSE detail.attributed]
  BY DEF select_table
<1>2. UNCHANGED <<row, attribution, observations>>
  BY DEF select_table, vars
<1>3. /\ detail'.read = detail.read \cup {table}
      /\ table = "payment_cases" => detail'.state = row[Page].state
      /\ table # "payment_cases" => detail'.state = detail.state
      /\ table = "outcome_observations" => detail'.outcome = Latest(Page)
      /\ table # "outcome_observations" => detail'.outcome = detail.outcome
      /\ table = "attributions" /\ Attributed(Page) =>
           detail'.attributed = {attribution[Page].amount}
      /\ ~(table = "attributions" /\ Attributed(Page)) => detail'.attributed = detail.attributed
  BY <1>1
<1>4. CASE detail.read = {}
  <2>1. table = "payment_cases"
    BY <1>4 DEF loadable
  <2> QED BY <1>2, <1>3, <1>4, <2>1 DEF PageKnows, Attributed
<1>5. CASE detail.read # {}
  <2>1. table \in {"outcome_observations", "attributions"} /\ "payment_cases" \in detail.read
    BY <1>5 DEF loadable, CASE_OPTIONS, PageKnows
  <2>2. CASE table = "outcome_observations"
    <3>1. Latest(Page) = "RECOVERED" => Attributed(Page)
      BY LatestIsOnRecord, PageAssumption DEF CreditedWhenObserved
    <3> QED BY <1>2, <1>3, <2>1, <2>2, <3>1 DEF PageKnows, Attributed
  <2>3. CASE table = "attributions"
    BY <1>2, <1>3, <2>1, <2>3 DEF PageKnows, Attributed
  <2> QED BY <2>1, <2>2, <2>3
<1> QED BY <1>4, <1>5

\* A step of the writers between two SELECTs.
LEMMA WriterStep ==
  ASSUME TypeOK, ClassifiedSound, PageKnows, [Next]_vars, UNCHANGED detail
  PROVE  PageKnows'
<1>1. Page \in Cases
  BY PageAssumption
<1>2. Attributed(Page) => attribution'[Page] = attribution[Page] /\ Attributed(Page)'
  BY <1>1, AttributionStays DEF Attributed
<1>3. row[Page].state = "RECOVERED" =>
        row'[Page].state = "RECOVERED" /\ (~Attributed(Page) => ~Attributed(Page)')
  BY <1>1, RecoveredStays, CreditStep
<1> QED BY <1>2, <1>3 DEF PageKnows

\* A behaviour with a page is a behaviour of its writers.
LEMMA PageOnlyReads == PageSpec => Spec
<1>1. PageInit => Init
  BY DEF PageInit
<1>2. [PageNext]_pageVars => [Next]_vars
  BY DEF PageNext, select_table, pageVars
<1> QED BY <1>1, <1>2, PTL DEF PageSpec, Spec

\* The page knows this after every step.
LEMMA KnowsAlways == PageSpec => [](CreditedWhenObserved /\ PageKnows)
<1>1. PageInit => CreditedWhenObserved /\ PageKnows
  BY DEF PageInit, Init, Blank, CreditedWhenObserved, Outcomes, PageKnows
<1>2. ASSUME TypeOK, ClassifiedSound, CreditedWhenObserved, PageKnows, [PageNext]_pageVars
      PROVE  CreditedWhenObserved' /\ PageKnows'
  <2>1. [Next]_vars /\ (UNCHANGED detail \/ select_table)
    BY <1>2 DEF PageNext, select_table, pageVars
  <2> QED BY <1>2, <2>1, CreditedStep, SelectStep, WriterStep
<1> QED BY <1>1, <1>2, PageOnlyReads, TypeCorrect, SoundAlways, PTL DEF PageSpec

\* A complete page shows the truth about a case that its writers may have moved after
\* each of its SELECTs (PageTellsTheTruth, get_case_detail).
THEOREM PageTellsTheTruthHolds == PageSpec => []PageTellsTheTruth
<1>1. ASSUME PageKnows PROVE PageTellsTheTruth
  <2> SUFFICES ASSUME Complete, NEW decision \in {"AUTHORIZED", "REQUIRES_APPROVAL"}
               PROVE  /\ resolution_kind(detail, decision) = "ARC_RECOVERED" =>
                           Attributed(Page) /\ detail.attributed = {attribution[Page].amount}
                      /\ detail.state = "RECOVERED"
                         /\ resolution_kind(detail, decision) # "ARC_RECOVERED" =>
                              ~Attributed(Page) /\ detail.outcome # "RECOVERED"
    BY DEF PageTellsTheTruth
  <2>1. "attributions" \in detail.read
    BY DEF Complete, Tables, CASE_OPTIONS
  <2>2. resolution_kind(detail, decision) = "ARC_RECOVERED" <=> detail.attributed # {}
    BY DEF resolution_kind
  <2> QED BY <1>1, <2>1, <2>2 DEF PageKnows
<1> QED BY <1>1, KnowsAlways, PTL
=============================================================================
