-------------------------- MODULE RecoveryExecution --------------------------
(***************************************************************************)
(* The governed executor, arc/execution/service.py, running beside policy  *)
(* evaluation, approval and reconciliation (module Authorization) and      *)
(* against the Payment Link provider                                       *)
(* (arc/integrations/razorpay/payment_links.py).                           *)
(*                                                                         *)
(* Any number of callers run execute concurrently.  A caller claims the    *)
(* action row of the current decision in one transaction, calls the        *)
(* provider outside any transaction and records what it learnt in another  *)
(* one.  A claim may be taken over once its lease has run out; claims have *)
(* no attempt number that a late caller could be recognised by.            *)
(***************************************************************************)
EXTENDS Authorization, PaymentLinks, FiniteSets

CONSTANTS
  Workers,           \* concurrent callers of execute
  Lease,             \* EXECUTION_LEASE_SECONDS, in ticks
  MaxClaims,         \* bound: claims of one action row
  UniqueReferences   \* does the provider refuse a second link for a reference?

ASSUME ExecutionAssumption ==
  Lease \in Nat \ {0} /\ MaxClaims \in Nat \ {0} /\ UniqueReferences \in BOOLEAN

VARIABLES
  record,     \* recovery_actions: decision -> [status, age, claims, link]
  links,      \* the provider's links: reference (one per decision) -> statuses
  worker,     \* the local state of every caller
  succeeded   \* history: decisions whose external action was ever recorded SUCCEEDED

execVars == <<record, links, worker, succeeded>>
vars == <<authVars, execVars>>

-----------------------------------------------------------------------------
FINAL_EXECUTION_STATUSES == {"SUCCEEDED", "FAILED", "CANCELLED", "COMPENSATION_REQUIRED"}

UNSUPPORTED_ACTIONS == {"REQUEST_RETRY", "REQUEST_PAYMENT_METHOD_UPDATE"}

\* PREPARED never outlives the transaction that inserts the row.
RecoveryExecutionStatus == {"IN_PROGRESS", "INDETERMINATE"} \cup FINAL_EXECUTION_STATUSES

\* "closed" is a paid or expired link: the executor never tells them apart.
LinkStatus == {"created", "closed", "cancelled"}

\* age is the time since execution_started_at, kept up to the lease and while
\* IN_PROGRESS; link is the provider link projected into the row, 0 for none.
NoRecord == [status |-> "NONE", age |-> 0, claims |-> 0, link |-> 0]

ActionRecord == [status : RecoveryExecutionStatus \cup {"NONE"}, age : 0..Lease,
                 claims : Nat, link : Nat]

NoKey == [policy |-> "none", expired |-> FALSE]

\* problem: the status a failed provider call is to be recorded with.
Idle == [pc |-> "idle", key |-> NoKey, link |-> 0, problem |-> "none"]

Caller == [pc : {"idle", "claimed", "absent", "found", "problem", "compensating",
                 "compensated", "uncompensated"},
           key : Keys \cup {NoKey}, link : Nat,
           problem : {"none", "INDETERMINATE", "FAILED"}]

\* Every variable keeps its type, and a caller between two transactions always has
\* the decision it claimed and, after a failed call, the status to record.
TypeOK ==
  /\ AuthTypeOK
  /\ record \in [Keys -> ActionRecord]
  /\ links \in [Keys -> Seq(LinkStatus)]
  /\ worker \in [Workers -> Caller]
  /\ \A w \in Workers : worker[w].pc # "idle" => worker[w].key \in Keys
  /\ \A w \in Workers : worker[w].pc = "problem" => worker[w].problem # "none"
  /\ succeeded \subseteq Keys

Init ==
  /\ AuthInit
  /\ record = [k \in Keys |-> NoRecord]
  /\ links = [k \in Keys |-> <<>>]
  /\ worker = [w \in Workers |-> Idle]
  /\ succeeded = {}

-----------------------------------------------------------------------------
(* The claim.                                                               *)

\* _current_inputs: the decision's inputs are the present ones and permit.
InputsCurrent(k) ==
  /\ valid
  /\ k = CurrentKey
  /\ decisions[k].result = Evaluation.result
  /\ decisions[k].reason = Evaluation.reason
  /\ decisions[k].result # "BLOCKED"

\* The record may be claimed: not final and not freshly leased.
Executable(row) ==
  /\ row.status \notin FINAL_EXECUTION_STATUSES
  /\ row.status = "IN_PROGRESS" => row.age >= Lease

\* (mutant) the approval is not looked at
prepare_and_claim_unapproved(w, k) ==
  /\ worker[w].pc = "idle"
  /\ IsCurrent(k)
  /\ Executable(record[k])
  /\ pcase.state = "POLICY_VALIDATED"
  /\ InputsCurrent(k)
  /\ record[k].claims < MaxClaims
  /\ record' = [record EXCEPT ![k] = [status |-> "IN_PROGRESS", age |-> 0,
                                      claims |-> @.claims + 1, link |-> @.link]]
  /\ worker' = [worker EXCEPT ![w] = [pc |-> "claimed", key |-> k, link |-> 0,
                                      problem |-> "none"]]
  /\ UNCHANGED <<authVars, links, succeeded>>

\* _prepare_and_claim: insert the intent if there is none, and claim it.  A link
\* needs an amount; the recovery window was checked with the inputs.
prepare_and_claim(w, k) ==
  /\ worker[w].pc = "idle"
  /\ IsCurrent(k)
  /\ Executable(record[k])
  /\ pcase.state = "POLICY_VALIDATED"
  /\ InputsCurrent(k)
  /\ is_execution_permitted(k)
  /\ action = "CREATE_RECOVERY_LINK" => \E a \in pcase.amount : a > 0
  /\ record[k].claims < MaxClaims
  /\ record' = [record EXCEPT ![k] = [status |-> "IN_PROGRESS", age |-> 0,
                                      claims |-> @.claims + 1, link |-> @.link]]
  /\ worker' = [worker EXCEPT ![w] = [pc |-> "claimed", key |-> k, link |-> 0,
                                      problem |-> "none"]]
  /\ UNCHANGED <<authVars, links, succeeded>>

-----------------------------------------------------------------------------
(* Provider calls of _execute_payment_link, outside any transaction.        *)

Reached(w, pc) == worker' = [worker EXCEPT ![w].pc = pc]

Found(w, n) ==
  worker' = [worker EXCEPT ![w] = [pc |-> "found", key |-> @.key, link |-> n,
                                   problem |-> "none"]]
Problem(w, status) ==
  worker' = [worker EXCEPT ![w] = [pc |-> "problem", key |-> @.key, link |-> 0,
                                   problem |-> status]]

\* (mutant) no lookup before the link is created
lookup_skipped(w) ==
  /\ worker[w].pc = "claimed"
  /\ action = "CREATE_RECOVERY_LINK"
  /\ Reached(w, "absent")
  /\ UNCHANGED <<authVars, record, links, succeeded>>

\* lookup_by_reference.  One link that fits the request is adopted whatever its status;
\* an error, another link or more than one make the action INDETERMINATE.
lookup_by_reference(w) ==
  LET found == Len(links[worker[w].key])
  IN  /\ worker[w].pc = "claimed"
      /\ action = "CREATE_RECOVERY_LINK"
      /\ \E answer \in LookupAnswers :
           \/ answer.read /\ found = 0 /\ Reached(w, "absent")
           \/ answer.read /\ found = 1 /\ answer.fits /\ Found(w, 1)
           \/ /\ answer.read => found > 1 \/ (found = 1 /\ ~answer.fits)
              /\ Problem(w, "INDETERMINATE")
      /\ UNCHANGED <<authVars, record, links, succeeded>>

\* What an attempt to create comes to: an error is final unless its outcome is uncertain.
CreateOutcomes ==
  [applied \in BOOLEAN |-> {IF result = "OK" THEN "found"
                            ELSE IF result = "OUTCOME_UNCERTAIN" THEN "INDETERMINATE"
                            ELSE "FAILED"
                            : result \in CreateAnswers[applied]}]

CancelOutcomes ==
  [applied \in BOOLEAN |-> {IF result = "OK" THEN "compensated" ELSE "uncompensated"
                            : result \in CancelAnswers[applied]}]

\* (mutant) a create whose outcome is uncertain is sent again under the same claim
create_resent(w) ==
  LET k == worker[w].key
      n == Len(links[k]) + 1
  IN  /\ worker[w].pc = "absent"
      /\ \E applied \in BOOLEAN : \E outcome \in CreateOutcomes[applied] :
           /\ applied /\ UniqueReferences => n = 1
           /\ links' = IF applied THEN [links EXCEPT ![k] = Append(@, "created")] ELSE links
           /\ CASE outcome = "found"         -> Found(w, n)
                [] outcome = "INDETERMINATE" -> Len(links[k]) < 3 /\ UNCHANGED worker
                [] OTHER                     -> Problem(w, outcome)
      /\ UNCHANGED <<authVars, record, succeeded>>

\* create.  The provider may carry the request out or not, and the caller gets any answer
\* that this allows.
create(w) ==
  LET k == worker[w].key
      n == Len(links[k]) + 1
  IN  /\ worker[w].pc = "absent"
      /\ \E applied \in BOOLEAN : \E outcome \in CreateOutcomes[applied] :
           /\ applied /\ UniqueReferences => n = 1
           /\ links' = IF applied THEN [links EXCEPT ![k] = Append(@, "created")] ELSE links
           /\ IF outcome = "found" THEN Found(w, n) ELSE Problem(w, outcome)
      /\ UNCHANGED <<authVars, record, succeeded>>

\* cancel.  The provider cancels a link that is still open and refuses otherwise.
cancel(w) ==
  LET k == worker[w].key
      n == worker[w].link
  IN  /\ worker[w].pc = "compensating"
      /\ \E applied \in BOOLEAN : \E outcome \in CancelOutcomes[applied] :
           /\ applied => links[k][n] = "created"
           /\ links' = IF applied THEN [links EXCEPT ![k][n] = "cancelled"] ELSE links
           /\ Reached(w, outcome)
      /\ UNCHANGED <<authVars, record, succeeded>>

-----------------------------------------------------------------------------
(* The finishing transactions.                                              *)

Return(w) == worker' = [worker EXCEPT ![w] = Idle]

WithStatus(row, status) ==
  [status |-> status, age |-> 0, claims |-> row.claims, link |-> row.link]
WithLink(row, status, n) ==
  [status |-> status, age |-> 0, claims |-> row.claims, link |-> n]

\* (mutant) a late caller's problem is recorded over a final record
finalize_provider_problem_over_final(w) ==
  LET k == worker[w].key
  IN  /\ worker[w].pc = "problem"
      /\ record' = [record EXCEPT ![k] = WithStatus(@, worker[w].problem)]
      /\ Return(w)
      /\ UNCHANGED <<authVars, links, succeeded>>

\* _finalize_provider_problem: a final record is left alone.
finalize_provider_problem(w) ==
  LET k == worker[w].key
  IN  /\ worker[w].pc = "problem"
      /\ record' = IF record[k].status \in FINAL_EXECUTION_STATUSES
                     THEN record
                     ELSE [record EXCEPT ![k] = WithStatus(@, worker[w].problem)]
      /\ Return(w)
      /\ UNCHANGED <<authVars, links, succeeded>>

\* (mutant) only the authority is checked again after the provider call
post_request_authority_only(k) == IsCurrent(k) /\ is_execution_permitted(k)

\* _post_request_context_is_current
post_request_context_is_current(k) ==
  /\ pcase.state = "POLICY_VALIDATED"
  /\ IsCurrent(k)
  /\ InputsCurrent(k)
  /\ is_execution_permitted(k)

\* (mutant) a success is compensated too
finalize_external_success_compensates(w) ==
  LET k == worker[w].key
  IN  /\ worker[w].pc = "found"
      /\ record' = [record EXCEPT ![k] = WithLink(@, "SUCCEEDED", worker[w].link)]
      /\ Reached(w, "compensating")
      /\ UNCHANGED <<authVars, links, succeeded>>

\* _finalize_external_success.  Whatever the record says by now is overwritten.
finalize_external_success(w) ==
  LET k == worker[w].key
  IN  /\ worker[w].pc = "found"
      /\ IF post_request_context_is_current(k)
           THEN /\ record' = [record EXCEPT ![k] = WithLink(@, "SUCCEEDED", worker[w].link)]
                /\ pcase' = [state |-> "WAITING_FOR_OUTCOME", amount |-> pcase.amount,
                             attempts |-> pcase.attempts + 1, contacts |-> pcase.contacts + 1]
                /\ succeeded' = succeeded \cup {k}
                /\ Return(w)
           ELSE /\ record' = [record EXCEPT ![k] =
                                WithLink(@, "COMPENSATION_REQUIRED", worker[w].link)]
                /\ Reached(w, "compensating")
                /\ UNCHANGED <<pcase, succeeded>>
      /\ UNCHANGED <<action, valid, policy, passed, decisions, approval, links>>

\* (mutant) a cancellation is taken as done without confirmation
finalize_compensation_unconfirmed(w) ==
  LET k == worker[w].key
  IN  /\ worker[w].pc \in {"compensated", "uncompensated"}
      /\ record' = [record EXCEPT ![k] = WithLink(@, "CANCELLED", worker[w].link)]
      /\ Return(w)
      /\ UNCHANGED <<authVars, links, succeeded>>

\* _finalize_compensation
finalize_compensation(w) ==
  LET k == worker[w].key
      status == IF worker[w].pc = "compensated" THEN "CANCELLED" ELSE "COMPENSATION_REQUIRED"
  IN  /\ worker[w].pc \in {"compensated", "uncompensated"}
      /\ record' = [record EXCEPT ![k] = WithLink(@, status, worker[w].link)]
      /\ Return(w)
      /\ UNCHANGED <<authVars, links, succeeded>>

\* Where _execute_internal leaves the case.
InternalTarget ==
  CASE action = "WAIT"              -> "WAITING_FOR_OUTCOME"
    [] action = "NO_ACTION"         -> "EXHAUSTED"
    [] OTHER                        -> "ESCALATED"

Final(k) == record[k].status \in FINAL_EXECUTION_STATUSES

CancelStale(k) ==
  /\ record' = [record EXCEPT ![k] = WithStatus(@, "CANCELLED")]
  /\ UNCHANGED pcase

RunInternal(k) ==
  /\ record' = [record EXCEPT ![k] =
                  WithStatus(@, IF action \in UNSUPPORTED_ACTIONS THEN "FAILED" ELSE "SUCCEEDED")]
  /\ MoveCase(InternalTarget)

InternalFrame(w) ==
  /\ Return(w)
  /\ UNCHANGED <<action, valid, policy, passed, decisions, approval, links, succeeded>>

\* (mutant) a final record goes unnoticed
execute_internal_over_final(w) ==
  LET k == worker[w].key
  IN  /\ worker[w].pc = "claimed" /\ action # "CREATE_RECOVERY_LINK"
      /\ IF post_request_context_is_current(k) THEN RunInternal(k) ELSE CancelStale(k)
      /\ InternalFrame(w)

\* _execute_internal: final records are left alone, a stale authorization cancels,
\* an action without an executor fails and escalates the case.
execute_internal(w) ==
  LET k == worker[w].key
  IN  /\ worker[w].pc = "claimed"
      /\ action # "CREATE_RECOVERY_LINK"
      /\ \/ Final(k) /\ UNCHANGED <<pcase, record>>
         \/ ~Final(k) /\ ~post_request_context_is_current(k) /\ CancelStale(k)
         \/ ~Final(k) /\ post_request_context_is_current(k) /\ RunInternal(k)
      /\ InternalFrame(w)

\* The caller dies between two of its steps.
crash(w) ==
  /\ worker[w].pc # "idle"
  /\ Return(w)
  /\ UNCHANGED <<authVars, record, links, succeeded>>

-----------------------------------------------------------------------------
\* (mutant) the boundary instant still counts as leased
LeasedAtBoundary(k) == record[k].status = "IN_PROGRESS" /\ record[k].age <= Lease

Leased(k) == record[k].status = "IN_PROGRESS" /\ record[k].age < Lease

Tick ==
  /\ \E k \in Keys : Leased(k)
  /\ record' = [k \in Keys |-> IF Leased(k) THEN [record[k] EXCEPT !.age = @ + 1]
                                            ELSE record[k]]
  /\ UNCHANGED <<authVars, links, worker, succeeded>>

\* The customer pays a link, or it expires.
LinkCloses(k) ==
  /\ \E n \in DOMAIN links[k] :
       links[k][n] = "created" /\ links' = [links EXCEPT ![k][n] = "closed"]
  /\ UNCHANGED <<authVars, record, worker, succeeded>>

WorkerStep(w) ==
  \/ lookup_by_reference(w)
  \/ create(w)
  \/ cancel(w)
  \/ finalize_provider_problem(w)
  \/ finalize_external_success(w)
  \/ finalize_compensation(w)
  \/ execute_internal(w)

Next ==
  \/ AuthNext /\ UNCHANGED execVars
  \/ \E w \in Workers, k \in Keys : prepare_and_claim(w, k)
  \/ \E w \in Workers : WorkerStep(w) \/ crash(w)
  \/ Tick
  \/ \E k \in Keys : LinkCloses(k)

Spec == Init /\ [][Next]_vars

-----------------------------------------------------------------------------
(* Properties.                                                              *)

\* "Attempt and contact counters increment exactly once": over all decisions,
\* claims, retries and take-overs of a case at most one external action is ever
\* recorded as SUCCEEDED, the counters count exactly it, and from then on the
\* case is waiting for its outcome or closed.
CountedExactlyOnce ==
  /\ Cardinality(succeeded) <= 1
  /\ pcase.attempts = Cardinality(succeeded)
  /\ pcase.contacts = pcase.attempts
  /\ succeeded # {} => pcase.state \in {"WAITING_FOR_OUTCOME"} \cup TERMINAL_CASE_STATES

\* No link without authority and intent: every link at the provider was created
\* for a decision that was AUTHORIZED, or approved by a human, and whose action
\* row was committed first.
LinksArePermitted ==
  \A k \in Keys :
    links[k] # <<>> =>
      /\ record[k].status # "NONE"
      /\ \/ decisions[k].result = "AUTHORIZED"
         \/ decisions[k].result = "REQUIRES_APPROVAL" /\ approval[k] = "APPROVED"

\* A compensated action left nothing behind: a record that reads CANCELLED after a
\* provider call names a link nobody can pay any more.
CancelledMeansClosed ==
  \A k \in Keys :
    record[k].status = "CANCELLED" /\ record[k].link # 0 =>
      links[k][record[k].link] # "created"

\* Lookup before create: as long as no claim is taken over from a caller that is
\* still running, retries after crashes and uncertain writes never put two links
\* behind one reference, even if the provider would accept them.
OneLinkPerReference == \A k \in Keys : Len(links[k]) <= 1

\* Every open link is accounted for: its action is in progress, indeterminate,
\* flagged for compensation, or recorded as succeeded with exactly this link.
OpenLinksAccounted ==
  \A k \in Keys : \A n \in DOMAIN links[k] :
    links[k][n] = "created" =>
      \/ record[k].status \in {"IN_PROGRESS", "INDETERMINATE", "COMPENSATION_REQUIRED"}
      \/ record[k].status = "SUCCEEDED" /\ record[k].link = n

\* A recorded success stays one: no later call of execute touches it.
SuccessIsSettled ==
  [][\A k \in Keys : record[k].status = "SUCCEEDED" => record'[k] = record[k]]_vars

\* "designed to prevent duplicate ... recovery": one case never has two links open
\* for payment at the same time.
OneOpenLinkPerCase ==
  \A j, k \in Keys : \A m \in DOMAIN links[j], n \in DOMAIN links[k] :
    links[j][m] = "created" /\ links[k][n] = "created" => j = k /\ m = n

\* An internal action and the case agree: one record at most has run, a waiting
\* case has a WAIT recorded as succeeded however many callers were claiming it,
\* and neither a link nor a counter is touched.
InternalActionsAgree ==
  action # "CREATE_RECOVERY_LINK" =>
    /\ pcase.attempts = 0 /\ \A k \in Keys : links[k] = <<>>
    /\ Cardinality({k \in Keys : record[k].status \in {"SUCCEEDED", "FAILED"}}) <= 1
    /\ pcase.state = "WAITING_FOR_OUTCOME" =>
         action = "WAIT" /\ \E k \in Keys : record[k].status = "SUCCEEDED"

\* A recorded success keeps a link behind it, whoever else is still at work on the
\* action: late callers may overwrite its row (execution_late_finalizer), but only to
\* flag or cancel it, never to FAILED, back to a claimable status or to a link that does
\* not exist.  Outcome observation starts from such rows.
SuccessKeepsItsLink ==
  \A k \in succeeded :
    /\ record[k].status \in FINAL_EXECUTION_STATUSES \ {"FAILED"}
    /\ record[k].link \in DOMAIN links[k]

Lifecycle == INSTANCE CaseLifecycle WITH Cases <- {"case"},
                                         caseState <- [c \in {"case"} |-> pcase.state]

\* Policy, approval, reconciliation and execution together move the case along the
\* lifecycle only: a case that was closed behind an executor's back is never
\* reopened by it.
CaseFollowsLifecycle == [][Lifecycle!Next]_(pcase.state)

Phase ==
  CASE pcase.state \in TERMINAL_CASE_STATES  -> "closed"
    [] pcase.state = "WAITING_FOR_OUTCOME"   -> "waiting"
    [] OTHER                                 -> "open"

Authority == {k \in Keys : is_execution_permitted(k)}

Mandate == INSTANCE RecoveryMandate WITH
             Decisions <- Keys,
             phase <- Phase,
             authority <- Authority,
             claims <- [k \in Keys |-> record[k].claims],
             opened <- [k \in Keys |-> Len(links[k])],
             counted <- succeeded

\* Execution keeps to its mandate, however many callers overlap and even where the
\* provider accepts a second link for a reference: every claim is made under the
\* decision in force, a claim opens one link at most however late its caller runs, and
\* what is counted is one action that is still permitted.
ExecutesUnderMandate == Mandate!Spec
=============================================================================
