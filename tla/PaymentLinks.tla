---------------------------- MODULE PaymentLinks ----------------------------
(***************************************************************************)
(* The Payment Link client, arc/integrations/razorpay/payment_links.py:    *)
(* what a caller is told about a request, given what came back for it.     *)
(*                                                                         *)
(* A response is a status code, 0 when none arrived (timeout, broken       *)
(* connection, protocol error), and a body.  One code stands for each      *)
(* class the client tells apart.  A body matches when it parses and names  *)
(* what was asked for.                                                     *)
(***************************************************************************)
EXTENDS Naturals

Responses == [status : {0, 302, 401, 429, 500}, body : {"none"}]
               \cup [status : {200}, body : {"malformed", "mismatched", "matching"}]

\* The provider, external: an answer that matches tells of a request that was carried
\* out, a refusal of one that was not.  No answer, a server error and a body that does
\* not match tell nothing.
Plausible(applied, r) ==
  /\ r.body = "matching" => applied
  /\ applied => r.status \in {0} \cup 200..299 \/ r.status >= 500

\* (mutant) the outcome of a create is as certain as that of a read
raise_for_status_alike(status, operation) ==
  IF status \in 200..299         THEN "OK"
  ELSE IF status \in {401, 403}  THEN "AUTHENTICATION_FAILED"
  ELSE IF status = 429           THEN "RATE_LIMITED"
  ELSE IF status >= 500          THEN "UNAVAILABLE"
  ELSE "REJECTED"

raise_for_status(status, operation) ==
  IF status \in 200..299         THEN "OK"
  ELSE IF status \in {401, 403}  THEN "AUTHENTICATION_FAILED"
  ELSE IF status = 429           THEN "RATE_LIMITED"
  ELSE IF status >= 500          THEN IF operation = "create" THEN "OUTCOME_UNCERTAIN"
                                                              ELSE "UNAVAILABLE"
  ELSE "REJECTED"

\* _request: without a response nobody knows whether a create happened.
request(operation, r) ==
  IF r.status # 0 THEN raise_for_status(r.status, operation)
  ELSE IF operation = "create" THEN "OUTCOME_UNCERTAIN"
  ELSE "UNAVAILABLE"

\* A lookup returns whatever links it can read; whether they fit is the caller's concern.
lookup_result(r) ==
  IF request("lookup", r) = "OK" /\ r.body = "malformed" THEN "INVALID_RESPONSE"
                                                         ELSE request("lookup", r)

\* A created link must carry the reference, amount and currency that were asked for.
create_result(r) ==
  IF request("create", r) = "OK" /\ r.body # "matching" THEN "OUTCOME_UNCERTAIN"
                                                        ELSE request("create", r)

\* cancel, and the executor's own check that the link it gets back is cancelled.
cancel_result(r) ==
  IF request("cancel", r) = "OK" /\ r.body # "matching" THEN "INVALID_RESPONSE"
                                                        ELSE request("cancel", r)

\* What a caller may be told, by whether the provider carried the request out.  A lookup
\* changes nothing, and whether the link it returns fits the request is part of the answer.
LookupAnswers == {[read |-> lookup_result(r) = "OK", fits |-> r.body = "matching"] :
                    r \in Responses}
CreateAnswers == [applied \in BOOLEAN |->
                    {create_result(r) : r \in {x \in Responses : Plausible(applied, x)}}]
CancelAnswers == [applied \in BOOLEAN |->
                    {cancel_result(r) : r \in {x \in Responses : Plausible(applied, x)}}]
=============================================================================
