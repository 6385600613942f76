----------------------------- MODULE TransferApi -----------------------------
(***************************************************************************)
(* The HTTP handlers in front of TransferService                           *)
(* (api/handler/transfer_handler.go): what a caller of POST /transfers is  *)
(* told, and what GET /transfers/{id} and GET /health/clearing answer. The *)
(* handlers keep no state, so they are functions of the service's.         *)
(***************************************************************************)
EXTENDS Transfer

\* Mutant: what is not known is the client's fault.
BlamesTheClient(answer) == IF answer \in Cached THEN 201 ELSE 400

\* CreateTransfer and writeTransferError. A body the handler itself turns away is
\* one of the invalid ones; an answer without an error is 201, whatever the row.
HttpStatus(answer) ==
  CASE answer \in {"invalid", "insufficient", "mismatch"} -> 400
    [] answer \in {"not_found", "no_clearing"} -> 404
    [] answer = "in_progress" -> 409
    [] answer \in Cached -> 201
    [] OTHER -> 500

\* GET /transfers/{id}: the row as it is, to those who know that it is there.
GetTransferByID(k) ==
  IF txStatus[k] = NoRow THEN [code |-> 404, status |-> NoRow]
  ELSE [code |-> 200, status |-> txStatus[k]]

\* GET /health/clearing: 503 also when there is no clearing account.
GetClearingHealth ==
  IF status[Clearing] # NoRow /\ balance[Clearing] = 0 THEN 200 ELSE 503

-----------------------------------------------------------------------------
\* 400 and 404 are a promise: the transfer the caller's own call made did not take
\* place and never will, and whoever looks it up will not find it SETTLED, whatever
\* was lost on the way. (500 promises nothing: an acknowledgement of the commit may
\* have been lost.)
RefusedMeansUnpaid ==
  \A p \in Requests :
    pc[p] = "done" /\ HttpStatus(reply[p]) \in {400, 404} =>
      \A k \in Keys : maker[k] = p => GetTransferByID(k).status # "SETTLED"

\* Transfers only pass through the clearing account. (One to the clearing account
\* leaves its amount there on purpose.)
OnlyPassesThrough ==
  InitBalance[Clearing] = 0 /\ \A p \in Requests : req[p].to # Clearing

\* The health check never raises a false alarm for what a transfer parks on the
\* clearing account: that is never seen there, at no moment and after no failure.
\* It can only ring for what rounding keeps, when a half-way amount has settled.
OnlyHalvesAlarm ==
  OnlyPassesThrough /\ status[Clearing] # NoRow /\ GetClearingHealth # 200
    => \E k \in Keys : txStatus[k] = "SETTLED" /\ HalfWay(req[maker[k]].amount)

\* "A non-zero balance indicates ... a transfer settled without fully clearing"
\* (api/handler/health_handler.go): where nothing fails, it never is.
ClearingIsHealthy ==
  OnlyPassesThrough /\ status[Clearing] # NoRow => GetClearingHealth = 200

\* "submitting the same key twice returns the original response"
\* (api/handler/transfer_handler.go): a retry that is answered with the row is told
\* what the caller of the call that made the row was told, when nothing fails.
RetriesGetOriginal ==
  \A k \in Keys, q \in Requests :
    LET p == maker[k]
    IN  /\ faults = 0 /\ p # None /\ pc[p] = "done" /\ pc[q] = "done"
        /\ req[q].key = k /\ reply[q] \in Cached
        => HttpStatus(reply[q]) = HttpStatus(reply[p])
=============================================================================
