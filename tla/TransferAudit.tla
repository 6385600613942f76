---------------------------- MODULE TransferAudit ----------------------------
(***************************************************************************)
(* The audit trail of transfers and the connection pool they share with it *)
(* (emitTransferAudit in internal/transaction/service.go, audit_payload.go *)
(* and internal/audit/logger.go).                                          *)
(*                                                                         *)
(* Between two round trips of Transfer a call writes its audit events, on  *)
(* connections of its own choosing: three reads of account rows, and three *)
(* inserts, each of which takes a connection from the pool for itself. The *)
(* call meanwhile keeps the connection of its open transaction, and the    *)
(* row locks.                                                              *)
(***************************************************************************)
EXTENDS Transfer

CONSTANTS
  MaxConns,       \* the size of the pool
  MaxAllFaults    \* bound on the failures of transfers and of the audit together

ASSUME PoolAssumption == MaxConns \in Nat \ {0} /\ MaxAllFaults \in Nat

VARIABLES
  inserting, \* the calls whose INSERT of a transfer holds a connection
  pending,   \* the events a call has yet to write, in order
  read,      \* the accounts it has read for the first of them
  source,    \* the balance of the source account, as it was read
  written,   \* the rows of the first event that were tried
  trail,     \* audit_events of the transfer under a key, by the entity of each row
  auditFaults

auditVars == <<inserting, pending, read, source, written, trail, auditFaults>>

EventTypes == {"TRANSFER_INITIATED", "HOLD_PLACED", "JOURNAL_ENTRY_POSTED",
               "TRANSFER_SETTLED", "TRANSFER_FAILED"}

\* The row an event carries, by its status.
Event == [type : EventTypes, status : TxStatus]

\* One event is three rows: one of the transaction, and one of each account.
Scopes   == <<"transaction", "from", "to">>
Entities == {"transaction", "from", "to"}

\* An audit_events row, with the source account it shows. (Those of destination and
\* clearing account are left out.)
AuditRow == [type : EventTypes, status : TxStatus, source : Int]

AuditTypeOK ==
  /\ inserting \subseteq Requests
  /\ pending \in [Requests -> Seq(Event)]
  /\ read \in [Requests -> 0..3]
  /\ source \in [Requests -> Int]
  /\ written \in [Requests -> 0..2]
  /\ trail \in [Keys -> [Entities -> Seq(AuditRow)]]
  /\ auditFaults \in 0..MaxAllFaults

AuditInit ==
  /\ Init
  /\ inserting = {}
  /\ pending = [p \in Requests |-> << >>]
  /\ read = [p \in Requests |-> 0]
  /\ source = [p \in Requests |-> 0]
  /\ written = [p \in Requests |-> 0]
  /\ trail = [k \in Keys |-> [s \in Entities |-> << >>]]
  /\ auditFaults = 0

-----------------------------------------------------------------------------
(***************************************************************************)
(* The pool                                                                *)
(***************************************************************************)
\* The calls that keep a connection between two of their steps.
Holders == {p \in Requests : working[p] # NoRow} \cup inserting

HasFree == Cardinality(Holders) < MaxConns

\* The round trips on the pool. Those of an open transaction are on its own
\* connection, and so is an INSERT, once it has one.
OnPool(p) == pc[p] \in {"loadSource", "loadDest", "loadClearing", "loadDuplicate",
                        "begin", "failBegin", "markFailed"}

\* p need not wait for one: there is one, or its caller has gone and the wait fails.
Gets(p) == HasFree \/ p \in cancelled

\* An INSERT takes its connection before it waits for keys and rows.
Acquire(p) ==
  /\ pc[p] = "create" /\ p \notin inserting
  /\ HasFree
  /\ inserting' = inserting \cup {p}
  /\ UNCHANGED <<vars, pending, read, source, written, trail, auditFaults>>

(***************************************************************************)
(* The transfer, which emits                                               *)
(***************************************************************************)
\* p's row was made, an entry posted, the transfer committed or marked FAILED.
Made(p)      == pc[p] = "createDest" /\ pc'[p] = "begin"
Holds(p)     == pc[p] = "postClearing" /\ pc'[p] = "markProcessing"
Paid(p)      == pc[p] = "postSettlement" /\ pc'[p] = "markSettled"
SettledNow(p) == /\ pc[p] \in {"commit", "storeSettled"}
                 /\ pc'[p] = "done" /\ reply'[p] = "SETTLED"
FailedNow(p) == pc[p] = "markFailed" /\ outcome'[p] # Zero

Says(type, st) == [type |-> type, status |-> st]

\* Mutants: TRANSFER_SETTLED is emitted with the last UPDATE, before the commit; or
\* failTx, like a failed begin, emits nothing.
EmitsEarly(p) ==
  CASE Made(p)  -> <<Says("TRANSFER_INITIATED", "PENDING")>>
    [] Holds(p) -> <<Says("HOLD_PLACED", "PENDING"), Says("JOURNAL_ENTRY_POSTED", "PENDING")>>
    [] Paid(p)  -> <<Says("JOURNAL_ENTRY_POSTED", "PROCESSING")>>
    [] pc[p] = "markSettled" /\ pc'[p] = "commit" -> <<Says("TRANSFER_SETTLED", "SETTLED")>>
    [] FailedNow(p) -> <<Says("TRANSFER_FAILED", outcome'[p])>>
    [] OTHER -> << >>

EmitsNoFailure(p) ==
  CASE Made(p)  -> <<Says("TRANSFER_INITIATED", "PENDING")>>
    [] Holds(p) -> <<Says("HOLD_PLACED", "PENDING"), Says("JOURNAL_ENTRY_POSTED", "PENDING")>>
    [] Paid(p)  -> <<Says("JOURNAL_ENTRY_POSTED", "PROCESSING")>>
    [] SettledNow(p) -> <<Says("TRANSFER_SETTLED", "SETTLED")>>
    [] OTHER -> << >>

\* The calls of emitTransferAudit in Transfer. A failed begin emits nothing.
Emits(p) ==
  CASE Made(p)  -> <<Says("TRANSFER_INITIATED", "PENDING")>>
    [] Holds(p) -> <<Says("HOLD_PLACED", "PENDING"), Says("JOURNAL_ENTRY_POSTED", "PENDING")>>
    [] Paid(p)  -> <<Says("JOURNAL_ENTRY_POSTED", "PROCESSING")>>
    [] SettledNow(p) -> <<Says("TRANSFER_SETTLED", "SETTLED")>>
    [] FailedNow(p)  -> <<Says("TRANSFER_FAILED", outcome'[p])>>
    [] OTHER -> << >>

\* Events are written before the call goes on, but for the FAILED row, which is
\* stored in Redis before its event is written.
MayEmit(p) == pending[p] # << >> /\ pc[p] # "storeFailed"

WithinBounds == faults' + auditFaults <= MaxAllFaults

TransferStep(p) ==
  /\ ~MayEmit(p)
  /\ OnPool(p) => Gets(p)
  /\ pc[p] = "create" => p \in inserting \cup cancelled
  /\ Progress(p) /\ WithinBounds
  /\ pending' = [pending EXCEPT ![p] = @ \o Emits(p)]
  /\ inserting' = IF pc'[p] \in {"create", "createDest"} THEN inserting
                  ELSE inserting \ {p}
  /\ UNCHANGED <<read, source, written, trail, auditFaults>>

(***************************************************************************)
(* Writing an event                                                        *)
(***************************************************************************)
\* A round trip of the audit succeeds unless the caller has gone; it fails then, or
\* at the expense of one failure.
AuditSucceeds(p) == p \notin cancelled /\ UNCHANGED auditFaults

AuditFails(p) ==
  \/ p \in cancelled /\ UNCHANGED auditFaults
  \/ /\ p \notin cancelled /\ faults + auditFaults < MaxAllFaults
     /\ auditFaults' = auditFaults + 1

\* On to the next event.
DropEvent(p) ==
  /\ pending' = [pending EXCEPT ![p] = Tail(@)]
  /\ read' = [read EXCEPT ![p] = 0]
  /\ source' = [source EXCEPT ![p] = 0]
  /\ written' = [written EXCEPT ![p] = 0]

\* Mutant: the accounts are read in the transaction of the transfer.
OwnBalance(p, a) == balance[a] + delta[p][a]

\* loadThreeAccountSnapshots reads on the pool, beside the open transaction.
SnapshotBalance(p, a) == balance[a]

\* Mutant: a read is repeated until it succeeds, with the context of the request.
ReadAgain(p) == UNCHANGED <<pending, read, source, written>>

GiveUp(p) == DropEvent(p)

\* One of its three reads, the source first. An error drops the event.
ReadSnapshot(p) ==
  /\ MayEmit(p) /\ read[p] < 3
  /\ Gets(p)
  /\ \/ /\ AuditSucceeds(p)
        /\ read' = [read EXCEPT ![p] = @ + 1]
        /\ source' = [source EXCEPT ![p] = IF read[p] = 0
                                          THEN SnapshotBalance(p, req[p].from) ELSE @]
        /\ UNCHANGED <<pending, written>>
     \/ /\ AuditFails(p)
        /\ GiveUp(p)
  /\ UNCHANGED <<vars, inserting, trail>>

\* Mutant: a failed write is the failure of the transfer.
WriteFailed(p) == pc' = [pc EXCEPT ![p] = "done"]

\* logAudit warns and goes on.
WriteIgnored(p) == UNCHANGED pc

\* One of the three inserts of Log, each committed by itself. An error drops
\* the row; a lost answer changes nothing.
WriteRow(p) ==
  LET event == Head(pending[p])
      row   == [type |-> event.type, status |-> event.status, source |-> source[p]]
  IN  /\ MayEmit(p) /\ read[p] = 3
      /\ Gets(p)
      /\ \/ /\ AuditSucceeds(p)
            /\ trail' = [trail EXCEPT ![req[p].key][Scopes[written[p] + 1]] = Append(@, row)]
            /\ UNCHANGED pc
         \/ /\ AuditFails(p)
            /\ WriteIgnored(p) /\ UNCHANGED trail
      /\ IF written[p] < 2
         THEN written' = [written EXCEPT ![p] = @ + 1] /\ UNCHANGED <<pending, read, source>>
         ELSE DropEvent(p)
      /\ UNCHANGED <<dbVars, txVars, storeVars, req, view, outcome, reply, envVars,
                     faults, inserting>>

AuditStep(p) == ReadSnapshot(p) \/ WriteRow(p)

\* What the calls have under way dies with the process.
Surroundings ==
  /\ Environment /\ WithinBounds
  /\ LET dead(p) == pc'[p] = "dead"
     IN  /\ inserting' = {p \in inserting : ~dead(p)}
         /\ pending' = [p \in Requests |-> IF dead(p) THEN << >> ELSE pending[p]]
         /\ read' = [p \in Requests |-> IF dead(p) THEN 0 ELSE read[p]]
         /\ source' = [p \in Requests |-> IF dead(p) THEN 0 ELSE source[p]]
         /\ written' = [p \in Requests |-> IF dead(p) THEN 0 ELSE written[p]]
  /\ UNCHANGED <<trail, auditFaults>>

Finished(p) == pc[p] \in {"done", "dead"} /\ pending[p] = << >>

CallStep(p) == TransferStep(p) \/ Acquire(p) \/ AuditStep(p)

AuditNext ==
  \/ \E p \in Requests : \/ CallStep(p)
                         \/ \E r \in Payloads : Receive(p, r) /\ UNCHANGED auditVars
  \/ Surroundings
  \/ (\A p \in Requests : Finished(p)) /\ UNCHANGED <<vars, auditVars>>

AuditSpec == AuditInit /\ [][AuditNext]_<<vars, auditVars>>

\* Calls go on when they can. The pool serves those who wait for a connection in
\* turn, and there are finitely many.
AuditFairSpec ==
  /\ AuditSpec
  /\ \A p \in Requests : WF_<<vars, auditVars>>(CallStep(p))

(***************************************************************************)
(* Reading the trail                                                       *)
(***************************************************************************)
\* GetTransactionAudit, by way of GetByEntityRange without bounds.
TransactionAudit(k) == trail[k]["transaction"]

\* All rows written of the transfer under k.
Logged(k) == UNION {Range(trail[k][s]) : s \in Entities}

TypesOf(rows) == [i \in DOMAIN rows |-> rows[i].type]

-----------------------------------------------------------------------------
(***************************************************************************)
(* Properties                                                              *)
(***************************************************************************)
\* The event that ends a trail is true from the moment it is written. A
\* TRANSFER_SETTLED is of a transfer with both its entries. A TRANSFER_FAILED carries
\* the row as it is and will stay: a FAILED one, for which nothing was posted, unless
\* the acknowledgement of a commit was lost, when failTx finds the row SETTLED and
\* calls the event TRANSFER_FAILED all the same. (A JOURNAL_ENTRY_POSTED promises
\* nothing: it is written before the commit, and stays when the entry does not.)
EventsAreTrue ==
  \A k \in Keys : \A e \in Logged(k) :
    LET settled == e.status = "SETTLED" /\ txStatus[k] = "SETTLED" /\ Len(journal[k]) = 2
        failed  == e.status = "FAILED" /\ txStatus[k] = "FAILED" /\ journal[k] = << >>
        ackLost == "lostAck" \in FaultKinds /\ faults > 0
    IN  /\ e.type = "TRANSFER_SETTLED" => settled
        /\ e.type = "TRANSFER_FAILED" => failed \/ (settled /\ ackLost)

\* Absent failures the trail of a transfer tells all of it: it was initiated, the
\* entries that were posted (those of a rolled-back transaction too), and its end.
TrailTellsFate ==
  \A k \in Keys :
    LET T == TypesOf(TransactionAudit(k))
        p == maker[k]
        JEP == "JOURNAL_ENTRY_POSTED"
    IN  faults + auditFaults = 0 /\ p # None /\ Finished(p) =>
          IF txStatus[k] = "SETTLED"
          THEN T = <<"TRANSFER_INITIATED", "HOLD_PLACED", JEP, JEP, "TRANSFER_SETTLED">>
          ELSE \E middle \in {<< >>, <<"HOLD_PLACED", JEP>>, <<"HOLD_PLACED", JEP, JEP>>} :
                 T = <<"TRANSFER_INITIATED">> \o middle \o <<"TRANSFER_FAILED">>

\* The events a transfer writes from inside its transaction show its source account
\* as it was before: the reads are on other connections, and its row lock keeps
\* everybody else from changing it.
SnapshotsPrecedeChange ==
  \A k \in Keys : \A e \in Logged(k) :
    LET p == maker[k]
    IN  working[p] # NoRow /\ e.type \in {"HOLD_PLACED", "JOURNAL_ENTRY_POSTED"}
          => e.source = balance[req[p].from]

\* "with full transaction and account snapshots after each state change"
\* (internal/transaction/audit_payload.go): the same events show it as the entry they
\* tell of has left it.
SnapshotsFollowChange ==
  \A k \in Keys : \A e \in Logged(k) :
    LET p == maker[k]
        a == req[p].from
    IN  working[p] # NoRow /\ e.type \in {"HOLD_PLACED", "JOURNAL_ENTRY_POSTED"}
          => e.source = balance[a] + delta[p][a]

\* internal/audit/logger.go: the audit is best-effort and does not fail the primary
\* operation. Writing it never keeps a call from its end. That takes more connections
\* than there are calls; with as many, calls that have one each can wait for another
\* for ever.
EveryCallFinishes == []<>(\A p \in Requests : pc[p] = "idle" \/ Finished(p))
=============================================================================
