------------------------------ MODULE Transfer ------------------------------
(***************************************************************************)
(* TransferService.Transfer (internal/transaction/service.go): concurrent  *)
(* calls over one PostgreSQL database and one optional Redis store.        *)
(*                                                                         *)
(* A call looks its idempotency key up in Redis and claims it, checks the  *)
(* three accounts, inserts a PENDING row on its own, and then runs one     *)
(* REPEATABLE READ database transaction that posts two journal entries     *)
(* (source to clearing, clearing to destination) and settles the row. A    *)
(* call that fails after the insert marks the row FAILED on a separate     *)
(* connection. Each action is one round trip to the database or to Redis   *)
(* with the code that follows it up to the next one.                       *)
(*                                                                         *)
(* The database is modelled by what the code relies on: the committed      *)
(* rows, FOR UPDATE row locks, a unique key, first-updater-wins under      *)
(* REPEATABLE READ, and a deadlock detector.                               *)
(***************************************************************************)
EXTENDS Postings, Sequences, FiniteSetsExt

CONSTANTS
  Requests,    \* the calls of Transfer, one process each
  Keys,        \* idempotency keys (not blank)
  Accounts,    \* account ids; ORDER BY id is the order of the naturals
  Clearing,    \* the account whose code is the configured clearing code
  AccountType, \* accounts.type, which never changes
  Currency,    \* accounts.currency, which never changes
  InitBalance, \* accounts.balance at the start
  InitStatus,  \* accounts.status at the start, or NoRow
  Payloads,    \* the bodies callers may send
  HasStore,    \* whether a Redis store is configured
  FaultKinds,  \* the kinds of failure that may happen
  MaxFaults,   \* bound on the number of failures
  MaxStatusChanges, \* bound on the number of account status updates
  None         \* not a request

NilId == 0      \* uuid.Nil
Blank == ""     \* an empty string
NoRow == "NO_ROW"

AccountStatus == {"ACTIVE", "FROZEN", "CLOSED"}

\* Rows of the transactions table, and the statuses this service gives them.
TxStatus == {"PENDING", "PROCESSING", "SETTLED", "FAILED"}

\* What Redis holds under a key: nothing, the claim marker, the JSON of a row
\* (represented by the row's status) or the JSON of a zero Transaction.
Marker == "__IN_PROGRESS__"
Absent == "ABSENT"
Zero   == "ZERO"
Cached == TxStatus \cup {Zero}

\* Error answers. Any other answer is the row that Transfer returns; NoRow stands
\* for no answer yet.
Errors == {"invalid", "mismatch", "insufficient", "in_progress",
           "not_found", "no_clearing", "error"}

Replies == Cached \cup Errors \cup {NoRow}

AllFaults == {"db", "lostAck", "redis", "cancel", "crash", "expire"}

ASSUME AccountsAssumption ==
  /\ Accounts \subseteq Nat \ {NilId}
  /\ Clearing \in Accounts
  /\ AccountType \in [Accounts -> AccountTypes]
  /\ InitBalance \in [Accounts -> Nat] /\ \A a \in Accounts : Whole(InitBalance[a])
  /\ InitStatus \in [Accounts -> AccountStatus \cup {NoRow}]

ASSUME PayloadsAssumption ==
  /\ Blank \notin Keys
  /\ Payloads \subseteq [key : Keys \cup {Blank}, from : Accounts \cup {NilId},
                         to : Accounts \cup {NilId}, amount : Int,
                         currency : STRING]

ASSUME BoundsAssumption ==
  /\ HasStore \in BOOLEAN
  /\ FaultKinds \subseteq AllFaults
  /\ MaxFaults \in Nat
  /\ MaxStatusChanges \in Nat
  /\ None \notin Requests

VARIABLES
  \* committed rows
  balance,  \* accounts.balance
  status,   \* accounts.status, NoRow for an id without an account
  txStatus, \* transactions.status by idempotency key, NoRow without a row
  maker,    \* the call whose payload the row under a key holds
  journal,  \* the entries posted for the row under a key, in order
  \* the open database transaction of each call
  lock,     \* the call holding the row lock of an account
  stale,    \* the account rows others have written since its snapshot
  delta,    \* its own uncommitted change of each balance
  posted,   \* its uncommitted journal entries
  working,  \* the row status it sees; NoRow without a transaction
  \* Redis, and the calls that must release their claim (idemLocked)
  redis,
  claimed,
  \* the calls
  pc,       \* the round trip a call is about to make
  req,      \* the request it serves
  view,     \* the source account as it was read
  outcome,  \* the row it is about to store in Redis
  reply,    \* its answer
  \* the environment
  cancelled, faults, statusChanges

dbVars    == <<balance, status, txStatus, maker, journal>>
txVars    == <<lock, stale, delta, posted, working>>
storeVars == <<redis, claimed>>
callVars  == <<pc, req, view, outcome, reply>>
envVars   == <<cancelled, statusChanges>>

vars == <<dbVars, txVars, storeVars, callVars, envVars, faults>>

Entry == [dr : Accounts, cr : Accounts, amount : Int]

Order == [key : Keys, from : Accounts, to : Accounts, amount : Int,
          currency : STRING]

Labels == {"idle", "cacheLookup", "claim", "recheck", "loadSource", "loadDest",
           "loadClearing", "create", "createDest", "loadDuplicate", "begin",
           "failBegin", "postClearing", "markProcessing", "postSettlement",
           "markSettled", "commit", "storeSettled", "markFailed", "storeFailed",
           "unlock", "done", "dead"}

NoReq   == [key |-> Blank, from |-> NilId, to |-> NilId, amount |-> 0,
            currency |-> Blank]
View == [balance : Int, status : AccountStatus \cup {NoRow}]

NoView  == [balance |-> 0, status |-> NoRow]
NoDelta == [a \in Accounts |-> 0]

RowTypes ==
  /\ balance \in [Accounts -> Int]
  /\ status \in [Accounts -> AccountStatus \cup {NoRow}]
  /\ txStatus \in [Keys -> TxStatus \cup {NoRow}]
  /\ maker \in [Keys -> Requests \cup {None}]
  /\ journal \in [Keys -> Seq(Entry)]

TxTypes ==
  /\ lock \in [Accounts -> Requests \cup {None}]
  /\ stale \in [Requests -> SUBSET Accounts]
  /\ delta \in [Requests -> [Accounts -> Int]]
  /\ posted \in [Requests -> Seq(Entry)]
  /\ working \in [Requests -> TxStatus \cup {NoRow}]

StoreTypes ==
  /\ redis \in [Keys -> Cached \cup {Absent, Marker}]
  /\ claimed \subseteq Requests

CallTypes ==
  /\ pc \in [Requests -> Labels]
  /\ req \in [Requests -> Order \cup {NoReq}]
  /\ \A p \in Requests : pc[p] \notin {"idle", "done", "dead"} => req[p] \in Order
  /\ view \in [Requests -> View]
  /\ outcome \in [Requests -> Cached]
  /\ reply \in [Requests -> Replies]

EnvTypes ==
  /\ cancelled \subseteq Requests
  /\ faults \in 0..MaxFaults
  /\ statusChanges \in 0..MaxStatusChanges

TypeOK == RowTypes /\ TxTypes /\ StoreTypes /\ CallTypes /\ EnvTypes

-----------------------------------------------------------------------------
(***************************************************************************)
(* Control and failure of a call                                           *)
(***************************************************************************)
Goto(p, label) == pc' = [pc EXCEPT ![p] = label]

\* Mutant: the deferred unlock runs without asking whether the claim is held.
ReturnUnlocks(p, r) ==
  /\ reply' = [reply EXCEPT ![p] = r]
  /\ Goto(p, "unlock")

\* return reply: the deferred unlock runs first when the claim is still held.
Return(p, r) ==
  /\ reply' = [reply EXCEPT ![p] = r]
  /\ Goto(p, IF p \in claimed THEN "unlock" ELSE "done")

\* A round trip succeeds unless the call's context was cancelled; it fails when
\* it was, or at the expense of one failure of that kind.
Succeeds(p) == p \notin cancelled /\ UNCHANGED faults

Fault(kind) ==
  /\ kind \in FaultKinds
  /\ faults < MaxFaults
  /\ faults' = faults + 1

Fails(p, kind) ==
  \/ p \in cancelled /\ UNCHANGED faults
  \/ p \notin cancelled /\ Fault(kind)

\* The round trip took effect and its answer was lost.
AnswerLost(p, kind) == p \notin cancelled /\ Fault(kind)

Live(p) == pc[p] \notin {"idle", "done", "dead"}

(***************************************************************************)
(* Row locks and the open database transaction                             *)
(***************************************************************************)
\* The entries a transfer posts: debit source, credit clearing; then debit
\* clearing, credit destination.
ClearingEntry(r)   == [dr |-> r.from, cr |-> Clearing, amount |-> r.amount]
\* Mutant: the second entry is paid by the source once more.
SettlementFromSource(r) == [dr |-> r.from, cr |-> r.to, amount |-> r.amount]
SettlementEntry(r) == [dr |-> Clearing, cr |-> r.to, amount |-> r.amount]

RowsOf(e) == {e.dr, e.cr}

EntryOf(p) == IF pc[p] = "postClearing"
              THEN ClearingEntry(req[p]) ELSE SettlementEntry(req[p])

Held(p) == {a \in Accounts : lock[a] = p}

\* Mutant: FOR UPDATE without ORDER BY.
IsAnyRow(p, a) ==
  /\ pc[p] \in {"postClearing", "postSettlement"}
  /\ a \in RowsOf(EntryOf(p)) \ Held(p)

\* SELECT ... WHERE id = ANY($1) ORDER BY id FOR UPDATE locks row by row:
\* a is the row p locks next.
IsNextRow(p, a) ==
  LET missing == RowsOf(EntryOf(p)) \ Held(p)
  IN  /\ pc[p] \in {"postClearing", "postSettlement"}
      /\ a \in missing
      /\ \A b \in missing : a <= b

\* The INSERT of a transfer holds its key and a FOR KEY SHARE lock on its source
\* account, by the foreign key, while it waits for the same on its destination.
Reserved(k) == \E q \in Requests : pc[q] = "createDest" /\ req[q].key = k
Sharers(a)  == {q \in Requests : pc[q] = "createDest" /\ req[q].from = a}

\* p waits for a row that q has locked. A row written since p's snapshot is an
\* error at once, never a wait.
WaitsFor(p, q) ==
  \/ \E a \in Accounts \ stale[p] : IsNextRow(p, a) /\ (lock[a] = q \/ q \in Sharers(a))
  \/ pc[p] = "createDest" /\ lock[req[p].to] = q

\* p is on a cycle of calls of S, each waiting for the next.
OnCycle(p, S) ==
  \E n \in 1..Cardinality(S) : \E c \in [1..n -> S] :
    c[1] = p /\ \A i \in 1..n : WaitsFor(c[i], c[(i % n) + 1])

Deadlocked(p) == OnCycle(p, Requests)

\* Rollback or commit: p's transaction is gone and its rows are unlocked.
EndTx(p) ==
  /\ lock' = [a \in Accounts |-> IF lock[a] = p THEN None ELSE lock[a]]
  /\ delta' = [delta EXCEPT ![p] = NoDelta]
  /\ posted' = [posted EXCEPT ![p] = << >>]
  /\ working' = [working EXCEPT ![p] = NoRow]

\* Mutant: failTx rolls back and answers, and leaves the row as it is.
RollBackOnly(p, r) ==
  /\ EndTx(p)
  /\ stale' = [stale EXCEPT ![p] = {}]
  /\ Return(p, r)

\* failTx: roll back first, then mark the row FAILED; r is the answer.
FailTx(p, r) ==
  /\ EndTx(p)
  /\ stale' = [stale EXCEPT ![p] = {}]
  /\ reply' = [reply EXCEPT ![p] = r]
  /\ Goto(p, "markFailed")

Init ==
  /\ balance = InitBalance
  /\ status = InitStatus
  /\ txStatus = [k \in Keys |-> NoRow]
  /\ maker = [k \in Keys |-> None]
  /\ journal = [k \in Keys |-> << >>]
  /\ lock = [a \in Accounts |-> None]
  /\ stale = [p \in Requests |-> {}]
  /\ delta = [p \in Requests |-> NoDelta]
  /\ posted = [p \in Requests |-> << >>]
  /\ working = [p \in Requests |-> NoRow]
  /\ redis = [k \in Keys |-> Absent]
  /\ claimed = {}
  /\ pc = [p \in Requests |-> "idle"]
  /\ req = [p \in Requests |-> NoReq]
  /\ view = [p \in Requests |-> NoView]
  /\ outcome = [p \in Requests |-> Zero]
  /\ reply = [p \in Requests |-> NoRow]
  /\ cancelled = {}
  /\ faults = 0
  /\ statusChanges = 0

(***************************************************************************)
(* The call arrives, and the idempotency store                             *)
(***************************************************************************)
\* validateTransferRequest.
Valid(r) ==
  /\ r.key # Blank
  /\ r.from # NilId /\ r.to # NilId /\ r.from # r.to
  /\ r.amount > 0
  /\ r.currency # Blank

Receive(p, r) ==
  /\ pc[p] = "idle"
  /\ \/ /\ Valid(r)
        /\ req' = [req EXCEPT ![p] = r]
        /\ Goto(p, IF HasStore THEN "cacheLookup" ELSE "loadSource")
        /\ UNCHANGED reply
     \/ /\ ~Valid(r)
        /\ reply' = [reply EXCEPT ![p] = "invalid"]
        /\ Goto(p, "done")
        /\ UNCHANGED req
  /\ UNCHANGED <<dbVars, txVars, storeVars, envVars, faults, view, outcome>>

\* idempotencyTryReturnCached.
CacheLookup(p) ==
  LET raw == redis[req[p].key]
  IN  /\ pc[p] = "cacheLookup"
      /\ \/ /\ Succeeds(p) /\ raw = Absent
            /\ Goto(p, "claim") /\ UNCHANGED reply
         \/ /\ Succeeds(p) /\ raw = Marker
            /\ Return(p, "in_progress")
         \/ /\ Succeeds(p) /\ raw \in Cached
            /\ Return(p, raw)
         \/ /\ Fails(p, "redis")
            /\ Return(p, "error")
      /\ UNCHANGED <<dbVars, txVars, storeVars, envVars, req, view, outcome>>

\* The SetNX of idempotencyAcquireExclusive.
Claim(p) ==
  LET k == req[p].key
  IN  /\ pc[p] = "claim"
      /\ \/ /\ Succeeds(p) /\ redis[k] = Absent
            /\ redis' = [redis EXCEPT ![k] = Marker]
            /\ claimed' = claimed \cup {p}
            /\ Goto(p, "loadSource") /\ UNCHANGED reply
         \/ /\ Succeeds(p) /\ redis[k] # Absent
            /\ Goto(p, "recheck") /\ UNCHANGED <<reply, storeVars>>
         \/ /\ Fails(p, "redis")
            /\ Return(p, "error") /\ UNCHANGED storeVars
         \/ /\ AnswerLost(p, "redis") /\ redis[k] = Absent
            /\ redis' = [redis EXCEPT ![k] = Marker]
            /\ Return(p, "error") /\ UNCHANGED claimed
      /\ UNCHANGED <<dbVars, txVars, envVars, req, view, outcome>>

\* Its Get when the key was taken; every error there means "in progress".
Recheck(p) ==
  LET raw == redis[req[p].key]
  IN  /\ pc[p] = "recheck"
      /\ \/ /\ Succeeds(p) /\ raw \in Cached
            /\ Return(p, raw)
         \/ /\ Succeeds(p) /\ raw \notin Cached
            /\ Return(p, "in_progress")
         \/ /\ Fails(p, "redis")
            /\ Return(p, "in_progress")
      /\ UNCHANGED <<dbVars, txVars, storeVars, envVars, req, view, outcome>>

(***************************************************************************)
(* The accounts are checked and the row is created                         *)
(***************************************************************************)
LoadSource(p) ==
  LET a == req[p].from
  IN  /\ pc[p] = "loadSource"
      /\ \/ /\ Succeeds(p) /\ status[a] # NoRow
            /\ view' = [view EXCEPT ![p] = [balance |-> balance[a],
                                          status |-> status[a]]]
            /\ Goto(p, "loadDest") /\ UNCHANGED reply
         \/ /\ Succeeds(p) /\ status[a] = NoRow
            /\ Return(p, "not_found") /\ UNCHANGED view
         \/ /\ Fails(p, "db")
            /\ Return(p, "error") /\ UNCHANGED view
      /\ UNCHANGED <<dbVars, txVars, storeVars, envVars, req, outcome>>

\* The first check that fails after both accounts are loaded: the source is
\* judged by what LoadSource read, the destination by its row now.
Refusal(r, source) ==
  IF status[r.to] = NoRow THEN "not_found"
  ELSE IF {Currency[r.from], Currency[r.to]} # {r.currency} THEN "mismatch"
  ELSE IF {source.status, status[r.to]} # {"ACTIVE"} THEN "invalid"
  ELSE IF source.balance < r.amount THEN "insufficient"
  ELSE NoRow

LoadDest(p) ==
  LET refusal == Refusal(req[p], view[p])
  IN  /\ pc[p] = "loadDest"
      /\ view' = [view EXCEPT ![p] = NoView]
      /\ \/ /\ Succeeds(p) /\ refusal = NoRow
            /\ Goto(p, "loadClearing") /\ UNCHANGED reply
         \/ /\ Succeeds(p) /\ refusal # NoRow
            /\ Return(p, refusal)
         \/ /\ Fails(p, "db")
            /\ Return(p, "error")
      /\ UNCHANGED <<dbVars, txVars, storeVars, envVars, req, outcome>>

ClearingRefusal(r) ==
  IF status[Clearing] = NoRow THEN "no_clearing"
  ELSE IF Currency[Clearing] # r.currency THEN "mismatch"
  ELSE IF status[Clearing] # "ACTIVE" THEN "invalid"
  ELSE NoRow

LoadClearing(p) ==
  LET refusal == ClearingRefusal(req[p])
  IN  /\ pc[p] = "loadClearing"
      /\ \/ /\ Succeeds(p) /\ refusal = NoRow
            /\ Goto(p, "create") /\ UNCHANGED reply
         \/ /\ Succeeds(p) /\ refusal # NoRow
            /\ Return(p, refusal)
         \/ /\ Fails(p, "db")
            /\ Return(p, "error")
      /\ UNCHANGED <<dbVars, txVars, storeVars, envVars, req, view, outcome>>

\* Mutant: INSERT ... ON CONFLICT DO UPDATE instead of a duplicate key error.
NeverTaken(k) == FALSE

\* The unique index on idempotency_key.
Taken(k) == txStatus[k] # NoRow

Inserted(p) ==
  /\ txStatus' = [txStatus EXCEPT ![req[p].key] = "PENDING"]
  /\ maker' = [maker EXCEPT ![req[p].key] = p]

\* CreateTransaction, committed on its own: the INSERT checks that what the column
\* keeps of the amount is positive, checks the unique key, and waits for another
\* INSERT of the same key, before its foreign keys lock the source account and then
\* the destination. FOR KEY SHARE waits for FOR UPDATE.
Create(p) ==
  LET r == req[p]
  IN  /\ pc[p] = "create"
      /\ \/ /\ Succeeds(p) /\ Stored(r.amount) > 0
            /\ ~Taken(r.key) /\ ~Reserved(r.key) /\ lock[r.from] = None
            /\ Goto(p, "createDest") /\ UNCHANGED reply
         \/ /\ Succeeds(p) /\ Stored(r.amount) > 0 /\ Taken(r.key)
            /\ Goto(p, "loadDuplicate") /\ UNCHANGED reply
         \/ /\ \/ Fails(p, "db")
               \/ Succeeds(p) /\ Stored(r.amount) = 0
            /\ Return(p, "error")
      /\ UNCHANGED <<dbVars, txVars, storeVars, envVars, req, view, outcome>>

CreateDest(p) ==
  LET free == lock[req[p].to] = None
  IN  /\ pc[p] = "createDest"
      /\ \/ /\ Succeeds(p) /\ free
            /\ Inserted(p)
            /\ Goto(p, "begin") /\ UNCHANGED reply
         \/ /\ Fails(p, "db")
            /\ Return(p, "error") /\ UNCHANGED <<txStatus, maker>>
         \/ /\ AnswerLost(p, "lostAck") /\ free
            /\ Inserted(p) /\ Return(p, "error")
      /\ UNCHANGED <<balance, status, journal, txVars, storeVars, envVars, req,
                     view, outcome>>

\* GetTransactionByIdempotencyKey after a duplicate key. Rows are never deleted,
\* so the row is there.
LoadDuplicate(p) ==
  /\ pc[p] = "loadDuplicate"
  /\ \/ /\ Succeeds(p)
        /\ Return(p, txStatus[req[p].key])
     \/ /\ Fails(p, "db")
        /\ Return(p, "error")
  /\ UNCHANGED <<dbVars, txVars, storeVars, envVars, req, view, outcome>>

(***************************************************************************)
(* The settlement transaction                                              *)
(***************************************************************************)
\* BeginTx with RepeatableRead; the snapshot is that of its first statement.
Begin(p) ==
  /\ pc[p] = "begin"
  /\ \/ /\ Succeeds(p)
        /\ working' = [working EXCEPT ![p] = txStatus[req[p].key]]
        /\ Goto(p, "postClearing") /\ UNCHANGED reply
     \/ /\ Fails(p, "db")
        /\ reply' = [reply EXCEPT ![p] = "error"]
        /\ Goto(p, "failBegin") /\ UNCHANGED working
  /\ UNCHANGED <<dbVars, lock, stale, delta, posted, storeVars, envVars, req,
                 view, outcome>>

\* One row of loadAndLockAccounts. A row written since the snapshot is a
\* serialization failure under REPEATABLE READ.
LockRow(p, a) ==
  /\ IsNextRow(p, a)
  /\ \/ /\ Succeeds(p) /\ a \notin stale[p]
        /\ lock[a] = None /\ Sharers(a) = {}
        /\ lock' = [lock EXCEPT ![a] = p]
        /\ UNCHANGED <<stale, delta, posted, working, pc, reply>>
     \/ /\ Succeeds(p) /\ a \in stale[p]
        /\ FailTx(p, "error")
     \/ /\ Fails(p, "db")
        /\ FailTx(p, "error")
  /\ UNCHANGED <<dbVars, storeVars, envVars, req, view, outcome>>

\* deadlock_timeout: the detector aborts a call on a cycle, in its transaction or
\* in its INSERT.
DeadlockVictim(p) ==
  /\ Deadlocked(p)
  /\ \/ pc[p] = "createDest" /\ Return(p, "error") /\ UNCHANGED txVars
     \/ pc[p] \in {"postClearing", "postSettlement"} /\ FailTx(p, "error")
  /\ UNCHANGED <<dbVars, storeVars, envVars, faults, req, view, outcome>>

\* Mutant: every account is kept in the credit direction.
ChangeIgnoringType(e) == [a \in Accounts |-> NetDelta(e, a, "LIABILITY")]

\* The change entry e makes to every balance (computeNetDeltas).
Change(e) == [a \in Accounts |-> NetDelta(e, a, AccountType[a])]

\* Mutants: the balances are not checked again under the lock, or the statuses are
\* not.
RefusedByStatus(p, e) ==
  \E a \in RowsOf(e) : status[a] # "ACTIVE" \/ Currency[a] # req[p].currency

RefusedByFunds(p, e) ==
  \/ \E a \in RowsOf(e) : Currency[a] # req[p].currency
  \/ \E a \in RowsOf(e) : balance[a] + delta[p][a] + Change(e)[a] < 0

\* What stops an entry once its rows are locked: an account that is not ACTIVE
\* or has another currency, or a balance that would drop below zero
\* (checkSufficientBalances, on the rows as p's transaction sees them).
Refused(p, e) ==
  \/ \E a \in RowsOf(e) : status[a] # "ACTIVE" \/ Currency[a] # req[p].currency
  \/ \E a \in RowsOf(e) : balance[a] + delta[p][a] + Change(e)[a] < 0

\* Only a shortage at the clearing entry keeps its name.
PostRefusal(p, e) ==
  IF /\ pc[p] = "postClearing"
     /\ \A a \in RowsOf(e) : status[a] = "ACTIVE" /\ Currency[a] = req[p].currency
  THEN "insufficient" ELSE "error"

\* balance = balance + $1 on the rows of e: the column rounds the sum, and a line
\* keeps the rounded amount.
Written(p, e) ==
  [a \in Accounts |->
     IF a \in RowsOf(e) THEN Stored(balance[a] + delta[p][a] + Change(e)[a]) - balance[a]
     ELSE delta[p][a]]

StoredEntry(e) == [e EXCEPT !.amount = Stored(@)]

\* The rest of insertJournalEntryTx once the entry's rows are locked: the checks,
\* the header, the lines and the balance updates.
PostEntry(p) ==
  LET e == EntryOf(p)
  IN  /\ pc[p] \in {"postClearing", "postSettlement"}
      /\ RowsOf(e) \subseteq Held(p)
      /\ \/ /\ Succeeds(p) /\ ~Refused(p, e)
            /\ delta' = [delta EXCEPT ![p] = Written(p, e)]
            /\ posted' = [posted EXCEPT ![p] = Append(@, StoredEntry(e))]
            /\ Goto(p, IF pc[p] = "postClearing" THEN "markProcessing"
                                                 ELSE "markSettled")
            /\ UNCHANGED <<lock, stale, working, reply>>
         \/ /\ Succeeds(p) /\ Refused(p, e)
            /\ FailTx(p, PostRefusal(p, e))
         \/ /\ Fails(p, "db")
            /\ FailTx(p, "error")
      /\ UNCHANGED <<dbVars, storeVars, envVars, req, view, outcome>>

\* UpdateStatusTx: UPDATE ... WHERE status = from, inside the transaction; no row
\* matched is an error.
UpdateStatusTx(p, from, to, next) ==
  /\ \/ /\ Succeeds(p) /\ working[p] = from
        /\ working' = [working EXCEPT ![p] = to]
        /\ Goto(p, next)
        /\ UNCHANGED <<lock, stale, delta, posted, reply>>
     \/ /\ \/ Fails(p, "db")
           \/ Succeeds(p) /\ working[p] # from
        /\ FailTx(p, "error")
  /\ UNCHANGED <<dbVars, storeVars, envVars, req, view, outcome>>

MarkProcessing(p) ==
  /\ pc[p] = "markProcessing"
  /\ UpdateStatusTx(p, "PENDING", "PROCESSING", "postSettlement")

\* Mutant: the target status is that of the step before.
MarkSettledAgain(p) ==
  /\ pc[p] = "markSettled"
  /\ UpdateStatusTx(p, "PROCESSING", "PROCESSING", "commit")

MarkSettled(p) ==
  /\ pc[p] = "markSettled"
  /\ UpdateStatusTx(p, "PROCESSING", "SETTLED", "commit")

\* The database makes p's transaction visible. The rows its entries updated are
\* stale for every transaction that took its snapshot before.
Committed(p) ==
  LET k == req[p].key
  IN  /\ balance' = [a \in Accounts |-> balance[a] + delta[p][a]]
      /\ txStatus' = [txStatus EXCEPT ![k] = working[p]]
      /\ journal' = [journal EXCEPT ![k] = @ \o posted[p]]
      /\ EndTx(p)
      /\ stale' = [q \in Requests |->
           IF q = p THEN {}
           ELSE IF working[q] = NoRow THEN stale[q]
           ELSE stale[q] \cup {req[p].from, req[p].to, Clearing}]

Commit(p) ==
  /\ pc[p] = "commit"
  /\ \/ /\ Succeeds(p)
        /\ Committed(p)
        /\ outcome' = [outcome EXCEPT ![p] = "SETTLED"]
        /\ IF HasStore
           THEN Goto(p, "storeSettled") /\ UNCHANGED reply
           ELSE Return(p, "SETTLED")
        /\ UNCHANGED <<status, maker>>
     \/ /\ AnswerLost(p, "lostAck")
        /\ Committed(p)
        /\ reply' = [reply EXCEPT ![p] = "error"]
        /\ Goto(p, "markFailed")
        /\ UNCHANGED <<status, maker, outcome>>
     \/ /\ Fails(p, "db")
        /\ FailTx(p, "error") /\ UNCHANGED <<dbVars, outcome>>
  /\ UNCHANGED <<storeVars, envVars, req, view>>

(***************************************************************************)
(* After the transaction: the failed row, the store, the claim             *)
(***************************************************************************)
\* Mutants: the update has no guard on the status, or it gives a status that no
\* other part of the service knows what to do with.
AlwaysFailed(k) == "FAILED"

Expired(k) ==
  IF txStatus[k] \in {"PENDING", "PROCESSING"} THEN "EXPIRED" ELSE txStatus[k]

\* The row FailTransaction leaves: FAILED, unless it was terminal already.
FailedStatus(k) ==
  IF txStatus[k] \in {"PENDING", "PROCESSING"} THEN "FAILED" ELSE txStatus[k]

\* Mutant: the update runs in the transaction that was rolled back.
RowFailedInVain(p) == UNCHANGED txStatus

RowFailed(p) ==
  txStatus' = [txStatus EXCEPT ![req[p].key] = FailedStatus(req[p].key)]

\* idempotencyStoreResult is skipped when there is no store.
GotoStoreFailed(p) == Goto(p, IF HasStore THEN "storeFailed" ELSE "done")

\* failTx's FailTransaction. Its error leaves the claim to the deferred unlock.
MarkFailed(p) ==
  /\ pc[p] = "markFailed"
  /\ \/ /\ Succeeds(p)
        /\ RowFailed(p)
        /\ outcome' = [outcome EXCEPT ![p] = FailedStatus(req[p].key)]
        /\ GotoStoreFailed(p) /\ UNCHANGED reply
     \/ /\ Fails(p, "db")
        /\ Return(p, reply[p]) /\ UNCHANGED <<txStatus, outcome>>
     \/ /\ AnswerLost(p, "lostAck")
        /\ RowFailed(p)
        /\ Return(p, reply[p]) /\ UNCHANGED outcome
  /\ UNCHANGED <<balance, status, maker, journal, txVars, storeVars, envVars,
                 req, view>>

\* FailTransaction after BeginTx failed. Its error is ignored, and the zero
\* Transaction it returns is stored.
FailBegin(p) ==
  /\ pc[p] = "failBegin"
  /\ \/ /\ Succeeds(p)
        /\ RowFailed(p)
        /\ outcome' = [outcome EXCEPT ![p] = FailedStatus(req[p].key)]
     \/ /\ Fails(p, "db")
        /\ outcome' = [outcome EXCEPT ![p] = Zero] /\ UNCHANGED txStatus
     \/ /\ AnswerLost(p, "lostAck")
        /\ RowFailed(p)
        /\ outcome' = [outcome EXCEPT ![p] = Zero]
  /\ GotoStoreFailed(p)
  /\ UNCHANGED <<balance, status, maker, journal, txVars, storeVars, envVars,
                 req, view, reply>>

\* idempotencyStoreResult on a failure path: its error is ignored, and the claim
\* is dropped without an unlock either way.
StoreFailed(p) ==
  /\ pc[p] = "storeFailed"
  /\ \/ /\ Succeeds(p)
        /\ redis' = [redis EXCEPT ![req[p].key] = outcome[p]]
     \/ /\ Fails(p, "redis") /\ UNCHANGED redis
  /\ claimed' = claimed \ {p}
  /\ Goto(p, "done")
  /\ UNCHANGED <<dbVars, txVars, envVars, req, view, outcome, reply>>

\* idempotencyStoreResult after the commit: its error is the answer.
StoreSettled(p) ==
  LET stored == [redis EXCEPT ![req[p].key] = outcome[p]]
  IN  /\ pc[p] = "storeSettled"
      /\ \/ /\ Succeeds(p)
            /\ redis' = stored
            /\ claimed' = claimed \ {p}
            /\ reply' = [reply EXCEPT ![p] = outcome[p]]
            /\ Goto(p, "done")
         \/ /\ Fails(p, "redis")
            /\ Return(p, "error") /\ UNCHANGED storeVars
         \/ /\ AnswerLost(p, "redis")
            /\ redis' = stored
            /\ Return(p, "error") /\ UNCHANGED claimed
      /\ UNCHANGED <<dbVars, txVars, envVars, req, view, outcome>>

\* Mutant: DEL is repeated until it succeeds, with the context of the request.
UnlockUntilDeleted(p) ==
  /\ pc[p] = "unlock"
  /\ \/ /\ Succeeds(p)
        /\ redis' = [redis EXCEPT ![req[p].key] = Absent]
        /\ claimed' = claimed \ {p}
        /\ Goto(p, "done")
     \/ /\ Fails(p, "redis") /\ UNCHANGED <<storeVars, pc>>
  /\ UNCHANGED <<dbVars, txVars, envVars, req, view, outcome, reply>>

\* The deferred unlock: DEL, with its error ignored.
Unlock(p) ==
  /\ pc[p] = "unlock"
  /\ \/ /\ Succeeds(p)
        /\ redis' = [redis EXCEPT ![req[p].key] = Absent]
     \/ /\ Fails(p, "redis") /\ UNCHANGED redis
  /\ claimed' = claimed \ {p}
  /\ Goto(p, "done")
  /\ UNCHANGED <<dbVars, txVars, envVars, req, view, outcome, reply>>

(***************************************************************************)
(* The environment                                                         *)
(***************************************************************************)
\* The caller goes away: the request's context is cancelled.
Cancel(p) ==
  /\ Live(p) /\ p \notin cancelled
  /\ Fault("cancel")
  /\ cancelled' = cancelled \cup {p}
  /\ UNCHANGED <<dbVars, txVars, storeVars, callVars, statusChanges>>

\* The server process dies: open transactions are rolled back, rows and Redis
\* keys stay as they are. Calls that have not arrived find it restarted.
Crash ==
  LET L == {p \in Requests : Live(p)}
  IN  /\ L # {}
      /\ Fault("crash")
      /\ pc' = [p \in Requests |-> IF p \in L THEN "dead" ELSE pc[p]]
      /\ claimed' = {}
      /\ lock' = [a \in Accounts |-> None]
      /\ stale' = [p \in Requests |-> {}]
      /\ delta' = [p \in Requests |-> NoDelta]
      /\ posted' = [p \in Requests |-> << >>]
      /\ working' = [p \in Requests |-> NoRow]
      /\ UNCHANGED <<dbVars, redis, req, view, outcome, reply, envVars>>

\* Redis forgets a key: its TTL ran out or it was evicted.
Expire(k) ==
  /\ redis[k] # Absent
  /\ Fault("expire")
  /\ redis' = [redis EXCEPT ![k] = Absent]
  /\ UNCHANGED <<dbVars, txVars, claimed, callVars, envVars>>

\* UPDATE accounts SET status, by the account service: it waits for the row lock
\* and makes the row stale for every open transaction.
SetAccountStatus(a, s) ==
  /\ statusChanges < MaxStatusChanges
  /\ status[a] \notin {NoRow, s}
  /\ lock[a] = None
  /\ status' = [status EXCEPT ![a] = s]
  /\ stale' = [q \in Requests |->
                 IF working[q] = NoRow THEN stale[q] ELSE stale[q] \cup {a}]
  /\ statusChanges' = statusChanges + 1
  /\ UNCHANGED <<balance, txStatus, maker, journal, lock, delta, posted, working,
                 storeVars, callVars, cancelled, faults>>

Terminating == /\ \A p \in Requests : pc[p] \in {"done", "dead"}
               /\ UNCHANGED vars

\* The next step of a call that is under way.
Progress(p) ==
  \/ CacheLookup(p) \/ Claim(p) \/ Recheck(p)
  \/ LoadSource(p) \/ LoadDest(p) \/ LoadClearing(p)
  \/ Create(p) \/ CreateDest(p) \/ LoadDuplicate(p)
  \/ Begin(p) \/ FailBegin(p)
  \/ \E a \in Accounts : LockRow(p, a)
  \/ DeadlockVictim(p)
  \/ PostEntry(p) \/ MarkProcessing(p) \/ MarkSettled(p) \/ Commit(p)
  \/ MarkFailed(p) \/ StoreFailed(p) \/ StoreSettled(p) \/ Unlock(p)

Environment ==
  \/ \E p \in Requests : Cancel(p)
  \/ Crash
  \/ \E k \in Keys : Expire(k)
  \/ \E a \in Accounts, s \in AccountStatus : SetAccountStatus(a, s)

Next ==
  \/ \E p \in Requests : Progress(p) \/ \E r \in Payloads : Receive(p, r)
  \/ Environment
  \/ Terminating

Spec == Init /\ [][Next]_vars

\* Go runs every request's goroutine, each round trip returns or fails, and
\* PostgreSQL's deadlock detector fires: a call that can step does. Nobody has
\* to send a request, change a status or make anything fail.
FairSpec == Spec /\ \A p \in Requests : WF_vars(Progress(p))

-----------------------------------------------------------------------------
(***************************************************************************)
(* Properties                                                              *)
(***************************************************************************)
\* No account is ever overdrawn, although the funds check of LoadDest reads a
\* balance other calls are about to spend.
NoOverdraft == \A a \in Accounts : balance[a] >= 0

\* The entries of a transfer and its SETTLED status are one: a key has exactly
\* its clearing and its settlement entry when its row is SETTLED, and none in any
\* other status, through every failure, retry and crash.
SettledIffPosted ==
  \A k \in Keys :
    journal[k] = IF txStatus[k] = "SETTLED"
                 THEN <<StoredEntry(ClearingEntry(req[maker[k]])),
                        StoredEntry(SettlementEntry(req[maker[k]]))>>
                 ELSE << >>

\* accounts.balance, which the code updates by increments that the column rounds, is
\* what replaying the stored lines gives, and one stored unit more for each entry of
\* a half-way amount that lowered it: those round up, line and balance alike.
PostedOn(k, a) ==
  SumFunction([i \in DOMAIN journal[k] |-> NetDelta(journal[k][i], a, AccountType[a])])

Kept(e, a) == IF HalfWay(e.amount) /\ Change(e)[a] < 0 THEN Quantum ELSE 0

KeptOn(k, a) ==
  LET r == req[maker[k]]
  IN  IF journal[k] = << >> THEN 0 ELSE Kept(ClearingEntry(r), a) + Kept(SettlementEntry(r), a)

BalancesMatchJournal ==
  \A a \in Accounts :
    balance[a] = InitBalance[a] + SumFunction([k \in Keys |-> PostedOn(k, a) + KeptOn(k, a)])

\* A payload in Redis is the row as it is now, so a cached answer is never out
\* of date (a zero payload is not the JSON of a row).
CacheIsCurrent ==
  \A k \in Keys : redis[k] \in TxStatus => redis[k] = txStatus[k]

\* At most one call at a time works under a key, as long as Redis keeps its keys.
ClaimsAreExclusive ==
  \A p, q \in claimed : p # q => req[p].key # req[q].key

\* Absent failures the caller that made a row learns the row's fate, and the row
\* is decided by then.
AnswerMatchesRow ==
  \A k \in Keys :
    LET p == maker[k]
    IN  faults = 0 /\ p # None /\ pc[p] = "done" =>
          /\ txStatus[k] \in {"SETTLED", "FAILED"}
          /\ reply[p] = "SETTLED" <=> txStatus[k] = "SETTLED"

\* Every call that arrives is answered, however the row locks interleave.
Answered == \A p \in Requests : Live(p) ~> pc[p] = "done"

\* A row is PENDING only while the call that made it is at work.
NoOrphanPending ==
  \A k \in Keys : txStatus[k] = "PENDING" => Live(maker[k])

\* An answer that says SETTLED is true, whichever call gives it and wherever it
\* comes from: the commit, the cache or the duplicate row.
SettledAnswersAreTrue ==
  \A p \in Requests :
    pc[p] = "done" /\ reply[p] = "SETTLED" => txStatus[req[p].key] = "SETTLED"

\* No call waits for itself through others.
NoDeadlock == \A p \in Requests : ~Deadlocked(p)

\* Nor do postings among themselves.
Posting == {p \in Requests : pc[p] \in {"postClearing", "postSettlement"}}

PostingsDoNotDeadlock == \A p \in Posting : ~OnCycle(p, Posting)

\* Two calls that block each other: q, which has posted its clearing entry, holds the
\* clearing account and wants its destination, whose id is lower; r holds that
\* account as its source, and wants the clearing account.
MeetAtClearing(q, r) ==
  /\ pc[q] = "postSettlement" /\ pc[r] = "postClearing"
  /\ lock[Clearing] = q
  /\ lock[req[r].from] = r
  /\ req[q].to = req[r].from /\ req[q].to < Clearing

\* Locking in id order does not keep postings apart, because a transfer locks twice;
\* but every circle of them, however long, is one of opposed transfers that meet at
\* the clearing account, between a customer and a clearing account of a higher id.
CirclesMeetAtClearing ==
  (\E p \in Posting : OnCycle(p, Posting))
    => \E q, r \in Posting : MeetAtClearing(q, r)

\* The service implements AtomicTransfer: a transfer is one step, between ACTIVE
\* accounts, and its outcome is final.
OrderOf(k) == IF maker[k] = None THEN NoReq ELSE req[maker[k]]

OutcomeOf(k) == CASE txStatus[k] = NoRow -> "none"
                  [] txStatus[k] = "SETTLED" -> "settled"
                  [] txStatus[k] = "FAILED" -> "failed"
                  [] OTHER -> "open"

Atomic == INSTANCE AtomicTransfer WITH
  InitFunds <- InitBalance,
  Orders <- Payloads,
  NoOrder <- NoReq,
  funds <- balance,
  active <- {a \in Accounts : status[a] = "ACTIVE"},
  order <- [k \in Keys |-> OrderOf(k)],
  outcome <- [k \in Keys |-> OutcomeOf(k)]

ImplementsAtomic == Atomic!Spec
=============================================================================
