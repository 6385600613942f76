# Payments engine: verification

TLA+ modules, TLC runs and TLAPS proofs for the payments engine: a Go service that
moves money between accounts with double-entry bookkeeping over PostgreSQL, with
idempotency keys kept in Redis when there is one.

    tlc -config MCTransferFaults.cfg MCTransfer     # one run
    tlapm TransferProofs.tla                        # the proofs of one module

## The system

| part | code | state | operations |
| --- | --- | --- | --- |
| transfer service | `internal/transaction` | rows of `transactions` | `Transfer`, `GetTransactionByID` |
| ledger | `internal/ledger` | `journal_entries`, `journal_entry_lines`, `accounts.balance` | `PostJournalEntry(Tx)`, trial balance, account entries |
| idempotency store | `pkg/idempotency` | Redis keys with a TTL of 24 hours | `Get`, `Set`, `SetNX`, `Del` |
| accounts | `internal/account`, `api/handler/account_handler.go` | `accounts` rows: status, type, currency | `CreateAccount`, `UpdateAccountStatus` |
| seed program | `cmd/seed` | the chart of accounts | one transaction that inserts what is missing |
| settlement netting | `internal/settlement` | SETTLED rows become RECONCILED | `RunDailyNetting`, `NetPositions` |
| audit trail | `internal/audit`, `transaction/audit_payload.go` | `audit_events`, append only | `Log`, queries |
| money | `pkg/money` | none | decimals with a currency |
| HTTP API, middleware, configuration | `api`, `cmd/server`, `config` | none | parsing, routing, codes, wiring |

`TransferService.Transfer` is where the parts meet. One call

1. looks its key up in Redis and claims it with `SETNX` of a marker,
2. reads the source, destination and clearing accounts and checks currency, status
   and funds, holding no lock,
3. inserts a PENDING row, committed on its own, under a unique index on the key,
4. runs one REPEATABLE READ transaction: entry source to clearing, PENDING to
   PROCESSING, entry clearing to destination, PROCESSING to SETTLED, COMMIT; each
   entry locks its accounts `ORDER BY id FOR UPDATE` and checks them again,
5. stores the row in Redis. Any failure after step 3 rolls back, marks the row FAILED
   on another connection, and stores that.

It writes its audit events between these steps, each on a connection of its own.

Calls share the account rows (every transfer locks the clearing account), the unique
index, the Redis key and the connection pool. The account service changes statuses
meanwhile, the seed program inserts accounts, and netting takes what has settled.

What is hard: checks on data that is stale when it is used; two locks per
transaction; snapshot isolation; the state spread over two stores that fail
separately; a commit whose acknowledgement is lost; clean-up code that runs with a
cancelled context; amounts of any precision in columns of four places. `PROJECT.json`
lists each hazard at its line.

What makes each part correct:

- transfers: an accepted key settles at most once and completely; nobody is
  overdrawn; the answer, the cache and the row agree; every call is answered and
  decides its row.
- ledger: the stored balances are the replay of the stored lines, up to what rounding
  adds; entries take effect together with the status they belong to; the lines of one
  entry are locked in an order that rules out deadlock.
- idempotency: one call at a time works under a key; a cached answer is current; who is
  told SETTLED is told the truth. (That a retry gets the original response is violated
  for failed transfers.)
- accounts: every change of status is told by an event; nothing is posted to an account
  that is not ACTIVE. (That CLOSED is final is violated by racing updates.)
- netting: a transfer is netted in one run at most, and marked exactly when it was; net
  positions preserve every account's total.
- audit: the event that ends a trail is true of the row; writing events never fails a
  transfer, nor blocks one while the pool has connections to spare.

## Modules

| module | extends | what it is |
| --- | --- | --- |
| `Postings` | | how a line moves the balance of an account of each type, and what a column keeps of an amount |
| `AtomicTransfer` | `Postings` | what the service promises: a key is accepted once and decided once, and a settlement is one step between ACTIVE accounts |
| `Transfer` | `Postings` | `Transfer` with every round trip, the database transaction and its locks, Redis, and the failures; the refinement of `AtomicTransfer` |
| `TransferApi` | `Transfer` | the codes callers are answered, and the two reads of the API |
| `TransferAudit` | `Transfer` | audit events between the steps of `Transfer`, and the connection pool |
| `AccountTable` | `Postings` | the accounts table: rows, row locks, failures |
| `Accounts`, `Seed`, `Journal` | `AccountTable` | the account service, the seed program, and `PostJournalEntry` with the reads of the ledger |
| `LedgerEngine` | the three | their composition over one table |
| `AtomicNetting` | | what netting promises: a batch leaves the settled rows in one step |
| `Netting` | | `RunDailyNetting` beside other runs and transfers that settle; the refinement of `AtomicNetting` |
| `MCTransfer`, `MCTransferAudit`, `MCLedgerEngine`, `MCNetting` | | instances for TLC |
| `TransferProofs` | `Transfer` | types, funds, postings |
| `TransferAnswersProofs` | `TransferProofs` | the cache, the answers, the claims |
| `TransferRefinementProofs` | `TransferAnswersProofs` | `Transfer` implements `AtomicTransfer` |
| `SumTheorems` | | lemmas about sums over finite sets, for the balances and the positions |
| `TransferApiProofs` | `TransferApi`, `TransferRefinementProofs`, `SumTheorems` | balances and rounding, the clearing account, circles of lock waits, refusals |
| `TransferAuditProofs` | `TransferAudit`, `TransferRefinementProofs` | what the audit trail says, and when |
| `LedgerProofs`, `NettingProofs` | `LedgerEngine`, `Netting`, and `SumTheorems` | theorems about these |

### Transfer and the code

An action is one round trip with the code up to the next one, so everything another
call can do in between is interleaved. `pc[p]` names the round trip the call `p` is
about to make, and the actions follow the function:

| actions | code (`internal/transaction/service.go` unless named) |
| --- | --- |
| `Receive` | `validateTransferRequest` |
| `CacheLookup`, `Claim`, `Recheck` | `idempotencyTryReturnCached`, `idempotencyAcquireExclusive` |
| `LoadSource`, `LoadDest`, `LoadClearing` | the reads and checks before the row exists |
| `Create`, `CreateDest`, `LoadDuplicate` | `CreateTransaction`: the unique index and the two foreign-key locks of the INSERT; the lookup after a duplicate key |
| `Begin`, `LockRow`, `PostEntry`, `MarkProcessing`, `MarkSettled`, `Commit` | the settlement transaction; `LockRow` is one row of `loadAndLockAccounts`, `PostEntry` the rest of `insertJournalEntryTx` (`internal/ledger/repository.go`) |
| `MarkFailed`, `FailBegin`, `StoreFailed` | `failTx` and the begin-failure path |
| `StoreSettled`, `Unlock` | `idempotencyStoreResult` after the commit; the deferred unlock |
| `DeadlockVictim`, `Cancel`, `Crash`, `Expire`, `SetAccountStatus` | the environment |

State: `balance`, `status`, `txStatus`, `maker` and `journal` are committed rows
(`maker` is the call whose body the row holds); `lock`, `stale`, `delta`, `posted` and
`working` are the open transactions; `redis` and `claimed` are the store and the local
flag `idemLocked`; `pc`, `req`, `view`, `outcome` and `reply` are the local variables of
a call that outlive a round trip.

PostgreSQL is modelled by what the code relies on. `FOR UPDATE` excludes other
`FOR UPDATE`s, status updates and the `FOR KEY SHARE` of foreign keys. A row that
another transaction has changed since the snapshot (`stale`) is a serialization error
as soon as it is locked. The detector may abort any call on a cycle of waits.

Each round trip may fail (`Fails`), and those that write may take effect and lose
their answer (`AnswerLost`). With `p` in `cancelled` every round trip of `p` fails, as
with a cancelled context, including the ones of its clean-up.

Amounts and balances are integers in a unit finer than the columns, which hold multiples
of `Quantum` (0.0001) of it. `Stored` is the rounding of `NUMERIC(18, 4)`, half away from
zero. The code computes and compares with the amount it was given, the database rounds
each line and each `balance + $1` by itself: so `PostEntry` checks the unrounded amount,
appends a `StoredEntry`, and changes the balances to what is `Written`. An amount that
would be stored as zero violates the CHECK of the INSERT in `Create`.

Abstractions: a payload in Redis is the status of the row it encodes, or `Zero` for the zero
`Transaction`; entry headers, descriptions, timestamps, logs and audit events are
left out (the events have `TransferAudit`); account ids are naturals in the order of
`ORDER BY id`; the fourteen integer digits of the columns are not bounded. A currency or
type of an account never changes, and rows are never deleted: no code does either.

### AtomicTransfer

The abstract specification has balances, the set of ACTIVE accounts, and per key an
order and one of "none", "open", "settled", "failed". `Settle` moves the amount from
source to destination at once, rounding each balance. The clearing account has no part
in it, but that one stored unit of a half-way amount stays there. `Transfer` implements
it with `funds <- balance`, `order` the body of the row and `outcome` its status. So
the two entries net out on the clearing account, up to that unit, even when other
transfers, status changes and failures come between them, and a decided key is never
decided again.

### TransferApi

The handlers keep no state. `HttpStatus` is `writeTransferError` and the 201 of an
answer without an error; `GetTransferByID` and `GetClearingHealth` are the reads. The
properties speak of what a client may conclude from a code.

### TransferAudit and the code

`emitTransferAudit` runs between two round trips of a call. One event is three reads of
account rows (`ReadSnapshot`, `loadThreeAccountSnapshots`) and three inserts
(`WriteRow`, one per scope, `Log`), each on a connection it takes from the pool for
itself. `Emits` says which step of `Transfer` is followed by which events: it reads the
step off `pc`, so `TransferStep` is `Progress` of `Transfer` with the events appended to
`pending`. While events are pending the call makes no other step, with its row locks and
its connection held. `Holders` are the calls with an open transaction or an INSERT under
way; a round trip outside them needs `HasFree`, unless the context is cancelled, when
the wait fails. `trail[k][entity]` is `audit_events` of the transfer under `k` and of its
transaction, source or destination; of the three snapshots only the source's balance is
kept.

### LedgerEngine and the code

| actions | code |
| --- | --- |
| `Submit`, `InsertAccount`, `LogAudit` | `CreateAccount` from its handler on: INSERT, then the event in a round trip of its own; every error before it is answered 400 |
| `Submit`, `ReadStatus`, `WriteStatus`, `LogAudit` | `UpdateAccountStatus`: read, check, UPDATE without a condition, then the event |
| `BeginSeed`, `LoadParent`, `CheckExists`, `InsertChartAccount`, `CommitSeed` | `cmd/seed`: two passes over `baseCoA` in one transaction; an error ends the process |
| `PostJournalEntry` | the checks of the service and of the header |
| `SelectAccounts`, `LockAccount`, `InsertEntry`, `CommitEntry` | `insertJournalEntryTx` in a READ COMMITTED transaction: rows found when the SELECT begins, locked lowest first; checks, `posted_at` (`Stamp`: the caller's own time, or the clock), lines and balances |

`account` is the function of committed rows; its domain grows. `rowLock` is held by
posters only: the UPDATE of a status is one statement and waits for the row in its guard,
and a seed run's uncommitted rows (`drafted`) block others through the unique code.
`logging[p]` is the event an administrator's request has still to write. `NetOf`,
`NetTotal` and `AccountEntries` are the trial balance and the account statement. Amounts
are rounded as in `Transfer`. Readings of the clock may tie, and are taken not to run
backwards. Names, descriptions and parent
links beyond the seed's order are left out; an entry's id and reference are its place in
`journal`.

### Netting and the code

| actions | code |
| --- | --- |
| `MarkSettled`, `CommitSettled`, `RollBack`, `FailTransaction` | what netting can see of a transfer: `settled_at` is taken from the clock before the commit |
| `Start`, `List`, `UpdateRow`, `CheckCount`, `CommitRun`, `FailRun` | `RunDailyNetting`: begin, `ListSettledForSettlementDayTx`, `BulkUpdateStatusTx` row by row, the comparison of the counts, commit |
| `DeadlockVictim`, `Tick`, `Crash` | the detector, the clock, the process |

`Position` and `NetPositions` are `NetPositions` of `settlement.go`: one signed flow per
pair and currency. `InDay` is `SettlementDayBounds`. The UPDATE visits its rows in any
order and looks at the status again when it gets one, as READ COMMITTED does.
`AtomicNetting` has no clock, lock or query: each row is "open", "settled" or
"netted", and a run makes at most one batch, in one step.

## Runs

The accounts of a run are few, because a transfer touches three: two customers and the
clearing account, whose place in id order matters and is chosen per run (`Clearing`).

| run | bounds | shows |
| --- | --- | --- |
| `contention` | 3 interchangeable calls (symmetry), 3 keys, two amounts that are rounded, funds for some of them, Redis with 2 errors or expiries | no overdraft, no row left PENDING, nothing on the clearing account but the units of half-way amounts, no circle of postings but opposed transfers that meet at clearing, atomicity, under every interleaving of locks, stale snapshots and deadlocks |
| `mixed` | 2 calls, 5 accounts (an ASSET, a USD one, a missing one), clearing account first, amounts rounded up and down, bodies every check turns away, 1 status change, 1 failure of 3 kinds, fairness | balances replay the stored lines, the checks under the lock, answers match rows, every call is answered |
| `faults` | 3 calls with one key, one body perhaps too small to be stored, Redis, 3 failures of 5 kinds | both entries or none, once, under crashes, cancellations, errors and lost answers; one claim; the cache, the answers and the codes never say more than the row |
| `audit` | 2 opposed calls, pool of 3, 1 failure of a transfer or of the audit, fairness | settled and failed events are true, the trail is complete, answers match rows whatever the audit meets, every call ends |
| `ledger` | 2 postings of 8 possible entries (halves of a stored unit, a time of the caller's), 1 administrator with 2 requests, 2 failures, fairness | balances and trial balance within rounding, statements, lock order, status changes beside postings; nobody waits for ever |
| `seed` | 2 seed runs, 2 administrators with 2 requests that freeze, close or reopen an account of the chart, 1 posting to it, 2 failures, fairness | the chart is whole or absent; the events of racing status changes: none missing, each from a status the account had, and versions count them; nobody waits in a circle |
| `netting` | 2 runs (3 possible jobs), 3 transfers, 2 instants at the border of two days, 1 failure of 3 kinds, fairness | nothing netted twice or marked by a failed run; positions add up; days; overlapping runs end |

Three calls are enough for a cycle of three, for a retry that meets two earlier calls,
and for a claim that is taken, deleted and taken again. Each failure needs one more to
turn into a bad outcome, so three failures reach a failed step, the failure of its
clean-up, and the failure of the answer. A column holds multiples of four units in the
transfer runs, with amounts from one to eight, so fractions below a half, of a half and
above it occur, each with its own rounding; the ledger runs have multiples of two units,
where a fraction is a half. Balances let one call or two succeed but not all. Two posters
with entries over overlapping pairs reach every circle that ordering by id rules out.
Two administrators with a request each race on every pair of changes. Two netting runs
overlap when one has a currency filter and the other none, and three transfers give a
pair that nets and one of another currency.

The runs take from a few seconds to about four minutes each. All of them check deadlock,
except `poolExhausted`, whose point it is.

Every property is also run against a mutant of the code, defined next to what it
replaces: dropped or halved checks (`RefusedBy...`, `AcceptsAnyStatus`, `HasRead`,
`AnyCount`), no `ORDER BY` (`IsAnyRow`, `AnyOf`), an upsert (`NeverTaken`), a missing or
unguarded FAILED update (`RollBackOnly`, `RowFailedInVain`, `AlwaysFailed`), a wrong
account, sign or border (`SettlementFromSource`, `ChangeIgnoringType`, `AlwaysPositive`,
`InDayInclusive`), an event at the wrong place or time (`EmitsEarly`, `EmitsNoFailure`,
`EventAfter`), an UPDATE per line (`AppliedByLine`), work outside the transaction
(`InsertAtOnce`, `UpdateRowAtOnce`, `OwnBalance`), retries without an end
(`UnlockUntilDeleted`, `ReadAgain`, `SelectAgain`, `InsertAgain`, `RetryCount`), an audit
failure passed on to the caller (`WriteFailed`), a client blamed (`BlamesTheClient`).

### Where documents and code disagree

Each of these runs checks one sentence of the repository and finds it violated;
`PROJECT.json` quotes the sentences.

| run | finding |
| --- | --- |
| `orphan` | The clean-up uses the caller's context; when the caller leaves, the row stays PENDING. |
| `poolExhausted` | With as many transfers as connections, each holds one and waits for another to write its audit events: none ends. |
| `reopened` | Of two racing status updates the one that was checked earlier makes a closed account FROZEN, from where it can be ACTIVE again. |
| `clearingResidue` | A transfer of 0.00005 settles without any failure and leaves 0.0001 on the clearing account, each of whose two updates is rounded up: the health check alarms from then on. |
| `snapshots` | The account snapshots of an event are read outside the transaction it tells of, and show the accounts before the change. |

More sentences that do not hold have a property and a configuration of their own, for
whoever wants to see the trace; what does hold instead is checked by the runs above.

| configuration | module | property | sentence and trace |
| --- | --- | --- | --- |
| `MCTransferOpposed` | `MCTransfer` | `PostingsDoNotDeadlock` | "Ordering prevents deadlocks when concurrent transactions touch overlapping account sets" (`internal/ledger/repository.go:273`). One transaction locks twice: two opposed transfers block each other at the clearing account when its id lies between theirs. `CirclesMeetAtClearing` says that there is no other way. |
| `MCTransferRetried` | `MCTransfer` | `RetriesGetOriginal` | "submitting the same key twice returns the original response" (`api/handler/transfer_handler.go:37`). The caller of a transfer that fails is answered 500, the retry 201 with the FAILED row. `SettledAnswersAreTrue` holds. |
| `MCLedgerEngineTrialBalance` | `MCLedgerEngine` | `TrialBalanced` | "`net_total` (should be zero when the ledger is consistent)" (`README.md:15`). Two debits of half a stored unit balance a credit of a whole one when they are posted, and not as they are stored. `TrialBalanceIsClose` bounds the difference. |
| `MCLedgerEngineRounding` | `MCLedgerEngine` | `NoMoneyCreated` | "No money was created" (`internal/transaction/stress_test.go:24`). An entry of half a stored unit credits one account and leaves the other. |
| `MCLedgerEngineLastEvent` | `MCLedgerEngine` | `LastEventIsStatus` | "returns all audit events for a given entity in chronological order" (`internal/audit/logger.go:63`). The event of a status change is written after the UPDATE, so the last event of an account with racing changes may tell of another status than it has. `EventsTellHistory` holds. |
| `MCNettingCalendarDay` | `MCNetting` | `OwnDayOnly` | "loads SETTLED transfers for the calendar day of day (in loc)" (`internal/settlement/batch_processor.go:13`). A settlement day is 24 hours, a local day may be 23: rows of the next day are netted with this one. With days of 24 hours the property holds. |

Other traits the models have, which follow from the code and contradict no property
above:

- The INSERT of a transfer, which locks its source and waits for its destination by
  foreign keys, may deadlock with a posting. `Answered` holds all the same.
- Every transfer updates the clearing row under REPEATABLE READ, so of two concurrent
  ones one may fail with a serialization error, which nothing retries.
- Without Redis the retry of a settled transfer may be answered that funds are short.
- When BeginTx and FailTransaction both fail, a zero transaction is cached and answered.
- A transfer to the clearing account settles and leaves it non-zero.
- An amount that is stored as zero is answered 500, by the CHECK of the table.
- After a lost acknowledgement `failTx` finds the row SETTLED, and writes a
  TRANSFER_FAILED event that carries it; the caller is answered 500.
- JOURNAL_ENTRY_POSTED and HOLD_PLACED events are written before the commit and stay
  when the entries are rolled back.

### Fairness

`FairSpec` of `Transfer` asks for weak fairness of each call's next step. Go runs every
goroutine, a round trip returns or fails, and the deadlock detector fires after its
timeout. A call that waits for a row becomes able to step for good only when the row is
released for good, so weak fairness suffices only because every call runs a bounded
number of steps and two calls cannot starve a third for ever. Nothing else is fair:
calls need not arrive, and no failure has to happen. `Answered` is checked without
crashes, for no crashed call is answered.

`AuditFairSpec` is the same for a call with its events; the pool serves those who wait
in turn. `FairSpec` of `LedgerEngine` and `Netting` is weak fairness of each request,
seed run, posting and netting run that has begun. New requests and new jobs are not
fair, and in `LedgerEngine` they are finitely many, so being overtaken for ever is
impossible, as it is with PostgreSQL's queues.

## Proofs

The theorems hold for every set of calls, keys, accounts, transfers and runs, and every
bound on failures, under the assumptions their modules name (account ids are non-zero
naturals, opening balances are not negative and fit the columns, keys are not blank, and the like). Each
inductive invariant is kept by one lemma per action or group of actions, collected in a
`...Next` lemma, and holds on the instances above.

`TransferProofs`:

- `TypeCorrect`. `TypeOK` alone is not inductive: what `FailTransaction` and the
  duplicate lookup return is a status only because the row exists by then. `RowsExist`
  says at which labels it does.
- `NeverOverdrawn`. The check under the lock speaks of the balance plus the call's own
  uncommitted change, the commit adds that change later. `FundsInv` carries it over:
  only the holder of a row lock has a change of that balance, and with it the balance is
  not negative.
- `SettledExactlyOnce`. `OwnerInv`: the row of a key belongs to the call that inserted
  it, and is PENDING while that call may settle it. `StageInv`: at each label the
  transaction has posted exactly the entries due by then. `InsertInv`: at most one call
  inserts a key, and the key is free. So a commit takes a row from PENDING without
  entries to SETTLED with both, and `FailTransaction` after a lost acknowledgement
  leaves it there.

`TransferAnswersProofs`:

- `DecidedOnce`: no step changes a SETTLED or FAILED row (`TerminalKept`). From it
  follow `CacheStaysCurrent`, for a payload is taken from a decided row and may be stored
  much later (`CacheInv` has both the outcome a call carries and what Redis holds), and
  `SettledIsTrue`.
- `OneClaimPerKey`, assuming that Redis forgets no key. `ClaimInv`: a claim keeps its key
  taken, and a call at "unlock" has one. With an expiry the theorem is false: the unlock
  deletes whatever marker it finds.
- `RedisLeavesNoOrphan`, assuming that only Redis fails or forgets. `PendingInv`: a
  PENDING row is one its maker is still about to decide. The `orphan` run shows what a
  cancelled caller does to it.
- `AnswersMatchRows`. `MatchInv`, as long as nothing has failed: the maker of a decided
  row is about to say what the row says, and an undecided row has a maker at work.

`TransferRefinementProofs`: `TransfersAreAtomic`, `Spec => ImplementsAtomic`. `WorkInv`
says what the open transaction holds: after one entry `delta` is its change, after two
it is the sum of both (`BothChange`), and the rows checked so far are still locked, ACTIVE
and of the currency, because a status change needs the lock. `EntriesNetOut` is the
heart of it: on the clearing account, and on any other, both entries together are one
posting from source to destination. `FundsInv` gives that nobody is overdrawn,
`CommitRow` that the key was open. An INSERT maps to `Accept`, a commit to `Settle`, an
effective `FailTransaction` to `Fail`, a status change to `ChangeStatus`, and every
other step to a stutter.

`NettingProofs`: `TypeCorrect`; `NettedAtMostOnce`, `ReconciledAreNetted`,
`StatusesFollowTable` and `NettingIsAtomic` from `NettingInv`. `RowInv`: a row that an
open run has updated is SETTLED and in its list. `RunInv`: a run about to commit has
updated all it has listed, which is what the comparison of the counts is for, and what a
committed run has listed is RECONCILED. So two runs that listed one row cannot both
commit. `BatchesKeepToTheirDay`, assuming that no day is shorter than 24 hours
(`MCNettingCalendarDay` has one that is): `DayInv` says that what a run has listed was stamped
within its window, and `settled_at` does not change any more. `PositionsAreNet` needs no
invariant but the types: it is about `NetPositions` of any set of rows, and adds them up
pair by pair.

Balances and positions are sums, and facts about sums need induction, for which the
provers have no schema. `SumTheorems` does it with sets alone: a non-empty set of finite
sets has a minimal member, so if a fact fails for some set it fails for a smallest one,
and taking one element from that gives a contradiction (`SubsetInduction`). From it come
sums of equal functions, over disjoint unions and partitions, renamed and nested sums,
and sums of which one term changes.

`TransferApiProofs`:

- `BalancesReplayTheJournal`, for finitely many keys and amounts of any precision. A
  commit changes the sum by the two postings of one key (`WorkInv`), and no other step
  changes it. Balances are multiples of `Quantum`, so rounding a sum is adding the
  rounded amount, except that a half-way amount is rounded up on both sides: hence the
  one unit more on each balance it lowered.
- `CirclesAreOpposed`, wherever the clearing account's id falls. `LocksInv`: a call that
  posts its first entry holds the lower of its rows first. So in a circle of any length
  somebody holds the clearing account and waits for a customer of a lower id, which one
  that waits for clearing holds. Where clearing has the lowest id there is none.
- `AlarmsAreHalves`. `ClearingInv`: while nobody pays into it and no half-way amount has
  settled, the clearing account is at zero and a transfer from it never passes the check
  of its funds. `ValidInv`, for its proof, says that a call at work has a valid body.
- `RefusalsAreFinal`. `RefusedInv`: a call decides to refuse before it has a row, or after
  its transaction is lost and its row no longer can settle.

`TransferAuditProofs`:

- Each step of the audit is a stutter of `Transfer` by construction (lemma
  `AuditRefines`), so the invariants of the modules above hold with the audit, and the
  rest builds on them.
- `AuditTypeCorrect` and `TrailIsTrue`. `EventsInv`: whatever is written or waits to be
  names an outcome only of a row that has it, and such a row keeps it (`DecidedOnce`).
  `AckInv`: a call that goes on to fail over a SETTLED row has lost an acknowledgement,
  which is the only way to a TRANSFER_FAILED event of a settled transfer.
- `SnapshotsAreOld`. `InsideInv`: what has been read of the source since the first entry
  is its balance now, for the row is locked until the commit (`SourceLocked`).
- `TrailIsComplete`. `StoryInv`, as long as nothing has failed: the rows of a transfer
  followed by the events its call is still to write are the events of the labels it has
  been through.

`LedgerProofs`:

- `LockOrder` (no two postings each hold a row the other needs) from `LockInv`, which says
  that a posting holds a lower part of the rows it has found; `OnlyActiveBalancesMove`
  from `ReadyInv`, the rows of an entry about to be committed are locked and ACTIVE.
- `LedgerTypeCorrect`. `TypesInv` adds to `TypeOK` which request an administrator has at
  each label, that a seed run drafts accounts of the chart only, and that each posting
  advances the clock at most once: hence the hypothesis that the postings are finitely
  many, as in the theorems below.
- `BalancesReplay`, `StatementsNeverOverdraw` and `TrialBalances`, for amounts of any
  precision. Each line and each increment is rounded by itself, by half a `Quantum` at
  most and by nothing when it is whole; `Slack` adds that up, and the three hold within
  it: exactly where all lines are whole. (`MCLedgerEngineRounding` and
  `MCLedgerEngineTrialBalance` show that they do not hold exactly.) `EntryInv`: only admitted entries over existing accounts are stored.
  `StampInv`: of two entries with a common account that the service has stamped, the
  later one has no earlier timestamp, because it is taken after the locks. `FundedInv`: an
  entry about to be committed overdraws nobody. `StatementsNeverOverdraw` is about
  accounts none of whose entries has a time of the caller's. The trial balance is a table
  that is summed by accounts; summed by entries each term is what its lines' rounding
  leaves.
- `ChartStaysWhole`, for a chart that is whole or absent at the start. `EnsuredInv`: what a
  run has been through exists or is in its draft, so it commits with all of it.
- `HistoryIsTold`, for any number of administrators and as long as nothing fails. The
  events do not chain when changes race, but `ReadInv` holds: the status a request has
  read stays one that the start or an event leads to, for events are never deleted; and a
  change that is made is told, or about to be (`logging`).

Only model-checked are the liveness properties, which the prover cannot state without
ENABLED (`Answered`, `EveryCallFinishes`, `EveryoneIsServed`, `RunsFinish`), and
`VersionsAreTold`, which counts events. Every other property of a passing run is stated
by a theorem, under the hypotheses given here.

## Not modelled

- Middleware, request logging and log contexts: no state a service reads.
- The server's wiring and configuration; whether Redis is used is the constant
  `HasStore`, the size of the pool `MaxConns`.
- Parsing and formatting in handlers and DTOs, and generated API documentation
  (`docs/docs.go`). What is left of a body is whether each check lets it through.
- The methods of `pkg/money` that no stateful code calls, and the migrations, which run
  once; the constraints code relies on are in the modules.
- `GetTransactionByID` apart from its code, the time bounds of the audit queries, and
  `BulkUpdateStatus` and `UpdateStatus`, the variants on the pool that nothing calls.

## Plan

1. Netting beside the cache: how long a retry is told SETTLED of a RECONCILED row.
2. Transfers, postings and account updates over one table, in place of the status
   changes `Transfer` has as its environment.
3. Proofs: an abstract ledger (entries that take effect in one step between ACTIVE
   accounts) implemented by `LedgerEngine`, as `AtomicTransfer` is by `Transfer`; the order
   of row locks of `LedgerEngine` for circles of any number of postings; versions.
