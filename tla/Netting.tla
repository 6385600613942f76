------------------------------- MODULE Netting -------------------------------
(***************************************************************************)
(* RunDailyNetting (internal/settlement) beside transfers that settle, by  *)
(* the clock, while it runs, and beside other runs.                        *)
(*                                                                         *)
(* A run is one READ COMMITTED transaction: it lists the SETTLED rows      *)
(* whose settled_at lies in a day, nets them in memory, marks them         *)
(* RECONCILED with one UPDATE ... WHERE id = ANY($1) AND status =          *)
(* 'SETTLED', compares the number of rows, and commits. The UPDATE visits  *)
(* its rows in an order nobody chose, waits for the ones another run has   *)
(* updated, and looks at their status again when it gets them.             *)
(*                                                                         *)
(* Of a transfer only what netting can see is kept, once its row exists:   *)
(* the committed row, the settled_at it takes from the clock of the        *)
(* service before it commits, and the clean-up after a failure.            *)
(***************************************************************************)
EXTENDS Integers, FiniteSetsExt, Functions

CONSTANTS
  Transfers,  \* the transfers, one row each
  Body,       \* their accounts, amount and currency
  Accounts,   \* account ids, in the order of their text
  Currencies, \* currencies
  Runs,       \* the calls of RunDailyNetting
  Jobs,       \* the days and currency filters they may be called with
  Days,       \* the days, numbered
  Midnight,   \* the instant each local day begins
  DayLength,  \* 24 hours
  Instants,   \* the instants the clock may show
  FaultKinds, \* the kinds of failure that may happen
  MaxFaults,  \* bound on the number of failures
  None        \* not a run

NoTime == -1
AllCurrencies == ""   \* the filter that excludes nothing

\* The statuses a committed row of this service goes through. PROCESSING is
\* given and overwritten inside one transaction.
Statuses == {"PENDING", "SETTLED", "FAILED", "RECONCILED"}

ASSUME TransfersAssumption ==
  /\ IsFiniteSet(Transfers)
  /\ Accounts \subseteq Nat
  /\ AllCurrencies \notin Currencies
  /\ Body \in [Transfers -> [from : Accounts, to : Accounts,
                             amount : Nat \ {0}, currency : Currencies]]
  /\ \A t \in Transfers : Body[t].from # Body[t].to

ASSUME CalendarAssumption ==
  /\ Days \subseteq Nat
  /\ Midnight \in [Days -> Nat]
  /\ DayLength \in Nat \ {0}
  /\ Instants \subseteq Nat
  /\ Jobs \subseteq [day : Days, currency : Currencies \cup {AllCurrencies}]

ASSUME FaultsAssumption ==
  /\ FaultKinds \subseteq {"db", "lostAck", "crash"}
  /\ MaxFaults \in Nat
  /\ None \notin Runs

VARIABLES
  now,       \* the clock of the service
  \* committed columns
  status,    \* transactions.status
  settledAt, \* transactions.settled_at
  \* the transfers
  step,      \* what a transfer is about to do
  stamp,     \* the settled_at of its open transaction
  \* the runs
  pc,        \* the round trip a run is about to make
  job,       \* its day and filter
  listed,    \* the rows it has netted (txs)
  left,      \* the rows its UPDATE has yet to visit
  holder,    \* the run whose open transaction has updated a row
  committed, \* the runs whose transaction the database has committed
  faults

rowVars      == <<status, settledAt>>
transferVars == <<step, stamp>>
runVars      == <<pc, job, listed, left, holder, committed>>

vars == <<now, rowVars, transferVars, runVars, faults>>

NoJob == [day |-> NoTime, currency |-> AllCurrencies]

TypeOK ==
  /\ now \in Nat
  /\ status \in [Transfers -> Statuses]
  /\ settledAt \in [Transfers -> Nat \cup {NoTime}]
  /\ step \in [Transfers -> {"open", "stamped", "failing", "done"}]
  /\ stamp \in [Transfers -> Nat \cup {NoTime}]
  /\ pc \in [Runs -> {"idle", "list", "update", "commit", "done", "failed"}]
  /\ job \in [Runs -> Jobs \cup {NoJob}]
  /\ \A r \in Runs : pc[r] \in {"list", "update", "commit"} => job[r] \in Jobs
  /\ listed \in [Runs -> SUBSET Transfers]
  /\ left \in [Runs -> SUBSET Transfers]
  /\ holder \in [Transfers -> Runs \cup {None}]
  /\ committed \subseteq Runs
  /\ faults \in 0..MaxFaults

Init ==
  /\ now \in Instants
  /\ status = [t \in Transfers |-> "PENDING"]
  /\ settledAt = [t \in Transfers |-> NoTime]
  /\ step = [t \in Transfers |-> "open"]
  /\ stamp = [t \in Transfers |-> NoTime]
  /\ pc = [r \in Runs |-> "idle"]
  /\ job = [r \in Runs |-> NoJob]
  /\ listed = [r \in Runs |-> {}]
  /\ left = [r \in Runs |-> {}]
  /\ holder = [t \in Transfers |-> None]
  /\ committed = {}
  /\ faults = 0

Fault(kind) ==
  /\ kind \in FaultKinds
  /\ faults < MaxFaults
  /\ faults' = faults + 1

(***************************************************************************)
(* NetPositions: one flow per pair of accounts and currency                *)
(***************************************************************************)
\* Mutant: the lower account is taken to be the payer.
AlwaysPositive(t) == Body[t].amount

\* The pair and currency a transfer counts for (pairKey), and its amount, positive
\* when the lower account pays.
KeyOf(t) ==
  LET ends == {Body[t].from, Body[t].to}
  IN  [low |-> Min(ends), high |-> Max(ends), currency |-> Body[t].currency]

SignedAmount(t) ==
  IF Body[t].from = KeyOf(t).low THEN Body[t].amount ELSE -Body[t].amount

\* The position of key k over the transfers S: the residual flow, in the direction
\* of its sign, and how many transfers it stands for.
Position(k, S) ==
  LET of  == {t \in S : KeyOf(t) = k}
      net == SumFunction([t \in of |-> SignedAmount(t)])
  IN  [from |-> IF net > 0 THEN k.low ELSE k.high,
       to |-> IF net > 0 THEN k.high ELSE k.low,
       currency |-> k.currency,
       amount |-> IF net > 0 THEN net ELSE -net,
       count |-> Cardinality(of)]

NetPositions(S) ==
  {p \in {Position(k, S) : k \in {KeyOf(t) : t \in S}} : p.amount # 0}

(***************************************************************************)
(* The rows of a settlement day                                            *)
(***************************************************************************)
\* Mutant: the first instant of the next day belongs to this one.
InDayInclusive(d, time) == Midnight[d] <= time /\ time <= Midnight[d] + DayLength

\* SettlementDayBounds, and the WHERE clause that uses them.
InDay(d, time) == Midnight[d] <= time /\ time < Midnight[d] + DayLength

Matches(t, j) ==
  /\ status[t] = "SETTLED"
  /\ InDay(j.day, settledAt[t])
  /\ j.currency \in {AllCurrencies, Body[t].currency}

(***************************************************************************)
(* Transfers                                                               *)
(***************************************************************************)
\* now := time.Now(), and PROCESSING to SETTLED inside the transaction.
MarkSettled(t) ==
  /\ step[t] = "open"
  /\ stamp' = [stamp EXCEPT ![t] = now]
  /\ step' = [step EXCEPT ![t] = "stamped"]
  /\ UNCHANGED <<now, rowVars, runVars, faults>>

CommitSettled(t) ==
  /\ step[t] = "stamped"
  /\ status' = [status EXCEPT ![t] = "SETTLED"]
  /\ settledAt' = [settledAt EXCEPT ![t] = stamp[t]]
  /\ \/ step' = [step EXCEPT ![t] = "done"] /\ UNCHANGED faults
     \/ step' = [step EXCEPT ![t] = "failing"] /\ Fault("lostAck")
  /\ stamp' = [stamp EXCEPT ![t] = NoTime]
  /\ UNCHANGED <<now, runVars>>

\* failTx rolls the transaction back.
RollBack(t) ==
  /\ step[t] \in {"open", "stamped"}
  /\ Fault("db")
  /\ step' = [step EXCEPT ![t] = "failing"]
  /\ stamp' = [stamp EXCEPT ![t] = NoTime]
  /\ UNCHANGED <<now, rowVars, runVars>>

\* Mutants: the update of FailTransaction asks for no status, or gives one that
\* no part of the service knows.
FailedAlways(s) == "FAILED"
Expired(s)      == IF s = "PENDING" THEN "EXPIRED" ELSE s

\* FailTransaction leaves a row that is terminal alone.
FailedStatus(s) == IF s = "PENDING" THEN "FAILED" ELSE s

FailTransaction(t) ==
  /\ step[t] = "failing"
  /\ \/ /\ status' = [status EXCEPT ![t] = FailedStatus(status[t])]
        /\ UNCHANGED faults
     \/ Fault("db") /\ UNCHANGED status
  /\ step' = [step EXCEPT ![t] = "done"]
  /\ UNCHANGED <<now, settledAt, stamp, runVars>>

(***************************************************************************)
(* Netting runs                                                            *)
(***************************************************************************)
Goto(r, label) == pc' = [pc EXCEPT ![r] = label]

Live(r) == pc[r] \in {"list", "update", "commit"}

\* RunDailyNetting is called, and pool.Begin succeeds or fails.
Start(r, j) ==
  /\ pc[r] = "idle"
  /\ job' = [job EXCEPT ![r] = j]
  /\ \/ Goto(r, "list") /\ UNCHANGED faults
     \/ Goto(r, "failed") /\ Fault("db")
  /\ UNCHANGED <<now, rowVars, transferVars, listed, left, holder, committed>>

\* ListSettledForSettlementDayTx. With no row there is nothing to update.
List(r) ==
  LET txs == {t \in Transfers : Matches(t, job[r])}
  IN  /\ pc[r] = "list"
      /\ listed' = [listed EXCEPT ![r] = txs]
      /\ left' = [left EXCEPT ![r] = txs]
      /\ Goto(r, IF txs = {} THEN "commit" ELSE "update")
      /\ UNCHANGED <<now, rowVars, transferVars, job, holder, committed, faults>>

\* The rows r has updated, which the command tag counts.
Updated(r) == {t \in Transfers : holder[t] = r}

\* Mutant: BulkUpdateStatus, which updates on the pool and not in the transaction.
UpdateRowAtOnce(r, t) ==
  /\ pc[r] = "update"
  /\ t \in left[r] /\ holder[t] = None /\ status[t] = "SETTLED"
  /\ left' = [left EXCEPT ![r] = @ \ {t}]
  /\ holder' = [holder EXCEPT ![t] = r]
  /\ status' = [status EXCEPT ![t] = "RECONCILED"]
  /\ UNCHANGED <<now, settledAt, transferVars, pc, job, listed, committed, faults>>

\* BulkUpdateStatusTx visits one more of its rows, when no other run holds it, and
\* updates it if it is SETTLED by then.
UpdateRow(r, t) ==
  /\ pc[r] = "update"
  /\ t \in left[r] /\ holder[t] = None
  /\ left' = [left EXCEPT ![r] = @ \ {t}]
  /\ holder' = IF status[t] = "SETTLED" THEN [holder EXCEPT ![t] = r] ELSE holder
  /\ UNCHANGED <<now, rowVars, transferVars, pc, job, listed, committed, faults>>

\* The transaction of r is over and its rows are free.
EndTx(r) ==
  /\ left' = [left EXCEPT ![r] = {}]
  /\ holder' = [t \in Transfers |-> IF holder[t] = r THEN None ELSE holder[t]]

\* Mutant: the run does not compare the counts.
AnyCount(r) == TRUE

\* if n != int64(len(txs)).
CountMatches(r) == Cardinality(Updated(r)) = Cardinality(listed[r])

\* Mutant: the update is repeated until it has counted every row.
RetryCount(r) ==
  /\ pc[r] = "update" /\ left[r] = {}
  /\ IF CountMatches(r) THEN Goto(r, "commit") /\ UNCHANGED left
     ELSE left' = [left EXCEPT ![r] = listed[r] \ Updated(r)] /\ UNCHANGED pc
  /\ UNCHANGED <<now, rowVars, transferVars, job, listed, holder, committed, faults>>

CheckCount(r) ==
  /\ pc[r] = "update" /\ left[r] = {}
  /\ \/ /\ CountMatches(r)
        /\ Goto(r, "commit") /\ UNCHANGED <<left, holder>>
     \/ /\ ~CountMatches(r)
        /\ Goto(r, "failed") /\ EndTx(r)
  /\ UNCHANGED <<now, rowVars, transferVars, job, listed, committed, faults>>

\* The rows r has updated become visible. A lost acknowledgement is an error, and
\* the result is not returned.
CommitRun(r) ==
  /\ pc[r] = "commit"
  /\ status' = [t \in Transfers |->
                  IF holder[t] = r THEN "RECONCILED" ELSE status[t]]
  /\ committed' = committed \cup {r}
  /\ EndTx(r)
  /\ \/ Goto(r, "done") /\ UNCHANGED faults
     \/ Goto(r, "failed") /\ Fault("lostAck")
  /\ UNCHANGED <<now, settledAt, transferVars, job, listed>>

\* Any round trip of the transaction fails: the deferred rollback runs.
FailRun(r) ==
  /\ Live(r)
  /\ Fault("db")
  /\ Goto(r, "failed") /\ EndTx(r)
  /\ UNCHANGED <<now, rowVars, transferVars, job, listed, committed>>

\* r waits for s when its UPDATE has only rows left that others hold. The order of
\* its visits is the planner's, so which of them it waits for is open.
WaitsFor(r, s) ==
  /\ pc[r] = "update" /\ r # s
  /\ \E t \in left[r] : holder[t] = s

\* The deadlock detector aborts one of two runs that wait for each other.
DeadlockVictim(r) ==
  /\ \E s \in Runs : WaitsFor(r, s) /\ WaitsFor(s, r)
  /\ Goto(r, "failed") /\ EndTx(r)
  /\ UNCHANGED <<now, rowVars, transferVars, job, listed, committed, faults>>

(***************************************************************************)
(* The environment                                                         *)
(***************************************************************************)
Tick ==
  /\ now' \in {i \in Instants : i > now}
  /\ UNCHANGED <<rowVars, transferVars, runVars, faults>>

\* The process dies: open transactions are rolled back, and no call returns.
Crash ==
  /\ Fault("crash")
  /\ step' = [t \in Transfers |-> "done"]
  /\ stamp' = [t \in Transfers |-> NoTime]
  /\ pc' = [r \in Runs |-> IF Live(r) THEN "failed" ELSE pc[r]]
  /\ left' = [r \in Runs |-> {}]
  /\ holder' = [t \in Transfers |-> None]
  /\ UNCHANGED <<now, rowVars, job, listed, committed>>

Terminating ==
  /\ \A t \in Transfers : step[t] = "done"
  /\ \A r \in Runs : pc[r] \in {"done", "failed"}
  /\ UNCHANGED vars

Progress(r) ==
  \/ List(r) \/ CheckCount(r) \/ CommitRun(r) \/ DeadlockVictim(r)
  \/ \E t \in Transfers : UpdateRow(r, t)

Next ==
  \/ \E t \in Transfers :
       MarkSettled(t) \/ CommitSettled(t) \/ RollBack(t)
       \/ FailTransaction(t)
  \/ \E r \in Runs : Progress(r) \/ FailRun(r) \/ \E j \in Jobs : Start(r, j)
  \/ Tick \/ Crash \/ Terminating

Spec == Init /\ [][Next]_vars

\* A run that can go on does, and the deadlock detector fires. Nobody has to call
\* netting, settle a transfer, move the clock or fail.
FairSpec == Spec /\ \A r \in Runs : WF_vars(Progress(r))

-----------------------------------------------------------------------------
(***************************************************************************)
(* Properties                                                              *)
(***************************************************************************)
\* What run r has netted for good.
Batch(r) == IF r \in committed THEN listed[r] ELSE {}

\* No transfer is in the batches of two runs, whichever rows they listed before
\* the other had marked them.
NettedOnce ==
  \A r, s \in committed : r # s => listed[r] \cap listed[s] = {}

\* The RECONCILED rows are those of the committed batches: a row is never marked by
\* a run that failed, nor netted without being marked.
ReconciledIsAccounted ==
  {t \in Transfers : status[t] = "RECONCILED"} = UNION {Batch(r) : r \in Runs}

\* A batch holds only transfers that settled on the local day it is for.
DayOf(time) == CHOOSE d \in Days :
  Midnight[d] <= time /\ \A e \in Days : Midnight[e] <= time => e <= d

OwnDayOnly ==
  \A r \in committed : \A t \in listed[r] : DayOf(settledAt[t]) = job[r].day

\* What account a pays, less what it receives, in currency c.
FlowOf(a, c, b) ==
  IF b.currency # c THEN 0
  ELSE (IF b.from = a THEN b.amount ELSE 0) - (IF b.to = a THEN b.amount ELSE 0)

\* The positions of a returned result pay and collect for every account what the
\* rows it marked did, each is a flow in one direction, and no pair of accounts has
\* two in a currency.
PositionsMatchRows ==
  \A r \in {s \in Runs : pc[s] = "done"} :
    LET P == NetPositions(listed[r])
    IN  /\ \A a \in Accounts, c \in Currencies :
             SumFunction([p \in P |-> FlowOf(a, c, p)])
               = SumFunction([t \in listed[r] |-> FlowOf(a, c, Body[t])])
        /\ \A p \in P : p.amount > 0
        /\ \A p, q \in P :
             p.currency = q.currency /\ {p.from, p.to} = {q.from, q.to} => p = q

\* The table of transaction.go, which no update consults.
ValidTransitions(s) ==
  CASE s = "PENDING"    -> {"PROCESSING", "FAILED", "EXPIRED"}
    [] s = "PROCESSING" -> {"SETTLED", "FAILED"}
    [] s = "SETTLED"    -> {"REVERSED", "RECONCILED"}
    [] OTHER            -> {}

Reachable(s) ==
  ValidTransitions(s) \cup UNION {ValidTransitions(u) : u \in ValidTransitions(s)}

\* A row only ever changes its status along validTransitions, although netting,
\* settlement and the clean-up of a failed transfer update it independently.
TransitionsAreValid ==
  [][\A t \in Transfers :
       status'[t] # status[t] => status'[t] \in Reachable(status[t])]_vars

\* A run that has begun comes to an end, although runs wait for each other's rows.
RunsFinish == \A r \in Runs : Live(r) ~> ~Live(r)

\* Netting implements AtomicNetting.
Atomic == INSTANCE AtomicNetting WITH
  stage <- [t \in Transfers |-> CASE status[t] = "SETTLED" -> "settled"
                                  [] status[t] = "RECONCILED" -> "netted"
                                  [] OTHER -> "open"],
  batch <- [r \in Runs |-> Batch(r)]

ImplementsAtomic == Atomic!Spec
=============================================================================
