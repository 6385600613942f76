---------------------------- MODULE NettingProofs ----------------------------
(***************************************************************************)
(* Theorems about Netting, for every finite set of transfers, every set of *)
(* runs, days and currencies, and every bound on failures: no transfer is  *)
(* netted twice, what is RECONCILED is what the committed runs have        *)
(* netted, statuses follow the table of transaction.go, netting implements *)
(* AtomicNetting, the positions of a result are the net of its rows, and   *)
(* where no day is shorter than 24 hours a batch is of one day.            *)
(***************************************************************************)
EXTENDS Netting, SumTheorems, TLAPS

(***************************************************************************)
(* Type correctness                                                        *)
(***************************************************************************)
LEMMA FaultType ==
  ASSUME faults \in 0..MaxFaults, NEW kind, Fault(kind)
  PROVE  faults' \in 0..MaxFaults
BY FaultsAssumption DEF Fault

LEMMA EndTxType ==
  ASSUME TypeOK, NEW r \in Runs, EndTx(r)
  PROVE  /\ left' \in [Runs -> SUBSET Transfers]
         /\ holder' \in [Transfers -> Runs \cup {None}]
BY DEF TypeOK, EndTx

LEMMA TypeInit == Init => TypeOK
BY CalendarAssumption, FaultsAssumption DEF Init, TypeOK, Statuses

LEMMA TypeTransfer ==
  ASSUME TypeOK, NEW t \in Transfers,
         MarkSettled(t) \/ CommitSettled(t) \/ RollBack(t) \/ FailTransaction(t)
  PROVE  TypeOK'
<1>1. CASE MarkSettled(t)
  BY <1>1 DEF MarkSettled, TypeOK, rowVars, runVars
<1>2. CASE CommitSettled(t)
  <2>1. faults' \in 0..MaxFaults
    BY <1>2, FaultType DEF CommitSettled, TypeOK
  <2>2. QED
    BY <1>2, <2>1 DEF CommitSettled, TypeOK, Statuses, runVars
<1>3. CASE RollBack(t)
  <2>1. faults' \in 0..MaxFaults
    BY <1>3, FaultType DEF RollBack, TypeOK
  <2>2. QED
    BY <1>3, <2>1 DEF RollBack, TypeOK, rowVars, runVars
<1>4. CASE FailTransaction(t)
  <2>1. faults' \in 0..MaxFaults
    BY <1>4, FaultType DEF FailTransaction, TypeOK
  <2>2. status' \in [Transfers -> Statuses]
    BY <1>4 DEF FailTransaction, FailedStatus, TypeOK, Statuses
  <2>3. QED
    BY <1>4, <2>1, <2>2 DEF FailTransaction, TypeOK, runVars
<1>5. QED
  BY <1>1, <1>2, <1>3, <1>4

LEMMA TypeRun ==
  ASSUME TypeOK, NEW r \in Runs,
         Progress(r) \/ FailRun(r) \/ \E j \in Jobs : Start(r, j)
  PROVE  TypeOK'
<1>1. CASE \E j \in Jobs : Start(r, j)
  <2>1. PICK j \in Jobs : Start(r, j)
    BY <1>1
  <2>2. faults' \in 0..MaxFaults
    BY <2>1, FaultType DEF Start, TypeOK
  <2>3. QED
    BY <2>1, <2>2 DEF Start, Goto, TypeOK, rowVars, transferVars
<1>2. CASE List(r)
  BY <1>2 DEF List, Goto, TypeOK, rowVars, transferVars
<1>3. CASE CheckCount(r)
  BY <1>3, EndTxType DEF CheckCount, Goto, TypeOK, rowVars, transferVars
<1>4. CASE CommitRun(r)
  <2>1. faults' \in 0..MaxFaults
    BY <1>4, FaultType DEF CommitRun, TypeOK
  <2>2. status' \in [Transfers -> Statuses]
    BY <1>4 DEF CommitRun, TypeOK, Statuses
  <2>3. QED
    BY <1>4, <2>1, <2>2, EndTxType DEF CommitRun, Goto, TypeOK, transferVars
<1>5. CASE DeadlockVictim(r)
  BY <1>5, EndTxType DEF DeadlockVictim, Goto, TypeOK, rowVars, transferVars
<1>6. CASE \E t \in Transfers : UpdateRow(r, t)
  BY <1>6 DEF UpdateRow, TypeOK, rowVars, transferVars
<1>7. CASE FailRun(r)
  <2>1. faults' \in 0..MaxFaults
    BY <1>7, FaultType DEF FailRun, TypeOK
  <2>2. QED
    BY <1>7, <2>1, EndTxType DEF FailRun, Goto, TypeOK, rowVars, transferVars
<1>8. QED
  BY <1>1, <1>2, <1>3, <1>4, <1>5, <1>6, <1>7 DEF Progress

LEMMA TypeEnvironment ==
  ASSUME TypeOK, Tick \/ Crash
  PROVE  TypeOK'
<1>1. CASE Tick
  BY <1>1, CalendarAssumption DEF Tick, TypeOK, rowVars, transferVars, runVars
<1>2. CASE Crash
  <2>1. faults' \in 0..MaxFaults
    BY <1>2, FaultType DEF Crash, TypeOK
  <2>2. pc' \in [Runs -> {"idle", "list", "update", "commit", "done", "failed"}]
    BY <1>2 DEF Crash, TypeOK
  <2>3. \A r \in Runs : pc'[r] \in {"list", "update", "commit"} => job'[r] \in Jobs
    BY <1>2 DEF Crash, Live, TypeOK
  <2>4. QED
    BY <1>2, <2>1, <2>2, <2>3 DEF Crash, TypeOK, rowVars
<1>3. QED
  BY <1>1, <1>2

LEMMA TypeNext ==
  ASSUME TypeOK, [Next]_vars
  PROVE  TypeOK'
<1>1. CASE UNCHANGED vars
  BY <1>1 DEF vars, rowVars, transferVars, runVars, TypeOK
<1>2. CASE Next
  BY <1>1, <1>2, TypeTransfer, TypeRun, TypeEnvironment DEF Next, Terminating
<1>3. QED
  BY <1>1, <1>2

\* Every variable keeps its type; a run at work always has a day to work on.
THEOREM TypeCorrect == Spec => []TypeOK
<1>1. Init => TypeOK
  BY TypeInit
<1>2. TypeOK /\ [Next]_vars => TypeOK'
  BY TypeNext
<1>3. QED
  BY <1>1, <1>2, PTL DEF Spec

(***************************************************************************)
(* The inductive invariant. NettedOnce needs that what a committed run has *)
(* listed is RECONCILED for good, so that no later run can update it; this *)
(* needs that a run commits only when it has updated all it has listed,    *)
(* and that what an open transaction has updated stays SETTLED for others. *)
(***************************************************************************)
\* A row is PENDING until its transfer commits. A row that a run has updated is
\* SETTLED, and one of those it has listed. A RECONCILED row is some batch's.
RowInv ==
  \A t \in Transfers :
    /\ step[t] \in {"open", "stamped"} => status[t] = "PENDING"
    /\ holder[t] # None =>
         /\ status[t] = "SETTLED"
         /\ pc[holder[t]] \in {"update", "commit"}
         /\ t \in listed[holder[t]]
    /\ status[t] = "RECONCILED" => \E r \in committed : t \in listed[r]

\* A run updates only what it has listed, and all of it before it commits. What a
\* committed run has listed is RECONCILED.
RunInv ==
  \A r \in Runs :
    /\ left[r] \subseteq listed[r]
    /\ pc[r] = "commit" => listed[r] = Updated(r)
    /\ r \in committed =>
         /\ pc[r] \in {"done", "failed"}
         /\ \A t \in listed[r] : status[t] = "RECONCILED"

NettingInv == TypeOK /\ RowInv /\ RunInv /\ NettedOnce

LEMMA NettingInit == Init => NettingInv
<1>1. SUFFICES ASSUME Init PROVE NettingInv
  OBVIOUS
<1>2. TypeOK
  BY <1>1, TypeInit
<1>3. RowInv
  BY <1>1 DEF Init, RowInv
<1>4. RunInv
  BY <1>1 DEF Init, RunInv
<1>5. NettedOnce
  BY <1>1 DEF Init, NettedOnce
<1>6. QED
  BY <1>2, <1>3, <1>4, <1>5 DEF NettingInv

\* The steps of a transfer leave the runs alone, and its row is not theirs yet.
LEMMA NettingTransfer ==
  ASSUME NettingInv, NEW t \in Transfers,
         MarkSettled(t) \/ CommitSettled(t) \/ RollBack(t) \/ FailTransaction(t)
  PROVE  RowInv' /\ RunInv' /\ NettedOnce'
<1> USE DEF NettingInv
<1>1. UNCHANGED runVars
  BY DEF MarkSettled, CommitSettled, RollBack, FailTransaction
<1>2. \A u \in Transfers :
        /\ status'[u] # status[u] => u = t /\ status[u] = "PENDING"
        /\ status'[u] # status[u] => status'[u] \in {"SETTLED", "FAILED"}
  BY DEF MarkSettled, CommitSettled, RollBack, FailTransaction, FailedStatus, TypeOK,
         RowInv, rowVars
<1>3. \A u \in Transfers : step'[u] \in {"open", "stamped"} =>
        step[u] \in {"open", "stamped"} /\ status'[u] = status[u]
  BY DEF MarkSettled, CommitSettled, RollBack, FailTransaction, TypeOK, rowVars
<1>4. RowInv'
  BY <1>1, <1>2, <1>3 DEF RowInv, runVars
<1>5. RunInv'
  <2>1. \A r \in Runs : Updated(r)' = Updated(r)
    BY <1>1 DEF Updated, runVars
  <2>2. \A r \in Runs : r \in committed => listed[r] \subseteq Transfers
    BY DEF TypeOK
  <2>3. QED
    BY <1>1, <1>2, <2>1, <2>2 DEF RunInv, runVars
<1>6. NettedOnce'
  BY <1>1 DEF NettedOnce, runVars
<1>7. QED
  BY <1>4, <1>5, <1>6

\* A run that gives up leaves the rows as they were, and holds none of them.
LEMMA NettingEndTx ==
  ASSUME NettingInv, NEW r \in Runs, Live(r), Goto(r, "failed"), EndTx(r),
         UNCHANGED <<rowVars, transferVars, listed, committed>>
  PROVE  RowInv' /\ RunInv' /\ NettedOnce'
<1> USE DEF NettingInv
<1>1. \A q \in Runs : pc'[q] = IF q = r THEN "failed" ELSE pc[q]
  BY DEF Goto, TypeOK
<1>2. \A t \in Transfers : holder'[t] = IF holder[t] = r THEN None ELSE holder[t]
  BY DEF EndTx
<1>3. \A q \in Runs : q # r => Updated(q)' = Updated(q)
  BY <1>2, FaultsAssumption DEF Updated
<1>4. RowInv'
  BY <1>1, <1>2 DEF RowInv, TypeOK, rowVars, transferVars
<1>5. RunInv'
  BY <1>1, <1>3 DEF RunInv, EndTx, TypeOK, rowVars
<1>6. NettedOnce'
  BY DEF NettedOnce
<1>7. QED
  BY <1>4, <1>5, <1>6

LEMMA NettingStart ==
  ASSUME NettingInv, NEW r \in Runs, NEW j \in Jobs, Start(r, j)
  PROVE  RowInv' /\ RunInv' /\ NettedOnce'
<1> USE DEF NettingInv
<1>1. /\ pc[r] = "idle"
      /\ \A q \in Runs \ {r} : pc'[q] = pc[q]
      /\ pc'[r] \in {"list", "failed"}
      /\ UNCHANGED <<rowVars, transferVars, listed, left, holder, committed>>
  BY DEF Start, Goto, TypeOK
<1>2. \A q \in Runs : Updated(q)' = Updated(q)
  BY <1>1 DEF Updated
<1>3. RowInv'
  BY <1>1 DEF RowInv, TypeOK, rowVars, transferVars
<1>4. RunInv'
  BY <1>1, <1>2 DEF RunInv, rowVars
<1>5. NettedOnce'
  BY <1>1 DEF NettedOnce
<1>6. QED
  BY <1>3, <1>4, <1>5

\* A run that lists holds no row yet.
LEMMA NettingList ==
  ASSUME NettingInv, NEW r \in Runs, List(r)
  PROVE  RowInv' /\ RunInv' /\ NettedOnce'
<1> USE DEF NettingInv
<1>1. PICK txs \in SUBSET Transfers :
        /\ listed' = [listed EXCEPT ![r] = txs]
        /\ left' = [left EXCEPT ![r] = txs]
        /\ pc' = [pc EXCEPT ![r] = IF txs = {} THEN "commit" ELSE "update"]
  BY DEF List, Goto
<1>2. /\ pc[r] = "list"
      /\ UNCHANGED <<rowVars, transferVars, holder, committed>>
  BY DEF List
<1>3. r \notin committed /\ \A t \in Transfers : holder[t] # r
  BY <1>2, FaultsAssumption DEF RowInv, RunInv, TypeOK
<1>4. \A q \in Runs : Updated(q)' = Updated(q)
  BY <1>2 DEF Updated
<1>5. Updated(r) = {}
  BY <1>3 DEF Updated
<1>6. RowInv'
  BY <1>1, <1>2, <1>3 DEF RowInv, TypeOK, rowVars, transferVars
<1>7. RunInv'
  BY <1>1, <1>2, <1>3, <1>4, <1>5 DEF RunInv, TypeOK, rowVars
<1>8. NettedOnce'
  BY <1>1, <1>2, <1>3 DEF NettedOnce, TypeOK
<1>9. QED
  BY <1>6, <1>7, <1>8

LEMMA NettingUpdateRow ==
  ASSUME NettingInv, NEW r \in Runs, NEW t \in Transfers, UpdateRow(r, t)
  PROVE  RowInv' /\ RunInv' /\ NettedOnce'
<1> USE DEF NettingInv
<1>1. /\ pc[r] = "update" /\ t \in left[r] /\ holder[t] = None
      /\ left' = [left EXCEPT ![r] = @ \ {t}]
      /\ UNCHANGED <<rowVars, transferVars, pc, listed, committed>>
  BY DEF UpdateRow
<1>2. \A u \in Transfers :
        holder'[u] = IF u = t /\ status[t] = "SETTLED" THEN r ELSE holder[u]
  BY DEF UpdateRow, TypeOK
<1>3. t \in listed[r]
  BY <1>1 DEF RunInv
<1>4. \A q \in Runs : q # r => Updated(q)' = Updated(q)
  BY <1>1, <1>2, FaultsAssumption DEF Updated
<1>5. RowInv'
  BY <1>1, <1>2, <1>3 DEF RowInv, rowVars, transferVars
<1>6. RunInv'
  BY <1>1, <1>4 DEF RunInv, TypeOK, rowVars
<1>7. NettedOnce'
  BY <1>1 DEF NettedOnce
<1>8. QED
  BY <1>5, <1>6, <1>7

\* A run that counts as many updated rows as it has listed has updated them all,
\* because it updates no others.
LEMMA CountedAll ==
  ASSUME NettingInv, NEW r \in Runs, CountMatches(r)
  PROVE  listed[r] = Updated(r)
<1>1. Updated(r) \subseteq listed[r]
  BY FaultsAssumption DEF NettingInv, RowInv, Updated
<1>2. IsFiniteSet(listed[r])
  BY TransfersAssumption, FS_Subset DEF NettingInv, TypeOK
<1>3. QED
  BY <1>1, <1>2, FS_Subset DEF CountMatches

LEMMA NettingCheckCount ==
  ASSUME NettingInv, NEW r \in Runs, CheckCount(r)
  PROVE  RowInv' /\ RunInv' /\ NettedOnce'
<1>1. CASE CountMatches(r)
  <2> USE DEF NettingInv
  <2>1. CASE Goto(r, "commit") /\ UNCHANGED <<left, holder>>
    <3>1. /\ \A q \in Runs : pc'[q] = IF q = r THEN "commit" ELSE pc[q]
          /\ pc[r] = "update"
          /\ UNCHANGED <<rowVars, transferVars, listed, left, holder, committed>>
      BY <2>1 DEF CheckCount, Goto, TypeOK
    <3>2. \A q \in Runs : Updated(q)' = Updated(q)
      BY <3>1 DEF Updated
    <3>3. RowInv'
      BY <3>1 DEF RowInv, TypeOK, rowVars, transferVars
    <3>4. RunInv'
      BY <1>1, <3>1, <3>2, CountedAll DEF RunInv, rowVars
    <3>5. NettedOnce'
      BY <3>1 DEF NettedOnce
    <3>6. QED
      BY <3>3, <3>4, <3>5
  <2>2. QED
    BY <1>1, <2>1 DEF CheckCount
<1>2. CASE ~CountMatches(r)
  BY <1>2, NettingEndTx DEF CheckCount, Live
<1>3. QED
  BY <1>1, <1>2

\* What r commits is SETTLED, so it is in no other batch; and all of it becomes
\* RECONCILED.
LEMMA NettingCommitRun ==
  ASSUME NettingInv, NEW r \in Runs, CommitRun(r)
  PROVE  RowInv' /\ RunInv' /\ NettedOnce'
<1> USE DEF NettingInv
<1>1. /\ pc[r] = "commit"
      /\ \A q \in Runs \ {r} : pc'[q] = pc[q]
      /\ pc'[r] \in {"done", "failed"}
      /\ committed' = committed \cup {r}
      /\ UNCHANGED <<settledAt, transferVars, listed>>
  BY DEF CommitRun, Goto, TypeOK
<1>2. listed[r] = Updated(r) /\ r \notin committed
  BY <1>1 DEF RunInv
<1>3. \A t \in Transfers :
        /\ holder[t] = r <=> t \in listed[r]
        /\ status'[t] = IF t \in listed[r] THEN "RECONCILED" ELSE status[t]
        /\ holder'[t] = IF t \in listed[r] THEN None ELSE holder[t]
        /\ t \in listed[r] => status[t] = "SETTLED"
  <2>1. \A t \in Transfers : holder[t] = r <=> t \in listed[r]
    BY <1>2 DEF Updated
  <2>2. QED
    BY <2>1, FaultsAssumption DEF CommitRun, EndTx, RowInv
<1>4. \A q \in Runs : q # r => Updated(q)' = Updated(q)
  BY <1>3, FaultsAssumption DEF Updated
<1>5. RowInv'
  BY <1>1, <1>3, FaultsAssumption DEF RowInv, TypeOK, transferVars
<1>6. RunInv'
  <2>1. listed[r] \subseteq Transfers
    BY DEF TypeOK
  <2>2. left' = [left EXCEPT ![r] = {}]
    BY DEF CommitRun, EndTx
  <2>3. QED
    BY <1>1, <1>3, <1>4, <2>1, <2>2 DEF RunInv, TypeOK
<1>7. NettedOnce'
  <2>1. \A s \in committed : listed[s] \cap listed[r] = {}
    BY <1>3 DEF RunInv, TypeOK
  <2>2. QED
    BY <1>1, <2>1 DEF NettedOnce
<1>8. QED
  BY <1>5, <1>6, <1>7

LEMMA NettingEnvironment ==
  ASSUME NettingInv, Tick \/ Crash
  PROVE  RowInv' /\ RunInv' /\ NettedOnce'
<1> USE DEF NettingInv
<1>1. CASE Tick
  <2>1. UNCHANGED <<rowVars, transferVars, runVars>>
    BY <1>1 DEF Tick
  <2>2. \A r \in Runs : Updated(r)' = Updated(r)
    BY <2>1 DEF Updated, runVars
  <2>3. QED
    BY <2>1, <2>2 DEF RowInv, RunInv, NettedOnce, rowVars, transferVars, runVars
<1>2. CASE Crash
  <2>1. /\ \A t \in Transfers : step'[t] = "done" /\ holder'[t] = None
        /\ \A r \in Runs : /\ pc'[r] \in {"idle", "done", "failed"}
                           /\ pc[r] \in {"done", "failed"} => pc'[r] = pc[r]
                           /\ left'[r] = {}
        /\ UNCHANGED <<rowVars, listed, committed>>
    BY <1>2 DEF Crash, Live, TypeOK
  <2>2. RowInv'
    BY <2>1 DEF RowInv, rowVars
  <2>3. RunInv'
    BY <2>1 DEF RunInv, rowVars
  <2>4. NettedOnce'
    BY <2>1 DEF NettedOnce
  <2>5. QED
    BY <2>2, <2>3, <2>4
<1>3. QED
  BY <1>1, <1>2

LEMMA NettingNext ==
  ASSUME NettingInv, [Next]_vars
  PROVE  NettingInv'
<1>1. TypeOK'
  BY TypeNext DEF NettingInv
<1>2. RowInv' /\ RunInv' /\ NettedOnce'
  <2>1. CASE UNCHANGED vars
    <3>1. \A r \in Runs : Updated(r)' = Updated(r)
      BY <2>1 DEF Updated, vars, runVars
    <3>2. QED
      BY <2>1, <3>1 DEF NettingInv, RowInv, RunInv, NettedOnce, vars, rowVars,
                        transferVars, runVars
  <2>2. ASSUME NEW t \in Transfers,
               MarkSettled(t) \/ CommitSettled(t) \/ RollBack(t) \/ FailTransaction(t)
        PROVE  RowInv' /\ RunInv' /\ NettedOnce'
    BY <2>2, NettingTransfer
  <2>3. ASSUME NEW r \in Runs, Progress(r)
        PROVE  RowInv' /\ RunInv' /\ NettedOnce'
    <3>1. CASE List(r)
      BY <3>1, NettingList
    <3>2. CASE CheckCount(r)
      BY <3>2, NettingCheckCount
    <3>3. CASE CommitRun(r)
      BY <3>3, NettingCommitRun
    <3>4. CASE DeadlockVictim(r)
      BY <3>4, NettingEndTx DEF DeadlockVictim, WaitsFor, Live
    <3>5. CASE \E t \in Transfers : UpdateRow(r, t)
      BY <3>5, NettingUpdateRow
    <3>6. QED
      BY <2>3, <3>1, <3>2, <3>3, <3>4, <3>5 DEF Progress
  <2>4. ASSUME NEW r \in Runs, FailRun(r)
        PROVE  RowInv' /\ RunInv' /\ NettedOnce'
    BY <2>4, NettingEndTx DEF FailRun
  <2>5. ASSUME NEW r \in Runs, NEW j \in Jobs, Start(r, j)
        PROVE  RowInv' /\ RunInv' /\ NettedOnce'
    BY <2>5, NettingStart
  <2>6. CASE Tick \/ Crash
    BY <2>6, NettingEnvironment
  <2>7. QED
    BY <2>1, <2>2, <2>3, <2>4, <2>5, <2>6 DEF Next, Terminating
<1>3. QED
  BY <1>1, <1>2 DEF NettingInv

LEMMA NettingInvariant == Spec => []NettingInv
<1>1. Init => NettingInv
  BY NettingInit
<1>2. NettingInv /\ [Next]_vars => NettingInv'
  BY NettingNext
<1>3. QED
  BY <1>1, <1>2, PTL DEF Spec

\* No transfer is in the batches of two runs, for any number of runs that list,
\* wait, update, fail and commit in any order.
THEOREM NettedAtMostOnce == Spec => []NettedOnce
<1>1. NettingInv => NettedOnce
  BY DEF NettingInv
<1>2. QED
  BY <1>1, NettingInvariant, PTL

\* The RECONCILED rows are those the committed runs have netted.
THEOREM ReconciledAreNetted == Spec => []ReconciledIsAccounted
<1>1. NettingInv => ReconciledIsAccounted
  BY DEF NettingInv, RowInv, RunInv, TypeOK, ReconciledIsAccounted, Batch
<1>2. QED
  BY <1>1, NettingInvariant, PTL

(***************************************************************************)
(* Statuses, and the abstract specification                                *)
(***************************************************************************)
\* The only steps that change a row: a commit of its transfer, the update of
\* FailTransaction, and the commit of a run that has updated it.
LEMMA RowSteps ==
  ASSUME NettingInv, [Next]_vars
  PROVE  \/ status' = status
         \/ \E t \in Transfers : CommitSettled(t) \/ FailTransaction(t)
         \/ \E r \in Runs : CommitRun(r)
<1>1. CASE UNCHANGED vars
  BY <1>1 DEF vars, rowVars
<1>2. ASSUME NEW t \in Transfers, MarkSettled(t) \/ RollBack(t)
      PROVE  status' = status
  BY <1>2 DEF MarkSettled, RollBack, rowVars
<1>3. ASSUME NEW r \in Runs,
             \/ List(r) \/ CheckCount(r) \/ DeadlockVictim(r) \/ FailRun(r)
             \/ \E t \in Transfers : UpdateRow(r, t)
             \/ \E j \in Jobs : Start(r, j)
      PROVE  status' = status
  BY <1>3 DEF List, CheckCount, DeadlockVictim, FailRun, UpdateRow, Start, rowVars
<1>4. CASE Tick \/ Crash
  BY <1>4 DEF Tick, Crash, rowVars
<1>5. QED
  BY <1>1, <1>2, <1>3, <1>4 DEF Next, Progress, Terminating

\* The three updates of a row that share no code keep to the table of
\* transaction.go, in every order they may come in.
THEOREM StatusesFollowTable == Spec => TransitionsAreValid
<1>1. ASSUME NettingInv, [Next]_vars, NEW t \in Transfers, status'[t] # status[t]
      PROVE  status'[t] \in Reachable(status[t])
  <2> USE <1>1 DEF NettingInv
  <2>1. /\ {"SETTLED", "FAILED"} \subseteq Reachable("PENDING")
        /\ "RECONCILED" \in Reachable("SETTLED")
    BY DEF Reachable, ValidTransitions
  <2>2. ASSUME NEW u \in Transfers, CommitSettled(u)
        PROVE  status[t] = "PENDING" /\ status'[t] = "SETTLED"
    BY <2>2 DEF CommitSettled, RowInv, TypeOK
  <2>3. ASSUME NEW u \in Transfers, FailTransaction(u)
        PROVE  status[t] = "PENDING" /\ status'[t] = "FAILED"
    BY <2>3 DEF FailTransaction, FailedStatus, TypeOK
  <2>4. ASSUME NEW r \in Runs, CommitRun(r)
        PROVE  status[t] = "SETTLED" /\ status'[t] = "RECONCILED"
    BY <2>4, FaultsAssumption DEF CommitRun, RowInv
  <2>5. QED
    BY <2>1, <2>2, <2>3, <2>4, RowSteps
<1>2. NettingInv /\ [Next]_vars =>
        [\A t \in Transfers :
           status'[t] # status[t] => status'[t] \in Reachable(status[t])]_vars
  BY <1>1
<1>3. QED
  BY <1>2, NettingInvariant, PTL DEF Spec, TransitionsAreValid

\* Rows begin open, and no run has netted anything.
LEMMA AtomicInit == Init => Atomic!Init
BY DEF Init, Atomic!Init, Batch

\* The commit of a transfer settles it.
LEMMA AtomicSettle ==
  ASSUME NettingInv, NEW t \in Transfers, CommitSettled(t)
  PROVE  Atomic!Settle(t)
<1>1. /\ status[t] = "PENDING"
      /\ status' = [status EXCEPT ![t] = "SETTLED"]
      /\ UNCHANGED <<listed, committed>>
  BY DEF CommitSettled, NettingInv, RowInv, runVars
<1>2. QED
  BY <1>1 DEF Atomic!Settle, Batch, NettingInv, TypeOK

\* The commit of a run nets all it has listed, which is what it has updated.
LEMMA AtomicNet ==
  ASSUME NettingInv, NEW r \in Runs, CommitRun(r),
         NEW B \in SUBSET Transfers, B = listed[r]
  PROVE  Atomic!Net(r, B)
<1>1. /\ pc[r] = "commit"
      /\ committed' = committed \cup {r}
      /\ status' = [t \in Transfers |->
                      IF holder[t] = r THEN "RECONCILED" ELSE status[t]]
      /\ UNCHANGED listed
  BY DEF CommitRun
<1>2. /\ listed[r] = Updated(r)
      /\ r \notin committed
  BY <1>1 DEF NettingInv, RunInv
<1>3. \A t \in Transfers : (t \in listed[r] <=> holder[t] = r)
  BY <1>2 DEF Updated
<1>4. \A t \in listed[r] : status[t] = "SETTLED"
  BY <1>3, FaultsAssumption DEF NettingInv, RowInv, TypeOK
<1>5. Batch(r) = {}
  BY <1>2 DEF Batch
<1>6. QED
  BY <1>1, <1>2, <1>3, <1>4, <1>5 DEF Atomic!Net, Batch, NettingInv, TypeOK

\* Nothing else shows: FAILED is as open as PENDING, and what a run lists is not a
\* batch until it commits.
LEMMA AtomicStutter ==
  ASSUME NettingInv, [Next]_vars,
         ~ \E t \in Transfers : CommitSettled(t),
         ~ \E r \in Runs : CommitRun(r)
  PROVE  UNCHANGED Atomic!vars
<1>1. \A t \in Transfers :
        status'[t] # status[t] => status[t] = "PENDING" /\ status'[t] = "FAILED"
  BY RowSteps DEF FailTransaction, FailedStatus, NettingInv, TypeOK
<1>2. committed' = committed /\ \A r \in committed : listed'[r] = listed[r]
  <2>1. ASSUME NEW r \in Runs, List(r)
        PROVE  committed' = committed /\ \A q \in committed : listed'[q] = listed[q]
    <3>1. r \notin committed
      BY <2>1 DEF List, NettingInv, RunInv
    <3>2. QED
      BY <2>1, <3>1 DEF List, NettingInv, TypeOK
  <2>2. ASSUME NEW r \in Runs,
               \/ CheckCount(r) \/ DeadlockVictim(r) \/ FailRun(r)
               \/ \E t \in Transfers : UpdateRow(r, t)
               \/ \E j \in Jobs : Start(r, j)
        PROVE  UNCHANGED <<committed, listed>>
    BY <2>2 DEF CheckCount, DeadlockVictim, FailRun, UpdateRow, Start
  <2>3. ASSUME NEW t \in Transfers, MarkSettled(t) \/ RollBack(t) \/ FailTransaction(t)
        PROVE  UNCHANGED <<committed, listed>>
    BY <2>3 DEF MarkSettled, RollBack, FailTransaction, runVars
  <2>4. CASE Tick \/ Crash \/ UNCHANGED vars
    BY <2>4 DEF Tick, Crash, vars, runVars
  <2>5. QED
    BY <2>1, <2>2, <2>3, <2>4 DEF Next, Progress, Terminating
<1>3. \A r \in Runs : Batch(r)' = Batch(r)
  BY <1>2 DEF Batch
<1>4. QED
  BY <1>1, <1>3 DEF Atomic!vars

\* Whatever runs and transfers do to each other, netting is AtomicNetting: every
\* batch leaves the settled rows in one step, and each run makes one at most.
THEOREM NettingIsAtomic == Spec => ImplementsAtomic
<1>1. Init => Atomic!Init
  BY AtomicInit
<1>2. NettingInv /\ [Next]_vars => [Atomic!Next]_(Atomic!vars)
  <2>1. SUFFICES ASSUME NettingInv, [Next]_vars
                 PROVE  Atomic!Next \/ UNCHANGED Atomic!vars
    OBVIOUS
  <2>2. ASSUME NEW t \in Transfers, CommitSettled(t)
        PROVE  Atomic!Next
    BY <2>1, <2>2, AtomicSettle DEF Atomic!Next
  <2>3. ASSUME NEW r \in Runs, CommitRun(r)
        PROVE  Atomic!Next
    <3>1. PICK B \in SUBSET Transfers : B = listed[r]
      BY <2>1 DEF NettingInv, TypeOK
    <3>2. Atomic!Net(r, B)
      BY <2>1, <2>3, <3>1, AtomicNet
    <3>3. QED
      BY <3>2 DEF Atomic!Next
  <2>4. QED
    BY <2>1, <2>2, <2>3, AtomicStutter
<1>3. QED
  BY <1>1, <1>2, NettingInvariant, PTL DEF Spec, ImplementsAtomic, Atomic!Spec
(***************************************************************************)
(* The day of a batch. Its rows were in the window of the day when they    *)
(* were listed, and a row keeps its settled_at once it is SETTLED.         *)
(***************************************************************************)
\* The days in order, none of them shorter than the window of a day.
DaysApart == \A d, e \in Days : d < e => Midnight[d] + DayLength <= Midnight[e]

DayInv ==
  \A r \in Runs :
    /\ pc[r] \in {"idle", "list"} => listed[r] = {}
    /\ \A t \in listed[r] : /\ status[t] \in {"SETTLED", "RECONCILED"}
                           /\ job[r] \in Jobs /\ InDay(job[r].day, settledAt[t])

\* What no step but List and Start does to the runs, and none to a row that is SETTLED.
LEMMA DayKept ==
  ASSUME DayInv, UNCHANGED <<listed, job>>,
         \A r \in Runs : pc'[r] \in {"idle", "list"} => pc[r] \in {"idle", "list"},
         \A r \in Runs : \A t \in listed[r] : status[t] \in {"SETTLED", "RECONCILED"} =>
           status'[t] \in {"SETTLED", "RECONCILED"} /\ settledAt'[t] = settledAt[t]
  PROVE  DayInv'
BY DEF DayInv, InDay

LEMMA DayNext ==
  ASSUME NettingInv, DayInv, [Next]_vars
  PROVE  DayInv'
<1> USE DEF NettingInv, TypeOK
<1>1. CASE UNCHANGED vars
  BY <1>1, DayKept DEF vars, runVars, rowVars
<1>2. ASSUME NEW t \in Transfers,
             MarkSettled(t) \/ CommitSettled(t) \/ RollBack(t) \/ FailTransaction(t)
      PROVE  DayInv'
  <2>1. UNCHANGED <<listed, job, pc>>
    BY <1>2 DEF MarkSettled, CommitSettled, RollBack, FailTransaction, runVars
  <2>2. \A u \in Transfers : status[u] \in {"SETTLED", "RECONCILED"} =>
          status'[u] = status[u] /\ settledAt'[u] = settledAt[u]
    BY <1>2 DEF MarkSettled, CommitSettled, RollBack, FailTransaction, FailedStatus, rowVars,
                RowInv
  <2>3. QED
    BY <2>1, <2>2, DayKept
<1>3. ASSUME NEW r \in Runs, NEW j \in Jobs, Start(r, j) PROVE DayInv'
  <2>1. /\ pc[r] = "idle" /\ UNCHANGED <<listed, rowVars>>
        /\ \A q \in Runs \ {r} : pc'[q] = pc[q] /\ job'[q] = job[q]
    BY <1>3 DEF Start, Goto
  <2>2. QED
    BY <2>1 DEF DayInv, rowVars, InDay
<1>4. ASSUME NEW r \in Runs, List(r) PROVE DayInv'
  <2>1. PICK txs \in SUBSET Transfers :
          /\ listed' = [listed EXCEPT ![r] = txs] /\ pc'[r] \in {"commit", "update"}
          /\ \A t \in txs : status[t] = "SETTLED" /\ InDay(job[r].day, settledAt[t])
    <3>1. PICK txs \in SUBSET Transfers : txs = {t \in Transfers : Matches(t, job[r])}
      OBVIOUS
    <3>2. \A t \in txs : status[t] = "SETTLED" /\ InDay(job[r].day, settledAt[t])
      BY <3>1 DEF Matches
    <3>3. listed' = [listed EXCEPT ![r] = txs] /\ pc'[r] \in {"commit", "update"}
      BY <1>4, <3>1 DEF List, Goto
    <3>4. QED
      BY <3>2, <3>3
  <2>2. /\ job[r] \in Jobs /\ UNCHANGED <<rowVars, job>>
        /\ \A q \in Runs \ {r} : pc'[q] = pc[q]
    BY <1>4 DEF List, Goto
  <2>3. QED
    BY <2>1, <2>2 DEF DayInv, rowVars, InDay
<1>5. ASSUME NEW r \in Runs,
             \/ CheckCount(r) \/ DeadlockVictim(r) \/ FailRun(r)
             \/ \E t \in Transfers : UpdateRow(r, t)
      PROVE  DayInv'
  <2>1. /\ UNCHANGED <<listed, job, rowVars>>
        /\ \A q \in Runs : pc'[q] = pc[q] \/ pc'[q] \in {"commit", "failed"}
    BY <1>5 DEF CheckCount, DeadlockVictim, FailRun, UpdateRow, Goto
  <2>2. QED
    BY <2>1, DayKept DEF rowVars
<1>6. ASSUME NEW r \in Runs, CommitRun(r) PROVE DayInv'
  <2>1. /\ UNCHANGED <<listed, job, settledAt>>
        /\ \A q \in Runs : pc'[q] = pc[q] \/ pc'[q] \in {"done", "failed"}
        /\ \A t \in Transfers : status'[t] = status[t] \/ status'[t] = "RECONCILED"
    BY <1>6 DEF CommitRun, Goto
  <2>2. QED
    BY <2>1, DayKept
<1>7. CASE Tick \/ Crash
  <2>1. /\ UNCHANGED <<listed, job, rowVars>>
        /\ \A q \in Runs : pc'[q] = pc[q] \/ pc'[q] = "failed"
    BY <1>7 DEF Tick, Crash, runVars
  <2>2. QED
    BY <2>1, DayKept DEF rowVars
<1>8. QED
  BY <1>1, <1>2, <1>3, <1>4, <1>5, <1>6, <1>7 DEF Next, Progress, Terminating

\* An instant in the window of a day is on that day.
LEMMA InDayIsDay ==
  ASSUME DaysApart, NEW d \in Days, NEW time \in Int, InDay(d, time)
  PROVE  DayOf(time) = d
<1>1. /\ Midnight[d] <= time
      /\ \A e \in Days : Midnight[e] <= time => e <= d
  BY CalendarAssumption DEF InDay, DaysApart
<1>2. \A e \in Days : /\ Midnight[e] <= time
                      /\ \A f \in Days : Midnight[f] <= time => f <= e
                      => e = d
  BY <1>1, CalendarAssumption
<1>3. QED
  BY <1>1, <1>2 DEF DayOf

\* Where no day is shorter than 24 hours, a batch holds transfers of its own day only,
\* whatever the clock does between the listing and the commit. The calendarDay run has
\* a shorter day.
THEOREM BatchesKeepToTheirDay ==
  ASSUME DaysApart
  PROVE  Spec => []OwnDayOnly
<1>1. Init => DayInv
  BY DEF Init, DayInv
<1>2. NettingInv /\ DayInv /\ [Next]_vars => DayInv'
  BY DayNext
<1>3. NettingInv /\ DayInv => OwnDayOnly
  <2>1. SUFFICES ASSUME NettingInv, DayInv, NEW r \in committed, NEW t \in listed[r]
                 PROVE  DayOf(settledAt[t]) = job[r].day
    BY DEF OwnDayOnly
  <2>2. /\ job[r].day \in Days /\ settledAt[t] \in Int
        /\ InDay(job[r].day, settledAt[t])
    BY <2>1, CalendarAssumption DEF DayInv, NettingInv, TypeOK, NoTime
  <2>3. QED
    BY <2>2, InDayIsDay
<1>4. QED
  BY <1>1, <1>2, <1>3, NettingInvariant, PTL DEF Spec
(***************************************************************************)
(* NetPositions. The transfers of one pair and currency push one amount    *)
(* between two accounts, in either direction; their position pushes the    *)
(* sum of it. Summed over the pairs, which is a sum over the transfers     *)
(* taken class by class, an account is left with the same.                 *)
(***************************************************************************)
Of(k, S) == {t \in S : KeyOf(t) = k}

NetOf(k, S) == SumFunction([t \in Of(k, S) |-> SignedAmount(t)])

\* How an amount that the lower account of k pays counts for account a in currency c.
For(a, c, k, n) == IF k.currency # c THEN 0
                   ELSE IF a = k.low THEN n
                   ELSE IF a = k.high THEN -n
                   ELSE 0

LEMMA KeyFacts ==
  ASSUME NEW t \in Transfers
  PROVE  /\ KeyOf(t) \in [low : Accounts, high : Accounts, currency : Currencies]
         /\ KeyOf(t).low \in Nat /\ KeyOf(t).high \in Nat /\ KeyOf(t).low < KeyOf(t).high
         /\ SignedAmount(t) \in Int
         /\ \A a, c : FlowOf(a, c, Body[t]) = For(a, c, KeyOf(t), SignedAmount(t))
         /\ \A a, c : FlowOf(a, c, Body[t]) \in Int
<1>1. PICK x \in Accounts, y \in Accounts, n \in Nat \ {0}, cur \in Currencies :
        Body[t] = [from |-> x, to |-> y, amount |-> n, currency |-> cur]
  BY TransfersAssumption
<1>2. x # y /\ x \in Nat /\ y \in Nat
  BY <1>1, TransfersAssumption
<1>3. \A u, v \in Nat : u < v => Min({u, v}) = u /\ Max({u, v}) = v
  <2>1. SUFFICES ASSUME NEW u \in Nat, NEW v \in Nat, u < v
                 PROVE  Min({u, v}) = u /\ Max({u, v}) = v
    OBVIOUS
  <2>2. /\ \A z \in {u, v} : (\A w \in {u, v} : z <= w) <=> z = u
        /\ \A z \in {u, v} : (\A w \in {u, v} : z >= w) <=> z = v
    BY <2>1
  <2>3. QED
    BY <2>2 DEF Min, Max
<1>4. CASE x < y
  <2>1. KeyOf(t) = [low |-> x, high |-> y, currency |-> cur] /\ SignedAmount(t) = n
    BY <1>1, <1>2, <1>3, <1>4 DEF KeyOf, SignedAmount
  <2>2. QED
    BY <1>1, <1>2, <1>4, <2>1 DEF FlowOf, For
<1>5. CASE y < x
  <2>1. {x, y} = {y, x}
    OBVIOUS
  <2>2. KeyOf(t) = [low |-> y, high |-> x, currency |-> cur] /\ SignedAmount(t) = -n
    BY <1>1, <1>2, <1>3, <1>5, <2>1 DEF KeyOf, SignedAmount
  <2>3. QED
    BY <1>1, <1>2, <1>5, <2>2 DEF FlowOf, For
<1>6. QED
  BY <1>2, <1>4, <1>5

LEMMA OfFacts ==
  ASSUME NEW S \in SUBSET Transfers, NEW k
  PROVE  /\ IsFiniteSet(S) /\ IsFiniteSet(Of(k, S)) /\ Of(k, S) \subseteq Transfers
         /\ NetOf(k, S) \in Int
<1>1. IsFiniteSet(S) /\ Of(k, S) \subseteq S
  BY TransfersAssumption, FS_Subset DEF Of
<1>2. IsFiniteSet(Of(k, S))
  BY <1>1, FS_Subset
<1>3. NetOf(k, S) \in Int
  <2> DEFINE f == [t \in Of(k, S) |-> SignedAmount(t)]
  <2>1. \A t \in Of(k, S) : f[t] \in Int
    BY <1>1, KeyFacts
  <2>2. SumFunctionOnSet(f, DOMAIN f) \in Int
    BY <1>2, <2>1, SumType
  <2>3. QED
    BY <2>2 DEF NetOf, SumFunction
<1>4. QED
  BY <1>1, <1>2, <1>3

\* What the transfers of a key do to an account is what their net amount does.
LEMMA ClassFlow ==
  ASSUME NEW S \in SUBSET Transfers, NEW k, NEW a, NEW c, NEW f,
         \A t \in Of(k, S) : f[t] = FlowOf(a, c, Body[t])
  PROVE  SumFunctionOnSet(f, Of(k, S)) = For(a, c, k, NetOf(k, S))
<1> DEFINE T == Of(k, S)
           g == [t \in T |-> SignedAmount(t)]
<1>1. IsFiniteSet(T) /\ T \subseteq Transfers
  BY OfFacts
<1>2. \A t \in T : g[t] \in Int /\ f[t] = For(a, c, k, g[t])
  BY <1>1, KeyFacts DEF Of
<1>3. NetOf(k, S) = SumFunctionOnSet(g, T)
  BY DEF NetOf, SumFunction
<1> HIDE DEF g, T
<1>4. CASE k.currency = c /\ a = k.low
  BY <1>1, <1>2, <1>3, <1>4, SumSame DEF For, T
<1>5. CASE k.currency = c /\ a # k.low /\ a = k.high
  <2>1. \A t \in T : g[t] \in Int /\ f[t] = -g[t]
    BY <1>2, <1>5 DEF For
  <2>2. SumFunctionOnSet(f, T) = -SumFunctionOnSet(g, T)
    BY <1>1, <2>1, SumNegated
  <2>3. QED
    BY <1>3, <1>5, <2>2 DEF For, T
<1>6. CASE k.currency # c \/ (a # k.low /\ a # k.high)
  <2>1. \A t \in T : f[t] = 0
    BY <1>2, <1>6 DEF For
  <2>2. SumFunctionOnSet(f, T) = 0
    BY <1>1, <2>1, SumOfZeros
  <2>3. QED
    BY <1>6, <2>2 DEF For, T
<1>7. QED
  BY <1>4, <1>5, <1>6

Keys(S) == {KeyOf(t) : t \in S}

\* A position is the net amount of its key, in the direction of its sign, and tells
\* which key it is for.
LEMMA PositionFacts ==
  ASSUME NEW S \in SUBSET Transfers, NEW k \in Keys(S)
  PROVE  LET p == Position(k, S)
         IN  /\ \A a, c : FlowOf(a, c, p) = For(a, c, k, NetOf(k, S)) /\ FlowOf(a, c, p) \in Int
             /\ p.amount \in Nat /\ (p.amount = 0 <=> NetOf(k, S) = 0)
             /\ p.currency = k.currency /\ {p.from, p.to} = {k.low, k.high}
<1>1. PICK net \in Int : net = NetOf(k, S)
  BY OfFacts
<1>2. PICK t \in S : k = KeyOf(t)
  BY DEF Keys
<1>3. k.low \in Nat /\ k.high \in Nat /\ k.low < k.high
  BY <1>2, KeyFacts
<1>4. /\ Position(k, S).from = (IF net > 0 THEN k.low ELSE k.high)
      /\ Position(k, S).to = (IF net > 0 THEN k.high ELSE k.low)
      /\ Position(k, S).currency = k.currency
      /\ Position(k, S).amount = (IF net > 0 THEN net ELSE -net)
  BY <1>1 DEF Position, NetOf, Of
<1>5. QED
  BY <1>1, <1>3, <1>4 DEF FlowOf, For

LEMMA KeysApart ==
  ASSUME NEW S \in SUBSET Transfers, NEW k \in Keys(S), NEW l \in Keys(S),
         k.currency = l.currency, {k.low, k.high} = {l.low, l.high}
  PROVE  k = l
<1>1. PICK t \in S, u \in S : k = KeyOf(t) /\ l = KeyOf(u)
  BY DEF Keys
<1>2. k.low = l.low /\ k.high = l.high
  BY <1>1, KeyFacts
<1>3. k \in [low : Accounts, high : Accounts, currency : Currencies]
      /\ l \in [low : Accounts, high : Accounts, currency : Currencies]
  BY <1>1, KeyFacts
<1>4. QED
  BY <1>2, <1>3
\* The keys that have a position.
Unsettled(S) == {k \in Keys(S) : NetOf(k, S) # 0}

LEMMA PositionsOfKeys ==
  ASSUME NEW S \in SUBSET Transfers
  PROVE  /\ NetPositions(S) = {Position(k, S) : k \in Unsettled(S)}
         /\ [k \in Unsettled(S) |-> Position(k, S)] \in Bijection(Unsettled(S), NetPositions(S))
<1> DEFINE K == Unsettled(S)
           name == [k \in K |-> Position(k, S)]
<1>1. NetPositions(S) = {Position(k, S) : k \in K}
  BY PositionFacts DEF NetPositions, Unsettled, Keys
<1>2. ASSUME NEW k \in K, NEW l \in K, Position(k, S) = Position(l, S) PROVE k = l
  <2>1. /\ Position(k, S).currency = k.currency /\ Position(l, S).currency = l.currency
        /\ {Position(k, S).from, Position(k, S).to} = {k.low, k.high}
        /\ {Position(l, S).from, Position(l, S).to} = {l.low, l.high}
    BY PositionFacts DEF Unsettled
  <2>2. QED
    BY <1>2, <2>1, KeysApart DEF Unsettled
<1>3. name \in Bijection(K, NetPositions(S))
  <2>1. name \in [K -> NetPositions(S)]
    BY <1>1
  <2>2. \A k, l \in K : name[k] = name[l] => k = l
    BY <1>2
  <2>3. \A p \in NetPositions(S) : \E k \in K : name[k] = p
    BY <1>1
  <2> HIDE DEF name, K
  <2>4. QED
    BY <2>1, <2>2, <2>3 DEF Bijection, Injection, Surjection, IsInjective
<1>4. QED
  BY <1>1, <1>3

LEMMA PositionsFlow ==
  ASSUME NEW S \in SUBSET Transfers, NEW a, NEW c
  PROVE  SumFunction([p \in NetPositions(S) |-> FlowOf(a, c, p)])
       = SumFunction([t \in S |-> FlowOf(a, c, Body[t])])
<1> DEFINE K == Keys(S)
           P == NetPositions(S)
           key == [t \in S |-> KeyOf(t)]
           rows == [t \in S |-> FlowOf(a, c, Body[t])]
           flow == [k \in K |-> For(a, c, k, NetOf(k, S))]
           name == [k \in Unsettled(S) |-> Position(k, S)]
           positions == [p \in P |-> FlowOf(a, c, p)]
<1>1. IsFiniteSet(S) /\ IsFiniteSet(K) /\ key \in [S -> K]
  <2>1. key \in Surjection(S, K)
    BY DEF Surjection, Keys
  <2>2. IsFiniteSet(S)
    BY OfFacts
  <2> HIDE DEF key, K
  <2>3. QED
    BY <2>1, <2>2, FS_Surjection DEF Surjection
<1>2. \A t \in S : rows[t] \in Int
  BY KeyFacts
<1>3. \A k \in K : flow[k] \in Int
  BY PositionFacts
<1>4. SumFunctionOnSet(rows, S) = SumFunctionOnSet(flow, K)
  <2> DEFINE class(k) == {t \in S : key[t] = k}
             sums == [k \in K |-> SumFunctionOnSet(rows, class(k))]
  <2>1. SumFunctionOnSet(rows, S) = SumFunctionOnSet(sums, K)
    <3> HIDE DEF key, rows, K
    <3>1. QED
      BY <1>1, <1>2, SumPartition
  <2>2. ASSUME NEW k \in K PROVE sums[k] = flow[k]
    <3>1. class(k) = Of(k, S)
      BY DEF Of
    <3>2. \A t \in Of(k, S) : rows[t] = FlowOf(a, c, Body[t])
      BY DEF Of
    <3>3. SumFunctionOnSet(rows, Of(k, S)) = For(a, c, k, NetOf(k, S))
      <4> HIDE DEF rows
      <4>1. QED
        BY <3>2, ClassFlow
    <3>4. QED
      BY <3>1, <3>3
  <2> HIDE DEF sums, flow, K
  <2>3. SumFunctionOnSet(sums, K) = SumFunctionOnSet(flow, K)
    BY <1>1, <2>2, SumSame
  <2>4. QED
    BY <2>1, <2>3
<1>5. SumFunctionOnSet(flow, K) = SumFunctionOnSet(flow, Unsettled(S))
  <2>1. /\ Unsettled(S) \in SUBSET K
        /\ \A k \in K \ Unsettled(S) : flow[k] = 0
    BY DEF Unsettled, For
  <2> HIDE DEF flow, K
  <2>2. QED
    BY <1>1, <1>3, <2>1, SumWhere
<1>6. SumFunctionOnSet(positions, P) = SumFunctionOnSet(flow, Unsettled(S))
  <2>1. name \in Bijection(Unsettled(S), P)
    BY PositionsOfKeys
  <2>2. ASSUME NEW k \in Unsettled(S) PROVE flow[k] \in Int /\ positions[name[k]] = flow[k]
    <3>1. k \in K /\ Position(k, S) \in P
      BY PositionsOfKeys DEF Unsettled
    <3>2. QED
      BY <1>3, <3>1, PositionFacts
  <2>3. IsFiniteSet(Unsettled(S))
    BY <1>1, FS_Subset DEF Unsettled
  <2> HIDE DEF flow, positions, name, P
  <2>4. QED
    BY <2>1, <2>2, <2>3, SumRenamed
<1>7. QED
  BY <1>4, <1>5, <1>6 DEF SumFunction

\* The positions of a result leave every account with what its rows left it with, each
\* is a flow in one direction, and no pair of accounts has two in a currency: for every
\* set of rows that a run may have listed.
THEOREM PositionsAreNet == Spec => []PositionsMatchRows
<1>1. ASSUME TypeOK, NEW r \in Runs
      PROVE  LET P == NetPositions(listed[r])
             IN  /\ \A a \in Accounts, c \in Currencies :
                      SumFunction([p \in P |-> FlowOf(a, c, p)])
                        = SumFunction([t \in listed[r] |-> FlowOf(a, c, Body[t])])
                 /\ \A p \in P : p.amount > 0
                 /\ \A p, q \in P :
                      p.currency = q.currency /\ {p.from, p.to} = {q.from, q.to} => p = q
  <2>1. PICK S \in SUBSET Transfers : S = listed[r]
    BY <1>1 DEF TypeOK
  <2>2. \A p \in NetPositions(S) : p.amount > 0
    <3>1. ASSUME NEW k \in Unsettled(S) PROVE Position(k, S).amount > 0
      BY PositionFacts DEF Unsettled
    <3>2. QED
      BY <3>1, PositionsOfKeys
  <2>3. ASSUME NEW p \in NetPositions(S), NEW q \in NetPositions(S),
               p.currency = q.currency, {p.from, p.to} = {q.from, q.to}
        PROVE  p = q
    <3>1. PICK k \in Keys(S), l \in Keys(S) : p = Position(k, S) /\ q = Position(l, S)
      BY PositionsOfKeys DEF Unsettled
    <3>2. k.currency = l.currency /\ {k.low, k.high} = {l.low, l.high}
      BY <2>3, <3>1, PositionFacts
    <3>3. QED
      BY <3>1, <3>2, KeysApart
  <2>4. QED
    BY <2>1, <2>2, <2>3, PositionsFlow
<1>2. TypeOK => PositionsMatchRows
  BY <1>1 DEF PositionsMatchRows
<1>3. QED
  BY <1>2, TypeCorrect, PTL
=============================================================================
