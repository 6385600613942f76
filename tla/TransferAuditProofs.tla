------------------------ MODULE TransferAuditProofs ------------------------
(***************************************************************************)
(* Theorems about the audit trail of transfers: writing it changes no      *)
(* transfer, what it says of an outcome is true for good, what it shows    *)
(* from inside a transaction is the source account before it, and it tells *)
(* the whole story of a transfer when nothing has failed.                  *)
(***************************************************************************)
EXTENDS TransferAudit, TransferRefinementProofs, SequenceTheorems

-----------------------------------------------------------------------------
(***************************************************************************)
(* The audit does not touch the transfers.                                 *)
(***************************************************************************)
\* A call reads accounts and writes events without moving itself.
LEMMA AuditStepsStutter ==
  ASSUME NEW p \in Requests, Acquire(p) \/ AuditStep(p)
  PROVE  UNCHANGED vars
BY DEF Acquire, AuditStep, ReadSnapshot, WriteRow, WriteIgnored, vars, dbVars, txVars, storeVars,
       callVars, envVars

LEMMA AuditSteps == [AuditNext]_<<vars, auditVars>> => [Next]_vars
<1> SUFFICES ASSUME AuditNext PROVE [Next]_vars
  OBVIOUS
<1>1. ASSUME NEW p \in Requests, CallStep(p) PROVE [Next]_vars
  <2>1. CASE TransferStep(p)
    BY <2>1 DEF TransferStep, Next
  <2>2. CASE Acquire(p) \/ AuditStep(p)
    BY <2>2, AuditStepsStutter
  <2>3. QED
    BY <1>1, <2>1, <2>2 DEF CallStep
<1>2. QED
  BY <1>1 DEF AuditNext, Surroundings, Next

\* So what holds of the transfers without an audit trail holds of them with one.
LEMMA AuditRefines == AuditSpec => Spec
<1>1. AuditInit => Init
  BY DEF AuditInit
<1>2. QED
  BY <1>1, AuditSteps, PTL DEF AuditSpec, Spec

-----------------------------------------------------------------------------
(***************************************************************************)
(* What a call emits. It has an outcome to tell of only once it has        *)
(* decided its row, so what it tells is what the row says.                 *)
(***************************************************************************)
\* The labels of a call that may have an outcome.
Decided == {"storeSettled", "storeFailed", "unlock", "done", "dead"}

UndecidedInv == \A p \in Requests : outcome[p] # Zero => pc[p] \in Decided

LEMMA UndecidedNext == TypeInv /\ UndecidedInv /\ [Next]_vars => UndecidedInv'
<1> SUFFICES ASSUME TypeInv, UndecidedInv, [Next]_vars PROVE UndecidedInv'
  OBVIOUS
<1> USE DEF TypeInv, TypeOK, CallTypes, Decided
<1>1. ASSUME NEW p \in Requests, Progress(p) PROVE UndecidedInv'
  <2>1. CASE CacheLookup(p) \/ Claim(p) \/ Recheck(p) \/ LoadSource(p) \/ LoadDest(p)
             \/ LoadClearing(p) \/ Create(p) \/ CreateDest(p) \/ LoadDuplicate(p) \/ Begin(p)
    <3>1. UNCHANGED outcome /\ pc[p] \notin Decided
      BY <2>1 DEF CacheLookup, Claim, Recheck, LoadSource, LoadDest, LoadClearing, Create,
                  CreateDest, LoadDuplicate, Begin
    <3>2. \A q \in Requests \ {p} : pc'[q] = pc[q]
      BY <2>1 DEF CacheLookup, Claim, Recheck, LoadSource, LoadDest, LoadClearing, Create,
                  CreateDest, LoadDuplicate, Begin, Return, Goto
    <3>3. QED
      BY <3>1, <3>2 DEF UndecidedInv
  <2>2. CASE (\E a \in Accounts : LockRow(p, a)) \/ DeadlockVictim(p) \/ PostEntry(p)
             \/ MarkProcessing(p) \/ MarkSettled(p)
    <3>1. UNCHANGED outcome /\ pc[p] \notin Decided
      BY <2>2 DEF LockRow, IsNextRow, DeadlockVictim, PostEntry, MarkProcessing, MarkSettled,
                  UpdateStatusTx
    <3>2. \A q \in Requests \ {p} : pc'[q] = pc[q]
      BY <2>2 DEF LockRow, DeadlockVictim, PostEntry, MarkProcessing, MarkSettled,
                  UpdateStatusTx, FailTx, Return, Goto
    <3>3. QED
      BY <3>1, <3>2 DEF UndecidedInv
  <2>3. CASE Commit(p) \/ MarkFailed(p) \/ FailBegin(p)
    <3>1. pc[p] \notin Decided /\ (outcome' = outcome \/ pc'[p] \in Decided)
      BY <2>3 DEF Commit, MarkFailed, FailBegin, GotoStoreFailed, FailTx, Return, Goto
    <3>2. \A q \in Requests \ {p} : pc'[q] = pc[q] /\ outcome'[q] = outcome[q]
      BY <2>3 DEF Commit, MarkFailed, FailBegin, GotoStoreFailed, FailTx, Return, Goto
    <3>3. QED
      BY <3>1, <3>2 DEF UndecidedInv
  <2>4. CASE StoreFailed(p) \/ StoreSettled(p) \/ Unlock(p)
    <3>1. outcome' = outcome /\ pc'[p] \in Decided /\ \A q \in Requests \ {p} : pc'[q] = pc[q]
      BY <2>4 DEF StoreFailed, StoreSettled, Unlock, Return, Goto
    <3>2. QED
      BY <3>1 DEF UndecidedInv
  <2>5. QED
    BY <1>1, <2>1, <2>2, <2>3, <2>4 DEF Progress
<1>2. ASSUME NEW p \in Requests, NEW r \in Payloads, Receive(p, r) PROVE UndecidedInv'
  BY <1>2 DEF Receive, Goto, UndecidedInv
<1>3. CASE Environment \/ Terminating \/ UNCHANGED vars
  BY <1>3 DEF Environment, Terminating, Cancel, Crash, Expire, SetAccountStatus, vars, callVars,
              UndecidedInv
<1>4. QED
  BY <1>1, <1>2, <1>3 DEF Next

\* The acknowledgement of a commit may have been lost.
AckLost == "lostAck" \in FaultKinds /\ faults > 0

\* A transaction that was to be rolled back, and is there, was committed without an
\* acknowledgement.
AckInv ==
  \A p \in Requests : pc[p] = "markFailed" /\ txStatus[req[p].key] = "SETTLED" => AckLost

\* No step takes a failure back.
LEMMA FaultsGrow == ASSUME TypeInv, [Next]_vars PROVE faults' >= faults
<1>1. faults \in Int
  BY BoundsAssumption DEF TypeInv, TypeOK, EnvTypes
<1>2. ASSUME NEW p, NEW kind, Succeeds(p) \/ Fails(p, kind) \/ AnswerLost(p, kind)
      PROVE  faults' >= faults
  BY <1>1, <1>2 DEF Succeeds, Fails, AnswerLost, Fault
<1>3. CASE UNCHANGED faults
  BY <1>1, <1>3
<1>4. ASSUME NEW p \in Requests, Progress(p) PROVE faults' >= faults
  <2>1. CASE CacheLookup(p) \/ Claim(p) \/ Recheck(p) \/ LoadSource(p) \/ LoadDest(p)
             \/ LoadClearing(p) \/ Create(p) \/ CreateDest(p) \/ LoadDuplicate(p) \/ Begin(p)
    BY <1>2, <1>3, <2>1 DEF CacheLookup, Claim, Recheck, LoadSource, LoadDest, LoadClearing,
       Create, CreateDest, LoadDuplicate, Begin, envVars
  <2>2. CASE (\E a \in Accounts : LockRow(p, a)) \/ DeadlockVictim(p) \/ PostEntry(p)
             \/ MarkProcessing(p) \/ MarkSettled(p) \/ Commit(p)
    BY <1>2, <1>3, <2>2 DEF LockRow, DeadlockVictim, PostEntry, MarkProcessing, MarkSettled,
       UpdateStatusTx, Commit, envVars
  <2>3. CASE FailBegin(p) \/ MarkFailed(p) \/ StoreFailed(p) \/ StoreSettled(p) \/ Unlock(p)
    BY <1>2, <1>3, <2>3 DEF FailBegin, MarkFailed, StoreFailed, StoreSettled, Unlock, envVars
  <2>4. QED
    BY <1>4, <2>1, <2>2, <2>3 DEF Progress
<1>5. ASSUME NEW p \in Requests, NEW r \in Payloads, Receive(p, r) PROVE faults' >= faults
  BY <1>3, <1>5 DEF Receive, envVars
<1>6. CASE Environment \/ Terminating \/ UNCHANGED vars
  BY <1>1, <1>6 DEF Environment, Terminating, Cancel, Crash, Expire, SetAccountStatus, Fault,
                    vars, envVars
<1>7. QED
  BY <1>4, <1>5, <1>6 DEF Next

LEMMA AckLostStays == ASSUME TypeInv, [Next]_vars, AckLost PROVE AckLost'
<1>1. faults \in Int /\ faults' \in Int /\ faults' >= faults /\ faults > 0
  <2>1. TypeInv'
    BY TypeNext
  <2>2. QED
    BY <2>1, FaultsGrow, BoundsAssumption DEF TypeInv, TypeOK, EnvTypes, AckLost
<1>2. faults' > 0
  BY <1>1
<1>3. QED
  BY <1>2 DEF AckLost

\* failTx is called with the row as it was, or after a commit.
LEMMA FailTxComes ==
  ASSUME TypeInv, NEW p \in Requests, Progress(p), pc[p] # "markFailed", pc'[p] = "markFailed"
  PROVE  pc[p] \in InTx /\ (txStatus' = txStatus \/ (Commit(p) /\ AckLost'))
<1> USE DEF TypeInv, TypeOK, CallTypes
<1>1. CASE CacheLookup(p) \/ Claim(p) \/ Recheck(p) \/ LoadSource(p) \/ LoadDest(p)
           \/ LoadClearing(p) \/ Create(p) \/ CreateDest(p) \/ LoadDuplicate(p) \/ Begin(p)
  <2>1. pc'[p] # "markFailed"
    BY <1>1 DEF CacheLookup, Claim, Recheck, LoadSource, LoadDest, LoadClearing, Create,
                CreateDest, LoadDuplicate, Begin, Return, Goto
  <2>2. QED BY <2>1
<1>2. CASE FailBegin(p) \/ MarkFailed(p) \/ StoreFailed(p) \/ StoreSettled(p) \/ Unlock(p)
  <2>1. pc[p] = "markFailed" \/ pc'[p] # "markFailed"
    BY <1>2 DEF FailBegin, MarkFailed, StoreFailed, StoreSettled, Unlock, GotoStoreFailed,
                Return, Goto
  <2>2. QED BY <2>1
<1>3. CASE (\E a \in Accounts : LockRow(p, a)) \/ DeadlockVictim(p) \/ PostEntry(p)
           \/ MarkProcessing(p) \/ MarkSettled(p)
  <2>1. txStatus' = txStatus
    BY <1>3 DEF LockRow, DeadlockVictim, PostEntry, MarkProcessing, MarkSettled, UpdateStatusTx,
                dbVars
  <2>2. pc[p] \in InTx \/ pc'[p] # "markFailed"
    BY <1>3 DEF LockRow, IsNextRow, DeadlockVictim, PostEntry, MarkProcessing, MarkSettled,
                UpdateStatusTx, FailTx, Return, Goto, InTx
  <2>3. QED BY <2>1, <2>2
<1>4. CASE Commit(p)
  <2>1. \/ txStatus' = txStatus
        \/ AnswerLost(p, "lostAck")
    BY <1>4 DEF Commit, dbVars, Return, Goto
  <2>2. ASSUME AnswerLost(p, "lostAck") PROVE AckLost'
    BY <2>2, BoundsAssumption DEF AnswerLost, Fault, AckLost, EnvTypes
  <2>3. QED
    BY <1>4, <2>1, <2>2 DEF Commit, InTx
<1>5. QED
  BY <1>1, <1>2, <1>3, <1>4 DEF Progress

LEMMA AckNext == RowsInv /\ AckInv /\ [Next]_vars => AckInv'
<1> SUFFICES ASSUME RowsInv, AckInv, [Next]_vars,
                    NEW p \in Requests, pc'[p] = "markFailed", txStatus'[req'[p].key] = "SETTLED"
             PROVE  AckLost'
  BY DEF AckInv
<1> USE DEF RowsInv
<1>1. CASE pc[p] = "markFailed"
  <2>1. req'[p] = req[p] /\ req[p].key \in Keys
    <3>1. req'[p] = req[p]
      BY <1>1, AnswerProgress DEF Next, Receive, Environment, Terminating, Cancel, Crash, Expire,
         SetAccountStatus, vars, callVars, TypeInv, TypeOK, CallTypes
    <3>2. QED
      BY <1>1, <3>1, Orders
  <2>2. CASE txStatus[req[p].key] = "SETTLED"
    BY <1>1, <2>2, AckLostStays DEF AckInv
  <2>3. ASSUME NEW q \in Requests, req[q].key = req[p].key,
               CreateDest(q) \/ Commit(q) \/ MarkFailed(q) \/ FailBegin(q)
        PROVE  txStatus[req[p].key] = "SETTLED"
    <3>1. CASE CreateDest(q)
      BY <1>1, <2>3, <3>1 DEF CreateDest, InsertInv, TypeInv, RowsExist, AfterCreate
    <3>2. CASE Commit(q)
      BY <1>1, <2>3, <3>2 DEF Commit, PostingInv, OwnerInv, Owning, Settling, InTx
    <3>3. CASE MarkFailed(q) \/ FailBegin(q)
      <4>1. txStatus' = txStatus \/ RowFailed(q)
        BY <3>3 DEF MarkFailed, FailBegin
      <4>2. RowFailed(q) => txStatus'[req[p].key] \in {"FAILED", txStatus[req[p].key]}
        BY <2>1, <2>3 DEF RowFailed, FailedStatus, TypeInv, TypeOK, RowTypes
      <4>3. QED
        BY <2>1, <4>1, <4>2
    <3>4. QED
      BY <2>3, <3>1, <3>2, <3>3
  <2>4. QED
    BY <2>1, <2>2, <2>3, RowSteps
<1>2. CASE pc[p] # "markFailed"
  <2>1. Progress(p)
    <3>1. ASSUME NEW q \in Requests, q # p, Progress(q) PROVE FALSE
      BY <1>2, <3>1, AnswerProgress DEF Others
    <3>2. ASSUME NEW q \in Requests, NEW r \in Payloads, Receive(q, r) PROVE FALSE
      BY <1>2, <3>2 DEF Receive, Goto, TypeInv, TypeOK, CallTypes
    <3>3. CASE Environment \/ Terminating \/ UNCHANGED vars
      BY <1>2, <3>3 DEF Environment, Terminating, Cancel, Crash, Expire, SetAccountStatus, vars,
                        callVars
    <3>4. QED
      BY <3>1, <3>2, <3>3 DEF Next
  <2>2. pc[p] \in InTx /\ (txStatus' = txStatus \/ (Commit(p) /\ AckLost')) /\ req' = req
    BY <1>2, <2>1, FailTxComes, AnswerProgress
  <2>3. txStatus[req[p].key] = "PENDING"
    BY <2>2 DEF PostingInv, OwnerInv, Settling
  <2>4. QED
    BY <2>2, <2>3
<1>3. QED
  BY <1>1, <1>2

\* What an event says of an outcome: the row has it, and the type of the event gives
\* it away. An event says FAILED of a settled transfer after a lost acknowledgement.
Tells(e, k) ==
  /\ e.status \in Terminal => txStatus[k] = e.status
  /\ e.type = "TRANSFER_SETTLED" => e.status = "SETTLED"
  /\ e.type = "TRANSFER_FAILED" => /\ e.status \in Terminal
                                   /\ e.status = "SETTLED" => AckLost

\* After a step it says that still, or by then.
Told(e, k) ==
  /\ e.status \in Terminal => txStatus'[k] = e.status
  /\ e.type = "TRANSFER_SETTLED" => e.status = "SETTLED"
  /\ e.type = "TRANSFER_FAILED" => /\ e.status \in Terminal
                                   /\ e.status = "SETTLED" => AckLost'

\* The events a call emits from inside its transaction, and where it is then.
Inside == {"HOLD_PLACED", "JOURNAL_ENTRY_POSTED"}
Posted == {"markProcessing", "markSettled"}

LEMMA EmitsTruth ==
  ASSUME RowsInv, AnswersInv, AnswersInv', TypeInv', UndecidedInv, AckInv,
         NEW p \in Requests, Progress(p), NEW k \in Keys, k = req[p].key
  PROVE  /\ Emits(p) \in Seq(Event)
         /\ \A i \in DOMAIN Emits(p) : Told(Emits(p)[i], k)
         /\ Emits(p) # << >> => pc'[p] # "idle" /\ txStatus'[k] # NoRow
         /\ \A i \in DOMAIN Emits(p) : Emits(p)[i].type \in Inside => pc'[p] \in Posted
<1> USE DEF RowsInv, EventTypes, Terminal, Told
<1> DEFINE Goal(e) == /\ e \in Seq(Event)
                      /\ \A i \in DOMAIN e : Told(e[i], k)
                      /\ e # << >> => pc'[p] # "idle" /\ txStatus'[k] # NoRow
                      /\ \A i \in DOMAIN e : e[i].type \in Inside => pc'[p] \in Posted
<1>1. Live(p) /\ req' = req /\ req[p] \in Order
  BY AnswerProgress, Orders DEF Live
<1>2. ASSUME NEW t \in EventTypes, NEW s \in TxStatus,
             Told(Says(t, s), k), pc'[p] # "idle", txStatus'[k] # NoRow,
             t \in Inside => pc'[p] \in Posted
      PROVE  Goal(<<Says(t, s)>>)
  BY <1>2 DEF Says, Event
<1>3. ASSUME pc'[p] \in AfterCreate PROVE txStatus'[k] # NoRow /\ pc'[p] # "idle"
  BY <1>1, <1>3 DEF TypeInv, RowsExist, AfterCreate, InTx
<1>4. CASE Made(p)
  <2>1. Goal(<<Says("TRANSFER_INITIATED", "PENDING")>>)
    BY <1>2, <1>3, <1>4 DEF Made, TxStatus, Inside, AfterCreate, Says
  <2>2. Emits(p) = <<Says("TRANSFER_INITIATED", "PENDING")>>
    BY <1>4 DEF Emits, Made, Holds, Paid, SettledNow, FailedNow
  <2>3. QED
    BY <2>1, <2>2
<1>5. CASE Holds(p)
  <2> DEFINE e == <<Says("HOLD_PLACED", "PENDING"), Says("JOURNAL_ENTRY_POSTED", "PENDING")>>
  <2>1. pc'[p] \in Posted /\ pc'[p] # "idle" /\ txStatus'[k] # NoRow
    BY <1>3, <1>5 DEF Holds, Posted, AfterCreate, InTx
  <2>2. Goal(e)
    BY <2>1 DEF Says, Event, TxStatus, Inside
  <2>3. Emits(p) = e
    BY <1>5 DEF Emits, Made, Holds, Paid, SettledNow, FailedNow
  <2>4. QED
    BY <2>2, <2>3
<1>6. CASE Paid(p)
  <2>1. Goal(<<Says("JOURNAL_ENTRY_POSTED", "PROCESSING")>>)
    BY <1>2, <1>3, <1>6 DEF Paid, Posted, TxStatus, AfterCreate, InTx, Says
  <2>2. Emits(p) = <<Says("JOURNAL_ENTRY_POSTED", "PROCESSING")>>
    BY <1>6 DEF Emits, Made, Holds, Paid, SettledNow, FailedNow
  <2>3. QED
    BY <2>1, <2>2
<1>7. CASE SettledNow(p)
  <2>1. txStatus'[k] = "SETTLED"
    BY <1>1, <1>7 DEF SettledNow, AnswersInv
  <2>2. Goal(<<Says("TRANSFER_SETTLED", "SETTLED")>>)
    BY <1>2, <1>7, <2>1 DEF SettledNow, TxStatus, Inside, NoRow, Says
  <2>3. Emits(p) = <<Says("TRANSFER_SETTLED", "SETTLED")>>
    BY <1>7 DEF Emits, Made, Holds, Paid, SettledNow, FailedNow
  <2>4. QED
    BY <2>2, <2>3
<1>8. CASE FailedNow(p)
  <2>1. MarkFailed(p)
    BY <1>8 DEF FailedNow, Progress, CacheLookup, Claim, Recheck, LoadSource, LoadDest,
       LoadClearing, Create, CreateDest, LoadDuplicate, Begin, FailBegin, LockRow, IsNextRow,
       DeadlockVictim, PostEntry, MarkProcessing, MarkSettled, Commit, StoreFailed, StoreSettled,
       Unlock
  <2>2. outcome[p] = Zero
    BY <1>8 DEF FailedNow, UndecidedInv, Decided
  <2>3. RowFailed(p) /\ outcome'[p] = FailedStatus(k) /\ pc[p] \in AfterCreate
    BY <1>8, <2>1, <2>2 DEF FailedNow, MarkFailed, AfterCreate, TypeInv, TypeOK, CallTypes
  <2>4. txStatus'[k] = outcome'[p] /\ outcome'[p] \in Terminal
    BY <2>3, FailedRow
  <2>5. pc'[p] # "idle"
    BY AnswerProgress
  <2>6. outcome'[p] = "SETTLED" => AckLost'
    <3>1. outcome'[p] = "SETTLED" => txStatus[k] = "SETTLED"
      BY <2>3 DEF FailedStatus
    <3>2. TypeInv /\ [Next]_vars /\ pc[p] = "markFailed"
      BY <1>8 DEF FailedNow, Next
    <3>3. QED
      BY <3>1, <3>2, AckLostStays DEF AckInv
  <2>7. Goal(<<Says("TRANSFER_FAILED", outcome'[p])>>)
    BY <1>2, <2>4, <2>5, <2>6 DEF TxStatus, Inside, NoRow, Says
  <2>8. Emits(p) = <<Says("TRANSFER_FAILED", outcome'[p])>>
    BY <1>8 DEF Emits, Made, Holds, Paid, SettledNow, FailedNow
  <2>9. QED
    BY <2>7, <2>8
<1>9. CASE ~(Made(p) \/ Holds(p) \/ Paid(p) \/ SettledNow(p) \/ FailedNow(p))
  <2>1. Emits(p) = << >>
    BY <1>9 DEF Emits
  <2>2. QED
    BY <2>1
<1>10. QED
  BY <1>4, <1>5, <1>6, <1>7, <1>8, <1>9

-----------------------------------------------------------------------------
(***************************************************************************)
(* The types of the trail, and the truth of what is in it or on its way.   *)
(***************************************************************************)
\* What the transfers keep, whatever the audit does.
TransferInv == RefineInv /\ AnswersInv /\ UndecidedInv /\ AckInv

LEMMA TransferInvariant == AuditSpec => []TransferInv
<1>1. Init => AnswersInv /\ UndecidedInv /\ AckInv
  BY DEF Init, AnswersInv, UndecidedInv, AckInv, NoRow
<1>2. RefineInv => RowsInv /\ TypeInv
  BY DEF RefineInv, RowsInv
<1>3. Spec => []TransferInv
  BY <1>1, <1>2, RefineInvariant, AnswersNext, UndecidedNext, AckNext, PTL DEF Spec, TransferInv
<1>4. QED
  BY <1>3, AuditRefines, PTL

\* Of the events still to be written, and of the rows written: there is a row they
\* tell of, and what they tell of it is true.
EventsOf(p) ==
  /\ pending[p] # << >> => pc[p] # "idle" /\ req[p] \in Order /\ txStatus[req[p].key] # NoRow
  /\ \A i \in DOMAIN pending[p] : Tells(pending[p][i], req[p].key)

TrailOf(k) ==
  /\ Logged(k) # {} => txStatus[k] # NoRow
  /\ \A e \in Logged(k) : Tells(e, k)

EventsInv == (\A p \in Requests : EventsOf(p)) /\ (\A k \in Keys : TrailOf(k))

TrailInv == AuditTypeOK /\ EventsInv

LEMMA ConcatElements ==
  ASSUME NEW S, NEW s \in Seq(S), NEW t \in Seq(S)
  PROVE  /\ s \o t \in Seq(S) /\ (s \o t # << >> => s # << >> \/ t # << >>)
         /\ \A i \in DOMAIN (s \o t) : \/ \E j \in DOMAIN s : (s \o t)[i] = s[j]
                                       \/ \E j \in DOMAIN t : (s \o t)[i] = t[j]
<1>1. s \o t \in Seq(S) /\ Len(s \o t) = Len(s) + Len(t)
  OBVIOUS
<1>2. ASSUME NEW i \in DOMAIN (s \o t)
      PROVE  \/ \E j \in DOMAIN s : (s \o t)[i] = s[j]
             \/ \E j \in DOMAIN t : (s \o t)[i] = t[j]
  <2>1. i \in 1..(Len(s) + Len(t))
    BY <1>1
  <2>2. CASE i <= Len(s)
    <3>1. i \in DOMAIN s /\ (s \o t)[i] = s[i]
      BY <2>1, <2>2
    <3>2. QED BY <3>1
  <2>3. CASE i > Len(s)
    <3>1. i - Len(s) \in DOMAIN t /\ (s \o t)[i] = t[i - Len(s)]
      BY <2>1, <2>3
    <3>2. QED BY <3>1
  <2>4. QED
    BY <2>1, <2>2, <2>3
<1>3. QED
  BY <1>1, <1>2

LEMMA TailElements ==
  ASSUME NEW S, NEW s \in Seq(S), s # << >>
  PROVE  /\ Tail(s) \in Seq(S) /\ Head(s) \in S /\ 1 \in DOMAIN s /\ Head(s) = s[1]
         /\ \A i \in DOMAIN Tail(s) : \E j \in DOMAIN s : Tail(s)[i] = s[j]
<1>1. /\ Tail(s) \in Seq(S) /\ Head(s) \in S /\ 1 \in DOMAIN s /\ Head(s) = s[1]
      /\ Len(Tail(s)) = Len(s) - 1
  OBVIOUS
<1>2. ASSUME NEW i \in DOMAIN Tail(s) PROVE i + 1 \in DOMAIN s /\ Tail(s)[i] = s[i + 1]
  BY <1>1
<1>3. QED
  BY <1>1, <1>2

LEMMA AppendElements ==
  ASSUME NEW S, NEW s \in Seq(S), NEW e \in S
  PROVE  /\ Append(s, e) \in Seq(S)
         /\ \A i \in DOMAIN Append(s, e) : \/ \E j \in DOMAIN s : Append(s, e)[i] = s[j]
                                           \/ Append(s, e)[i] = e
<1>1. Append(s, e) \in Seq(S) /\ Len(Append(s, e)) = Len(s) + 1
  OBVIOUS
<1>2. ASSUME NEW i \in DOMAIN Append(s, e)
      PROVE  (i \in DOMAIN s /\ Append(s, e)[i] = s[i]) \/ Append(s, e)[i] = e
  BY <1>1
<1>3. QED
  BY <1>1, <1>2

LEMMA AppendAny ==
  ASSUME NEW S, NEW s \in Seq(S), NEW e
  PROVE  \A i \in DOMAIN Append(s, e) : \/ \E j \in DOMAIN s : Append(s, e)[i] = s[j]
                                        \/ Append(s, e)[i] = e
<1>1. s \in Seq(S \cup {e}) /\ e \in S \cup {e}
  OBVIOUS
<1>2. QED
  BY <1>1, AppendElements

\* The row a call writes, and what of the trail is not as before.
RowOf(p) == [type |-> Head(pending[p]).type, status |-> Head(pending[p]).status,
             source |-> source[p]]

LEMMA LoggedRows ==
  ASSUME AuditTypeOK, NEW k \in Keys
  PROVE  Logged(k) \subseteq AuditRow
BY DEF AuditTypeOK, Logged, Range

LEMMA RowWritten ==
  ASSUME AuditTypeOK, NEW p \in Requests, WriteRow(p), NEW k \in Keys, k = req[p].key
  PROVE  /\ RowOf(p) \in AuditRow
         /\ trail' \in [Keys -> [Entities -> Seq(AuditRow)]]
         /\ \A j \in Keys \ {k} : trail'[j] = trail[j]
         /\ \/ trail' = trail /\ AuditFails(p)
            \/ /\ \A s \in Entities :
                     trail'[k][s] = IF s = Scopes[written[p] + 1]
                                    THEN Append(trail[k][s], RowOf(p)) ELSE trail[k][s]
               /\ AuditSucceeds(p)
         /\ Logged(k)' \subseteq Logged(k) \cup {RowOf(p)}
<1> DEFINE scope == Scopes[written[p] + 1]
<1>1. /\ pending[p] # << >>
      /\ \/ trail' = [trail EXCEPT ![k][scope] = Append(@, RowOf(p))] /\ AuditSucceeds(p)
         \/ trail' = trail /\ AuditFails(p)
  BY DEF WriteRow, MayEmit, RowOf
<1>2. scope \in Entities
  <2>1. written[p] = 0 \/ written[p] = 1 \/ written[p] = 2
    BY DEF AuditTypeOK
  <2>2. QED
    BY <2>1 DEF Scopes, Entities
<1>3. RowOf(p) \in AuditRow
  <2>1. Head(pending[p]) \in Event
    BY <1>1, TailElements DEF AuditTypeOK
  <2>2. QED
    BY <2>1 DEF RowOf, Event, AuditRow, AuditTypeOK
<1> HIDE DEF scope
<1>4. CASE trail' = trail /\ AuditFails(p)
  BY <1>3, <1>4, SMTT(30) DEF AuditTypeOK, Logged
<1>5. CASE trail' = [trail EXCEPT ![k][scope] = Append(@, RowOf(p))] /\ AuditSucceeds(p)
  <2>1. /\ trail \in [Keys -> [Entities -> Seq(AuditRow)]]
        /\ \A s \in Entities : trail[k][s] \in Seq(AuditRow)
    BY DEF AuditTypeOK
  <2>2. \A s \in Entities :
          trail'[k][s] = IF s = scope THEN Append(trail[k][s], RowOf(p)) ELSE trail[k][s]
    BY <1>5, <2>1
  <2>3. Append(trail[k][scope], RowOf(p)) \in Seq(AuditRow)
    BY <1>2, <1>3, <2>1, AppendElements
  <2>4. trail' = [trail EXCEPT ![k] = [trail[k] EXCEPT ![scope] = Append(trail[k][scope], RowOf(p))]]
    BY <1>5
  <2>5. [trail[k] EXCEPT ![scope] = Append(trail[k][scope], RowOf(p))] \in [Entities -> Seq(AuditRow)]
    BY <2>1, <2>3
  <2>6. trail' \in [Keys -> [Entities -> Seq(AuditRow)]] /\ \A j \in Keys \ {k} : trail'[j] = trail[j]
    BY <2>1, <2>4, <2>5
  <2>7. ASSUME NEW e \in Logged(k)' PROVE e \in Logged(k) \cup {RowOf(p)}
    <3>1. PICK s \in Entities : e \in Range(trail'[k][s])
      BY <2>7 DEF Logged
    <3>2. CASE s # scope
      BY <2>2, <3>1, <3>2 DEF Logged
    <3>3. CASE s = scope
      <4>1. PICK i \in DOMAIN Append(trail[k][s], RowOf(p)) : e = Append(trail[k][s], RowOf(p))[i]
        BY <2>2, <3>1, <3>3 DEF Range
      <4>2. e = RowOf(p) \/ \E j \in DOMAIN trail[k][s] : e = trail[k][s][j]
        BY <2>1, <4>1, AppendAny
      <4>3. QED
        BY <4>2 DEF Logged, Range
    <3>4. QED
      BY <3>2, <3>3
  <2>8. QED
    BY <1>3, <1>5, <2>2, <2>6, <2>7 DEF scope
<1>6. QED
  BY <1>1, <1>4, <1>5

\* What a step of the transfers leaves true.
LEMMA TellsKept ==
  ASSUME TransferInv, [Next]_vars
  PROVE  /\ \A k \in Keys : txStatus[k] # NoRow => txStatus'[k] # NoRow
         /\ \A k \in Keys : \A e : Tells(e, k) => Told(e, k)
         /\ \A p \in Requests : pc[p] # "idle" => pc'[p] # "idle" /\ req'[p] = req[p]
<1> USE DEF TransferInv, RefineInv, RowsInv
<1>1. ASSUME NEW k \in Keys, txStatus[k] # NoRow PROVE txStatus'[k] # NoRow
  <2>1. ASSUME NEW p \in Requests, k = req[p].key, Commit(p) PROVE txStatus'[k] # NoRow
    BY <1>1, <2>1, CommitRow DEF NoRow
  <2>2. ASSUME NEW p \in Requests, k = req[p].key, CreateDest(p) PROVE txStatus'[k] # NoRow
    BY <1>1, <2>2 DEF CreateDest, InsertInv
  <2>3. ASSUME NEW p \in Requests, k = req[p].key, MarkFailed(p) \/ FailBegin(p)
        PROVE  txStatus'[k] # NoRow
    <3>1. pc[p] \in AfterCreate /\ (txStatus' = txStatus \/ RowFailed(p))
      BY <2>3 DEF MarkFailed, FailBegin, AfterCreate
    <3>2. QED
      BY <1>1, <2>3, <3>1, FailedRow DEF Terminal, NoRow
  <2>4. QED
    BY <1>1, <2>1, <2>2, <2>3, RowSteps
<1>2. ASSUME NEW k \in Keys, NEW e, Tells(e, k) PROVE Told(e, k)
  BY <1>2, TerminalKept, AckLostStays DEF Tells, Told
<1>3. ASSUME NEW p \in Requests, pc[p] # "idle" PROVE pc'[p] # "idle" /\ req'[p] = req[p]
  <2>1. ASSUME NEW q \in Requests, Progress(q) PROVE pc'[p] # "idle" /\ req'[p] = req[p]
    BY <1>3, <2>1, AnswerProgress DEF Others
  <2>2. ASSUME NEW q \in Requests, NEW r \in Payloads, Receive(q, r)
        PROVE  pc'[p] # "idle" /\ req'[p] = req[p]
    BY <1>3, <2>2 DEF Receive, Goto, TypeInv, TypeOK, CallTypes
  <2>3. CASE Environment \/ Terminating \/ UNCHANGED vars
    BY <1>3, <2>3 DEF Environment, Terminating, Cancel, Crash, Expire, SetAccountStatus, vars,
                      callVars
  <2>4. QED
    BY <2>1, <2>2, <2>3 DEF Next
<1>4. QED
  BY <1>1, <1>2, <1>3

LEMMA EventsKept ==
  ASSUME TransferInv, [Next]_vars, TrailInv, NEW p \in Requests,
         pending'[p] \in Seq(Event), pending'[p] # << >> => pending[p] # << >>,
         \A i \in DOMAIN pending'[p] : \E j \in DOMAIN pending[p] : pending'[p][i] = pending[p][j]
  PROVE  EventsOf(p)'
<1>1. /\ \A k \in Keys : txStatus[k] # NoRow => txStatus'[k] # NoRow
      /\ \A k \in Keys : \A e : Tells(e, k) => Told(e, k)
      /\ pc[p] # "idle" => pc'[p] # "idle" /\ req'[p] = req[p]
  BY TellsKept
<1>2. SUFFICES ASSUME pending'[p] # << >> PROVE EventsOf(p)'
  BY DEF EventsOf
<1>3. /\ pc'[p] # "idle" /\ req'[p] = req[p] /\ req[p] \in Order /\ req[p].key \in Keys
      /\ txStatus'[req[p].key] # NoRow
  BY <1>1, <1>2 DEF TrailInv, EventsInv, EventsOf, Order
<1>4. ASSUME NEW i \in DOMAIN pending'[p]
      PROVE  Told(pending'[p][i], req[p].key)
  <2>1. PICK j \in DOMAIN pending[p] : pending'[p][i] = pending[p][j]
    OBVIOUS
  <2>2. Tells(pending[p][j], req[p].key)
    BY <2>1 DEF TrailInv, EventsInv, EventsOf
  <2>3. QED
    BY <1>1, <1>3, <2>1, <2>2
<1>5. QED
  BY <1>3, <1>4 DEF EventsOf, Tells, Told

LEMMA TrailKept ==
  ASSUME TransferInv, [Next]_vars, TrailInv, NEW k \in Keys, trail'[k] = trail[k]
  PROVE  TrailOf(k)'
<1>1. Logged(k)' = Logged(k)
  BY DEF Logged
<1>2. txStatus[k] # NoRow => txStatus'[k] # NoRow
  BY TellsKept
<1>3. ASSUME NEW e \in Logged(k) PROVE Told(e, k)
  <2>1. Tells(e, k)
    BY DEF TrailInv, EventsInv, TrailOf
  <2>2. QED
    BY <2>1, TellsKept
<1>4. QED
  BY <1>1, <1>2, <1>3 DEF TrailInv, EventsInv, TrailOf, Tells, Told

LEMMA TrailTransferStep ==
  ASSUME TransferInv, TransferInv', TrailInv, NEW p \in Requests, TransferStep(p)
  PROVE  TrailInv'
<1> USE DEF AuditTypeOK
<1>1. /\ Progress(p) /\ [Next]_vars /\ UNCHANGED <<read, source, written, trail, auditFaults>>
      /\ pending' = [pending EXCEPT ![p] = @ \o Emits(p)] /\ inserting' \subseteq inserting
  BY DEF TransferStep, Next
<1>2. /\ Live(p) /\ req' = req /\ req[p] \in Order
      /\ "idle" \notin {pc[p], pc'[p]}
  BY <1>1, AnswerProgress, Orders DEF TransferInv, RefineInv, RowsInv, Live
<1>3. PICK k \in Keys : k = req[p].key
  BY <1>2 DEF Order
<1>4. /\ Emits(p) \in Seq(Event)
      /\ \A i \in DOMAIN Emits(p) : Told(Emits(p)[i], k)
      /\ Emits(p) # << >> => txStatus'[k] # NoRow
  BY <1>1, <1>3, EmitsTruth DEF TransferInv, RefineInv, RowsInv
<1>5. pending[p] \in Seq(Event) /\ pending'[p] = pending[p] \o Emits(p)
  BY <1>1 DEF TrailInv
<1>6. /\ pending'[p] \in Seq(Event)
      /\ pending'[p] # << >> => pending[p] # << >> \/ Emits(p) # << >>
      /\ \A i \in DOMAIN pending'[p] :
           \/ \E j \in DOMAIN pending[p] : pending'[p][i] = pending[p][j]
           \/ \E j \in DOMAIN Emits(p) : pending'[p][i] = Emits(p)[j]
  <2> DEFINE s == pending[p]
             t == Emits(p)
  <2>1. s \in Seq(Event) /\ t \in Seq(Event) /\ pending'[p] = s \o t
    BY <1>4, <1>5
  <2> HIDE DEF s, t
  <2>2. /\ s \o t \in Seq(Event) /\ (s \o t # << >> => s # << >> \/ t # << >>)
        /\ \A i \in DOMAIN (s \o t) : \/ \E j \in DOMAIN s : (s \o t)[i] = s[j]
                                      \/ \E j \in DOMAIN t : (s \o t)[i] = t[j]
    BY <2>1, ConcatElements
  <2>3. QED
    BY <2>1, <2>2 DEF s, t
<1>7. AuditTypeOK'
  BY <1>1, <1>5, <1>6 DEF TrailInv
<1>8. EventsOf(p)'
  <2>1. /\ txStatus[k] # NoRow => txStatus'[k] # NoRow
        /\ \A e : Tells(e, k) => Told(e, k)
    BY <1>1, TellsKept
  <2>2. ASSUME NEW i \in DOMAIN pending'[p] PROVE Told(pending'[p][i], k)
    <3>1. CASE \E j \in DOMAIN Emits(p) : pending'[p][i] = Emits(p)[j]
      BY <1>4, <3>1
    <3>2. CASE \E j \in DOMAIN pending[p] : pending'[p][i] = pending[p][j]
      <4>1. PICK j \in DOMAIN pending[p] : pending'[p][i] = pending[p][j]
        BY <3>2
      <4>2. Tells(pending[p][j], k)
        BY <1>3, <4>1 DEF TrailInv, EventsInv, EventsOf
      <4>3. QED
        BY <2>1, <4>1, <4>2
    <3>3. QED
      BY <1>6, <3>1, <3>2
  <2>3. pending'[p] # << >> => txStatus'[k] # NoRow
    BY <1>3, <1>4, <1>6, <2>1 DEF TrailInv, EventsInv, EventsOf
  <2>4. QED
    BY <1>2, <1>3, <2>2, <2>3 DEF EventsOf, Tells, Told
<1>9. ASSUME NEW q \in Requests, q # p PROVE EventsOf(q)'
  <2>1. pending'[q] = pending[q] /\ pending[q] \in Seq(Event)
    BY <1>1, <1>9 DEF TrailInv
  <2>2. QED
    BY <1>1, <2>1, EventsKept
<1>10. \A j \in Keys : TrailOf(j)'
  BY <1>1, TrailKept
<1>11. QED
  BY <1>7, <1>8, <1>9, <1>10 DEF TrailInv, EventsInv

\* A step in which nothing but p's reading and writing goes on.
LEMMA DropType ==
  ASSUME AuditTypeOK, NEW p \in Requests, DropEvent(p), pending[p] # << >>
  PROVE  /\ pending' \in [Requests -> Seq(Event)] /\ read' \in [Requests -> 0..3]
         /\ source' \in [Requests -> Int] /\ written' \in [Requests -> 0..2]
         /\ pending'[p] = Tail(pending[p]) /\ \A q \in Requests \ {p} : pending'[q] = pending[q]
<1>1. Tail(pending[p]) \in Seq(Event)
  BY TailElements DEF AuditTypeOK
<1>2. QED
  BY <1>1 DEF AuditTypeOK, DropEvent

LEMMA EventsOfWriter ==
  ASSUME TransferInv, [Next]_vars, TrailInv, NEW p \in Requests, pending[p] # << >>,
         pending' = pending \/ DropEvent(p)
  PROVE  \A q \in Requests : EventsOf(q)'
<1> SUFFICES ASSUME NEW q \in Requests PROVE EventsOf(q)'
  OBVIOUS
<1>1. pending[q] \in Seq(Event) /\ pending[p] \in Seq(Event)
  BY DEF TrailInv, AuditTypeOK
<1>2. CASE pending'[q] = pending[q]
  BY <1>1, <1>2, EventsKept
<1>3. CASE q = p /\ DropEvent(p)
  <2>1. pending'[p] = Tail(pending[p])
    BY <1>3 DEF DropEvent, TrailInv, AuditTypeOK
  <2>2. /\ pending'[p] \in Seq(Event)
        /\ \A i \in DOMAIN pending'[p] : \E j \in DOMAIN pending[p] : pending'[p][i] = pending[p][j]
    BY <1>1, <2>1, TailElements
  <2>3. QED
    BY <1>3, <2>2, EventsKept
<1>4. QED
  BY <1>2, <1>3, DropType DEF TrailInv

LEMMA TrailReadSnapshot ==
  ASSUME TransferInv, TrailInv, NEW p \in Requests, ReadSnapshot(p)
  PROVE  TrailInv'
<1>1. /\ UNCHANGED <<inserting, trail>> /\ UNCHANGED vars /\ pending[p] # << >> /\ read[p] < 3
      /\ \/ /\ read' = [read EXCEPT ![p] = @ + 1] /\ UNCHANGED <<pending, written, auditFaults>>
            /\ source' = [source EXCEPT ![p] = IF read[p] = 0 THEN balance[req[p].from] ELSE @]
         \/ DropEvent(p) /\ AuditFails(p)
  BY DEF ReadSnapshot, MayEmit, AuditSucceeds, GiveUp, SnapshotBalance
<1>2. [Next]_vars
  BY <1>1
<1>3. balance[req[p].from] \in Int
  <2>1. req[p].from \in Accounts
    BY <1>1 DEF TrailInv, EventsInv, EventsOf, Order
  <2>2. QED
    BY <2>1 DEF TransferInv, RefineInv, RowsInv, TypeInv, TypeOK, RowTypes
<1>4. auditFaults' \in 0..MaxAllFaults
  <2>1. faults \in Nat /\ auditFaults \in 0..MaxAllFaults
    BY BoundsAssumption DEF TransferInv, RefineInv, RowsInv, TypeInv, TypeOK, EnvTypes, TrailInv,
                            AuditTypeOK
  <2>2. QED
    BY <1>1, <2>1, PoolAssumption DEF AuditFails
<1>5. AuditTypeOK'
  <2>1. CASE DropEvent(p)
    BY <1>1, <1>4, <2>1, DropType DEF TrailInv, AuditTypeOK
  <2>2. CASE /\ read' = [read EXCEPT ![p] = @ + 1] /\ UNCHANGED <<pending, written>>
             /\ source' = [source EXCEPT ![p] = IF read[p] = 0 THEN balance[req[p].from] ELSE @]
    <3>1. read[p] + 1 \in 0..3
      <4>1. read[p] \in 0..3
        BY DEF TrailInv, AuditTypeOK
      <4>2. read[p] < 3
        BY <1>1
      <4>3. QED
        BY <4>1, <4>2
    <3>2. read' \in [Requests -> 0..3] /\ source' \in [Requests -> Int]
      BY <1>3, <2>2, <3>1 DEF TrailInv, AuditTypeOK
    <3>3. QED
      BY <1>1, <1>4, <2>2, <3>2 DEF TrailInv, AuditTypeOK
  <2>3. QED
    BY <1>1, <2>1, <2>2
<1>6. \A q \in Requests : EventsOf(q)'
  BY <1>1, <1>2, EventsOfWriter
<1>7. \A k \in Keys : TrailOf(k)'
  BY <1>1, <1>2, TrailKept
<1>8. QED
  BY <1>5, <1>6, <1>7 DEF TrailInv, EventsInv

LEMMA TrailWriteRow ==
  ASSUME TransferInv, TrailInv, NEW p \in Requests, WriteRow(p)
  PROVE  TrailInv'
<1>1. /\ UNCHANGED inserting /\ UNCHANGED vars /\ pending[p] # << >> /\ read[p] = 3
      /\ UNCHANGED auditFaults \/ AuditFails(p)
      /\ IF written[p] < 2
         THEN written' = [written EXCEPT ![p] = @ + 1] /\ UNCHANGED <<pending, read, source>>
         ELSE DropEvent(p)
  BY DEF WriteRow, MayEmit, AuditSucceeds, WriteIgnored, vars, dbVars, txVars, storeVars, callVars,
         envVars
<1>2. [Next]_vars
  BY <1>1
<1>3. PICK k \in Keys : k = req[p].key
  BY <1>1 DEF TrailInv, EventsInv, EventsOf, Order
<1>4. auditFaults' \in 0..MaxAllFaults
  <2>1. faults \in Nat /\ auditFaults \in 0..MaxAllFaults
    BY BoundsAssumption DEF TransferInv, RefineInv, RowsInv, TypeInv, TypeOK, EnvTypes, TrailInv,
                            AuditTypeOK
  <2>2. QED
    BY <1>1, <2>1, PoolAssumption DEF AuditFails
<1>5. Head(pending[p]) = pending[p][1] /\ 1 \in DOMAIN pending[p]
  BY <1>1, TailElements DEF TrailInv, AuditTypeOK
<1>6. /\ trail' \in [Keys -> [Entities -> Seq(AuditRow)]]
      /\ \A j \in Keys \ {k} : trail'[j] = trail[j]
      /\ Logged(k)' \subseteq Logged(k) \cup {RowOf(p)}
  BY <1>3, RowWritten DEF TrailInv
<1>7. AuditTypeOK'
  <2>1. CASE DropEvent(p)
    BY <1>1, <1>4, <1>6, <2>1, DropType DEF TrailInv, AuditTypeOK
  <2>2. CASE written[p] < 2 /\ written' = [written EXCEPT ![p] = @ + 1]
             /\ UNCHANGED <<pending, read, source>>
    <3>1. written[p] + 1 \in 0..2
      <4>1. written[p] \in 0..2
        BY DEF TrailInv, AuditTypeOK
      <4>2. QED
        BY <2>2, <4>1
    <3>2. QED
      BY <1>1, <1>4, <1>6, <2>2, <3>1 DEF TrailInv, AuditTypeOK
  <2>3. QED
    BY <1>1, <2>1, <2>2
<1>8. \A q \in Requests : EventsOf(q)'
  BY <1>1, <1>2, EventsOfWriter
<1>9. TrailOf(k)'
  <2>1. /\ txStatus[k] # NoRow /\ Tells(pending[p][1], k)
        /\ \A e \in Logged(k) : Tells(e, k)
    BY <1>1, <1>3, <1>5 DEF TrailInv, EventsInv, EventsOf, TrailOf
  <2>2. Tells(RowOf(p), k)
    BY <1>5, <2>1 DEF RowOf, Tells
  <2>3. txStatus' = txStatus /\ faults' = faults
    BY <1>1 DEF vars, dbVars, envVars
  <2>4. QED
    BY <1>6, <2>1, <2>2, <2>3 DEF TrailOf, Tells, AckLost
<1>10. \A j \in Keys : TrailOf(j)'
  BY <1>2, <1>6, <1>9, TrailKept
<1>11. QED
  BY <1>7, <1>8, <1>10 DEF TrailInv, EventsInv

LEMMA TrailNext ==
  TransferInv /\ TransferInv' /\ TrailInv /\ [AuditNext]_<<vars, auditVars>> => TrailInv'
<1> SUFFICES ASSUME TransferInv, TransferInv', TrailInv, [AuditNext]_<<vars, auditVars>>
             PROVE  TrailInv'
  OBVIOUS
<1>1. [Next]_vars
  BY AuditSteps
<1>2. ASSUME UNCHANGED <<trail, read, source, written, auditFaults>>, inserting' \subseteq Requests,
             pending' = pending
      PROVE  TrailInv'
  <2>1. AuditTypeOK'
    BY <1>2 DEF TrailInv, AuditTypeOK
  <2>2. \A p \in Requests : EventsOf(p)'
    BY <1>1, <1>2, EventsKept DEF TrailInv, AuditTypeOK
  <2>3. \A k \in Keys : TrailOf(k)'
    BY <1>1, <1>2, TrailKept
  <2>4. QED
    BY <2>1, <2>2, <2>3 DEF TrailInv, EventsInv
<1>3. ASSUME NEW p \in Requests, Acquire(p) PROVE TrailInv'
  BY <1>2, <1>3 DEF Acquire, TrailInv, AuditTypeOK
<1>4. CASE UNCHANGED auditVars
  BY <1>2, <1>4 DEF auditVars, TrailInv, AuditTypeOK
<1>5. CASE Surroundings
  <2>1. /\ \A p \in Requests : pending'[p] = << >> \/ pending'[p] = pending[p]
        /\ UNCHANGED <<trail, auditFaults>>
    BY <1>5 DEF Surroundings
  <2>2. AuditTypeOK'
    <3>1. inserting' \subseteq Requests /\ pending' \in [Requests -> Seq(Event)]
      BY <1>5 DEF Surroundings, TrailInv, AuditTypeOK
    <3>2. /\ read' \in [Requests -> 0..3] /\ source' \in [Requests -> Int]
          /\ written' \in [Requests -> 0..2]
      BY <1>5 DEF Surroundings, TrailInv, AuditTypeOK
    <3>3. QED
      BY <2>1, <3>1, <3>2 DEF TrailInv, AuditTypeOK
  <2>3. ASSUME NEW p \in Requests PROVE EventsOf(p)'
    <3>1. CASE pending'[p] = << >>
      BY <3>1 DEF EventsOf
    <3>2. CASE pending'[p] = pending[p]
      BY <1>1, <3>2, EventsKept DEF TrailInv, AuditTypeOK
    <3>3. QED
      BY <2>1, <3>1, <3>2
  <2>4. \A k \in Keys : TrailOf(k)'
    BY <1>1, <2>1, TrailKept
  <2>5. QED
    BY <2>2, <2>3, <2>4 DEF TrailInv, EventsInv
<1>6. QED
  BY <1>3, <1>4, <1>5, TrailTransferStep, TrailReadSnapshot, TrailWriteRow
     DEF AuditNext, CallStep, AuditStep

LEMMA TrailInvariant == AuditSpec => []TrailInv
<1>1. AuditInit => TrailInv
  <2> SUFFICES ASSUME AuditInit PROVE TrailInv
    OBVIOUS
  <2>1. AuditTypeOK
    BY PoolAssumption DEF AuditInit, AuditTypeOK
  <2>2. EventsInv
    BY DEF AuditInit, EventsInv, EventsOf, TrailOf, Logged, Range
  <2>3. QED
    BY <2>1, <2>2 DEF TrailInv
<1>2. QED
  BY <1>1, TransferInvariant, TrailNext, PTL DEF AuditSpec

\* Every state of the trail, of the events on their way and of the pool is typed.
THEOREM AuditTypeCorrect == AuditSpec => []AuditTypeOK
<1>1. TrailInv => AuditTypeOK
  BY DEF TrailInv
<1>2. QED
  BY <1>1, TrailInvariant, PTL

\* No event tells of an outcome before the outcome is committed, or while it could
\* still change, although events are written by other round trips than what they tell
\* of: a TRANSFER_SETTLED is of a settled transfer with both of its entries, and a
\* TRANSFER_FAILED of a failed one with none, or of a settled one when the
\* acknowledgement of a commit was lost.
THEOREM TrailIsTrue == AuditSpec => []EventsAreTrue
<1>1. TransferInv /\ TrailInv => EventsAreTrue
  <2> SUFFICES ASSUME TransferInv, TrailInv, NEW k \in Keys, NEW e \in Logged(k)
               PROVE  LET settled == /\ e.status = "SETTLED" /\ txStatus[k] = "SETTLED"
                                     /\ Len(journal[k]) = 2
                          failed  == /\ e.status = "FAILED" /\ txStatus[k] = "FAILED"
                                     /\ journal[k] = << >>
                          ackLost == "lostAck" \in FaultKinds /\ faults > 0
                      IN  /\ e.type = "TRANSFER_SETTLED" => settled
                          /\ e.type = "TRANSFER_FAILED" => failed \/ (settled /\ ackLost)
    BY DEF EventsAreTrue
  <2>1. Tells(e, k)
    BY DEF TrailInv, EventsInv, TrailOf
  <2>2. /\ txStatus[k] = "SETTLED" => Len(journal[k]) = 2
        /\ txStatus[k] = "FAILED" => journal[k] = << >>
    <3>1. journal[k] = IF txStatus[k] = "SETTLED"
                       THEN <<StoredEntry(ClearingEntry(req[maker[k]])),
                              StoredEntry(SettlementEntry(req[maker[k]]))>>
                       ELSE << >>
      BY DEF TransferInv, RefineInv, RowsInv, PostingInv, SettledIffPosted
    <3>2. \A a, b : Len(<<a, b>>) = 2
      OBVIOUS
    <3>3. QED
      BY <3>1, <3>2
  <2>3. e.status \in Terminal <=> e.status = "SETTLED" \/ e.status = "FAILED"
    BY DEF Terminal
  <2>4. QED
    BY <2>1, <2>2, <2>3 DEF Tells, AckLost
<1>2. QED
  BY <1>1, TransferInvariant, TrailInvariant, PTL

-----------------------------------------------------------------------------
(***************************************************************************)
(* What the events of an open transaction show.                            *)
(***************************************************************************)
\* A call has a transaction at the labels of the settlement transaction only.
OpenInv == \A p \in Requests : working[p] # NoRow => pc[p] \in InTx

LEMMA OpenNext == TypeInv /\ OpenInv /\ [Next]_vars => OpenInv'
<1> SUFFICES ASSUME TypeInv, OpenInv, [Next]_vars PROVE OpenInv'
  OBVIOUS
<1> USE DEF TypeInv, TypeOK, CallTypes, TxTypes
<1>1. ASSUME NEW p \in Requests, Progress(p) PROVE OpenInv'
  <2>1. ASSUME \A q \in Requests \ {p} : pc'[q] = pc[q] /\ working'[q] = working[q],
               working'[p] # NoRow => pc'[p] \in InTx
        PROVE  OpenInv'
    BY <2>1 DEF OpenInv
  <2>2. CASE CacheLookup(p) \/ Claim(p) \/ Recheck(p) \/ LoadSource(p) \/ LoadDest(p)
             \/ LoadClearing(p) \/ Create(p) \/ CreateDest(p) \/ LoadDuplicate(p)
    <3>1. UNCHANGED working /\ pc[p] \notin InTx /\ \A q \in Requests \ {p} : pc'[q] = pc[q]
      BY <2>2 DEF CacheLookup, Claim, Recheck, LoadSource, LoadDest, LoadClearing, Create,
                  CreateDest, LoadDuplicate, Return, Goto, InTx, txVars
    <3>2. QED
      BY <2>1, <3>1 DEF OpenInv
  <2>3. CASE FailBegin(p) \/ MarkFailed(p) \/ StoreFailed(p) \/ StoreSettled(p) \/ Unlock(p)
    <3>1. UNCHANGED working /\ pc[p] \notin InTx /\ \A q \in Requests \ {p} : pc'[q] = pc[q]
      BY <2>3 DEF FailBegin, MarkFailed, StoreFailed, StoreSettled, Unlock, GotoStoreFailed,
                  Return, Goto, InTx, txVars
    <3>2. QED
      BY <2>1, <3>1 DEF OpenInv
  <2>4. CASE Begin(p)
    <3>1. /\ \/ pc[p] \notin InTx /\ pc'[p] = "postClearing"
             \/ working' = working
          /\ \A q \in Requests \ {p} : pc'[q] = pc[q] /\ working'[q] = working[q]
      BY <2>4 DEF Begin, Goto, InTx
    <3>2. QED
      BY <2>1, <2>4, <3>1 DEF OpenInv, Begin, InTx
  <2>5. CASE \E r : FailTx(p, r)
    <3>1. working' = [working EXCEPT ![p] = NoRow] /\ Goto(p, "markFailed")
      BY <2>5 DEF FailTx, EndTx
    <3>2. QED
      BY <2>1, <3>1 DEF Goto
  <2>6. CASE Commit(p) /\ Committed(p)
    <3>1. working' = [working EXCEPT ![p] = NoRow]
      BY <2>6 DEF Committed, EndTx
    <3>2. \A q \in Requests \ {p} : pc'[q] = pc[q]
      BY <2>6 DEF Commit, FailTx, Return, Goto
    <3>3. QED
      BY <2>1, <3>1, <3>2
  <2>7. CASE /\ (\E a \in Accounts : LockRow(p, a)) \/ DeadlockVictim(p) \/ PostEntry(p)
                \/ MarkProcessing(p) \/ MarkSettled(p)
             /\ ~(\E r : FailTx(p, r))
    <3>1. \/ pc[p] = "createDest" /\ UNCHANGED working /\ \A q \in Requests \ {p} : pc'[q] = pc[q]
          \/ UNCHANGED <<pc, working>>
          \/ /\ pc'[p] \in InTx
             /\ \A q \in Requests \ {p} : pc'[q] = pc[q] /\ working'[q] = working[q]
      BY <2>7 DEF LockRow, DeadlockVictim, PostEntry, MarkProcessing, MarkSettled, UpdateStatusTx,
                  Return, Goto, InTx, txVars
    <3>2. QED
      BY <2>1, <3>1 DEF OpenInv, InTx
  <2>8. QED
    BY <1>1, <2>2, <2>3, <2>4, <2>5, <2>6, <2>7 DEF Progress, Commit
<1>2. ASSUME NEW p \in Requests, NEW r \in Payloads, Receive(p, r) PROVE OpenInv'
  BY <1>2 DEF Receive, Goto, OpenInv, InTx, txVars
<1>3. CASE Environment \/ Terminating \/ UNCHANGED vars
  BY <1>3 DEF Environment, Terminating, Cancel, Crash, Expire, SetAccountStatus, vars, callVars,
              txVars, OpenInv
<1>4. QED
  BY <1>1, <1>2, <1>3 DEF Next

\* The labels at which a transaction has posted.
HasPosted == OneEntry \cup BothEntries

InsideOf(p) ==
  /\ pending[p] = << >> => read[p] = 0
  /\ \A i \in DOMAIN pending[p] : pending[p][i].type \in Inside => pc[p] \in Posted
  /\ pc[p] \in {"begin", "postClearing"} =>
       \A e \in Logged(req[p].key) : e.type \notin Inside
  /\ pc[p] \in HasPosted =>
       /\ read[p] > 0 => source[p] = balance[req[p].from]
       /\ \A e \in Logged(req[p].key) :
            e.type \in Inside => e.source = balance[req[p].from]

InsideInv == \A p \in Requests : InsideOf(p)

\* While a transaction has posted, its source account is as it was.
LEMMA SourceLocked ==
  ASSUME TransferInv, [Next]_vars, NEW p \in Requests, pc[p] \in HasPosted, pc'[p] \in HasPosted
  PROVE  balance'[req[p].from] = balance[req[p].from]
<1> USE DEF TransferInv, RefineInv, RowsInv
<1>1. lock[req[p].from] = p /\ req[p].from \in Accounts
  BY Orders DEF WorkInv, WorkOf, Checked, HasPosted, OneEntry, BothEntries, Order
<1>2. CASE UNCHANGED <<balance, journal>>
  BY <1>2
<1>3. ASSUME NEW q \in Requests, Commit(q), Committed(q)
      PROVE  balance'[req[p].from] = balance[req[p].from]
  <2>1. q # p
    BY <1>3 DEF Commit, FailTx, Return, Goto, HasPosted, OneEntry, BothEntries, TypeInv, TypeOK,
                CallTypes
  <2>2. delta[q][req[p].from] = 0
    BY <1>1, <2>1 DEF FundsInv, Covered
  <2>3. QED
    BY <1>1, <1>3, <2>2 DEF Committed, TypeInv, TypeOK, RowTypes
<1>4. QED
  BY <1>2, <1>3, MoneySteps

\* A call comes to the labels of its transaction from the one before.
LEMMA InsideProgress ==
  ASSUME TransferInv, NEW p \in Requests, Progress(p)
  PROVE  /\ pc'[p] \in {"begin", "postClearing"} =>
              pc[p] \in {"begin", "postClearing"} \/ CreateDest(p)
         /\ pc'[p] \in HasPosted => pc[p] \in HasPosted \cup {"postClearing"}
<1> USE DEF TransferInv, RefineInv, RowsInv, TypeInv, TypeOK, CallTypes, HasPosted, OneEntry,
            BothEntries
<1> DEFINE Goal == /\ pc'[p] \in {"begin", "postClearing"} =>
                        pc[p] \in {"begin", "postClearing"} \/ CreateDest(p)
                   /\ pc'[p] \in HasPosted => pc[p] \in HasPosted \cup {"postClearing"}
<1>1. CASE CacheLookup(p) \/ Claim(p) \/ Recheck(p) \/ LoadSource(p) \/ LoadDest(p)
           \/ LoadClearing(p) \/ Create(p) \/ CreateDest(p) \/ LoadDuplicate(p) \/ Begin(p)
  <2>1. Goal
    BY <1>1 DEF CacheLookup, Claim, Recheck, LoadSource, LoadDest, LoadClearing, Create,
                CreateDest, LoadDuplicate, Begin, Return, Goto
  <2>2. QED BY <2>1
<1>2. CASE FailBegin(p) \/ MarkFailed(p) \/ StoreFailed(p) \/ StoreSettled(p) \/ Unlock(p)
           \/ Commit(p)
  <2>1. Goal
    BY <1>2 DEF FailBegin, MarkFailed, StoreFailed, StoreSettled, Unlock, GotoStoreFailed,
                Commit, FailTx, Return, Goto
  <2>2. QED BY <2>1
<1>3. CASE (\E a \in Accounts : LockRow(p, a)) \/ DeadlockVictim(p) \/ PostEntry(p)
           \/ MarkProcessing(p) \/ MarkSettled(p)
  <2>1. Goal
    BY <1>3 DEF LockRow, IsNextRow, DeadlockVictim, PostEntry, MarkProcessing, MarkSettled,
                UpdateStatusTx, FailTx, Return, Goto
  <2>2. QED BY <2>1
<1>4. QED
  BY <1>1, <1>2, <1>3 DEF Progress

\* A call that neither moves nor writes, while the balances it may have shown stay.
LEMMA InsideKept ==
  ASSUME TransferInv, [Next]_vars, TrailInv, NEW p \in Requests, InsideOf(p),
         pc'[p] \in {pc[p], "dead"}, pc[p] # "idle",
         \A i \in DOMAIN pending'[p] : \E j \in DOMAIN pending[p] : pending'[p][i] = pending[p][j],
         \/ pending'[p] = pending[p] /\ read'[p] = read[p] /\ source'[p] = source[p] /\ pc'[p] = pc[p]
         \/ read'[p] = 0,
         pc'[p] = "dead" => pending'[p] = << >>,
         trail' = trail
  PROVE  InsideOf(p)'
<1>1. req'[p] = req[p]
  BY TellsKept
<1>2. pc[p] \in HasPosted /\ pc'[p] \in HasPosted => balance'[req[p].from] = balance[req[p].from]
  BY SourceLocked
<1>3. pending'[p] = << >> => read'[p] = 0
  BY DEF InsideOf
<1>4. ASSUME NEW i \in DOMAIN pending'[p], pending'[p][i].type \in Inside
      PROVE  pc'[p] \in Posted
  <2>1. PICK j \in DOMAIN pending[p] : pending'[p][i] = pending[p][j]
    OBVIOUS
  <2>2. pc[p] \in Posted
    BY <1>4, <2>1 DEF InsideOf
  <2>3. pc'[p] # "dead"
    BY <1>4
  <2>4. QED
    BY <2>2, <2>3
<1>5. CASE pc'[p] = "dead"
  BY <1>3, <1>4, <1>5 DEF InsideOf, HasPosted, OneEntry, BothEntries
<1>6. CASE pc'[p] = pc[p]
  BY <1>1, <1>2, <1>3, <1>4, <1>6 DEF InsideOf, Logged
<1>7. QED
  BY <1>5, <1>6

LEMMA InsideTransferStep ==
  ASSUME TransferInv, TransferInv', TrailInv, InsideInv, NEW p \in Requests, TransferStep(p)
  PROVE  InsideInv'
<1>1. /\ Progress(p) /\ [Next]_vars /\ UNCHANGED <<read, source, trail>>
      /\ pending' = [pending EXCEPT ![p] = @ \o Emits(p)]
      /\ pending[p] = << >> \/ pc[p] = "storeFailed"
  BY DEF TransferStep, MayEmit, Next
<1>2. /\ Live(p) /\ req' = req /\ req[p] \in Order /\ \A q \in Requests \ {p} : pc'[q] = pc[q]
  BY <1>1, AnswerProgress, Orders DEF TransferInv, RefineInv, RowsInv, Live, Others
<1>3. PICK k \in Keys : k = req[p].key
  BY <1>2 DEF Order
<1>4. /\ Emits(p) \in Seq(Event)
      /\ \A i \in DOMAIN Emits(p) : Emits(p)[i].type \in Inside => pc'[p] \in Posted
  BY <1>1, <1>3, EmitsTruth DEF TransferInv, RefineInv, RowsInv
<1>5. ASSUME NEW q \in Requests, q # p PROVE InsideOf(q)'
  <2>1. pending'[q] = pending[q] /\ read'[q] = read[q] /\ source'[q] = source[q] /\ pc'[q] = pc[q]
    BY <1>1, <1>2, <1>5 DEF TrailInv, AuditTypeOK
  <2>2. CASE pc[q] # "idle" /\ pc[q] # "dead"
    BY <1>1, <2>1, <2>2, InsideKept DEF InsideInv
  <2>3. CASE pc[q] \in {"idle", "dead"}
    BY <1>1, <1>2, <2>1, <2>3 DEF InsideInv, InsideOf, HasPosted, OneEntry, BothEntries, Posted
  <2>4. QED
    BY <2>2, <2>3
<1>6. /\ pending'[p] = << >> => read'[p] = 0
      /\ \A i \in DOMAIN pending'[p] : pending'[p][i].type \in Inside => pc'[p] \in Posted
  <2>1. pending[p] \in Seq(Event) /\ pending'[p] = pending[p] \o Emits(p) /\ read'[p] = read[p]
    BY <1>1 DEF TrailInv, AuditTypeOK
  <2> DEFINE s == pending[p]
             t == Emits(p)
  <2>2. s \in Seq(Event) /\ t \in Seq(Event) /\ pending'[p] = s \o t
    BY <1>4, <2>1
  <2> HIDE DEF s, t
  <2>3. /\ (s \o t = << >> => s = << >>)
        /\ \A i \in DOMAIN (s \o t) : \/ \E j \in DOMAIN s : (s \o t)[i] = s[j]
                                      \/ \E j \in DOMAIN t : (s \o t)[i] = t[j]
    BY <2>2, ConcatElements
  <2>4. \A j \in DOMAIN s : s[j].type \notin Inside
    BY <1>1 DEF s, InsideInv, InsideOf, Posted
  <2>5. \A j \in DOMAIN t : t[j].type \in Inside => pc'[p] \in Posted
    BY <1>4 DEF t
  <2>6. s = << >> => read[p] = 0
    BY DEF s, InsideInv, InsideOf
  <2>7. QED
    BY <2>1, <2>2, <2>3, <2>4, <2>5, <2>6
<1>7. ASSUME pc'[p] \in {"begin", "postClearing"} PROVE InsideOf(p)'
  <2>1. \A e \in Logged(k) : e.type \notin Inside
    <3>1. CASE CreateDest(p)
      <4>1. txStatus[k] = NoRow
        BY <1>3, <3>1 DEF CreateDest, TransferInv, RefineInv, RowsInv, InsertInv
      <4>2. Logged(k) = {}
        BY <4>1 DEF TrailInv, EventsInv, TrailOf
      <4>3. QED
        BY <4>2
    <3>2. CASE pc[p] \in {"begin", "postClearing"}
      BY <1>3, <3>2 DEF InsideInv, InsideOf
    <3>3. QED
      BY <1>1, <1>7, <3>1, <3>2, InsideProgress
  <2>2. QED
    BY <1>1, <1>2, <1>3, <1>6, <1>7, <2>1 DEF InsideOf, HasPosted, OneEntry, BothEntries, Logged
<1>8. ASSUME pc'[p] \in HasPosted PROVE InsideOf(p)'
  <2>1. CASE pc[p] = "postClearing"
    <3>1. read[p] = 0 /\ \A e \in Logged(k) : e.type \notin Inside
      BY <1>1, <1>3, <2>1 DEF InsideInv, InsideOf
    <3>2. QED
      BY <1>1, <1>2, <1>3, <1>6, <1>8, <3>1 DEF InsideOf, HasPosted, OneEntry, BothEntries, Logged
  <2>2. CASE pc[p] \in HasPosted
    <3>1. balance'[req[p].from] = balance[req[p].from]
      BY <1>1, <1>8, <2>2, SourceLocked
    <3>2. QED
      BY <1>1, <1>2, <1>6, <1>8, <2>2, <3>1
         DEF InsideInv, InsideOf, HasPosted, OneEntry, BothEntries, Logged
  <2>3. QED
    BY <1>1, <1>8, <2>1, <2>2, InsideProgress
<1>9. InsideOf(p)'
  BY <1>6, <1>7, <1>8 DEF InsideOf
<1>10. QED
  BY <1>5, <1>9 DEF InsideInv

\* A step of the audit alone, of p or of nobody.
LEMMA InsideReadSnapshot ==
  ASSUME TransferInv, TrailInv, InsideInv, NEW p \in Requests, ReadSnapshot(p)
  PROVE  InsideInv'
<1>1. /\ UNCHANGED vars /\ trail' = trail /\ pending[p] # << >>
      /\ \/ /\ read' = [read EXCEPT ![p] = @ + 1] /\ pending' = pending
            /\ source' = [source EXCEPT ![p] = IF read[p] = 0 THEN balance[req[p].from] ELSE @]
         \/ DropEvent(p)
  BY DEF ReadSnapshot, MayEmit, GiveUp, SnapshotBalance
<1>2. UNCHANGED <<pc, req, balance>>
  BY <1>1 DEF vars, dbVars, callVars
<1>3. pending[p] \in Seq(Event) /\ read[p] \in 0..3
  BY DEF TrailInv, AuditTypeOK
<1>4. ASSUME NEW q \in Requests, q # p PROVE InsideOf(q)'
  BY <1>1, <1>2, <1>4 DEF InsideInv, InsideOf, TrailInv, AuditTypeOK, DropEvent, Logged
<1>5. CASE DropEvent(p)
  <2>1. pending'[p] = Tail(pending[p]) /\ read'[p] = 0
    BY <1>5 DEF DropEvent, TrailInv, AuditTypeOK
  <2>2. \A i \in DOMAIN pending'[p] : pending'[p][i].type \in Inside => pc[p] \in Posted
    BY <1>1, <1>3, <2>1, TailElements DEF InsideInv, InsideOf
  <2>3. InsideOf(p) /\ trail' = trail
    BY <1>1 DEF InsideInv
  <2>4. InsideOf(p)'
    BY <1>2, <2>1, <2>2, <2>3 DEF InsideOf, Logged
  <2>5. QED
    BY <1>4, <2>4 DEF InsideInv
<1>6. CASE /\ read' = [read EXCEPT ![p] = @ + 1] /\ pending' = pending
           /\ source' = [source EXCEPT ![p] = IF read[p] = 0 THEN balance[req[p].from] ELSE @]
  <2>1. source'[p] = IF read[p] = 0 THEN balance[req[p].from] ELSE source[p]
    BY <1>6 DEF TrailInv, AuditTypeOK
  <2>2. pc[p] \in HasPosted => source'[p] = balance[req[p].from]
    BY <1>3, <2>1 DEF InsideInv, InsideOf
  <2>3. pending'[p] # << >> /\ \A i \in DOMAIN pending'[p] :
                                pending'[p][i].type \in Inside => pc[p] \in Posted
    BY <1>1, <1>6 DEF InsideInv, InsideOf
  <2>4. InsideOf(p) /\ trail' = trail
    BY <1>1 DEF InsideInv
  <2>5. InsideOf(p)'
    BY <1>2, <2>2, <2>3, <2>4 DEF InsideOf, Logged
  <2>6. QED
    BY <1>4, <2>5 DEF InsideInv
<1>7. QED
  BY <1>1, <1>5, <1>6

LEMMA InsideWriteRow ==
  ASSUME TransferInv, TrailInv, InsideInv, NEW p \in Requests, WriteRow(p)
  PROVE  InsideInv'
<1>1. /\ UNCHANGED vars /\ pending[p] # << >> /\ read[p] = 3
      /\ UNCHANGED <<pending, read, source>> \/ DropEvent(p)
  BY DEF WriteRow, MayEmit, WriteIgnored, vars, dbVars, txVars, storeVars, callVars, envVars
<1>2. UNCHANGED <<pc, req, balance>>
  BY <1>1 DEF vars, dbVars, callVars
<1>3. PICK k \in Keys : k = req[p].key
  BY <1>1 DEF TrailInv, EventsInv, EventsOf, Order
<1>4. pending[p] \in Seq(Event) /\ Head(pending[p]) = pending[p][1] /\ 1 \in DOMAIN pending[p]
  BY <1>1, TailElements DEF TrailInv, AuditTypeOK
<1>5. RowOf(p).type \in Inside => /\ pc[p] \in Posted /\ maker[k] = p
                             /\ RowOf(p).source = balance[req[p].from]
  <2>1. SUFFICES ASSUME Head(pending[p]).type \in Inside
                 PROVE  pc[p] \in Posted /\ maker[k] = p /\ source[p] = balance[req[p].from]
    BY DEF RowOf
  <2>2. pc[p] \in Posted
    BY <1>4, <2>1 DEF InsideInv, InsideOf
  <2>3. source[p] = balance[req[p].from]
    BY <1>1, <2>2 DEF InsideInv, InsideOf, Posted, HasPosted, OneEntry, BothEntries
  <2>4. maker[k] = p
    BY <1>3, <2>2 DEF Posted, Owning, Settling, InTx, OwnerInv, PostingInv, RowsInv, RefineInv,
                      TransferInv
  <2>5. QED
    BY <2>2, <2>3, <2>4
<1>6. /\ \A j \in Keys \ {k} : trail'[j] = trail[j]
      /\ Logged(k)' \subseteq Logged(k) \cup {RowOf(p)}
  BY <1>3, RowWritten DEF TrailInv
<1>7. \A j \in Keys \ {k} : Logged(j)' = Logged(j)
  BY <1>6 DEF Logged
<1>8. ASSUME NEW q \in Requests PROVE InsideOf(q)'
  <2>1. /\ pending'[q] = << >> => read'[q] = 0
        /\ read'[q] > 0 => read'[q] = read[q] /\ source'[q] = source[q]
        /\ \A i \in DOMAIN pending'[q] : pending'[q][i].type \in Inside => pc[q] \in Posted
    <3>1. CASE UNCHANGED <<pending, read, source>>
      BY <3>1 DEF InsideInv, InsideOf
    <3>2. CASE DropEvent(p) /\ q # p
      BY <3>2 DEF DropEvent, InsideInv, InsideOf, TrailInv, AuditTypeOK
    <3>3. CASE DropEvent(p) /\ q = p
      <4>1. pending'[p] = Tail(pending[p]) /\ read'[p] = 0
        BY <3>3 DEF DropEvent, TrailInv, AuditTypeOK
      <4>2. \A i \in DOMAIN pending'[p] : pending'[p][i].type \in Inside => pc[p] \in Posted
        BY <1>1, <1>4, <4>1, TailElements DEF InsideInv, InsideOf
      <4>3. QED
        BY <3>3, <4>1, <4>2
    <3>4. QED
      BY <1>1, <3>1, <3>2, <3>3
  <2>2. CASE pc[q] \notin {"begin", "postClearing"} \cup HasPosted
    BY <1>2, <2>1, <2>2 DEF InsideOf
  <2>3. CASE pc[q] \in {"begin", "postClearing"} \cup HasPosted
    <3>1. req[q].key \in Keys /\ maker[req[q].key] = q
      BY <2>3, Orders DEF HasPosted, OneEntry, BothEntries, Order, Owning, Settling, InTx, OwnerInv,
                          PostingInv, RowsInv, RefineInv, TransferInv
    <3>2. CASE req[q].key # k
      <4>1. Logged(req[q].key)' = Logged(req[q].key) /\ InsideOf(q)
        BY <1>2, <1>7, <3>1, <3>2 DEF InsideInv
      <4>2. QED
        BY <1>2, <2>1, <4>1 DEF InsideOf
    <3>3. CASE req[q].key = k
      <4>1. RowOf(p).type \in Inside => q = p /\ pc[p] \in Posted /\ RowOf(p).source = balance[req[p].from]
        BY <1>5, <3>1, <3>3
      <4>2. pc[p] \in Posted => pc[p] \notin {"begin", "postClearing"}
        BY DEF Posted
      <4>3. pc[q] \in {"begin", "postClearing"} =>
              \A e \in Logged(k)' : e.type \notin Inside
        BY <1>6, <3>3, <4>1, <4>2 DEF InsideInv, InsideOf
      <4>4. pc[q] \in HasPosted =>
              \A e \in Logged(k)' : e.type \in Inside => e.source = balance[req[q].from]
        BY <1>6, <3>3, <4>1 DEF InsideInv, InsideOf
      <4>5. QED
        BY <1>2, <2>1, <3>3, <4>3, <4>4 DEF InsideInv, InsideOf
    <3>4. QED
      BY <3>2, <3>3
  <2>4. QED
    BY <2>2, <2>3
<1>9. QED
  BY <1>8 DEF InsideInv

LEMMA InsideNext ==
  /\ TransferInv /\ TransferInv' /\ TrailInv /\ InsideInv /\ [AuditNext]_<<vars, auditVars>>
  => InsideInv'
<1> SUFFICES ASSUME TransferInv, TransferInv', TrailInv, InsideInv,
                    [AuditNext]_<<vars, auditVars>>
             PROVE  InsideInv'
  OBVIOUS
<1>1. [Next]_vars
  BY AuditSteps
<1> USE DEF TypeInv, TypeOK, CallTypes
<1>2. ASSUME NEW q \in Requests, pc[q] = "idle" PROVE pending[q] = << >> /\ read[q] = 0
  BY <1>2 DEF TrailInv, EventsInv, EventsOf, InsideInv, InsideOf
<1>3. ASSUME NEW q \in Requests, pending'[q] = << >>, read'[q] = 0,
             pc'[q] \notin {"begin", "postClearing"} \cup HasPosted
      PROVE  InsideOf(q)'
  BY <1>3 DEF InsideOf
<1>4. ASSUME UNCHANGED <<pc, pending, read, source, trail>> PROVE InsideInv'
  <2>1. ASSUME NEW q \in Requests PROVE InsideOf(q)'
    <3>1. CASE pc[q] = "idle"
      BY <1>2, <1>3, <1>4, <3>1 DEF HasPosted, OneEntry, BothEntries
    <3>2. CASE pc[q] # "idle" /\ pc[q] # "dead"
      BY <1>1, <1>4, <3>2, InsideKept DEF InsideInv
    <3>3. CASE pc[q] = "dead"
      BY <1>4, <3>3 DEF InsideInv, InsideOf, HasPosted, OneEntry, BothEntries, Posted
    <3>4. QED
      BY <3>1, <3>2, <3>3
  <2>2. QED
    BY <2>1 DEF InsideInv
<1>5. ASSUME NEW p \in Requests, Acquire(p) PROVE InsideInv'
  BY <1>4, <1>5 DEF Acquire, vars, callVars
<1>6. ASSUME NEW p \in Requests, NEW r \in Payloads, Receive(p, r), UNCHANGED auditVars
      PROVE  InsideInv'
  <2>1. /\ pc[p] = "idle" /\ pc'[p] \in {"cacheLookup", "loadSource", "done"}
        /\ UNCHANGED <<pending, read, source, trail>>
        /\ \A q \in Requests \ {p} : pc'[q] = pc[q]
    BY <1>6 DEF Receive, Goto, auditVars, TransferInv, RefineInv, RowsInv
  <2>2. ASSUME NEW q \in Requests PROVE InsideOf(q)'
    <3>1. CASE pc[q] = "idle"
      BY <1>2, <1>3, <2>1, <3>1 DEF HasPosted, OneEntry, BothEntries
    <3>2. CASE pc[q] # "idle" /\ pc[q] # "dead"
      BY <1>1, <2>1, <3>2, InsideKept DEF InsideInv
    <3>3. CASE pc[q] = "dead"
      BY <2>1, <3>3 DEF InsideInv, InsideOf, HasPosted, OneEntry, BothEntries, Posted
    <3>4. QED
      BY <3>1, <3>2, <3>3
  <2>3. QED
    BY <2>2 DEF InsideInv
<1>7. CASE Surroundings
  <2>1. /\ Environment /\ trail' = trail
        /\ \A q \in Requests : IF pc'[q] = "dead" THEN pending'[q] = << >> /\ read'[q] = 0
                               ELSE /\ pending'[q] = pending[q] /\ read'[q] = read[q]
                                    /\ source'[q] = source[q]
    BY <1>7 DEF Surroundings
  <2>2. \A q \in Requests : pc'[q] \in {pc[q], "dead"}
    BY <2>1 DEF Environment, Cancel, Crash, Expire, SetAccountStatus, callVars
  <2>3. ASSUME NEW q \in Requests PROVE InsideOf(q)'
    <3>1. CASE pc'[q] = "dead"
      BY <1>3, <2>1, <3>1 DEF HasPosted, OneEntry, BothEntries
    <3>2. CASE pc'[q] # "dead" /\ pc[q] = "idle"
      BY <1>2, <1>3, <2>1, <2>2, <3>2 DEF HasPosted, OneEntry, BothEntries
    <3>3. CASE pc'[q] # "dead" /\ pc[q] # "idle"
      BY <1>1, <2>1, <2>2, <3>3, InsideKept DEF InsideInv
    <3>4. QED
      BY <3>1, <3>2, <3>3
  <2>4. QED
    BY <2>3 DEF InsideInv
<1>8. CASE UNCHANGED <<vars, auditVars>>
  BY <1>4, <1>8 DEF vars, callVars, auditVars
<1>9. QED
  BY <1>5, <1>6, <1>7, <1>8, InsideTransferStep, InsideReadSnapshot, InsideWriteRow
     DEF AuditNext, CallStep, AuditStep

\* What the events from inside a transfer's transaction show of its source account is
\* the balance before the transfer: they are read beside the transaction, from a row
\* which the transaction has locked since before the first of them.
THEOREM SnapshotsAreOld == AuditSpec => []SnapshotsPrecedeChange
<1>1. AuditInit => OpenInv /\ InsideInv
  BY DEF AuditInit, Init, OpenInv, InsideInv, InsideOf, HasPosted, OneEntry, BothEntries,
         Logged, Range
<1>2. TransferInv => TypeInv
  BY DEF TransferInv, RefineInv, RowsInv
<1>3. AuditSpec => [](OpenInv /\ InsideInv)
  BY <1>1, <1>2, AuditSteps, OpenNext, InsideNext, TransferInvariant, TrailInvariant, PTL
     DEF AuditSpec
<1>4. TransferInv /\ TrailInv /\ OpenInv /\ InsideInv => SnapshotsPrecedeChange
  <2> SUFFICES ASSUME TransferInv, TrailInv, OpenInv, InsideInv,
                      NEW k \in Keys, NEW e \in Logged(k),
                      working[maker[k]] # NoRow, e.type \in Inside
               PROVE  e.source = balance[req[maker[k]].from]
    BY DEF SnapshotsPrecedeChange, Inside
  <2>1. txStatus[k] # NoRow
    BY DEF TrailInv, EventsInv, TrailOf
  <2>2. maker[k] \in Requests /\ req[maker[k]].key = k
    BY <2>1 DEF TransferInv, RefineInv, RowsInv, PostingInv, OwnerInv
  <2>3. pc[maker[k]] \in {"postClearing"} \cup HasPosted
    BY <2>2 DEF OpenInv, InTx, HasPosted, OneEntry, BothEntries
  <2>4. QED
    BY <2>2, <2>3 DEF InsideInv, InsideOf
<1>5. QED
  BY <1>3, <1>4, TransferInvariant, TrailInvariant, PTL

-----------------------------------------------------------------------------
(***************************************************************************)
(* What the trail of a transfer tells when nothing has failed: what is in  *)
(* it and what its call has yet to write are the events of the labels the  *)
(* call has been through.                                                  *)
(***************************************************************************)
JEP == "JOURNAL_ENTRY_POSTED"

Begun      == <<"TRANSFER_INITIATED">>
FundsHeld  == <<"TRANSFER_INITIATED", "HOLD_PLACED", JEP>>
BothPosted == <<"TRANSFER_INITIATED", "HOLD_PLACED", JEP, JEP>>
Partial    == {Begun, FundsHeld, BothPosted}

\* The events whose row of the transaction is not written yet.
ToTell(p) == IF written[p] = 0 THEN pending[p] ELSE Tail(pending[p])

Story(p) == TypesOf(TransactionAudit(req[p].key)) \o TypesOf(ToTell(p))

Owns(p) == req[p].key \in Keys /\ maker[req[p].key] = p

StoryOf(p) ==
  LET st == txStatus[req[p].key]
  IN  \/ pc[p] \in {"begin", "postClearing"} /\ Story(p) = Begun
      \/ pc[p] \in {"markProcessing", "postSettlement"} /\ Story(p) = FundsHeld
      \/ pc[p] \in {"markSettled", "commit", "storeSettled"} /\ Story(p) = BothPosted
      \/ pc[p] = "markFailed" /\ Story(p) \in Partial
      \/ /\ pc[p] \in {"storeFailed", "done"}
         /\ \/ st = "SETTLED" /\ Story(p) = BothPosted \o <<"TRANSFER_SETTLED">>
            \/ /\ st = "FAILED"
               /\ \E told \in Partial : Story(p) = told \o <<"TRANSFER_FAILED">>

\* The labels of a call that has made its row.
Making == {"begin", "postClearing", "markProcessing", "postSettlement", "markSettled", "commit",
           "storeSettled", "markFailed", "storeFailed"}

StoryFor(p) ==
  /\ pending[p] = << >> => written[p] = 0
  /\ pending[p] # << >> \/ pc[p] \in Making => Owns(p)
  /\ Owns(p) => StoryOf(p)
  /\ pc[p] = "storeSettled" => txStatus[req[p].key] = "SETTLED" /\ outcome[p] = "SETTLED"

StoryInv == faults = 0 /\ auditFaults = 0 => \A p \in Requests : StoryFor(p)

\* Without Redis nobody has a claim.
ClaimlessInv ==
  ~HasStore => claimed = {} /\ \A p \in Requests : pc[p] \notin {"cacheLookup", "claim"}

LEMMA ClaimlessNext == TypeInv /\ ClaimlessInv /\ [Next]_vars => ClaimlessInv'
<1> SUFFICES ASSUME TypeInv, ClaimlessInv, [Next]_vars, ~HasStore PROVE ClaimlessInv'
  BY DEF ClaimlessInv
<1> USE DEF TypeInv, TypeOK, CallTypes
<1>1. claimed = {} /\ \A p \in Requests : pc[p] \notin {"cacheLookup", "claim"}
  BY DEF ClaimlessInv
<1>2. ASSUME NEW p \in Requests, Progress(p) PROVE ClaimlessInv'
  <2>1. claimed' = {}
    BY <1>1, <1>2 DEF Progress, CacheLookup, Claim, Recheck, LoadSource, LoadDest, LoadClearing,
           Create, CreateDest, LoadDuplicate, Begin, FailBegin, LockRow, DeadlockVictim,
           PostEntry, MarkProcessing, MarkSettled, UpdateStatusTx, Commit, MarkFailed,
           StoreFailed, StoreSettled, Unlock, storeVars
  <2>2. pc'[p] \notin {"cacheLookup", "claim"}
    <3>1. CASE Recheck(p) \/ LoadSource(p) \/ LoadDest(p) \/ LoadClearing(p) \/ Create(p)
               \/ CreateDest(p) \/ LoadDuplicate(p) \/ Begin(p) \/ FailBegin(p) \/ Commit(p)
      BY <1>1, <3>1 DEF Recheck, LoadSource, LoadDest, LoadClearing, Create, CreateDest,
         LoadDuplicate, Begin, FailBegin, GotoStoreFailed, Commit, FailTx, Return, Goto
    <3>2. CASE (\E a \in Accounts : LockRow(p, a)) \/ DeadlockVictim(p) \/ PostEntry(p)
               \/ MarkProcessing(p) \/ MarkSettled(p) \/ MarkFailed(p) \/ StoreFailed(p)
               \/ StoreSettled(p) \/ Unlock(p)
      BY <1>1, <3>2 DEF LockRow, DeadlockVictim, PostEntry, MarkProcessing, MarkSettled,
         UpdateStatusTx, MarkFailed, GotoStoreFailed, StoreFailed, StoreSettled, Unlock, FailTx,
         Return, Goto
    <3>3. QED
      BY <1>1, <1>2, <3>1, <3>2 DEF Progress, CacheLookup, Claim
  <2>3. \A q \in Requests \ {p} : pc'[q] \in {pc[q]}
    BY <1>2 DEF Progress, CacheLookup, Claim, Recheck, LoadSource, LoadDest, LoadClearing,
           Create, CreateDest, LoadDuplicate, Begin, FailBegin, LockRow, DeadlockVictim,
           PostEntry, MarkProcessing, MarkSettled, UpdateStatusTx, Commit, MarkFailed,
           StoreFailed, StoreSettled, Unlock, GotoStoreFailed, FailTx, Return, Goto
  <2>4. QED
    BY <1>1, <2>1, <2>2, <2>3 DEF ClaimlessInv
<1>3. ASSUME NEW p \in Requests, NEW r \in Payloads, Receive(p, r) PROVE ClaimlessInv'
  BY <1>1, <1>3 DEF Receive, Goto, ClaimlessInv, storeVars
<1>4. CASE Environment \/ Terminating \/ UNCHANGED vars
  BY <1>1, <1>4 DEF Environment, Terminating, Cancel, Crash, Expire, SetAccountStatus, vars,
                    callVars, storeVars, ClaimlessInv
<1>5. QED
  BY <1>2, <1>3, <1>4 DEF Next

(***************************************************************************)
(* The types of a sequence of events.                                      *)
(***************************************************************************)
LEMMA TypesSeq ==
  ASSUME NEW S, NEW s \in Seq(S)
  PROVE  /\ TypesOf(s) \in Seq({e.type : e \in S}) /\ Len(TypesOf(s)) = Len(s)
         /\ \A i \in 1..Len(s) : TypesOf(s)[i] = s[i].type
<1> DEFINE T == {e.type : e \in S}
<1>1. PICK n \in Nat : n = Len(s) /\ s \in [1..n -> S] /\ DOMAIN s = 1..n
  BY LenProperties
<1>2. TypesOf(s) \in [1..n -> T] /\ \A i \in 1..n : TypesOf(s)[i] = s[i].type
  BY <1>1 DEF TypesOf
<1> HIDE DEF T
<1>3. TypesOf(s) \in Seq(T)
  BY <1>1, <1>2, SeqDef
<1>4. Len(TypesOf(s)) = n
  BY <1>1, <1>2, <1>3, LenProperties
<1>5. QED
  BY <1>1, <1>2, <1>3, <1>4 DEF T

LEMMA TypesConcat ==
  ASSUME NEW S, NEW s \in Seq(S), NEW t \in Seq(S)
  PROVE  TypesOf(s \o t) = TypesOf(s) \o TypesOf(t)
<1> DEFINE T == {e.type : e \in S}
           a == TypesOf(s)
           b == TypesOf(t)
           u == s \o t
           c == TypesOf(u)
<1>0. PICK m \in Nat, n \in Nat : m = Len(s) /\ n = Len(t)
  BY LenProperties
<1>1. /\ u \in Seq(S) /\ Len(u) = m + n
      /\ \A i \in 1..m + n : u[i] = IF i <= m THEN s[i] ELSE t[i - m]
  BY <1>0, ConcatProperties
<1>2. /\ a \in Seq(T) /\ Len(a) = m /\ \A i \in 1..m : a[i] = s[i].type
      /\ b \in Seq(T) /\ Len(b) = n /\ \A i \in 1..n : b[i] = t[i].type
  BY <1>0, TypesSeq
<1> HIDE DEF u
<1>3. c \in Seq(T) /\ Len(c) = m + n /\ \A i \in 1..m + n : c[i] = u[i].type
  BY <1>1, TypesSeq
<1> HIDE DEF T, a, b, c
<1> DEFINE d == a \o b
<1>4. /\ d \in Seq(T) /\ Len(d) = m + n
      /\ \A i \in 1..m + n : d[i] = IF i <= m THEN a[i] ELSE b[i - m]
  BY <1>2, ConcatProperties
<1> HIDE DEF d
<1>5. ASSUME NEW i \in 1..m + n PROVE c[i] = d[i]
  <2>1. CASE i <= m
    <3>1. i \in 1..m
      BY <2>1
    <3>2. d[i] = a[i] /\ u[i] = s[i] /\ a[i] = s[i].type /\ c[i] = u[i].type
      BY <1>1, <1>2, <1>3, <1>4, <2>1, <3>1
    <3>3. QED
      BY <3>2
  <2>2. CASE ~(i <= m)
    <3>1. i - m \in 1..n
      BY <2>2
    <3>2. d[i] = b[i - m] /\ u[i] = t[i - m] /\ b[i - m] = t[i - m].type /\ c[i] = u[i].type
      BY <1>1, <1>2, <1>3, <1>4, <2>2, <3>1
    <3>3. QED
      BY <3>2
  <2>3. QED
    BY <2>1, <2>2
<1>6. c = d
  BY <1>3, <1>4, <1>5, SeqEqual
<1>7. QED
  BY <1>6 DEF a, b, c, d, u

LEMMA TypesTail ==
  ASSUME NEW S, NEW s \in Seq(S), s # << >>
  PROVE  TypesOf(s) = <<Head(s).type>> \o TypesOf(Tail(s))
<1>1. Head(s) \in S /\ Tail(s) \in Seq(S) /\ <<Head(s)>> \in Seq(S)
  OBVIOUS
<1>2. s = <<Head(s)>> \o Tail(s)
  OBVIOUS
<1>3. TypesOf(<<Head(s)>> \o Tail(s)) = TypesOf(<<Head(s)>>) \o TypesOf(Tail(s))
  BY <1>1, TypesConcat
<1>4. TypesOf(<<Head(s)>>) = <<Head(s).type>>
  BY DEF TypesOf
<1>5. QED
  BY <1>2, <1>3, <1>4

\* Adding what a call emits to what it has told.
LEMMA TypesOfEvents ==
  /\ TypesOf(<< >>) = << >>
  /\ \A t, st : TypesOf(<<Says(t, st)>>) = <<t>>
  /\ \A t, st, u, su : TypesOf(<<Says(t, st), Says(u, su)>>) = <<t, u>>
<1>1. TypesOf(<< >>) = << >>
  BY DEF TypesOf
<1>2. ASSUME NEW t, NEW st PROVE TypesOf(<<Says(t, st)>>) = <<t>>
  BY DEF TypesOf, Says
<1>3. ASSUME NEW t, NEW st, NEW u, NEW su
      PROVE  TypesOf(<<Says(t, st), Says(u, su)>>) = <<t, u>>
  BY DEF TypesOf, Says
<1>4. QED
  BY <1>1, <1>2, <1>3

LEMMA StorySteps ==
  /\ Begun \o <<"HOLD_PLACED", JEP>> = FundsHeld
  /\ FundsHeld \o <<JEP>> = BothPosted
  /\ BothPosted \o <<"TRANSFER_SETTLED">> =
       <<"TRANSFER_INITIATED", "HOLD_PLACED", JEP, JEP, "TRANSFER_SETTLED">>
  /\ \A story \in Partial : story \o << >> = story
<1>1. ASSUME NEW a, NEW b, NEW c PROVE <<a>> \o <<b, c>> = <<a, b, c>>
  <2> DEFINE s == <<a>>
             t == <<b, c>>
             u == <<a, b, c>>
             S == {a, b, c}
  <2>1. s \in Seq(S) /\ t \in Seq(S) /\ u \in Seq(S) /\ Len(s) = 1 /\ Len(t) = 2 /\ Len(u) = 3
    OBVIOUS
  <2>2. s[1] = a /\ t[1] = b /\ t[2] = c /\ u[1] = a /\ u[2] = b /\ u[3] = c
    OBVIOUS
  <2> HIDE DEF s, t, u
  <2>3. /\ s \o t \in Seq(S) /\ Len(s \o t) = 3
        /\ \A i \in 1..3 : (s \o t)[i] = IF i <= 1 THEN s[i] ELSE t[i - 1]
    BY <2>1, ConcatProperties
  <2>4. (s \o t)[1] = u[1] /\ (s \o t)[2] = u[2] /\ (s \o t)[3] = u[3]
    BY <2>2, <2>3
  <2>5. \A i \in 1..3 : i = 1 \/ i = 2 \/ i = 3
    OBVIOUS
  <2>6. \A i \in 1..3 : (s \o t)[i] = u[i]
    BY <2>4, <2>5
  <2>7. s \o t = u
    BY <2>1, <2>3, <2>6, SeqEqual
  <2>8. QED
    BY <2>7 DEF s, t, u
<1>2. ASSUME NEW a, NEW b, NEW c, NEW d PROVE <<a, b, c>> \o <<d>> = <<a, b, c, d>>
  <2> DEFINE s == <<a, b, c>>
             t == <<d>>
             u == <<a, b, c, d>>
             S == {a, b, c, d}
  <2>1. s \in Seq(S) /\ t \in Seq(S) /\ u \in Seq(S) /\ Len(s) = 3 /\ Len(t) = 1 /\ Len(u) = 4
    OBVIOUS
  <2>2. /\ s[1] = a /\ s[2] = b /\ s[3] = c /\ t[1] = d
        /\ u[1] = a /\ u[2] = b /\ u[3] = c /\ u[4] = d
    OBVIOUS
  <2> HIDE DEF s, t, u
  <2>3. /\ s \o t \in Seq(S) /\ Len(s \o t) = 4
        /\ \A i \in 1..4 : (s \o t)[i] = IF i <= 3 THEN s[i] ELSE t[i - 3]
    <3>1. /\ s \o t \in Seq(S) /\ Len(s \o t) = Len(s) + Len(t)
          /\ \A i \in 1 .. Len(s) + Len(t) :
               (s \o t)[i] = IF i <= Len(s) THEN s[i] ELSE t[i - Len(s)]
      BY ONLY <2>1, ConcatProperties
    <3> HIDE DEF S
    <3>2. QED
      BY ONLY <2>1, <3>1
  <2>4. /\ (s \o t)[1] = u[1] /\ (s \o t)[2] = u[2] /\ (s \o t)[3] = u[3]
        /\ (s \o t)[4] = u[4]
    BY <2>2, <2>3
  <2>5. \A i \in 1..4 : i = 1 \/ i = 2 \/ i = 3 \/ i = 4
    OBVIOUS
  <2>6. \A i \in 1..4 : (s \o t)[i] = u[i]
    BY <2>4, <2>5
  <2>7. s \o t = u
    BY <2>1, <2>3, <2>6, SeqEqual
  <2>8. QED
    BY <2>7 DEF s, t, u
<1>3. ASSUME NEW a, NEW b, NEW c, NEW d, NEW e
      PROVE  <<a, b, c, d>> \o <<e>> = <<a, b, c, d, e>>
  <2> DEFINE s == <<a, b, c, d>>
             t == <<e>>
             u == <<a, b, c, d, e>>
             S == {a, b, c, d, e}
  <2>1. s \in Seq(S) /\ t \in Seq(S) /\ u \in Seq(S) /\ Len(s) = 4 /\ Len(t) = 1 /\ Len(u) = 5
    OBVIOUS
  <2>2. /\ s[1] = a /\ s[2] = b /\ s[3] = c /\ s[4] = d /\ t[1] = e
        /\ u[1] = a /\ u[2] = b /\ u[3] = c /\ u[4] = d /\ u[5] = e
    OBVIOUS
  <2> HIDE DEF s, t, u
  <2>3. /\ s \o t \in Seq(S) /\ Len(s \o t) = 5
        /\ \A i \in 1..5 : (s \o t)[i] = IF i <= 4 THEN s[i] ELSE t[i - 4]
    <3>1. /\ s \o t \in Seq(S) /\ Len(s \o t) = Len(s) + Len(t)
          /\ \A i \in 1 .. Len(s) + Len(t) :
               (s \o t)[i] = IF i <= Len(s) THEN s[i] ELSE t[i - Len(s)]
      BY ONLY <2>1, ConcatProperties
    <3> HIDE DEF S
    <3>2. QED
      BY ONLY <2>1, <3>1
  <2>4. /\ (s \o t)[1] = u[1] /\ (s \o t)[2] = u[2] /\ (s \o t)[3] = u[3]
        /\ (s \o t)[4] = u[4] /\ (s \o t)[5] = u[5]
    BY <2>2, <2>3
  <2>5. \A i \in 1..5 : i = 1 \/ i = 2 \/ i = 3 \/ i = 4 \/ i = 5
    OBVIOUS
  <2>6. \A i \in 1..5 : (s \o t)[i] = u[i]
    BY <2>4, <2>5
  <2>7. s \o t = u
    BY <2>1, <2>3, <2>6, SeqEqual
  <2>8. QED
    BY <2>7 DEF s, t, u
<1>4. /\ Begun \in Seq(EventTypes) /\ FundsHeld \in Seq(EventTypes)
      /\ BothPosted \in Seq(EventTypes)
  BY DEF EventTypes, Begun, FundsHeld, BothPosted, JEP
<1>5. \A story \in Partial : story \o << >> = story
  BY <1>4, ConcatEmptySeq DEF Partial
<1>6. QED
  BY <1>1, <1>2, <1>3, <1>5 DEF Begun, FundsHeld, BothPosted

LEMMA StoryTypes ==
  ASSUME AuditTypeOK, NEW p \in Requests, req[p].key \in Keys,
         pending[p] = << >> => written[p] = 0
  PROVE  /\ TransactionAudit(req[p].key) \in Seq(AuditRow)
         /\ ToTell(p) \in Seq(Event) /\ pending[p] \in Seq(Event)
         /\ TypesOf(TransactionAudit(req[p].key)) \in Seq(EventTypes)
         /\ TypesOf(ToTell(p)) \in Seq(EventTypes)
         /\ Story(p) \in Seq(EventTypes)
<1>1. pending[p] \in Seq(Event) /\ trail[req[p].key]["transaction"] \in Seq(AuditRow)
  BY DEF AuditTypeOK, Entities
<1>2. pending[p] # << >> => Tail(pending[p]) \in Seq(Event)
  BY <1>1, TailElements
<1>3. TransactionAudit(req[p].key) \in Seq(AuditRow) /\ ToTell(p) \in Seq(Event)
  BY <1>1, <1>2 DEF ToTell, TransactionAudit
<1>4. {e.type : e \in Event} \subseteq EventTypes /\ {e.type : e \in AuditRow} \subseteq EventTypes
  BY DEF Event, AuditRow
<1>5. /\ TypesOf(TransactionAudit(req[p].key)) \in Seq(EventTypes)
      /\ TypesOf(ToTell(p)) \in Seq(EventTypes)
  BY <1>3, <1>4, TypesSeq, SeqMonotonic
<1>6. Story(p) \in Seq(EventTypes)
  BY <1>5, ConcatProperties DEF Story
<1>7. QED
  BY <1>1, <1>3, <1>5, <1>6

LEMMA StoryGrows ==
  ASSUME AuditTypeOK, NEW p \in Requests, req[p].key \in Keys,
         pending[p] = << >>, written[p] = 0,
         req' = req, trail' = trail, written' = written,
         NEW es \in Seq(Event), pending'[p] = pending[p] \o es
  PROVE  Story(p)' = Story(p) \o TypesOf(es)
<1>1. TypesOf(TransactionAudit(req[p].key)) \in Seq(EventTypes)
  BY StoryTypes
<1>2. pending'[p] = es
  OBVIOUS
<1>3. Story(p) = TypesOf(TransactionAudit(req[p].key))
  <2>1. ToTell(p) = << >>
    BY DEF ToTell
  <2>2. QED
    BY <1>1, <2>1, TypesOfEvents, ConcatEmptySeq DEF Story
<1>4. Story(p)' = TypesOf(TransactionAudit(req[p].key)) \o TypesOf(es)
  BY <1>2 DEF Story, ToTell, TransactionAudit
<1>5. QED
  BY <1>3, <1>4

LEMMA StoryWritten ==
  ASSUME AuditTypeOK, NEW p \in Requests, WriteRow(p), req' = req, NEW k \in Keys, k = req[p].key,
         ~AuditFails(p)
  PROVE  Story(p)' = Story(p) /\ (pending'[p] = << >> => written'[p] = 0)
<1>1. /\ pending[p] # << >> /\ pending[p] \in Seq(Event)
      /\ written[p] = 0 \/ written[p] = 1 \/ written[p] = 2
      /\ IF written[p] < 2
         THEN written' = [written EXCEPT ![p] = @ + 1] /\ UNCHANGED <<pending, read, source>>
         ELSE DropEvent(p)
  BY DEF WriteRow, MayEmit, AuditTypeOK
<1>2. \A s \in Entities : trail'[k][s] = IF s = Scopes[written[p] + 1]
                                         THEN Append(trail[k][s], RowOf(p)) ELSE trail[k][s]
  BY RowWritten
<1>3. TransactionAudit(k)' = IF written[p] = 0 THEN Append(TransactionAudit(k), RowOf(p))
                             ELSE TransactionAudit(k)
  BY <1>1, <1>2 DEF TransactionAudit, Scopes, Entities
<1>4. ToTell(p)' = Tail(pending[p]) /\ (pending'[p] = << >> => written'[p] = 0)
  <2>1. CASE written[p] < 2
    <3>1. written'[p] = written[p] + 1 /\ pending'[p] = pending[p] /\ written'[p] # 0
      BY <1>1, <2>1 DEF AuditTypeOK
    <3>2. QED
      BY <1>1, <3>1 DEF ToTell
  <2>2. CASE ~(written[p] < 2)
    <3>1. written'[p] = 0 /\ pending'[p] = Tail(pending[p])
      BY <1>1, <2>2 DEF DropEvent, AuditTypeOK
    <3>2. QED
      BY <3>1 DEF ToTell
  <2>3. QED
    BY <2>1, <2>2
<1>5. CASE written[p] # 0
  <2>1. ToTell(p)' = ToTell(p) /\ TransactionAudit(k)' = TransactionAudit(k)
    BY <1>3, <1>4, <1>5 DEF ToTell
  <2>2. Story(p) = TypesOf(TransactionAudit(k)) \o TypesOf(ToTell(p))
    BY DEF Story
  <2>3. Story(p)' = TypesOf(TransactionAudit(k)') \o TypesOf(ToTell(p)')
    BY DEF Story, TypesOf, TransactionAudit, ToTell
  <2>4. QED
    BY <1>4, <2>1, <2>2, <2>3
<1>6. CASE written[p] = 0
  <2> DEFINE a == TransactionAudit(k)
             t == Head(pending[p]).type
             b == TypesOf(Tail(pending[p]))
  <2>1. RowOf(p) \in AuditRow /\ a \in Seq(AuditRow) /\ RowOf(p).type = t /\ t \in EventTypes
    <3>1. Head(pending[p]) \in Event
      BY <1>1, TailElements
    <3>2. QED
      BY <1>1, <3>1, RowWritten, StoryTypes DEF RowOf, Event
  <2>2. TypesOf(pending[p]) = <<t>> \o b
    BY <1>1, TypesTail
  <2>3. TypesOf(Append(a, RowOf(p))) = TypesOf(a) \o <<t>>
    <3>1. Append(a, RowOf(p)) = a \o <<RowOf(p)>> /\ <<RowOf(p)>> \in Seq(AuditRow)
      BY <2>1
    <3>2. TypesOf(<<RowOf(p)>>) = <<t>>
      BY <2>1 DEF TypesOf
    <3>3. QED
      BY <2>1, <3>1, <3>2, TypesConcat
  <2>4. TypesOf(a) \in Seq(EventTypes) /\ b \in Seq(EventTypes) /\ <<t>> \in Seq(EventTypes)
    <3>1. Tail(pending[p]) \in Seq(Event) /\ {e.type : e \in Event} \subseteq EventTypes
      BY <1>1, TailElements DEF Event
    <3>2. b \in Seq({e.type : e \in Event})
      BY <3>1, TypesSeq
    <3>3. b \in Seq(EventTypes)
      BY <3>1, <3>2, SeqMonotonic
    <3>4. TypesOf(a) \in Seq(EventTypes)
      BY <1>1, StoryTypes
    <3>5. QED
      BY <2>1, <3>3, <3>4
  <2>5. (TypesOf(a) \o <<t>>) \o b = TypesOf(a) \o (<<t>> \o b)
    BY <2>4, ConcatAssociative
  <2>6. Story(p) = TypesOf(a) \o TypesOf(pending[p])
    BY <1>6 DEF Story, ToTell
  <2>7. Story(p)' = TypesOf(Append(a, RowOf(p))) \o b
    <3>1. Story(p)' = TypesOf(TransactionAudit(k)') \o TypesOf(ToTell(p)')
      BY DEF Story, TypesOf, TransactionAudit, ToTell
    <3>2. QED
      BY <1>3, <1>4, <1>6, <3>1
  <2>8. QED
    BY <1>4, <2>2, <2>3, <2>5, <2>6, <2>7
<1>7. QED
  BY <1>5, <1>6
\* As long as nothing has failed, no round trip fails.
LEMMA NoFailure ==
  ASSUME RowsInv, MatchInv, NEW p \in Requests, Progress(p), faults' = 0
  PROVE  /\ faults = 0 /\ cancelled = {}
         /\ \A kind : ~Fails(p, kind) /\ ~AnswerLost(p, kind)
<1> USE DEF RowsInv, TypeInv, TypeOK, EnvTypes
<1>1. faults' \in {faults, faults + 1}
  BY DEF Progress, CacheLookup, Claim, Recheck, LoadSource, LoadDest, LoadClearing,
         Create, CreateDest, LoadDuplicate, Begin, FailBegin, LockRow, DeadlockVictim,
         PostEntry, MarkProcessing, MarkSettled, UpdateStatusTx, Commit, MarkFailed,
         StoreFailed, StoreSettled, Unlock, Succeeds, Fails, AnswerLost, Fault
<1>2. faults = 0
  BY <1>1
<1>3. cancelled = {}
  BY <1>2 DEF MatchInv
<1>4. QED
  BY <1>2, <1>3 DEF Fails, AnswerLost, Fault

LEMMA EmitsTypes ==
  ASSUME NEW p \in Requests
  PROVE  TypesOf(Emits(p)) =
           IF Made(p) THEN Begun
           ELSE IF Holds(p) THEN <<"HOLD_PLACED", JEP>>
           ELSE IF Paid(p) THEN <<JEP>>
           ELSE IF SettledNow(p) THEN <<"TRANSFER_SETTLED">>
           ELSE IF FailedNow(p) THEN <<"TRANSFER_FAILED">>
           ELSE << >>
<1> USE DEF Emits, Begun, JEP
<1>1. CASE Made(p)
  <2>1. Emits(p) = <<Says("TRANSFER_INITIATED", "PENDING")>>
    BY <1>1 DEF Made, Holds, Paid, SettledNow, FailedNow
  <2>2. QED
    BY <1>1, <2>1, TypesOfEvents
<1>2. CASE Holds(p)
  <2>1. /\ Emits(p) = <<Says("HOLD_PLACED", "PENDING"), Says(JEP, "PENDING")>> /\ ~Made(p)
    BY <1>2 DEF Made, Holds, Paid, SettledNow, FailedNow
  <2>2. QED
    BY <1>2, <2>1, TypesOfEvents
<1>3. CASE Paid(p)
  <2>1. Emits(p) = <<Says(JEP, "PROCESSING")>> /\ ~Made(p) /\ ~Holds(p)
    BY <1>3 DEF Made, Holds, Paid, SettledNow, FailedNow
  <2>2. QED
    BY <1>3, <2>1, TypesOfEvents
<1>4. CASE SettledNow(p)
  <2>1. /\ Emits(p) = <<Says("TRANSFER_SETTLED", "SETTLED")>>
        /\ ~Made(p) /\ ~Holds(p) /\ ~Paid(p)
    BY <1>4 DEF Made, Holds, Paid, SettledNow, FailedNow
  <2>2. QED
    BY <1>4, <2>1, TypesOfEvents
<1>5. CASE FailedNow(p)
  <2>1. /\ Emits(p) = <<Says("TRANSFER_FAILED", outcome'[p])>>
        /\ ~Made(p) /\ ~Holds(p) /\ ~Paid(p) /\ ~SettledNow(p)
    BY <1>5 DEF Made, Holds, Paid, SettledNow, FailedNow
  <2>2. QED
    BY <1>5, <2>1, TypesOfEvents
<1>6. CASE ~(Made(p) \/ Holds(p) \/ Paid(p) \/ SettledNow(p) \/ FailedNow(p))
  <2>1. Emits(p) = << >>
    BY <1>6
  <2>2. QED
    BY <1>6, <2>1, TypesOfEvents
<1>7. QED
  BY <1>1, <1>2, <1>3, <1>4, <1>5, <1>6

\* How a call moves from label to label, and what it emits on the way.
Moves(p, from, to, types) ==
  pc[p] \in from /\ pc'[p] \in to /\ TypesOf(Emits(p)) = types

LEMMA MakerMoves ==
  ASSUME TransferInv, MatchInv, ClaimlessInv, NEW p \in Requests, Progress(p), faults' = 0,
         NEW k \in Keys, k = req[p].key, pc[p] \in Making,
         pc[p] = "storeSettled" => outcome[p] = "SETTLED"
  PROVE
    \/ Moves(p, {"begin", "postClearing"}, {"postClearing"}, << >>)
    \/ Moves(p, {"postClearing"}, {"markProcessing"}, <<"HOLD_PLACED", JEP>>)
    \/ Moves(p, {"markProcessing", "postSettlement"}, {"postSettlement"}, << >>)
    \/ Moves(p, {"postSettlement"}, {"markSettled"}, <<JEP>>)
    \/ Moves(p, {"markSettled"}, {"commit"}, << >>)
    \/ Moves(p, {"postClearing", "markProcessing", "postSettlement", "markSettled"},
                {"markFailed"}, << >>)
    \/ /\ Moves(p, {"commit"}, {"storeSettled"}, << >>)
       /\ txStatus'[k] = "SETTLED" /\ outcome'[p] = "SETTLED"
    \/ /\ Moves(p, {"commit"}, {"done"}, <<"TRANSFER_SETTLED">>)
       /\ txStatus'[k] = "SETTLED"
    \/ /\ Moves(p, {"storeSettled"}, {"done"}, <<"TRANSFER_SETTLED">>)
       /\ txStatus'[k] = txStatus[k]
    \/ /\ Moves(p, {"markFailed"}, {"storeFailed", "done"}, <<"TRANSFER_FAILED">>)
       /\ txStatus'[k] = "FAILED"
    \/ /\ Moves(p, {"storeFailed"}, {"done"}, << >>)
       /\ txStatus'[k] = txStatus[k]
<1> USE DEF TransferInv, RefineInv, RowsInv, TypeInv, TypeOK, CallTypes
<1>1. \A kind : ~Fails(p, kind) /\ ~AnswerLost(p, kind)
  BY NoFailure
<1>2. TypesOf(Emits(p)) =
        IF Made(p) THEN Begun
        ELSE IF Holds(p) THEN <<"HOLD_PLACED", JEP>>
        ELSE IF Paid(p) THEN <<JEP>>
        ELSE IF SettledNow(p) THEN <<"TRANSFER_SETTLED">>
        ELSE IF FailedNow(p) THEN <<"TRANSFER_FAILED">>
        ELSE << >>
  BY EmitsTypes
<1> DEFINE types == TypesOf(Emits(p))
<1> HIDE DEF types
<1>3. types =
        IF Made(p) THEN Begun
        ELSE IF Holds(p) THEN <<"HOLD_PLACED", JEP>>
        ELSE IF Paid(p) THEN <<JEP>>
        ELSE IF SettledNow(p) THEN <<"TRANSFER_SETTLED">>
        ELSE IF FailedNow(p) THEN <<"TRANSFER_FAILED">>
        ELSE << >>
  BY <1>2 DEF types
<1>4. CASE Begin(p)
  <2>1. pc[p] = "begin" /\ pc'[p] = "postClearing"
    BY <1>1, <1>4 DEF Begin, Goto
  <2>2. types = << >>
    BY <1>3, <2>1 DEF Made, Holds, Paid, SettledNow, FailedNow
  <2>3. QED
    BY <2>1, <2>2 DEF Moves, types
<1>5. CASE \E a \in Accounts : LockRow(p, a)
  <2>1. pc[p] \in {"postClearing", "postSettlement"} /\ pc'[p] \in {pc[p], "markFailed"}
    BY <1>5 DEF LockRow, IsNextRow, FailTx, Goto
  <2>2. types = << >>
    BY <1>3, <2>1 DEF Made, Holds, Paid, SettledNow, FailedNow
  <2>3. QED
    BY <2>1, <2>2 DEF Moves, types
<1>6. CASE DeadlockVictim(p)
  <2>1. pc[p] \in {"postClearing", "postSettlement"} /\ pc'[p] = "markFailed"
    BY <1>6 DEF DeadlockVictim, FailTx, Goto, Making
  <2>2. types = << >>
    BY <1>3, <2>1 DEF Made, Holds, Paid, SettledNow, FailedNow
  <2>3. QED
    BY <2>1, <2>2 DEF Moves, types
<1>7. CASE PostEntry(p)
  <2>1. \/ pc[p] = "postClearing" /\ pc'[p] = "markProcessing"
        \/ pc[p] = "postSettlement" /\ pc'[p] = "markSettled"
        \/ pc[p] \in {"postClearing", "postSettlement"} /\ pc'[p] = "markFailed"
    BY <1>7 DEF PostEntry, FailTx, Goto
  <2>2. /\ Holds(p) => types = <<"HOLD_PLACED", JEP>>
        /\ Paid(p) => types = <<JEP>>
        /\ pc'[p] = "markFailed" => types = << >>
    BY <1>3, <2>1 DEF Made, Holds, Paid, SettledNow, FailedNow
  <2>3. QED
    BY <2>1, <2>2 DEF Moves, types, Holds, Paid
<1>8. CASE MarkProcessing(p) \/ MarkSettled(p)
  <2>1. \/ pc[p] = "markProcessing" /\ pc'[p] \in {"postSettlement", "markFailed"}
        \/ pc[p] = "markSettled" /\ pc'[p] \in {"commit", "markFailed"}
    BY <1>8 DEF MarkProcessing, MarkSettled, UpdateStatusTx, FailTx, Goto
  <2>2. types = << >>
    BY <1>3, <2>1 DEF Made, Holds, Paid, SettledNow, FailedNow
  <2>3. QED
    BY <2>1, <2>2 DEF Moves, types
<1>9. CASE Commit(p)
  <2>1. /\ pc[p] = "commit" /\ Committed(p) /\ outcome' = [outcome EXCEPT ![p] = "SETTLED"]
        /\ \/ HasStore /\ Goto(p, "storeSettled")
           \/ ~HasStore /\ Return(p, "SETTLED")
    BY <1>1, <1>9 DEF Commit
  <2>2. txStatus'[k] = "SETTLED" /\ outcome'[p] = "SETTLED"
    BY <1>9, <2>1, CommitRow
  <2>3. CASE Goto(p, "storeSettled")
    <3>1. pc'[p] = "storeSettled"
      BY <2>3 DEF Goto
    <3>2. types = << >>
      BY <1>3, <2>1, <3>1 DEF Made, Holds, Paid, SettledNow, FailedNow
    <3>3. QED
      BY <2>1, <2>2, <3>1, <3>2 DEF Moves, types
  <2>4. CASE ~HasStore /\ Return(p, "SETTLED")
    <3>1. pc'[p] = "done" /\ reply'[p] = "SETTLED"
      BY <2>4 DEF Return, Goto, ClaimlessInv
    <3>2. types = <<"TRANSFER_SETTLED">>
      BY <1>3, <2>1, <3>1 DEF Made, Holds, Paid, SettledNow
    <3>3. QED
      BY <2>1, <2>2, <3>1, <3>2 DEF Moves, types
  <2>5. QED
    BY <2>1, <2>3, <2>4
<1>10. CASE StoreSettled(p)
  <2>1. pc[p] = "storeSettled" /\ pc'[p] = "done" /\ reply'[p] = "SETTLED" /\ txStatus' = txStatus
    BY <1>1, <1>10 DEF StoreSettled, Goto, dbVars
  <2>2. types = <<"TRANSFER_SETTLED">>
    BY <1>3, <2>1 DEF Made, Holds, Paid, SettledNow
  <2>3. QED
    BY <2>1, <2>2 DEF Moves, types
<1>11. CASE MarkFailed(p)
  <2>1. /\ pc[p] = "markFailed" /\ pc'[p] \in {"storeFailed", "done"} /\ RowFailed(p)
        /\ outcome'[p] = FailedStatus(k)
    BY <1>1, <1>11 DEF MarkFailed, GotoStoreFailed, Goto
  <2>2. txStatus'[k] = FailedStatus(k) /\ FailedStatus(k) \in Terminal
    BY <2>1, FailedRow DEF AfterCreate
  <2>3. types = <<"TRANSFER_FAILED">>
    BY <1>3, <2>1, <2>2 DEF Made, Holds, Paid, SettledNow, FailedNow, Terminal, Zero
  <2>4. maker[k] = p
    BY <2>1 DEF PostingInv, OwnerInv, Owning
  <2>5. txStatus[k] # "SETTLED"
    BY <2>1, <2>4, NoFailure DEF MatchInv, Saying
  <2>6. txStatus'[k] = "FAILED"
    BY <2>2, <2>5 DEF FailedStatus, Terminal
  <2>7. QED
    BY <2>1, <2>3, <2>6 DEF Moves, types
<1>12. CASE StoreFailed(p)
  <2>1. pc[p] = "storeFailed" /\ pc'[p] = "done" /\ txStatus' = txStatus
    BY <1>12 DEF StoreFailed, Goto, dbVars
  <2>2. types = << >>
    BY <1>3, <2>1 DEF Made, Holds, Paid, SettledNow, FailedNow
  <2>3. QED
    BY <2>1, <2>2 DEF Moves, types
<1>13. QED
  BY <1>4, <1>5, <1>6, <1>7, <1>8, <1>9, <1>10, <1>11, <1>12
     DEF Progress, CacheLookup, Claim, Recheck, LoadSource, LoadDest, LoadClearing, Create,
         CreateDest, LoadDuplicate, FailBegin, Unlock, Making
\* A call that has made no row makes it, or emits nothing.
LEMMA OthersMove ==
  ASSUME TransferInv, MatchInv, NEW p \in Requests, Progress(p), faults' = 0,
         pc[p] \notin Making \cup {"failBegin"}
  PROVE  \/ CreateDest(p) /\ Inserted(p) /\ pc'[p] = "begin" /\ TypesOf(Emits(p)) = Begun
         \/ maker' = maker /\ Emits(p) = << >> /\ pc'[p] \notin Making
<1> USE DEF TransferInv, RefineInv, RowsInv, TypeInv, TypeOK, CallTypes
<1>1. \A kind : ~Fails(p, kind) /\ ~AnswerLost(p, kind)
  BY NoFailure
<1>2. CASE CreateDest(p)
  <2>1. Inserted(p) /\ pc'[p] = "begin" /\ pc[p] = "createDest"
    BY <1>1, <1>2 DEF CreateDest, Goto
  <2>2. TypesOf(Emits(p)) = Begun
    BY <2>1, EmitsTypes DEF Made
  <2>3. QED
    BY <1>2, <2>1, <2>2
<1>3. CASE CacheLookup(p) \/ Claim(p) \/ Recheck(p) \/ LoadSource(p) \/ LoadDest(p)
           \/ LoadClearing(p) \/ Create(p) \/ LoadDuplicate(p) \/ Unlock(p)
           \/ (DeadlockVictim(p) /\ pc[p] = "createDest")
  <2>1. /\ maker' = maker /\ pc'[p] \notin Making
        /\ pc[p] = "createDest" => pc'[p] # "begin"
        /\ pc[p] \notin {"postClearing", "postSettlement", "commit", "storeSettled", "markFailed"}
    BY <1>3 DEF CacheLookup, Claim, Recheck, LoadSource, LoadDest, LoadClearing, Create,
         LoadDuplicate, Unlock, DeadlockVictim, Return, Goto, dbVars, Making
  <2>2. Emits(p) = << >>
    BY <2>1 DEF Emits, Made, Holds, Paid, SettledNow, FailedNow
  <2>3. QED
    BY <2>1, <2>2
<1>4. QED
  BY <1>2, <1>3
     DEF Progress, Begin, FailBegin, LockRow, IsNextRow, DeadlockVictim, PostEntry, MarkProcessing,
         MarkSettled, Commit, MarkFailed, StoreFailed, StoreSettled, Making

\* Who made a row, made it for good; nobody else comes to own it.
LEMMA OwnersKept ==
  ASSUME TransferInv, [Next]_vars, NEW k \in Keys, maker[k] # None
  PROVE  maker'[k] = maker[k]
<1> USE DEF TransferInv, RefineInv, RowsInv, TypeInv, TypeOK, RowTypes
<1>1. ASSUME NEW p \in Requests, CreateDest(p), Inserted(p) PROVE maker'[k] = maker[k]
  <2>1. txStatus[req[p].key] = NoRow /\ req[p].key \in Keys
    BY <1>1, Orders DEF CreateDest, InsertInv
  <2>2. req[p].key # k
    BY <2>1 DEF MakerInv
  <2>3. QED
    BY <1>1, <2>2 DEF Inserted
<1>2. QED
  BY <1>1, MakerSteps

\* A call that does not move, nor writes a row of the transaction.
LEMMA StoryKept ==
  ASSUME TransferInv, [Next]_vars, NEW q \in Requests, StoryFor(q),
         pc'[q] = pc[q], req'[q] = req[q], outcome'[q] = outcome[q],
         pending'[q] = pending[q], written'[q] = written[q],
         Owns(q) => trail'[req[q].key] = trail[req[q].key],
         Owns(q)' => Owns(q)
  PROVE  StoryFor(q)'
<1> USE DEF TransferInv, RefineInv, RowsInv
<1>1. Owns(q) => Owns(q)'
  BY OwnersKept, BoundsAssumption DEF Owns
<1>2. ASSUME Owns(q) PROVE StoryOf(q)'
  <2>1. Story(q)' = Story(q)
    BY <1>2 DEF Story, TypesOf, TransactionAudit, ToTell
  <2>2. txStatus[req[q].key] \in Terminal => txStatus'[req[q].key] = txStatus[req[q].key]
    BY <1>2, TerminalKept DEF Owns
  <2>3. StoryOf(q)
    BY <1>2 DEF StoryFor
  <2>4. CASE pc[q] \in {"storeFailed", "done"}
    <3>1. txStatus[req[q].key] = "SETTLED" \/ txStatus[req[q].key] = "FAILED"
      BY <2>3, <2>4 DEF StoryOf
    <3>2. txStatus'[req'[q].key] = txStatus[req[q].key]
      BY <2>2, <3>1 DEF Terminal
    <3>3. QED
      BY <2>1, <2>3, <2>4, <3>2, Zenon DEF StoryOf
  <2>5. CASE pc[q] \notin {"storeFailed", "done"}
    BY <2>1, <2>3, <2>5 DEF StoryOf
  <2>6. QED
    BY <2>4, <2>5
<1>3. pc[q] = "storeSettled" => txStatus'[req[q].key] = "SETTLED" /\ outcome'[q] = "SETTLED"
  <2>1. SUFFICES ASSUME pc[q] = "storeSettled" PROVE txStatus'[req[q].key] = "SETTLED"
    BY DEF StoryFor
  <2>2. Owns(q) /\ txStatus[req[q].key] = "SETTLED"
    BY <2>1 DEF StoryFor, Making
  <2>3. QED
    BY <2>2, TerminalKept DEF Owns, Terminal
<1>4. QED
  BY <1>1, <1>2, <1>3 DEF StoryFor

LEMMA StoryMaker ==
  ASSUME TransferInv, TransferInv', TrailInv, MatchInv, ClaimlessInv, NEW p \in Requests, StoryFor(p), Owns(p),
         TransferStep(p), faults' = 0
  PROVE  StoryFor(p)'
<1>1. /\ Progress(p) /\ [Next]_vars /\ written' = written /\ trail' = trail
      /\ pending' = [pending EXCEPT ![p] = @ \o Emits(p)]
      /\ pending[p] = << >> \/ pc[p] = "storeFailed"
  BY DEF TransferStep, MayEmit, Next
<1>2. /\ req' = req /\ Live(p) /\ pc[p] \in Making
  <2>1. req' = req /\ Live(p)
    BY <1>1, AnswerProgress DEF TransferInv, RefineInv
  <2>2. QED
    BY <2>1 DEF StoryFor, StoryOf, Making, Live
<1>3. PICK k \in Keys : k = req[p].key
  BY DEF Owns
<1>4. Owns(p)'
  BY <1>1, <1>2, <1>3, OwnersKept, BoundsAssumption DEF Owns
<1>5. Emits(p) \in Seq(Event)
  BY <1>1, <1>3, EmitsTruth DEF TransferInv, RefineInv, RowsInv
<1>6. written'[p] = written[p] /\ pending'[p] = pending[p] \o Emits(p) /\ pending[p] \in Seq(Event)
  BY <1>1 DEF TrailInv, AuditTypeOK
<1>7. StoryOf(p)
  BY DEF StoryFor
<1>8. pc[p] = "storeSettled" => outcome[p] = "SETTLED"
  BY DEF StoryFor
<1>9. pending[p] = << >> => Story(p)' = Story(p) \o TypesOf(Emits(p))
  BY <1>1, <1>2, <1>3, <1>5, <1>6, StoryGrows DEF TrailInv, StoryFor
<1>10. pc[p] = "storeFailed" => pending'[p] = pending[p] /\ Story(p)' = Story(p)
  <2>1. SUFFICES ASSUME pc[p] = "storeFailed"
                 PROVE  pending'[p] = pending[p] /\ Story(p)' = Story(p)
    OBVIOUS
  <2>2. Emits(p) = << >>
    BY <2>1 DEF Emits, Made, Holds, Paid, SettledNow, FailedNow
  <2>3. pending'[p] = pending[p]
    BY <1>6, <2>2, ConcatEmptySeq
  <2>4. trail' = trail /\ req' = req /\ written'[p] = written[p]
    BY <1>1, <1>2, <1>6
  <2>5. ToTell(p)' = ToTell(p) /\ TransactionAudit(req[p].key)' = TransactionAudit(req[p].key)
    BY ONLY <2>3, <2>4 DEF ToTell, TransactionAudit
  <2>6. Story(p)' = Story(p)
    BY ONLY <2>5 DEF Story, TypesOf
  <2>7. QED
    BY <2>3, <2>6
<1>11. /\ StoryOf(p)'
       /\ pc'[p] = "storeSettled" => txStatus'[k] = "SETTLED" /\ outcome'[p] = "SETTLED"
  <2> DEFINE types == TypesOf(Emits(p))
             story == Story(p)
             told  == Story(p)'
             st    == txStatus'[k]
             Goal  == /\ StoryOf(p)'
                      /\ pc'[p] = "storeSettled" => st = "SETTLED" /\ outcome'[p] = "SETTLED"
  <2>1. SUFFICES Goal
    OBVIOUS
  <2>2. Goal <=>
          /\ \/ pc'[p] \in {"begin", "postClearing"} /\ told = Begun
             \/ pc'[p] \in {"markProcessing", "postSettlement"} /\ told = FundsHeld
             \/ pc'[p] \in {"markSettled", "commit", "storeSettled"} /\ told = BothPosted
             \/ pc'[p] = "markFailed" /\ told \in Partial
             \/ /\ pc'[p] \in {"storeFailed", "done"}
                /\ \/ st = "SETTLED" /\ told = BothPosted \o <<"TRANSFER_SETTLED">>
                   \/ /\ st = "FAILED"
                      /\ \E part \in Partial : told = part \o <<"TRANSFER_FAILED">>
          /\ pc'[p] = "storeSettled" => st = "SETTLED" /\ outcome'[p] = "SETTLED"
    BY <1>2, <1>3 DEF StoryOf, Story
  <2>3. \/ pc[p] \in {"begin", "postClearing"} /\ story = Begun
        \/ pc[p] \in {"markProcessing", "postSettlement"} /\ story = FundsHeld
        \/ pc[p] \in {"markSettled", "commit", "storeSettled"} /\ story = BothPosted
        \/ pc[p] = "markFailed" /\ story \in Partial
        \/ /\ pc[p] \in {"storeFailed", "done"}
           /\ \/ txStatus[k] = "SETTLED" /\ story = BothPosted \o <<"TRANSFER_SETTLED">>
              \/ /\ txStatus[k] = "FAILED"
                 /\ \E part \in Partial : story = part \o <<"TRANSFER_FAILED">>
    BY <1>3, <1>7 DEF StoryOf
  <2>4. story \in Partial => story \o << >> = story
    BY StorySteps
  <2>5. pc[p] = "storeSettled" => txStatus[k] = "SETTLED"
    BY <1>3 DEF StoryFor
  <2>6. pc[p] # "storeFailed" => told = story \o types
    BY <1>1, <1>9
  <2>7. pc[p] = "storeFailed" => told = story
    BY <1>10
  <2>8. Begun \in Partial /\ FundsHeld \in Partial /\ BothPosted \in Partial
    BY DEF Partial
  <2>9. \/ Moves(p, {"begin", "postClearing"}, {"postClearing"}, << >>)
        \/ Moves(p, {"postClearing"}, {"markProcessing"}, <<"HOLD_PLACED", JEP>>)
        \/ Moves(p, {"markProcessing", "postSettlement"}, {"postSettlement"}, << >>)
        \/ Moves(p, {"postSettlement"}, {"markSettled"}, <<JEP>>)
        \/ Moves(p, {"markSettled"}, {"commit"}, << >>)
        \/ Moves(p, {"postClearing", "markProcessing", "postSettlement", "markSettled"},
                    {"markFailed"}, << >>)
        \/ /\ Moves(p, {"commit"}, {"storeSettled"}, << >>)
           /\ st = "SETTLED" /\ outcome'[p] = "SETTLED"
        \/ Moves(p, {"commit"}, {"done"}, <<"TRANSFER_SETTLED">>) /\ st = "SETTLED"
        \/ /\ Moves(p, {"storeSettled"}, {"done"}, <<"TRANSFER_SETTLED">>)
           /\ st = txStatus[k]
        \/ /\ Moves(p, {"markFailed"}, {"storeFailed", "done"}, <<"TRANSFER_FAILED">>)
           /\ st = "FAILED"
        \/ Moves(p, {"storeFailed"}, {"done"}, << >>) /\ st = txStatus[k]
    BY <1>1, <1>2, <1>3, <1>8, MakerMoves
  <2> HIDE DEF types, story, told, st, Goal
  <2>10. CASE Moves(p, {"begin", "postClearing"}, {"postClearing"}, << >>)
    BY <2>2, <2>3, <2>4, <2>6, <2>8, <2>10 DEF Moves, types
  <2>11. CASE Moves(p, {"postClearing"}, {"markProcessing"}, <<"HOLD_PLACED", JEP>>)
    BY <2>2, <2>3, <2>6, <2>11, StorySteps DEF Moves, types
  <2>12. CASE Moves(p, {"markProcessing", "postSettlement"}, {"postSettlement"}, << >>)
    BY <2>2, <2>3, <2>4, <2>6, <2>8, <2>12 DEF Moves, types
  <2>13. CASE Moves(p, {"postSettlement"}, {"markSettled"}, <<JEP>>)
    BY <2>2, <2>3, <2>6, <2>13, StorySteps DEF Moves, types
  <2>14. CASE Moves(p, {"markSettled"}, {"commit"}, << >>)
    BY <2>2, <2>3, <2>4, <2>6, <2>8, <2>14 DEF Moves, types
  <2>15. CASE Moves(p, {"postClearing", "markProcessing", "postSettlement", "markSettled"},
                       {"markFailed"}, << >>)
    BY <2>2, <2>3, <2>4, <2>6, <2>8, <2>15 DEF Moves, types
  <2>16. CASE /\ Moves(p, {"commit"}, {"storeSettled"}, << >>)
              /\ st = "SETTLED" /\ outcome'[p] = "SETTLED"
    BY <2>2, <2>3, <2>4, <2>6, <2>8, <2>16 DEF Moves, types
  <2>17. CASE Moves(p, {"commit"}, {"done"}, <<"TRANSFER_SETTLED">>) /\ st = "SETTLED"
    BY <2>2, <2>3, <2>6, <2>17 DEF Moves, types
  <2>18. CASE /\ Moves(p, {"storeSettled"}, {"done"}, <<"TRANSFER_SETTLED">>)
              /\ st = txStatus[k]
    BY <2>2, <2>3, <2>5, <2>6, <2>18 DEF Moves, types
  <2>19. CASE /\ Moves(p, {"markFailed"}, {"storeFailed", "done"}, <<"TRANSFER_FAILED">>)
              /\ st = "FAILED"
    BY <2>2, <2>3, <2>6, <2>19 DEF Moves, types
  <2>20. CASE Moves(p, {"storeFailed"}, {"done"}, << >>) /\ st = txStatus[k]
    BY <2>2, <2>3, <2>7, <2>20 DEF Moves, types
  <2>21. QED
    BY <2>9, <2>10, <2>11, <2>12, <2>13, <2>14, <2>15, <2>16, <2>17, <2>18, <2>19, <2>20
<1>12. pending'[p] = << >> => written'[p] = 0
  <2>1. CASE pending[p] = << >>
    BY <1>6, <2>1 DEF StoryFor
  <2>2. CASE pc[p] = "storeFailed"
    BY <1>6, <1>10, <2>2 DEF StoryFor
  <2>3. QED
    BY <1>1, <2>1, <2>2
<1>13. QED
  BY <1>2, <1>3, <1>4, <1>11, <1>12 DEF StoryFor

LEMMA StoryTransferStep ==
  ASSUME TransferInv, TransferInv', TrailInv, MatchInv, ClaimlessInv,
         \A q \in Requests : StoryFor(q), NEW p \in Requests, TransferStep(p), faults' = 0
  PROVE  \A q \in Requests : StoryFor(q)'
<1> USE DEF TransferInv, RefineInv, RowsInv
<1>1. /\ Progress(p) /\ [Next]_vars /\ written' = written /\ trail' = trail
      /\ pending' = [pending EXCEPT ![p] = @ \o Emits(p)]
      /\ pending[p] = << >> \/ pc[p] = "storeFailed"
  BY DEF TransferStep, MayEmit, Next
<1>2. /\ req' = req /\ Live(p) /\ Others(p)
      /\ \A q \in Requests \ {p} : outcome'[q] = outcome[q]
  <2>1. UNCHANGED outcome \/ \E x : outcome' = [outcome EXCEPT ![p] = x]
    BY <1>1 DEF Progress, CacheLookup, Claim, Recheck, LoadSource, LoadDest, LoadClearing,
           Create, CreateDest, LoadDuplicate, Begin, FailBegin, LockRow, DeadlockVictim,
           PostEntry, MarkProcessing, MarkSettled, UpdateStatusTx, Commit, MarkFailed,
           StoreFailed, StoreSettled, Unlock
  <2>2. \A q \in Requests \ {p} : outcome'[q] = outcome[q]
    BY <2>1 DEF TypeInv, TypeOK, CallTypes
  <2>3. QED
    BY <1>1, <2>2, AnswerProgress
<1>3. PICK k \in Keys : k = req[p].key
  BY <1>2, Orders DEF Live
<1>4. maker' = maker \/ maker' = [maker EXCEPT ![k] = p]
  BY <1>1, <1>3, MakerProgress DEF Inserted
<1>5. ASSUME NEW q \in Requests, q # p PROVE StoryFor(q)'
  <2>1. /\ pc'[q] = pc[q] /\ req'[q] = req[q] /\ outcome'[q] = outcome[q]
        /\ pending'[q] = pending[q] /\ written'[q] = written[q]
    BY <1>1, <1>2, <1>5 DEF Others, TrailInv, AuditTypeOK
  <2>2. Owns(q)' => Owns(q)
    BY <1>2, <1>4, <1>5 DEF Owns, TypeInv, TypeOK, RowTypes
  <2>3. QED
    BY <1>1, <2>1, <2>2, StoryKept
<1>6. ASSUME ~Owns(p) PROVE StoryFor(p)'
  <2>1. /\ pending[p] = << >> /\ written[p] = 0 /\ pc[p] \notin Making
        /\ pending[p] \in Seq(Event)
    BY <1>6 DEF StoryFor, TrailInv, AuditTypeOK
  <2>2. pc[p] # "failBegin"
    BY <1>3, <1>6 DEF PostingInv, OwnerInv, Owning, Settling, Owns
  <2>3. written'[p] = 0 /\ pending'[p] = pending[p] \o Emits(p)
    BY <1>1, <2>1 DEF TrailInv, AuditTypeOK
  <2>4. CASE maker' = maker /\ Emits(p) = << >> /\ pc'[p] \notin Making
    <3>1. pending'[p] = << >>
      BY <2>1, <2>3, <2>4, ConcatEmptySeq
    <3>2. ~Owns(p)'
      BY <1>2, <1>6, <2>4 DEF Owns
    <3>3. pc'[p] # "storeSettled"
      BY <2>4 DEF Making
    <3>4. QED
      BY <2>3, <2>4, <3>1, <3>2, <3>3 DEF StoryFor
  <2>5. CASE CreateDest(p) /\ Inserted(p) /\ pc'[p] = "begin" /\ TypesOf(Emits(p)) = Begun
    <3>1. Owns(p)'
      BY <1>2, <1>3, <2>5 DEF Inserted, Owns, TypeInv, TypeOK, RowTypes
    <3>2. TransactionAudit(k) = << >>
      <4>1. txStatus[k] = NoRow
        BY <1>3, <2>5 DEF CreateDest, InsertInv
      <4>2. Logged(k) = {}
        BY <4>1 DEF TrailInv, EventsInv, TrailOf
      <4>3. Range(TransactionAudit(k)) = {} /\ TransactionAudit(k) \in Seq(AuditRow)
        BY <4>2 DEF Logged, Entities, TransactionAudit, TrailInv, AuditTypeOK
      <4>4. ASSUME TransactionAudit(k) # << >> PROVE FALSE
        <5>1. 1 \in DOMAIN TransactionAudit(k)
          BY <4>3, <4>4, TailElements
        <5>2. TransactionAudit(k)[1] \in Range(TransactionAudit(k))
          BY <5>1 DEF Range
        <5>3. QED
          BY <4>3, <5>2
      <4>5. QED
        BY <4>4
    <3>3. Story(p) = << >>
      <4>1. ToTell(p) = << >>
        BY <2>1 DEF ToTell
      <4>2. << >> \o << >> = << >>
        BY ConcatEmptySeq, << >> \in Seq(EventTypes)
      <4>3. QED
        BY <1>3, <3>2, <4>1, <4>2, TypesOfEvents DEF Story
    <3>4. Emits(p) \in Seq(Event)
      BY <1>1, <1>3, EmitsTruth
    <3>5. Story(p)' = Story(p) \o Begun
      BY <1>1, <1>2, <1>3, <2>1, <2>3, <2>5, <3>4, StoryGrows DEF TrailInv
    <3>6. << >> \o Begun = Begun
      BY ConcatEmptySeq, Begun \in Seq(EventTypes) DEF Begun, EventTypes
    <3>7. StoryOf(p)'
      BY <2>5, <3>3, <3>5, <3>6 DEF StoryOf
    <3>8. QED
      BY <2>3, <2>5, <3>1, <3>7 DEF StoryFor
  <2>6. QED
    BY <1>1, <2>1, <2>2, <2>4, <2>5, OthersMove
<1>7. Owns(p) => StoryFor(p)'
  BY StoryMaker
<1>8. QED
  BY <1>5, <1>6, <1>7

LEMMA StoryReadSnapshot ==
  ASSUME TransferInv, TrailInv, MatchInv, faults = 0, auditFaults' = 0, auditFaults = 0,
         \A q \in Requests : StoryFor(q), NEW p \in Requests, ReadSnapshot(p)
  PROVE  \A q \in Requests : StoryFor(q)'
<1>1. UNCHANGED vars /\ trail' = trail /\ pending' = pending /\ written' = written
  BY DEF ReadSnapshot, AuditFails, MatchInv
<1>2. UNCHANGED <<pc, req, outcome, maker>>
  BY <1>1 DEF vars, callVars, dbVars
<1>3. QED
  BY <1>1, <1>2, StoryKept DEF Owns

LEMMA StoryWriteRow ==
  ASSUME TransferInv, TrailInv, MatchInv, faults = 0, auditFaults' = 0, auditFaults = 0,
         \A q \in Requests : StoryFor(q), NEW p \in Requests, WriteRow(p)
  PROVE  \A q \in Requests : StoryFor(q)'
<1>1. UNCHANGED vars /\ ~AuditFails(p) /\ pending[p] # << >>
  BY DEF WriteRow, WriteIgnored, AuditFails, MatchInv, MayEmit, vars, dbVars, txVars, storeVars,
         callVars, envVars
<1>2. UNCHANGED <<pc, req, outcome, maker, txStatus>>
  BY <1>1 DEF vars, callVars, dbVars
<1>3. Owns(p)
  BY <1>1 DEF StoryFor
<1>4. PICK k \in Keys : k = req[p].key /\ maker[k] = p
  BY <1>3 DEF Owns
<1>5. \A j \in Keys \ {k} : trail'[j] = trail[j]
  BY <1>4, RowWritten DEF TrailInv
<1>6. ASSUME NEW q \in Requests, q # p PROVE StoryFor(q)'
  <2>1. Owns(q) => req[q].key \in Keys \ {k}
    BY <1>4, <1>6 DEF Owns
  <2>2. pending'[q] = pending[q] /\ written'[q] = written[q]
    BY <1>6 DEF WriteRow, DropEvent, TrailInv, AuditTypeOK
  <2>3. QED
    BY <1>1, <1>2, <1>5, <2>1, <2>2, StoryKept DEF Owns
<1>7. StoryFor(p)'
  <2>1. Story(p)' = Story(p) /\ (pending'[p] = << >> => written'[p] = 0)
    BY <1>1, <1>2, <1>4, StoryWritten DEF TrailInv
  <2>2. Owns(p)'
    BY <1>2, <1>3 DEF Owns
  <2>3. StoryOf(p)'
    BY <1>2, <1>3, <2>1 DEF StoryFor, StoryOf
  <2>4. StoryFor(p)
    OBVIOUS
  <2>5. QED
    BY <1>2, <2>1, <2>2, <2>3, <2>4 DEF StoryFor
<1>8. QED
  BY <1>6, <1>7

LEMMA StoryNext ==
  /\ TransferInv /\ TransferInv' /\ TrailInv /\ MatchInv /\ ClaimlessInv /\ StoryInv
  /\ [AuditNext]_<<vars, auditVars>>
  => StoryInv'
<1> SUFFICES ASSUME TransferInv, TransferInv', TrailInv, MatchInv, ClaimlessInv, StoryInv,
                    [AuditNext]_<<vars, auditVars>>, faults' = 0, auditFaults' = 0
             PROVE  \A q \in Requests : StoryFor(q)'
  BY DEF StoryInv
<1>1. [Next]_vars
  BY AuditSteps
<1>2. faults = 0
  <2>1. faults \in Nat
    BY BoundsAssumption DEF TransferInv, RefineInv, RowsInv, TypeInv, TypeOK, EnvTypes
  <2>2. ASSUME NEW p \in Requests, NEW r \in Payloads, Receive(p, r) PROVE faults = 0
    BY <2>2 DEF Receive
  <2>3. CASE Environment \/ Terminating \/ UNCHANGED vars
    BY <2>1, <2>3 DEF Environment, Terminating, Cancel, Crash, Expire, SetAccountStatus, vars,
                      Fault
  <2>4. ASSUME NEW p \in Requests, Progress(p) PROVE faults = 0
    BY <2>4, NoFailure DEF TransferInv, RefineInv
  <2>5. QED
    BY <1>1, <2>2, <2>3, <2>4 DEF Next
<1>3. auditFaults = 0
  <2>1. auditFaults' = auditFaults \/ auditFaults' = auditFaults + 1
    <3>1. ASSUME NEW p \in Requests, CallStep(p)
          PROVE  auditFaults' = auditFaults \/ auditFaults' = auditFaults + 1
      BY <3>1 DEF CallStep, TransferStep, Acquire, AuditStep, ReadSnapshot, WriteRow,
                  AuditSucceeds, AuditFails
    <3>2. QED
      BY <3>1 DEF AuditNext, Surroundings, auditVars
  <2>2. auditFaults \in Nat
    BY PoolAssumption DEF TrailInv, AuditTypeOK
  <2>3. QED
    BY <2>1, <2>2
<1>4. \A q \in Requests : StoryFor(q)
  BY <1>2, <1>3 DEF StoryInv
<1>5. ASSUME UNCHANGED <<pc, req, outcome, maker, pending, written, trail>>
      PROVE  \A q \in Requests : StoryFor(q)'
  BY <1>1, <1>4, <1>5, StoryKept DEF Owns
<1>6. ASSUME NEW p \in Requests, NEW r \in Payloads, Receive(p, r), UNCHANGED auditVars
      PROVE  \A q \in Requests : StoryFor(q)'
  <2>1. /\ pc[p] = "idle" /\ pc'[p] \in {"cacheLookup", "loadSource", "done"}
        /\ UNCHANGED <<outcome, maker, pending, written, trail>>
        /\ \A q \in Requests \ {p} : pc'[q] = pc[q] /\ req'[q] = req[q]
    BY <1>6 DEF Receive, Goto, auditVars, dbVars, TransferInv, RefineInv, RowsInv, TypeInv, TypeOK,
                CallTypes
  <2>2. ASSUME NEW q \in Requests, q # p PROVE StoryFor(q)'
    BY <1>1, <1>4, <2>1, <2>2, StoryKept DEF Owns
  <2>3. \A k \in Keys : maker[k] # p
    BY <2>1, BoundsAssumption DEF TransferInv, RefineInv, RowsInv, PostingInv, OwnerInv, MakerInv
  <2>4. pending[p] = << >> /\ written[p] = 0
    BY <1>4, <2>1 DEF TrailInv, EventsInv, EventsOf, StoryFor
  <2>5. StoryFor(p)'
    BY <2>1, <2>3, <2>4 DEF StoryFor, Owns, Making
  <2>6. QED
    BY <2>2, <2>5
<1>7. CASE Surroundings
  <2>1. UNCHANGED <<pc, req, outcome, maker, trail>>
    BY <1>2, <1>7 DEF Surroundings, Environment, Cancel, Crash, Expire, SetAccountStatus, Fault,
                      callVars, dbVars
  <2>2. ASSUME NEW q \in Requests PROVE pending'[q] = pending[q] /\ written'[q] = written[q]
    <3>1. CASE pc[q] = "dead"
      <4>1. ~StoryOf(q)
        BY <3>1 DEF StoryOf
      <4>2. pending[q] = << >> /\ written[q] = 0
        BY <1>4, <4>1 DEF StoryFor
      <4>3. QED
        BY <1>7, <2>1, <3>1, <4>2 DEF Surroundings
    <3>2. CASE pc[q] # "dead"
      BY <1>7, <2>1, <3>2 DEF Surroundings
    <3>3. QED
      BY <3>1, <3>2
  <2>3. QED
    BY <1>1, <1>4, <2>1, <2>2, StoryKept DEF Owns
<1>8. CASE UNCHANGED <<vars, auditVars>>
  BY <1>5, <1>8 DEF vars, callVars, dbVars, auditVars
<1>9. ASSUME NEW p \in Requests, Acquire(p) PROVE \A q \in Requests : StoryFor(q)'
  BY <1>5, <1>9 DEF Acquire, vars, callVars, dbVars
<1>10. ASSUME NEW p \in Requests, TransferStep(p) PROVE \A q \in Requests : StoryFor(q)'
  BY <1>4, <1>10, StoryTransferStep
<1>11. ASSUME NEW p \in Requests, AuditStep(p) PROVE \A q \in Requests : StoryFor(q)'
  BY <1>2, <1>3, <1>4, <1>11, StoryReadSnapshot, StoryWriteRow DEF AuditStep
<1>12. QED
  BY <1>6, <1>7, <1>8, <1>9, <1>10, <1>11 DEF AuditNext, CallStep

\* When nothing has failed, of a transfer or of its audit, the trail of a finished
\* transfer is complete and in order: it was initiated, what was posted, its end.
THEOREM TrailIsComplete == AuditSpec => []TrailTellsFate
<1>1. Spec => [](MatchInv /\ ClaimlessInv)
  <2>1. Init => MatchInv /\ ClaimlessInv
    BY DEF Init, MatchInv, PendingInv, ClaimlessInv, NoRow
  <2>2. RefineInv => RowsInv /\ TypeInv
    BY DEF RefineInv, RowsInv
  <2>3. QED
    BY <2>1, <2>2, RefineInvariant, MatchNext, ClaimlessNext, PTL DEF Spec
<1>2. AuditSpec => [](MatchInv /\ ClaimlessInv)
  BY <1>1, AuditRefines, PTL
<1>3. AuditInit => StoryInv
  <2> SUFFICES ASSUME AuditInit, NEW p \in Requests PROVE StoryFor(p)
    BY DEF StoryInv
  <2>2. pending[p] = << >> /\ written[p] = 0 /\ pc[p] = "idle"
    BY DEF AuditInit, Init
  <2>3. \A k \in Keys : maker[k] = None
    BY DEF AuditInit, Init
  <2>4. QED
    BY <2>2, <2>3, BoundsAssumption DEF StoryFor, Owns, Making
<1>4. AuditSpec => []StoryInv
  BY <1>2, <1>3, StoryNext, TransferInvariant, TrailInvariant, PTL DEF AuditSpec
<1>5. TransferInv /\ TrailInv /\ StoryInv => TrailTellsFate
  <2> SUFFICES ASSUME TransferInv, TrailInv, StoryInv, NEW k \in Keys, faults + auditFaults = 0,
                      maker[k] # None, Finished(maker[k])
               PROVE  LET T == TypesOf(TransactionAudit(k))
                      IN  IF txStatus[k] = "SETTLED"
                          THEN T = <<"TRANSFER_INITIATED", "HOLD_PLACED", JEP, JEP,
                                     "TRANSFER_SETTLED">>
                          ELSE \E middle \in {<< >>, <<"HOLD_PLACED", JEP>>,
                                              <<"HOLD_PLACED", JEP, JEP>>} :
                                 T = <<"TRANSFER_INITIATED">> \o middle \o <<"TRANSFER_FAILED">>
    BY DEF TrailTellsFate, JEP
  <2> DEFINE p == maker[k]
             T == TypesOf(TransactionAudit(k))
  <2>1. faults = 0 /\ auditFaults = 0
    BY BoundsAssumption, PoolAssumption
       DEF TransferInv, RefineInv, RowsInv, TypeInv, TypeOK, EnvTypes, TrailInv, AuditTypeOK
  <2>2. p \in Requests /\ req[p].key = k
    BY DEF TransferInv, RefineInv, RowsInv, PostingInv, OwnerInv, MakerInv
  <2>3. StoryOf(p) /\ pending[p] = << >> /\ written[p] = 0 /\ pc[p] = "done"
    BY <2>1, <2>2 DEF StoryInv, StoryFor, Owns, Finished, StoryOf
  <2>4. Story(p) = T
    <3>1. ToTell(p) = << >> /\ T \in Seq(EventTypes)
      BY <2>2, <2>3, StoryTypes DEF ToTell, TrailInv
    <3>2. QED
      BY <2>2, <3>1, TypesOfEvents, ConcatEmptySeq DEF Story
  <2>5. \/ txStatus[k] = "SETTLED" /\ T = BothPosted \o <<"TRANSFER_SETTLED">>
        \/ /\ txStatus[k] = "FAILED"
           /\ \E told \in Partial : T = told \o <<"TRANSFER_FAILED">>
    BY <2>2, <2>3, <2>4 DEF StoryOf
  <2>6. BothPosted \o <<"TRANSFER_SETTLED">> =
          <<"TRANSFER_INITIATED", "HOLD_PLACED", JEP, JEP, "TRANSFER_SETTLED">>
    BY StorySteps
  <2>7. /\ Begun = <<"TRANSFER_INITIATED">> \o << >>
        /\ FundsHeld = <<"TRANSFER_INITIATED">> \o <<"HOLD_PLACED", JEP>>
        /\ BothPosted = <<"TRANSFER_INITIATED">> \o <<"HOLD_PLACED", JEP, JEP>>
    BY StorySteps DEF Begun, FundsHeld, BothPosted, Partial
  <2>8. QED
    BY <2>5, <2>6, <2>7 DEF Partial
<1>6. QED
  BY <1>4, <1>5, TransferInvariant, TrailInvariant, PTL
=============================================================================
