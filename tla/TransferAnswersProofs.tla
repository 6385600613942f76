----------------------- MODULE TransferAnswersProofs ------------------------
(***************************************************************************)
(* Theorems about what Transfer tells its callers, and keeps for them in   *)
(* Redis: the cache and the answers agree with the rows, claims exclude    *)
(* each other, and rows are decided.                                       *)
(***************************************************************************)
EXTENDS TransferProofs

Terminal == {"SETTLED", "FAILED"}

\* The labels at which a call is about to store its outcome.
Storing == {"storeSettled", "storeFailed"}

-----------------------------------------------------------------------------
(***************************************************************************)
(* Which steps write a row, a key of Redis, an outcome or an answer.       *)
(***************************************************************************)
\* A step of a call writes a row only when it inserts it, commits, or runs
\* FailTransaction.
LEMMA RowProgress ==
  ASSUME NEW p \in Requests, Progress(p)
  PROVE  txStatus' = txStatus \/ CreateDest(p) \/ Commit(p) \/ MarkFailed(p) \/ FailBegin(p)
<1>1. CASE \/ CacheLookup(p) \/ Claim(p) \/ Recheck(p)
           \/ LoadSource(p) \/ LoadDest(p) \/ LoadClearing(p)
           \/ Create(p) \/ LoadDuplicate(p) \/ Begin(p)
  BY <1>1 DEF CacheLookup, Claim, Recheck, LoadSource, LoadDest, LoadClearing, Create,
              LoadDuplicate, Begin, dbVars
<1>2. CASE \/ \E a \in Accounts : LockRow(p, a)
           \/ DeadlockVictim(p) \/ PostEntry(p) \/ MarkProcessing(p) \/ MarkSettled(p)
           \/ StoreFailed(p) \/ StoreSettled(p) \/ Unlock(p)
  BY <1>2 DEF LockRow, DeadlockVictim, PostEntry, MarkProcessing, MarkSettled, UpdateStatusTx,
              StoreFailed, StoreSettled, Unlock, dbVars
<1>3. QED
  BY <1>1, <1>2 DEF Progress

\* It writes no other row than its own.
LEMMA RowSteps ==
  ASSUME TypeInv, [Next]_vars
  PROVE  \/ txStatus' = txStatus
         \/ \E p \in Requests :
              /\ CreateDest(p) \/ Commit(p) \/ MarkFailed(p) \/ FailBegin(p)
              /\ \A k \in Keys \ {req[p].key} : txStatus'[k] = txStatus[k]
<1>1. CASE UNCHANGED vars
  BY <1>1 DEF vars, dbVars
<1>2. CASE Environment \/ Terminating
  BY <1>2 DEF Environment, Terminating, Cancel, Crash, Expire, SetAccountStatus, vars, dbVars
<1>3. ASSUME NEW p \in Requests, NEW r \in Payloads, Receive(p, r)
      PROVE  txStatus' = txStatus
  BY <1>3, SMTT(30) DEF Receive, dbVars
<1>4. ASSUME NEW p \in Requests,
             CreateDest(p) \/ Commit(p) \/ MarkFailed(p) \/ FailBegin(p)
      PROVE  \A k \in Keys \ {req[p].key} : txStatus'[k] = txStatus[k]
  BY <1>4 DEF CreateDest, Commit, MarkFailed, FailBegin, Inserted, Committed, RowFailed,
              dbVars, TypeInv, TypeOK, RowTypes
<1>5. QED
  BY <1>1, <1>2, <1>3, <1>4, RowProgress DEF Next

\* The row a commit writes was PENDING and is SETTLED, unless nothing was written.
LEMMA CommitRow ==
  ASSUME TypeInv, PostingInv, NEW p \in Requests, Commit(p)
  PROVE  /\ txStatus[req[p].key] = "PENDING"
         /\ Committed(p) => txStatus'[req[p].key] = "SETTLED"
         /\ \/ UNCHANGED <<txStatus, outcome>> /\ FailTx(p, "error")
            \/ Committed(p) /\ txStatus'[req[p].key] = "SETTLED"
<1>1. pc[p] = "commit" /\ req[p].key \in Keys
  BY Orders DEF Commit
<1>2. txStatus[req[p].key] = "PENDING" /\ working[p] = "SETTLED"
  BY <1>1 DEF PostingInv, OwnerInv, StageInv, StageOf, Settling, InTx
<1>3. QED
  BY <1>1, <1>2 DEF Commit, Committed, dbVars, TypeInv, TypeOK, RowTypes

\* FailTransaction leaves its row terminal, and a terminal row alone.
LEMMA FailedRow ==
  ASSUME TypeInv, NEW p \in Requests, pc[p] \in AfterCreate, RowFailed(p)
  PROVE  LET k == req[p].key
         IN  /\ txStatus'[k] = FailedStatus(k)
             /\ FailedStatus(k) \in Terminal
             /\ txStatus[k] \in Terminal => txStatus'[k] = txStatus[k]
<1>1. req[p].key \in Keys /\ txStatus[req[p].key] \in TxStatus
  BY Orders DEF AfterCreate, InTx, TypeInv, TypeOK, RowTypes, RowsExist
<1>2. QED
  BY <1>1 DEF RowFailed, FailedStatus, Terminal, TxStatus, TypeInv, TypeOK, RowTypes

\* A decided row is never decided again.
LEMMA TerminalKept ==
  ASSUME TypeInv, InsertInv, PostingInv, [Next]_vars,
         NEW k \in Keys, txStatus[k] \in Terminal
  PROVE  txStatus'[k] = txStatus[k]
<1>1. ASSUME NEW p \in Requests, k = req[p].key, Commit(p)
      PROVE  txStatus'[k] = txStatus[k]
  BY <1>1, CommitRow DEF Terminal
<1>2. ASSUME NEW p \in Requests, k = req[p].key, CreateDest(p)
      PROVE  txStatus'[k] = txStatus[k]
  BY <1>2 DEF CreateDest, InsertInv, Terminal, NoRow
<1>3. ASSUME NEW p \in Requests, k = req[p].key, MarkFailed(p) \/ FailBegin(p)
      PROVE  txStatus'[k] = txStatus[k]
  BY <1>3, FailedRow DEF MarkFailed, FailBegin, AfterCreate
<1>4. QED
  BY <1>1, <1>2, <1>3, RowSteps

\* A step writes at most one key of Redis: it claims it, drops it, or stores an
\* outcome in it.
LEMMA RedisSteps ==
  ASSUME TypeInv, [Next]_vars, NEW k \in Keys
  PROVE  \/ redis'[k] = redis[k]
         \/ redis'[k] \in {Absent, Marker}
         \/ \E p \in Requests : /\ pc[p] \in Storing /\ req[p].key = k
                                /\ redis'[k] = outcome[p]
<1>1. CASE UNCHANGED vars
  BY <1>1 DEF vars, storeVars
<1>2. CASE Environment \/ Terminating
  BY <1>2 DEF Environment, Terminating, Cancel, Crash, Expire, SetAccountStatus, vars,
              storeVars, TypeInv, TypeOK, StoreTypes
<1>3. ASSUME NEW p \in Requests, NEW r \in Payloads, Receive(p, r)
      PROVE  redis' = redis
  BY <1>3 DEF Receive, storeVars
<1>4. ASSUME NEW p \in Requests,
             \/ CacheLookup(p) \/ Recheck(p)
             \/ LoadSource(p) \/ LoadDest(p) \/ LoadClearing(p)
             \/ Create(p) \/ CreateDest(p) \/ LoadDuplicate(p) \/ Begin(p)
             \/ Commit(p) \/ MarkFailed(p) \/ FailBegin(p)
      PROVE  redis' = redis
  BY <1>4 DEF CacheLookup, Recheck, LoadSource, LoadDest, LoadClearing, Create, CreateDest,
              LoadDuplicate, Begin, Commit, MarkFailed, FailBegin, storeVars
<1>5. ASSUME NEW p \in Requests,
             \/ \E a \in Accounts : LockRow(p, a)
             \/ DeadlockVictim(p) \/ PostEntry(p) \/ MarkProcessing(p) \/ MarkSettled(p)
      PROVE  redis' = redis
  BY <1>5 DEF LockRow, DeadlockVictim, PostEntry, MarkProcessing, MarkSettled, UpdateStatusTx,
              storeVars
<1>6. ASSUME NEW p \in Requests, Claim(p) \/ Unlock(p)
      PROVE  redis'[k] = redis[k] \/ redis'[k] \in {Absent, Marker}
  BY <1>6 DEF Claim, Unlock, storeVars, TypeInv, TypeOK, StoreTypes
<1>7. ASSUME NEW p \in Requests, StoreFailed(p) \/ StoreSettled(p)
      PROVE  \/ redis'[k] = redis[k]
             \/ pc[p] \in Storing /\ req[p].key = k /\ redis'[k] = outcome[p]
  BY <1>7 DEF StoreFailed, StoreSettled, Storing, storeVars, TypeInv, TypeOK, StoreTypes
<1>8. QED
  BY <1>1, <1>2, <1>3, <1>4, <1>5, <1>6, <1>7 DEF Next, Progress

\* A call comes to store an outcome only from a step that has just decided its row.
LEMMA OutcomeSteps ==
  ASSUME TypeInv, PostingInv, [Next]_vars, NEW p \in Requests, pc'[p] \in Storing
  PROVE  /\ req'[p] = req[p]
         /\ \/ pc[p] \in Storing /\ outcome'[p] = outcome[p]
            \/ outcome'[p] \in TxStatus =>
                 /\ outcome'[p] = txStatus'[req[p].key]
                 /\ outcome'[p] \in Terminal
<1> USE DEF TypeInv, TypeOK, CallTypes
<1>1. CASE UNCHANGED vars
  BY <1>1 DEF vars, callVars
<1>2. CASE Environment \/ Terminating
  BY <1>2 DEF Environment, Terminating, Cancel, Crash, Expire, SetAccountStatus, vars,
              callVars, Storing
<1>3. ASSUME NEW q \in Requests, NEW r \in Payloads, Receive(q, r)
      PROVE  /\ req'[p] = req[p]
             /\ pc[p] \in Storing /\ outcome'[p] = outcome[p]
  BY <1>3 DEF Receive, Goto, Storing
<1>4. ASSUME NEW q \in Requests,
             \/ CacheLookup(q) \/ Claim(q) \/ Recheck(q)
             \/ LoadSource(q) \/ LoadDest(q) \/ LoadClearing(q)
             \/ Create(q) \/ CreateDest(q) \/ LoadDuplicate(q) \/ Begin(q)
      PROVE  /\ req'[p] = req[p]
             /\ pc[p] \in Storing /\ outcome'[p] = outcome[p]
  <2>1. UNCHANGED <<req, outcome>>
    BY <1>4 DEF CacheLookup, Claim, Recheck, LoadSource, LoadDest, LoadClearing, Create,
                CreateDest, LoadDuplicate, Begin
  <2>2. \E l \in Labels \ Storing : Goto(q, l)
    BY <1>4 DEF CacheLookup, Claim, Recheck, LoadSource, LoadDest, LoadClearing, Create,
                CreateDest, LoadDuplicate, Begin, Return, Goto, Storing, Labels
  <2>3. QED
    BY <2>1, <2>2 DEF Goto
<1>5. ASSUME NEW q \in Requests,
             \/ \E a \in Accounts : LockRow(q, a)
             \/ DeadlockVictim(q) \/ PostEntry(q) \/ MarkProcessing(q) \/ MarkSettled(q)
             \/ StoreFailed(q) \/ StoreSettled(q) \/ Unlock(q)
      PROVE  /\ req'[p] = req[p]
             /\ pc[p] \in Storing /\ outcome'[p] = outcome[p]
  <2>1. UNCHANGED <<req, outcome>>
    BY <1>5 DEF LockRow, DeadlockVictim, PostEntry, MarkProcessing, MarkSettled, UpdateStatusTx,
                StoreFailed, StoreSettled, Unlock
  <2>2. pc' = pc \/ \E l \in Labels \ Storing : Goto(q, l)
    BY <1>5 DEF LockRow, DeadlockVictim, PostEntry, MarkProcessing, MarkSettled, UpdateStatusTx,
                StoreFailed, StoreSettled, Unlock, FailTx, Return, Goto, Storing, Labels
  <2>3. QED
    BY <2>1, <2>2 DEF Goto
<1>6. ASSUME NEW q \in Requests, Commit(q)
      PROVE  /\ req'[p] = req[p]
             /\ \/ pc[p] \in Storing /\ outcome'[p] = outcome[p]
                \/ outcome'[p] \in TxStatus =>
                     /\ outcome'[p] = txStatus'[req[p].key]
                     /\ outcome'[p] \in Terminal
  <2>1. UNCHANGED req /\ Others(q)
    BY <1>6 DEF Commit, FailTx, Return, Goto, Others
  <2>2. CASE q # p
    BY <1>6, <2>1, <2>2 DEF Commit, Others
  <2>3. CASE q = p
    <3>1. Committed(p) /\ outcome'[p] = "SETTLED"
      BY <1>6, <2>3 DEF Commit, FailTx, Goto, Storing
    <3>2. txStatus'[req[p].key] = "SETTLED"
      <4>1. pc[p] = "commit" /\ req[p].key \in Keys /\ working[p] = "SETTLED"
        BY <1>6, <2>3, Orders DEF Commit, PostingInv, StageInv, StageOf
      <4>2. QED
        BY <3>1, <4>1 DEF Committed, RowTypes
    <3>3. QED
      BY <2>1, <3>1, <3>2 DEF Terminal
  <2>4. QED
    BY <2>2, <2>3
<1>7. ASSUME NEW q \in Requests, MarkFailed(q) \/ FailBegin(q)
      PROVE  /\ req'[p] = req[p]
             /\ \/ pc[p] \in Storing /\ outcome'[p] = outcome[p]
                \/ outcome'[p] \in TxStatus =>
                     /\ outcome'[p] = txStatus'[req[p].key]
                     /\ outcome'[p] \in Terminal
  <2>1. UNCHANGED req /\ Others(q) /\ pc[q] \in AfterCreate
    BY <1>7 DEF MarkFailed, FailBegin, GotoStoreFailed, Return, Goto, Others, AfterCreate
  <2>2. CASE q # p
    BY <1>7, <2>1, <2>2 DEF MarkFailed, FailBegin, Others
  <2>3. CASE q = p
    <3>1. \/ outcome'[p] = Zero
          \/ RowFailed(p) /\ outcome'[p] = FailedStatus(req[p].key)
      BY <1>7, <2>3 DEF MarkFailed, FailBegin, Return, Goto, Storing
    <3>2. QED
      BY <2>1, <2>3, <3>1, FailedRow DEF TxStatus, Zero
  <2>4. QED
    BY <2>2, <2>3
<1>8. QED
  BY <1>1, <1>2, <1>3, <1>4, <1>5, <1>6, <1>7 DEF Next, Progress

-----------------------------------------------------------------------------
(***************************************************************************)
(* The cache. What a call has taken out of its decided row may reach Redis *)
(* much later, and stay there through everything that happens to the key;  *)
(* it is current because rows are decided once.                            *)
(***************************************************************************)
CacheInv ==
  /\ \A k \in Keys : redis[k] \in TxStatus =>
       redis[k] = txStatus[k] /\ txStatus[k] \in Terminal
  /\ \A p \in Requests : pc[p] \in Storing /\ outcome[p] \in TxStatus =>
       outcome[p] = txStatus[req[p].key] /\ outcome[p] \in Terminal

LEMMA CacheNext ==
  TypeInv /\ InsertInv /\ PostingInv /\ CacheInv /\ [Next]_vars => CacheInv'
<1> SUFFICES ASSUME TypeInv, InsertInv, PostingInv, CacheInv, [Next]_vars
             PROVE  CacheInv'
  OBVIOUS
<1>1. \A p \in Requests : pc[p] \in Storing => req[p].key \in Keys
  BY Orders DEF Storing
<1>2. ASSUME NEW k \in Keys, redis'[k] \in TxStatus
      PROVE  redis'[k] = txStatus'[k] /\ txStatus'[k] \in Terminal
  <2>1. redis'[k] \notin {Absent, Marker}
    BY <1>2 DEF TxStatus, Absent, Marker
  <2>2. redis'[k] = txStatus[k] /\ txStatus[k] \in Terminal
    BY <1>2, <2>1, RedisSteps DEF CacheInv
  <2>3. QED
    BY <2>2, TerminalKept
<1>3. ASSUME NEW p \in Requests, pc'[p] \in Storing, outcome'[p] \in TxStatus
      PROVE  outcome'[p] = txStatus'[req'[p].key] /\ outcome'[p] \in Terminal
  <2>1. CASE pc[p] \in Storing /\ outcome'[p] = outcome[p]
    BY <1>1, <1>3, <2>1, OutcomeSteps, TerminalKept DEF CacheInv
  <2>2. QED
    BY <1>3, <2>1, OutcomeSteps
<1>4. QED
  BY <1>2, <1>3 DEF CacheInv

\* What TransferProofs and the above have established together.
RowsInv == TypeInv /\ InsertInv /\ PostingInv /\ CacheInv

LEMMA RowsInvariant == Spec => []RowsInv
<1>1. Init => InsertInv /\ PostingInv
  BY DEF Init, InsertInv, PostingInv, OwnerInv, StageInv, StageOf, SettledIffPosted, Owning,
         Settling, InTx, NoRow
<1>2. Init => CacheInv
  BY DEF Init, CacheInv, Storing, Absent, TxStatus
<1>3. QED
  BY <1>1, <1>2, TypeInit, TypeNext, InsertNext, PostingNext, CacheNext, PTL DEF Spec, RowsInv

\* A retry answered from Redis gets the row as it is, whatever calls, expiries, lost
\* answers and crashes came between the decision and the answer.
THEOREM CacheStaysCurrent == Spec => []CacheIsCurrent
<1>1. RowsInv => CacheIsCurrent
  BY DEF RowsInv, CacheInv, CacheIsCurrent
<1>2. QED
  BY <1>1, RowsInvariant, PTL

\* The outcome of a key never changes once it is decided.
THEOREM DecidedOnce ==
  Spec => [][\A k \in Keys : txStatus[k] \in Terminal => txStatus'[k] = txStatus[k]]_vars
<1>1. RowsInv /\ [Next]_vars =>
        [\A k \in Keys : txStatus[k] \in Terminal => txStatus'[k] = txStatus[k]]_vars
  BY TerminalKept DEF RowsInv
<1>2. QED
  BY <1>1, RowsInvariant, PTL DEF Spec

-----------------------------------------------------------------------------
(***************************************************************************)
(* Answers that say SETTLED, and claims.                                   *)
(***************************************************************************)
AnswersInv ==
  \A p \in Requests : reply[p] = "SETTLED" =>
    /\ pc[p] # "idle" /\ req[p].key \in Keys
    /\ txStatus[req[p].key] = "SETTLED"

\* A call of p's stays a call with the same key, and its answer is one it had or
\* one that is true.
LEMMA AnswerProgress ==
  ASSUME RowsInv, NEW p \in Requests, Progress(p)
  PROVE  /\ req' = req /\ Live(p) /\ "idle" \notin {pc[p], pc'[p]}
         /\ Others(p) /\ \A q \in Requests \ {p} : reply'[q] = reply[q]
         /\ reply'[p] = "SETTLED" =>
              reply[p] = "SETTLED" \/ txStatus'[req[p].key] = "SETTLED"
<1> USE DEF RowsInv, TypeInv, TypeOK, CallTypes
<1> DEFINE Goal == /\ req' = req /\ Live(p) /\ "idle" \notin {pc[p], pc'[p]}
                   /\ Others(p) /\ \A q \in Requests \ {p} : reply'[q] = reply[q]
                   /\ reply'[p] = "SETTLED" =>
                        reply[p] = "SETTLED" \/ txStatus'[req[p].key] = "SETTLED"
<1>1. \A k \in Keys : redis[k] = "SETTLED" => txStatus[k] = "SETTLED"
  BY DEF CacheInv, TxStatus
<1>2. Live(p) => req[p].key \in Keys
  BY Orders DEF Live
<1>3. CASE CacheLookup(p) \/ Claim(p) \/ Recheck(p)
  <2>1. Live(p) /\ UNCHANGED <<req, txStatus>>
    BY <1>3 DEF CacheLookup, Claim, Recheck, Live, dbVars
  <2>2. Goal
    BY <1>1, <1>2, <1>3, <2>1 DEF CacheLookup, Claim, Recheck, Return, Goto, Others
  <2>3. QED BY <2>2
<1>4. CASE LoadSource(p) \/ LoadDest(p) \/ LoadClearing(p)
  BY <1>4 DEF LoadSource, LoadDest, LoadClearing, Refusal, ClearingRefusal, NoRow, Return, Goto,
              Others, Live
<1>5. CASE Create(p) \/ CreateDest(p) \/ Begin(p) \/ DeadlockVictim(p)
  BY <1>5 DEF Create, CreateDest, Begin, DeadlockVictim, FailTx, Return, Goto, Others, Live
<1>6. CASE LoadDuplicate(p)
  BY <1>6 DEF LoadDuplicate, Return, Goto, Others, Live, dbVars
<1>7. CASE (\E a \in Accounts : LockRow(p, a)) \/ PostEntry(p)
  BY <1>7 DEF LockRow, IsNextRow, PostEntry, PostRefusal, FailTx, Goto, Others, Live
<1>8. CASE MarkProcessing(p) \/ MarkSettled(p)
  BY <1>8 DEF MarkProcessing, MarkSettled, UpdateStatusTx, FailTx, Goto, Others, Live
<1>9. CASE Commit(p)
  <2>1. reply'[p] = "SETTLED" => reply[p] = "SETTLED" \/ txStatus'[req[p].key] = "SETTLED"
    <3>1. CASE FailTx(p, "error")
      BY <3>1 DEF FailTx
    <3>2. CASE ~FailTx(p, "error")
      BY <1>9, <3>2, CommitRow
    <3>3. QED BY <3>1, <3>2
  <2>2. /\ req' = req /\ Live(p) /\ "idle" \notin {pc[p], pc'[p]}
        /\ Others(p) /\ \A q \in Requests \ {p} : reply'[q] = reply[q]
    BY <1>9 DEF Commit, FailTx, Return, Goto, Others, Live
  <2>3. QED BY <2>1, <2>2
<1>10. CASE MarkFailed(p) \/ FailBegin(p)
  BY <1>10 DEF MarkFailed, FailBegin, GotoStoreFailed, Return, Goto, Others, Live
<1>11. CASE StoreFailed(p) \/ Unlock(p)
  BY <1>11 DEF StoreFailed, Unlock, Goto, Others, Live
<1>12. CASE StoreSettled(p)
  <2>1. outcome[p] = "SETTLED" => txStatus[req[p].key] = "SETTLED"
    BY <1>12 DEF StoreSettled, CacheInv, Storing, TxStatus
  <2>2. QED
    BY <1>12, <2>1 DEF StoreSettled, Return, Goto, Others, Live, dbVars
<1>13. QED
  BY <1>3, <1>4, <1>5, <1>6, <1>7, <1>8, <1>9, <1>10, <1>11, <1>12 DEF Progress

LEMMA AnswersNext == RowsInv /\ AnswersInv /\ [Next]_vars => AnswersInv'
<1> SUFFICES ASSUME RowsInv, AnswersInv, [Next]_vars PROVE AnswersInv'
  OBVIOUS
<1> USE DEF RowsInv
<1>1. \A k \in Keys : txStatus[k] = "SETTLED" => txStatus'[k] = "SETTLED"
  BY TerminalKept DEF Terminal
<1>2. ASSUME NEW p \in Requests, Progress(p)
      PROVE  AnswersInv'
  <2>1. req[p].key \in Keys
    BY <1>2, AnswerProgress, Orders DEF Live
  <2>2. QED
    BY <1>1, <1>2, <2>1, AnswerProgress DEF AnswersInv, Others
<1>3. ASSUME NEW p \in Requests, NEW r \in Payloads, Receive(p, r)
      PROVE  AnswersInv'
  <2>1. /\ pc[p] = "idle" /\ UNCHANGED txStatus
        /\ \A q \in Requests \ {p} : req'[q] = req[q] /\ reply'[q] = reply[q] /\ pc'[q] = pc[q]
        /\ reply'[p] = reply[p] \/ reply'[p] = "invalid"
    BY <1>3 DEF Receive, Goto, dbVars, TypeInv, TypeOK, CallTypes
  <2>2. QED
    BY <2>1 DEF AnswersInv
<1>4. CASE Crash
  BY <1>4 DEF Crash, Live, AnswersInv, dbVars
<1>5. UNCHANGED <<txStatus, req, reply, pc>> => AnswersInv'
  BY DEF AnswersInv
<1>6. CASE (Environment /\ ~Crash) \/ Terminating \/ UNCHANGED vars
  BY <1>5, <1>6 DEF Environment, Cancel, Expire, SetAccountStatus, Terminating, vars, dbVars,
                    callVars
<1>7. QED
  BY <1>2, <1>3, <1>4, <1>6 DEF Next

\* Nobody is told SETTLED of a transfer that is not, whether the answer comes from
\* the commit, the cache or the row of an earlier call.
THEOREM SettledIsTrue == Spec => []SettledAnswersAreTrue
<1>1. Init => AnswersInv
  BY DEF Init, AnswersInv, NoRow
<1>2. AnswersInv => SettledAnswersAreTrue
  BY DEF AnswersInv, SettledAnswersAreTrue
<1>3. QED
  BY <1>1, <1>2, AnswersNext, RowsInvariant, PTL DEF Spec

\* A claim that Redis keeps is there until its owner releases it, and only its owner
\* comes to "unlock".
ClaimInv ==
  /\ \A p \in claimed : /\ pc[p] # "idle" /\ req[p].key \in Keys
                        /\ redis[req[p].key] # Absent
  /\ \A p \in Requests : pc[p] = "unlock" => p \in claimed
  /\ ClaimsAreExclusive

\* A step of p that claims nothing and frees no key.
LEMMA ClaimKept ==
  ASSUME TypeInv, ClaimInv, NEW p \in Requests, req' = req, Others(p),
         pc'[p] # "idle", pc'[p] = "unlock" => p \in claimed',
         claimed' \subseteq claimed, claimed \ {p} \subseteq claimed',
         \A k \in Keys : redis[k] # Absent => redis'[k] # Absent
  PROVE  ClaimInv'
BY DEF ClaimInv, ClaimsAreExclusive, Others, TypeInv, TypeOK, StoreTypes

LEMMA ClaimProgress ==
  ASSUME TypeInv, ClaimInv, NEW p \in Requests, Progress(p)
  PROVE  ClaimInv'
<1> USE DEF TypeInv, TypeOK, CallTypes, StoreTypes
<1> DEFINE Quiet == /\ UNCHANGED <<req, storeVars>> /\ Others(p) /\ pc'[p] # "idle"
                    /\ pc'[p] = "unlock" => p \in claimed
<1>1. Quiet => ClaimInv'
  BY ClaimKept DEF storeVars
<1>2. CASE CacheLookup(p) \/ Recheck(p) \/ LoadSource(p) \/ LoadDest(p) \/ LoadClearing(p)
  <2>1. Quiet
    BY <1>2 DEF CacheLookup, Recheck, LoadSource, LoadDest, LoadClearing, Return, Goto, Others
  <2>2. QED BY <1>1, <2>1
<1>3. CASE Create(p) \/ CreateDest(p) \/ LoadDuplicate(p) \/ Begin(p) \/ DeadlockVictim(p)
  <2>1. Quiet
    BY <1>3 DEF Create, CreateDest, LoadDuplicate, Begin, DeadlockVictim, FailTx, Return, Goto,
                Others
  <2>2. QED BY <1>1, <2>1
<1>4. CASE (\E a \in Accounts : LockRow(p, a)) \/ PostEntry(p) \/ MarkProcessing(p)
           \/ MarkSettled(p)
  <2>1. Quiet
    BY <1>4 DEF LockRow, IsNextRow, PostEntry, MarkProcessing, MarkSettled, UpdateStatusTx,
                FailTx, Goto, Others
  <2>2. QED BY <1>1, <2>1
<1>5. CASE Commit(p) \/ MarkFailed(p) \/ FailBegin(p)
  <2>1. Quiet
    BY <1>5 DEF Commit, MarkFailed, FailBegin, GotoStoreFailed, FailTx, Return, Goto, Others
  <2>2. QED BY <1>1, <2>1
<1>6. CASE StoreFailed(p) \/ StoreSettled(p)
  <2>1. req[p].key \in Keys /\ outcome[p] # Absent
    BY <1>6, Orders DEF StoreFailed, StoreSettled, Cached, TxStatus, Zero, Absent
  <2>2. /\ req' = req /\ Others(p) /\ pc'[p] # "idle"
        /\ pc'[p] = "unlock" => p \in claimed'
        /\ claimed' \subseteq claimed /\ claimed \ {p} \subseteq claimed'
        /\ \A k \in Keys : redis[k] # Absent => redis'[k] # Absent
    BY <1>6, <2>1 DEF StoreFailed, StoreSettled, storeVars, Return, Goto, Others
  <2>3. QED BY <2>2, ClaimKept
<1>7. CASE Claim(p)
  <2>1. /\ pc[p] = "claim" /\ req[p].key \in Keys /\ req' = req /\ Others(p)
        /\ pc'[p] # "idle"
        /\ pc'[p] = "unlock" => p \in claimed
        /\ \A k \in Keys : redis[k] # Absent => redis'[k] # Absent
    BY <1>7, Orders DEF Claim, storeVars, Return, Goto, Others, Marker, Absent
  <2>2. CASE claimed' = claimed
    BY <2>1, <2>2, ClaimKept
  <2>3. CASE /\ redis[req[p].key] = Absent /\ claimed' = claimed \cup {p}
             /\ redis' = [redis EXCEPT ![req[p].key] = Marker]
    <3>1. \A q \in claimed : req[q].key # req[p].key
      BY <2>3 DEF ClaimInv
    <3>2. redis'[req[p].key] # Absent
      BY <2>1, <2>3 DEF Marker, Absent
    <3>3. ASSUME NEW q \in claimed'
          PROVE  pc'[q] # "idle" /\ req'[q].key \in Keys /\ redis'[req'[q].key] # Absent
      <4>1. CASE q = p
        BY <2>1, <3>2, <4>1
      <4>2. CASE q # p
        BY <2>1, <2>3, <4>2 DEF ClaimInv, Others
      <4>3. QED
        BY <4>1, <4>2
    <3>4. \A q \in Requests : pc'[q] = "unlock" => q \in claimed'
      BY <2>1, <2>3 DEF ClaimInv, Others
    <3>5. ClaimsAreExclusive'
      BY <2>1, <2>3, <3>1 DEF ClaimInv, ClaimsAreExclusive
    <3>6. QED
      BY <3>3, <3>4, <3>5 DEF ClaimInv
  <2>4. QED
    BY <1>7, <2>2, <2>3 DEF Claim, storeVars
<1>8. CASE Unlock(p)
  <2>1. /\ p \in claimed /\ claimed' = claimed \ {p} /\ req' = req /\ Others(p)
        /\ pc'[p] = "done"
    BY <1>8 DEF Unlock, Goto, Others, ClaimInv
  <2>2. \A k \in Keys \ {req[p].key} : redis'[k] = redis[k]
    BY <1>8 DEF Unlock
  <2>3. ASSUME NEW q \in claimed'
        PROVE  req[q].key \in Keys \ {req[p].key}
    <3>1. q \in claimed /\ q # p
      BY <2>1
    <3>2. req[q].key # req[p].key
      BY <2>1, <3>1 DEF ClaimInv, ClaimsAreExclusive
    <3>3. QED
      BY <3>1, <3>2 DEF ClaimInv
  <2>4. QED
    BY <2>1, <2>2, <2>3 DEF ClaimInv, ClaimsAreExclusive, Others
<1>9. QED
  BY <1>2, <1>3, <1>4, <1>5, <1>6, <1>7, <1>8 DEF Progress

LEMMA ClaimNext ==
  ASSUME "expire" \notin FaultKinds
  PROVE  TypeInv /\ ClaimInv /\ [Next]_vars => ClaimInv'
<1> SUFFICES ASSUME TypeInv, ClaimInv, [Next]_vars PROVE ClaimInv'
  OBVIOUS
<1>1. ASSUME NEW p \in Requests, Progress(p) PROVE ClaimInv'
  BY <1>1, ClaimProgress
<1>2. ASSUME NEW p \in Requests, NEW r \in Payloads, Receive(p, r)
      PROVE  ClaimInv'
  <2>1. /\ pc[p] = "idle" /\ pc'[p] \notin {"idle", "unlock"} /\ Others(p)
        /\ UNCHANGED <<redis, claimed>>
        /\ \A q \in Requests \ {p} : req'[q] = req[q]
    BY <1>2 DEF Receive, Goto, Others, storeVars, TypeInv, TypeOK, CallTypes
  <2>2. claimed \subseteq Requests \ {p}
    BY <2>1 DEF ClaimInv, TypeInv, TypeOK, StoreTypes
  <2>3. QED
    BY <2>1, <2>2 DEF ClaimInv, ClaimsAreExclusive, Others
<1>3. CASE Crash
  BY <1>3 DEF Crash, Live, ClaimInv, ClaimsAreExclusive
<1>4. UNCHANGED <<redis, claimed, req, pc>> => ClaimInv'
  BY DEF ClaimInv, ClaimsAreExclusive
<1>5. \A k \in Keys : ~Expire(k)
  BY DEF Expire, Fault
<1>6. CASE (Environment /\ ~Crash) \/ Terminating \/ UNCHANGED vars
  BY <1>4, <1>5, <1>6 DEF Environment, Cancel, SetAccountStatus, Terminating, vars, storeVars,
                          callVars
<1>7. QED
  BY <1>1, <1>2, <1>3, <1>6 DEF Next

\* One call at a time works under a key for as long as Redis forgets no key: the
\* deferred unlock then never deletes the claim of another call, whatever else fails.
THEOREM OneClaimPerKey ==
  ASSUME "expire" \notin FaultKinds
  PROVE  Spec => []ClaimsAreExclusive
<1>1. Init => ClaimInv
  BY DEF Init, ClaimInv, ClaimsAreExclusive
<1>2. TypeInv /\ ClaimInv /\ [Next]_vars => ClaimInv'
  BY ClaimNext
<1>3. ClaimInv => ClaimsAreExclusive
  BY DEF ClaimInv
<1>4. QED
  BY <1>1, <1>2, <1>3, TypeInvariant, PTL DEF Spec

-----------------------------------------------------------------------------
(***************************************************************************)
(* Rows are decided, and by an answer that fits, as long as the database   *)
(* answers and neither caller nor server goes away.                        *)
(***************************************************************************)
PendingInv ==
  \A k \in Keys :
    /\ txStatus[k] # "PROCESSING"
    /\ txStatus[k] = "PENDING" => pc[maker[k]] \in Owning

\* p's next round trip to the database is none of those that fail.
Answering(p) == p \notin cancelled /\ ~Fails(p, "db") /\ ~AnswerLost(p, "lostAck")

\* A step of p leaves its row decided, if p no longer owns it.
LEMMA PendingKept ==
  ASSUME RowsInv, PendingInv, NEW p \in Requests, Others(p), UNCHANGED <<txStatus, maker>>,
         pc[p] \in Owning => pc'[p] \in Owning
  PROVE  PendingInv'
<1>1. ASSUME NEW k \in Keys, txStatus[k] = "PENDING"
      PROVE  maker[k] \in Requests /\ pc'[maker[k]] \in Owning
  <2>1. maker[k] \in Requests /\ pc[maker[k]] \in Owning
    BY <1>1 DEF RowsInv, PostingInv, OwnerInv, PendingInv, NoRow
  <2>2. QED
    BY <2>1 DEF Others
<1>2. QED
  BY <1>1 DEF PendingInv

LEMMA PendingProgress ==
  ASSUME RowsInv, PendingInv, NEW p \in Requests, Progress(p), Answering(p)
  PROVE  PendingInv'
<1> USE DEF RowsInv, TypeInv, TypeOK, CallTypes
<1> DEFINE Quiet == /\ UNCHANGED <<txStatus, maker>> /\ Others(p)
                    /\ (pc[p] \in Owning => pc'[p] \in Owning)
<1>1. Quiet => PendingInv'
  BY PendingKept
<1>2. CASE CacheLookup(p) \/ Claim(p) \/ Recheck(p) \/ LoadSource(p) \/ LoadDest(p)
           \/ LoadClearing(p)
  <2>1. Quiet
    BY <1>2 DEF CacheLookup, Claim, Recheck, LoadSource, LoadDest, LoadClearing, Return, Goto,
                Others, Owning, Settling, InTx, dbVars
  <2>2. QED BY <1>1, <2>1
<1>3. CASE Create(p) \/ LoadDuplicate(p) \/ Begin(p) \/ DeadlockVictim(p)
  <2>1. Quiet
    BY <1>3 DEF Create, LoadDuplicate, Begin, DeadlockVictim, FailTx, Return, Goto,
                Others, Owning, Settling, InTx, dbVars
  <2>2. QED BY <1>1, <2>1
<1>4. CASE (\E a \in Accounts : LockRow(p, a)) \/ PostEntry(p) \/ MarkProcessing(p)
           \/ MarkSettled(p)
  <2>1. Quiet
    BY <1>4 DEF LockRow, PostEntry, MarkProcessing, MarkSettled, UpdateStatusTx,
                FailTx, Goto, Others, Owning, Settling, InTx, dbVars
  <2>2. QED BY <1>1, <2>1
<1>5. CASE StoreFailed(p) \/ StoreSettled(p) \/ Unlock(p)
  <2>1. Quiet
    BY <1>5 DEF StoreFailed, StoreSettled, Unlock, Return, Goto, Others, Owning, Settling, InTx,
                dbVars
  <2>2. QED BY <1>1, <2>1
<1>6. CASE CreateDest(p)
  <2>1. CASE Inserted(p) /\ Goto(p, "begin")
    <3>1. req[p].key \in Keys /\ txStatus[req[p].key] = NoRow
      BY <1>6, Orders DEF CreateDest, InsertInv
    <3>2. /\ txStatus'[req[p].key] = "PENDING" /\ maker'[req[p].key] = p
          /\ \A k \in Keys \ {req[p].key} : txStatus'[k] = txStatus[k] /\ maker'[k] = maker[k]
      BY <2>1, <3>1 DEF Inserted, RowTypes
    <3>3. pc' = [pc EXCEPT ![p] = "begin"] /\ "begin" \in Owning /\ pc[p] \notin Owning
      BY <1>6, <2>1 DEF CreateDest, Goto, Owning, Settling, InTx
    <3>4. \A q \in Requests : pc[q] \in Owning => pc'[q] \in Owning
      BY <3>3
    <3>5. \A k \in Keys : txStatus[k] = "PENDING" => maker[k] \in Requests
      BY DEF PostingInv, OwnerInv, NoRow
    <3>6. pc'[p] \in Owning
      BY <3>3
    <3>7. QED
      BY <3>2, <3>4, <3>5, <3>6 DEF PendingInv
  <2>2. CASE Quiet
    BY <1>1, <2>2
  <2>3. QED
    BY <1>6, <2>1, <2>2 DEF CreateDest, Answering
<1>7. CASE Commit(p) \/ MarkFailed(p) \/ FailBegin(p)
  <2>1. CASE FailTx(p, "error") /\ UNCHANGED dbVars
    <3>1. Quiet
      BY <2>1 DEF FailTx, Goto, Others, Owning, dbVars
    <3>2. QED BY <1>1, <3>1
  <2>2. CASE ~(FailTx(p, "error") /\ UNCHANGED dbVars)
    <3>0. Commit(p) => Committed(p)
      BY <2>2 DEF Commit
    <3>1. /\ UNCHANGED maker /\ Others(p) /\ req[p].key \in Keys
          /\ \A k \in Keys \ {req[p].key} : txStatus'[k] = txStatus[k]
      <4>1. CASE Commit(p)
        <5>1. pc[p] = "commit"
          BY <4>1 DEF Commit
        <5>2. req[p].key \in Keys
          BY <5>1, Orders, SMTT(30)
        <5>3. UNCHANGED maker /\ \E st : txStatus' = [txStatus EXCEPT ![req[p].key] = st]
          BY <3>0, <4>1 DEF Commit, Committed, dbVars
        <5>4. Others(p)
          BY <2>2, <4>1, <5>1 DEF Commit, FailTx, Return, Goto, Others
        <5>5. QED
          BY <5>2, <5>3, <5>4 DEF RowTypes
      <4>2. CASE MarkFailed(p) \/ FailBegin(p)
        BY <4>2, Orders DEF MarkFailed, FailBegin, RowFailed, GotoStoreFailed, Return, Goto,
                            Others, RowTypes
      <4>3. QED BY <1>7, <4>1, <4>2
    <3>2. txStatus'[req[p].key] \in Terminal
      <4>1. CASE Commit(p)
        BY <3>0, <4>1, CommitRow DEF Terminal
      <4>2. CASE MarkFailed(p) \/ FailBegin(p)
        BY <4>2, FailedRow DEF MarkFailed, FailBegin, Answering, AfterCreate
      <4>3. QED BY <1>7, <4>1, <4>2
    <3>3. \A k \in Keys \ {req[p].key} : txStatus[k] = "PENDING" =>
             maker[k] \in Requests \ {p}
      BY DEF PostingInv, OwnerInv, NoRow
    <3>4. QED
      BY <3>1, <3>2, <3>3 DEF PendingInv, Terminal, Others
  <2>3. QED BY <2>1, <2>2
<1>8. QED
  BY <1>2, <1>3, <1>4, <1>5, <1>6, <1>7 DEF Progress

LEMMA PendingReceive ==
  ASSUME RowsInv, PendingInv, NEW p \in Requests, NEW r \in Payloads, Receive(p, r)
  PROVE  PendingInv'
<1>1. UNCHANGED <<txStatus, maker>> /\ Others(p) /\ pc[p] \notin Owning
  BY DEF Receive, Goto, Others, Owning, Settling, InTx, dbVars, RowsInv, TypeInv, TypeOK, CallTypes
<1>2. QED
  BY <1>1, PendingKept

LEMMA PendingQuiet ==
  ASSUME PendingInv, UNCHANGED <<txStatus, maker, pc>>
  PROVE  PendingInv'
BY DEF PendingInv

\* Failures of Redis, expiries included, leave no row PENDING once its call is over.
THEOREM RedisLeavesNoOrphan ==
  ASSUME FaultKinds \subseteq {"redis", "expire"}
  PROVE  Spec => []NoOrphanPending
<1> DEFINE Inv == cancelled = {} /\ PendingInv
<1>1. Init => Inv
  BY DEF Init, PendingInv, NoRow
<1>2. RowsInv /\ Inv /\ [Next]_vars => Inv'
  <2> SUFFICES ASSUME RowsInv, Inv, [Next]_vars PROVE Inv'
    OBVIOUS
  <2>1. ASSUME NEW p \in Requests, Progress(p) PROVE Inv'
    <3>1. Answering(p)
      BY DEF Answering, Fails, AnswerLost, Fault
    <3>2. cancelled' = cancelled
      BY <2>1 DEF Progress, CacheLookup, Claim, Recheck, LoadSource, LoadDest, LoadClearing,
                  Create, CreateDest, LoadDuplicate, Begin, FailBegin, LockRow, DeadlockVictim,
                  PostEntry, MarkProcessing, MarkSettled, UpdateStatusTx, Commit, MarkFailed,
                  StoreFailed, StoreSettled, Unlock, envVars
    <3>3. QED
      BY <2>1, <3>1, <3>2, PendingProgress
  <2>2. ASSUME NEW p \in Requests, NEW r \in Payloads, Receive(p, r) PROVE Inv'
    BY <2>2, PendingReceive DEF Receive, envVars
  <2>3. CASE Environment
    <3>1. ~Crash /\ \A p \in Requests : ~Cancel(p)
      BY DEF Crash, Cancel, Fault
    <3>2. QED
      BY <2>3, <3>1, PendingQuiet DEF Environment, Expire, SetAccountStatus, dbVars, callVars,
                                      envVars
  <2>4. CASE Terminating \/ UNCHANGED vars
    BY <2>4, PendingQuiet DEF Terminating, vars, dbVars, callVars, envVars
  <2>5. QED
    BY <2>1, <2>2, <2>3, <2>4 DEF Next
<1>3. RowsInv /\ Inv => NoOrphanPending
  BY DEF PendingInv, NoOrphanPending, Live, Owning, Settling, InTx
<1>4. QED
  BY <1>1, <1>2, <1>3, RowsInvariant, PTL DEF Spec

\* A row that is not there has no maker.
MakerInv == \A k \in Keys : txStatus[k] = NoRow => maker[k] = None

\* Only an INSERT writes who made a row.
LEMMA MakerProgress ==
  ASSUME NEW p \in Requests, Progress(p)
  PROVE  maker' = maker \/ (CreateDest(p) /\ Inserted(p))
<1>1. CASE CacheLookup(p) \/ Claim(p) \/ Recheck(p) \/ LoadSource(p) \/ LoadDest(p)
           \/ LoadClearing(p) \/ Create(p) \/ CreateDest(p) \/ LoadDuplicate(p) \/ Begin(p)
  BY <1>1 DEF CacheLookup, Claim, Recheck, LoadSource, LoadDest, LoadClearing, Create,
              CreateDest, LoadDuplicate, Begin, dbVars
<1>2. CASE (\E a \in Accounts : LockRow(p, a)) \/ DeadlockVictim(p) \/ PostEntry(p)
           \/ MarkProcessing(p) \/ MarkSettled(p)
  BY <1>2 DEF LockRow, DeadlockVictim, PostEntry, MarkProcessing, MarkSettled,
              UpdateStatusTx, dbVars
<1>3. CASE Commit(p) \/ MarkFailed(p) \/ FailBegin(p) \/ StoreFailed(p) \/ StoreSettled(p)
           \/ Unlock(p)
  BY <1>3 DEF Commit, MarkFailed, FailBegin, StoreFailed, StoreSettled, Unlock, dbVars
<1>4. QED
  BY <1>1, <1>2, <1>3 DEF Progress

LEMMA MakerSteps ==
  ASSUME [Next]_vars
  PROVE  maker' = maker \/ \E p \in Requests : CreateDest(p) /\ Inserted(p)
<1>1. CASE UNCHANGED vars
  BY <1>1 DEF vars, dbVars
<1>2. CASE Environment \/ Terminating
  BY <1>2 DEF Environment, Terminating, Cancel, Crash, Expire, SetAccountStatus, vars, dbVars
<1>3. ASSUME NEW p \in Requests, NEW r \in Payloads, Receive(p, r)
      PROVE  maker' = maker
  BY <1>3 DEF Receive, dbVars
<1>4. QED
  BY <1>1, <1>2, <1>3, MakerProgress DEF Next

LEMMA MakerNext == TypeInv /\ MakerInv /\ [Next]_vars => MakerInv'
<1> SUFFICES ASSUME TypeInv, MakerInv, [Next]_vars, NEW k \in Keys, txStatus'[k] = NoRow
             PROVE  maker'[k] = None
  BY DEF MakerInv
<1> USE DEF TypeInv, TypeOK, RowTypes
<1>1. txStatus[k] = NoRow
  <2>1. ASSUME NEW p \in Requests, CreateDest(p) PROVE txStatus[k] = NoRow
    BY <2>1, SMTT(30) DEF CreateDest, Inserted, NoRow
  <2>2. ASSUME NEW p \in Requests, Commit(p) PROVE txStatus[k] = NoRow
    BY <2>2 DEF Commit, Committed, dbVars, RowsExist, InTx
  <2>3. ASSUME NEW p \in Requests, MarkFailed(p) \/ FailBegin(p) PROVE txStatus[k] = NoRow
    BY <2>3, RowFailedStep DEF MarkFailed, FailBegin, AfterCreate
  <2>4. QED
    BY <2>1, <2>2, <2>3, RowSteps
<1>2. ASSUME NEW p \in Requests, Inserted(p)
      PROVE  maker'[k] = maker[k]
  BY <1>2 DEF Inserted, NoRow
<1>3. QED
  BY <1>1, <1>2, MakerSteps DEF MakerInv

\* The call whose row is SETTLED is about to say so, or has said so.
Saying(p) ==
  \/ pc[p] = "storeSettled" /\ outcome[p] = "SETTLED"
  \/ pc[p] \in {"unlock", "done"} /\ reply[p] = "SETTLED"

MatchInv ==
  faults = 0 =>
    /\ cancelled = {}
    /\ PendingInv
    /\ \A k \in Keys : txStatus[k] = "SETTLED" => Saying(maker[k])

LEMMA SayingProgress ==
  ASSUME RowsInv, NEW p \in Requests, Progress(p), Answering(p), ~Fails(p, "redis"),
         ~AnswerLost(p, "redis"), Saying(p)
  PROVE  Saying(p)'
<1> USE DEF RowsInv, TypeInv, TypeOK, CallTypes
<1>1. CASE pc[p] = "storeSettled" /\ outcome[p] = "SETTLED"
  <2>1. StoreSettled(p)
    BY <1>1 DEF Progress, CacheLookup, Claim, Recheck, LoadSource, LoadDest, LoadClearing,
                Create, CreateDest, LoadDuplicate, Begin, FailBegin, LockRow, IsNextRow,
                DeadlockVictim, PostEntry, MarkProcessing, MarkSettled, Commit, MarkFailed,
                StoreFailed, Unlock
  <2>2. QED
    BY <1>1, <2>1 DEF StoreSettled, Saying, Goto
<1>2. CASE pc[p] \in {"unlock", "done"} /\ reply[p] = "SETTLED"
  <2>1. Unlock(p)
    BY <1>2 DEF Progress, CacheLookup, Claim, Recheck, LoadSource, LoadDest, LoadClearing,
                Create, CreateDest, LoadDuplicate, Begin, FailBegin, LockRow, IsNextRow,
                DeadlockVictim, PostEntry, MarkProcessing, MarkSettled, Commit, MarkFailed,
                StoreFailed, StoreSettled
  <2>2. QED
    BY <1>2, <2>1 DEF Unlock, Saying, Goto
<1>3. QED
  BY <1>1, <1>2 DEF Saying

LEMMA MatchProgress ==
  ASSUME RowsInv, MatchInv, NEW p \in Requests, Progress(p)
  PROVE  MatchInv'
<1> SUFFICES ASSUME faults' = 0
             PROVE  /\ cancelled' = {} /\ PendingInv'
                    /\ \A k \in Keys : txStatus'[k] = "SETTLED" => Saying(maker[k])'
  BY DEF MatchInv
<1> USE DEF RowsInv, TypeInv, TypeOK, CallTypes
<1>1. /\ UNCHANGED cancelled
      /\ faults = 0
  <2>1. UNCHANGED cancelled
    BY DEF Progress, CacheLookup, Claim, Recheck, LoadSource, LoadDest, LoadClearing,
           Create, CreateDest, LoadDuplicate, Begin, FailBegin, LockRow, DeadlockVictim,
           PostEntry, MarkProcessing, MarkSettled, UpdateStatusTx, Commit, MarkFailed,
           StoreFailed, StoreSettled, Unlock, envVars
  <2>2. faults' \in {faults, faults + 1}
    BY DEF Progress, CacheLookup, Claim, Recheck, LoadSource, LoadDest, LoadClearing,
           Create, CreateDest, LoadDuplicate, Begin, FailBegin, LockRow, DeadlockVictim,
           PostEntry, MarkProcessing, MarkSettled, UpdateStatusTx, Commit, MarkFailed,
           StoreFailed, StoreSettled, Unlock, Succeeds, Fails, AnswerLost, Fault
  <2>3. QED
    BY <2>1, <2>2 DEF EnvTypes
<1>2. cancelled = {} /\ PendingInv /\ \A k \in Keys : txStatus[k] = "SETTLED" => Saying(maker[k])
  BY <1>1 DEF MatchInv
<1>3. Answering(p) /\ ~Fails(p, "redis") /\ ~AnswerLost(p, "redis")
  BY <1>1, <1>2 DEF Answering, Fails, AnswerLost, Fault
<1>4. PendingInv'
  BY <1>2, <1>3, PendingProgress
<1>5. Saying(p) => Saying(p)'
  BY <1>3, SayingProgress
<1>6. \A q \in Requests \ {p} : Saying(q) => Saying(q)'
  <2>1. UNCHANGED outcome \/ \E x : outcome' = [outcome EXCEPT ![p] = x]
    BY DEF Progress, CacheLookup, Claim, Recheck, LoadSource, LoadDest, LoadClearing,
           Create, CreateDest, LoadDuplicate, Begin, FailBegin, LockRow, DeadlockVictim,
           PostEntry, MarkProcessing, MarkSettled, UpdateStatusTx, Commit, MarkFailed,
           StoreFailed, StoreSettled, Unlock
  <2>2. \A q \in Requests \ {p} : outcome'[q] = outcome[q]
    BY <2>1
  <2>3. QED
    BY <2>2, AnswerProgress DEF Saying, Others
<1>7. ASSUME NEW k \in Keys, txStatus'[k] = "SETTLED"
      PROVE  Saying(maker[k])'
  <2>1. CASE txStatus[k] = "SETTLED"
    <3>1. maker[k] \in Requests /\ Saying(maker[k])
      BY <1>2, <2>1 DEF PostingInv, OwnerInv, NoRow
    <3>2. maker'[k] = maker[k]
      <4>1. ~(CreateDest(p) /\ Inserted(p)) \/ req[p].key # k
        BY <2>1 DEF CreateDest, InsertInv, NoRow
      <4>2. maker' = maker \/ (maker' = [maker EXCEPT ![req[p].key] = p] /\ req[p].key # k)
        BY <4>1, MakerProgress DEF Inserted
      <4>3. QED
        BY <4>2 DEF RowTypes
    <3>3. QED
      BY <1>5, <1>6, <3>1, <3>2
  <2>2. CASE txStatus[k] # "SETTLED"
    <3>1. Commit(p) /\ Committed(p) /\ k = req[p].key
      <4>1. CASE CreateDest(p)
        BY <2>2, <4>1, <1>7 DEF CreateDest, Inserted, RowTypes
      <4>2. CASE MarkFailed(p) \/ FailBegin(p)
        BY <2>2, <4>2, <1>7, SMTT(30) DEF MarkFailed, FailBegin, RowFailed, FailedStatus, RowTypes
      <4>3. CASE Commit(p)
        BY <2>2, <4>3, <1>7 DEF Commit, Committed, dbVars, RowTypes
      <4>4. QED
        BY <2>2, <4>1, <4>2, <4>3, <1>7, RowProgress
    <3>2. maker[k] = p /\ maker'[k] = p
      BY <3>1, Orders DEF Commit, PostingInv, OwnerInv, Owning, Settling, InTx, dbVars
    <3>3. Saying(p)'
      <4>1. /\ outcome' = [outcome EXCEPT ![p] = "SETTLED"]
            /\ Goto(p, "storeSettled") \/ Return(p, "SETTLED")
        BY <1>3, <3>1 DEF Commit, Answering
      <4>2. QED
        BY <4>1 DEF Return, Goto, Saying
    <3>4. QED
      BY <3>2, <3>3
  <2>3. QED
    BY <2>1, <2>2
<1>8. QED
  BY <1>1, <1>2, <1>4, <1>7

LEMMA MatchNext == RowsInv /\ MatchInv /\ [Next]_vars => MatchInv'
<1> SUFFICES ASSUME RowsInv, MatchInv, [Next]_vars PROVE MatchInv'
  OBVIOUS
<1>1. ASSUME NEW p \in Requests, Progress(p) PROVE MatchInv'
  BY <1>1, MatchProgress
<1>2. ASSUME NEW p \in Requests, NEW r \in Payloads, Receive(p, r)
      PROVE  MatchInv'
  <2>1. /\ pc[p] = "idle" /\ Others(p)
        /\ UNCHANGED <<faults, cancelled, txStatus, maker, outcome>>
        /\ \A q \in Requests \ {p} : reply'[q] = reply[q]
    BY <1>2 DEF Receive, Goto, Others, dbVars, envVars, RowsInv, TypeInv, TypeOK, CallTypes
  <2>2. \A k \in Keys : txStatus[k] = "SETTLED" => maker[k] \in Requests
    BY DEF RowsInv, PostingInv, OwnerInv, NoRow
  <2>3. PendingInv => PendingInv'
    BY <1>2, PendingReceive
  <2>4. \A q \in Requests : Saying(q) => Saying(q)'
    BY <2>1 DEF Saying, Others
  <2>5. QED
    BY <2>1, <2>2, <2>3, <2>4 DEF MatchInv
<1>3. CASE UNCHANGED <<faults, cancelled, txStatus, maker, outcome, reply, pc>>
  BY <1>3, PendingQuiet DEF MatchInv, Saying
<1>4. ASSUME Fault("cancel") \/ Fault("crash") \/ Fault("expire") PROVE MatchInv'
  BY <1>4 DEF Fault, MatchInv, RowsInv, TypeInv, TypeOK, EnvTypes
<1>5. CASE Environment \/ Terminating \/ UNCHANGED vars
  BY <1>3, <1>4, <1>5 DEF Environment, Cancel, Crash, Expire, SetAccountStatus, Terminating,
                          vars, dbVars, callVars, envVars
<1>6. QED
  BY <1>1, <1>2, <1>5 DEF Next

\* As long as nothing has failed, the caller that made a row is answered when the row
\* is decided, SETTLED exactly when it is SETTLED.
THEOREM AnswersMatchRows == Spec => []AnswerMatchesRow
<1>1. Init => AnswersInv /\ MakerInv /\ MatchInv
  BY DEF Init, AnswersInv, MakerInv, MatchInv, PendingInv, NoRow
<1>2. RowsInv /\ AnswersInv /\ MakerInv /\ MatchInv => AnswerMatchesRow
  <2> SUFFICES ASSUME RowsInv, AnswersInv, MakerInv, MatchInv, NEW k \in Keys,
                      faults = 0, maker[k] # None, pc[maker[k]] = "done"
               PROVE  /\ txStatus[k] \in {"SETTLED", "FAILED"}
                      /\ reply[maker[k]] = "SETTLED" <=> txStatus[k] = "SETTLED"
    BY DEF AnswerMatchesRow
  <2>1. txStatus[k] # NoRow /\ maker[k] \in Requests /\ req[maker[k]].key = k
    BY DEF MakerInv, RowsInv, PostingInv, OwnerInv
  <2>2. txStatus[k] \notin {"PENDING", "PROCESSING"}
    BY DEF MatchInv, PendingInv, Owning, Settling, InTx
  <2>3. txStatus[k] \in {"SETTLED", "FAILED"}
    BY <2>1, <2>2 DEF RowsInv, TypeInv, TypeOK, RowTypes, TxStatus
  <2>4. txStatus[k] = "SETTLED" => reply[maker[k]] = "SETTLED"
    BY DEF MatchInv, Saying
  <2>5. reply[maker[k]] = "SETTLED" => txStatus[k] = "SETTLED"
    BY <2>1 DEF AnswersInv
  <2>6. QED
    BY <2>3, <2>4, <2>5
<1>3. RowsInv => TypeInv
  BY DEF RowsInv
<1>4. QED
  BY <1>1, <1>2, <1>3, AnswersNext, MakerNext, MatchNext, RowsInvariant, PTL DEF Spec
=============================================================================
