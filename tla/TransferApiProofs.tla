------------------------- MODULE TransferApiProofs -------------------------
(***************************************************************************)
(* Theorems about the money a transfer moves and what its caller is told:  *)
(* balances replay the journal up to what rounding keeps, and nothing else *)
(* stays on the clearing account; postings that block each other meet at   *)
(* that account; and a refusal is final.                                   *)
(***************************************************************************)
EXTENDS TransferApi, TransferRefinementProofs

-----------------------------------------------------------------------------
(***************************************************************************)
(* Balances and the journal.                                               *)
(***************************************************************************)
LEMMA SumOfTwo ==
  ASSUME NEW f, DOMAIN f = 1..2, f[1] \in Int, f[2] \in Int
  PROVE  SumFunction(f) = f[1] + f[2]
<1>1. 1..2 = ({} \cup {1}) \cup {2} /\ 1 \notin {} /\ 2 \notin {} \cup {1}
  OBVIOUS
<1>2. IsFiniteSet({}) /\ IsFiniteSet({} \cup {1})
  BY FS_EmptySet, FS_AddElement
<1>3. SumFunctionOnSet(f, {} \cup {1}) = SumFunctionOnSet(f, {}) + f[1]
  BY <1>1, <1>2, SumAdd
<1>4. SumFunctionOnSet(f, ({} \cup {1}) \cup {2}) = SumFunctionOnSet(f, {} \cup {1}) + f[2]
  BY <1>1, <1>2, SumAdd
<1>5. SumFunctionOnSet(f, {}) = 0
  BY SumEmpty
<1>6. SumFunctionOnSet(f, 1..2) = f[1] + f[2]
  BY <1>1, <1>3, <1>4, <1>5
<1>7. QED
  BY <1>6 DEF SumFunction

\* A commit posts to the row of its call, which had no entries, and changes each
\* balance by what it posts there and what rounding keeps.
LEMMA CommitPosts ==
  ASSUME RefineInv, RefineInv', NEW p \in Requests, Commit(p), Committed(p), NEW a \in Accounts,
         NEW k \in Keys, k = req[p].key
  PROVE  /\ PostedOn(k, a) + KeptOn(k, a) = 0
         /\ (PostedOn(k, a) + KeptOn(k, a))' = delta[p][a]
         /\ \A j \in Keys \ {k} : (PostedOn(j, a) + KeptOn(j, a))' = PostedOn(j, a) + KeptOn(j, a)
<1> DEFINE r == req[p]
           first == StoredEntry(ClearingEntry(r))
           second == StoredEntry(SettlementEntry(r))
           net(e) == NetDelta(e, a, AccountType[a])
<1> USE DEF RefineInv, RowsInv
<1>1. /\ pc[p] = "commit" /\ r \in Order
      /\ txStatus[k] = "PENDING" /\ txStatus'[k] = "SETTLED"
      /\ maker'[k] = p /\ req' = req /\ maker' = maker
  BY CommitRow, Orders DEF Commit, FailTx, PostingInv, OwnerInv, Owning, Settling, InTx, dbVars
<1>2. journal[k] = << >>
  BY <1>1 DEF PostingInv, SettledIffPosted
<1>3. journal'[k] = <<first, second>>
  <2>1. (txStatus[k] = "SETTLED" =>
           journal[k] = <<StoredEntry(ClearingEntry(req[maker[k]])),
                          StoredEntry(SettlementEntry(req[maker[k]]))>>)'
    BY <1>1 DEF PostingInv, SettledIffPosted
  <2>2. QED
    BY <1>1, <2>1 DEF ClearingEntry, SettlementEntry, StoredEntry
<1>4. PostedOn(k, a) + KeptOn(k, a) = 0
  <2>1. DOMAIN [i \in DOMAIN journal[k] |-> net(journal[k][i])] = {}
    BY <1>2
  <2>2. PostedOn(k, a) = 0
    BY <2>1, SumEmpty DEF PostedOn, SumFunction
  <2>3. KeptOn(k, a) = 0
    BY <1>2 DEF KeptOn
  <2>4. QED
    BY <2>2, <2>3
<1>5. /\ first \in Entry /\ second \in Entry /\ net(first) \in Int /\ net(second) \in Int
      /\ Kept(ClearingEntry(r), a) \in Int /\ Kept(SettlementEntry(r), a) \in Int
  <2>1. first \in Entry /\ second \in Entry
    BY <1>1, OrderEntries, WrittenType DEF TypeInv, TypeOK, RowTypes, TxTypes
  <2>2. QED
    BY <2>1, QuantumAssumption DEF NetDelta, DebitDelta, CreditDelta, Entry, Kept
<1>6. PostedOn(k, a)' = net(first) + net(second)
  <2> DEFINE f == [i \in DOMAIN journal'[k] |-> net(journal'[k][i])]
  <2>1. DOMAIN f = 1..2 /\ f[1] = net(first) /\ f[2] = net(second)
    <3> HIDE DEF first, second, net
    <3> QED
      BY <1>3
  <2>2. SumFunction(f) = f[1] + f[2]
    BY <1>5, <2>1, SumOfTwo
  <2>3. PostedOn(k, a)' = SumFunction(f)
    BY <1>1 DEF PostedOn
  <2>4. QED
    BY <2>1, <2>2, <2>3
<1>7. KeptOn(k, a)' = Kept(ClearingEntry(r), a) + Kept(SettlementEntry(r), a)
  <2>1. journal'[k] # << >>
    BY <1>3
  <2>2. QED
    BY <1>1, <2>1 DEF KeptOn, Kept, Change, ClearingEntry, SettlementEntry
<1>8. delta[p][a] = (net(first) + Kept(ClearingEntry(r), a))
                    + (net(second) + Kept(SettlementEntry(r), a))
  BY <1>1 DEF WorkInv, WorkOf, BothEntries, BothChange, Effect
<1>9. (PostedOn(k, a) + KeptOn(k, a))' = delta[p][a]
  <2> HIDE DEF first, second, net
  <2> QED
    BY <1>5, <1>6, <1>7, <1>8
<1>10. ASSUME NEW j \in Keys \ {k}
       PROVE  (PostedOn(j, a) + KeptOn(j, a))' = PostedOn(j, a) + KeptOn(j, a)
  <2>1. journal'[j] = journal[j]
    BY DEF Committed, TypeInv, TypeOK, RowTypes
  <2>2. QED
    BY <1>1, <2>1 DEF PostedOn, KeptOn, Kept, Change, ClearingEntry, SettlementEntry
<1>11. QED
  BY <1>4, <1>9, <1>10

\* The order of a row that has entries stays what it is.
LEMMA PaidOrderKept ==
  ASSUME RefineInv, [Next]_vars, NEW k \in Keys, journal[k] # << >>
  PROVE  maker'[k] = maker[k] /\ req'[maker[k]] = req[maker[k]]
<1> USE DEF RefineInv, RowsInv
<1>1. txStatus[k] # NoRow
  BY DEF PostingInv, SettledIffPosted, NoRow
<1>2. maker[k] \in Requests /\ pc[maker[k]] # "idle"
  BY <1>1 DEF PostingInv, OwnerInv
<1>3. ASSUME NEW p \in Requests, Progress(p)
      PROVE  maker'[k] = maker[k] /\ req' = req
  <2>1. req' = req
    BY <1>3, AnswerProgress
  <2>2. maker' = maker \/ (CreateDest(p) /\ Inserted(p))
    BY <1>3, MakerProgress
  <2>3. CreateDest(p) => txStatus[req[p].key] = NoRow
    BY DEF CreateDest, InsertInv
  <2>4. QED
    BY <1>1, <2>1, <2>2, <2>3 DEF Inserted, TypeInv, TypeOK, RowTypes
<1>4. ASSUME NEW p \in Requests, NEW r \in Payloads, Receive(p, r)
      PROVE  maker'[k] = maker[k] /\ req'[maker[k]] = req[maker[k]]
  BY <1>2, <1>4 DEF Receive, dbVars, TypeInv, TypeOK, CallTypes
<1>5. CASE Environment \/ Terminating \/ UNCHANGED vars
  BY <1>5 DEF Environment, Terminating, Cancel, Crash, Expire, SetAccountStatus, vars, dbVars,
              callVars
<1>6. QED
  BY <1>3, <1>4, <1>5 DEF Next

LEMMA ReplayNext ==
  ASSUME IsFiniteSet(Keys)
  PROVE  RefineInv /\ RefineInv' /\ BalancesMatchJournal /\ [Next]_vars => BalancesMatchJournal'
<1> SUFFICES ASSUME RefineInv, RefineInv', BalancesMatchJournal, [Next]_vars, NEW a \in Accounts
             PROVE  balance'[a] = InitBalance[a]
                                + SumFunction([j \in Keys |-> PostedOn(j, a)' + KeptOn(j, a)'])
  BY DEF BalancesMatchJournal
<1> DEFINE f == [j \in Keys |-> PostedOn(j, a) + KeptOn(j, a)]
           g == [j \in Keys |-> PostedOn(j, a)' + KeptOn(j, a)']
<1>1. CASE UNCHANGED <<balance, journal>>
  <2>1. ASSUME NEW j \in Keys
        PROVE  PostedOn(j, a)' = PostedOn(j, a) /\ KeptOn(j, a)' = KeptOn(j, a)
    <3>1. PostedOn(j, a)' = PostedOn(j, a)
      BY <1>1 DEF PostedOn
    <3>2. CASE journal[j] = << >>
      BY <1>1, <3>1, <3>2 DEF KeptOn
    <3>3. CASE journal[j] # << >>
      <4>1. maker'[j] = maker[j] /\ req'[maker[j]] = req[maker[j]]
        BY <3>3, PaidOrderKept
      <4>2. QED
        BY <1>1, <3>1, <3>3, <4>1 DEF KeptOn, Kept, Change, ClearingEntry, SettlementEntry
    <3>4. QED
      BY <3>2, <3>3
  <2>2. g = f
    BY <2>1
  <2>3. QED
    BY <1>1, <2>2 DEF BalancesMatchJournal
<1>2. ASSUME NEW p \in Requests, Commit(p), Committed(p)
      PROVE  balance'[a] = InitBalance[a] + SumFunction(g)
  <2>0. PICK k \in Keys : k = req[p].key
    BY <1>2, Orders DEF Commit, RefineInv, RowsInv
  <2>1. /\ f[k] = 0 /\ g[k] = delta[p][a]
        /\ \A j \in Keys \ {k} : g[j] = f[j]
    <3>1. /\ PostedOn(k, a) + KeptOn(k, a) = 0
          /\ PostedOn(k, a)' + KeptOn(k, a)' = delta[p][a]
          /\ \A j \in Keys \ {k} :
               PostedOn(j, a)' + KeptOn(j, a)' = PostedOn(j, a) + KeptOn(j, a)
      BY <1>2, <2>0, CommitPosts
    <3>2. QED
      BY <3>1
  <2>2. balance'[a] = balance[a] + delta[p][a]
    BY <1>2 DEF Committed
  <2>3. delta[p][a] \in Int /\ balance[a] \in Int /\ InitBalance[a] \in Int
    BY AccountsAssumption DEF RefineInv, RowsInv, TypeInv, TypeOK, RowTypes, TxTypes
  <2>4. \A j \in Keys : f[j] \in Int /\ g[j] \in Int
    <3>1. ASSUME NEW j \in Keys PROVE PostedOn(j, a) + KeptOn(j, a) \in Int
      <4> DEFINE h == [i \in DOMAIN journal[j] |-> NetDelta(journal[j][i], a, AccountType[a])]
      <4>1. journal[j] \in Seq(Entry)
        BY DEF RefineInv, RowsInv, TypeInv, TypeOK, RowTypes
      <4>2. DOMAIN h = 1..Len(journal[j]) /\ Len(journal[j]) \in Nat
        BY <4>1
      <4>3. IsFiniteSet(DOMAIN h)
        <5>1. IsFiniteSet(1..Len(journal[j]))
          BY <4>2, FS_Interval
        <5>2. QED
          BY <4>2, <5>1
      <4>4. \A i \in DOMAIN h : h[i] \in Int
        <5>1. \A i \in DOMAIN h : journal[j][i] \in Entry
          BY <4>1, <4>2
        <5>2. QED
          BY <5>1 DEF Entry, NetDelta, DebitDelta, CreditDelta
      <4>5. PostedOn(j, a) \in Int
        BY <4>3, <4>4, SumType DEF PostedOn, SumFunction
      <4>6. KeptOn(j, a) \in Int
        BY QuantumAssumption DEF KeptOn, Kept
      <4>7. QED
        BY <4>5, <4>6
    <3>2. QED
      BY <2>1, <2>3, <3>1
  <2>5. SumFunctionOnSet(g, Keys) = SumFunctionOnSet(f, Keys) + (g[k] - f[k])
    BY <2>1, <2>4, SumChange
  <2>6. SumFunctionOnSet(f, Keys) \in Int
    BY <2>4, SumType
  <2>7. SumFunction(g) = SumFunction(f) + delta[p][a] /\ SumFunction(f) \in Int
    BY <2>1, <2>3, <2>5, <2>6 DEF SumFunction
  <2>8. balance[a] = InitBalance[a] + SumFunction(f)
    BY DEF BalancesMatchJournal
  <2>9. QED
    BY <2>2, <2>3, <2>7, <2>8
<1>3. QED
  BY <1>1, <1>2, MoneySteps

\* accounts.balance is never anything else than the opening balance, the replay of the
\* stored lines and a stored unit for each half-way amount that lowered it, although
\* each posting adds an unrounded amount to what it finds: the two roundings drift no
\* further, no update is lost and none counts twice, whatever interleaves or fails.
THEOREM BalancesReplayTheJournal ==
  ASSUME IsFiniteSet(Keys)
  PROVE  Spec => []BalancesMatchJournal
<1>1. Init => BalancesMatchJournal
  <2> SUFFICES ASSUME Init, NEW a \in Accounts
               PROVE  balance[a] = InitBalance[a]
                                 + SumFunction([k \in Keys |-> PostedOn(k, a) + KeptOn(k, a)])
    BY DEF BalancesMatchJournal
  <2>1. ASSUME NEW k \in Keys PROVE PostedOn(k, a) + KeptOn(k, a) = 0
    <3>1. DOMAIN [i \in DOMAIN journal[k] |-> NetDelta(journal[k][i], a, AccountType[a])] = {}
      BY DEF Init
    <3>2. PostedOn(k, a) = 0
      BY <3>1, SumEmpty DEF PostedOn, SumFunction
    <3>3. KeptOn(k, a) = 0
      BY DEF Init, KeptOn
    <3>4. QED
      BY <3>2, <3>3
  <2>2. SumFunction([k \in Keys |-> PostedOn(k, a) + KeptOn(k, a)]) = 0
    BY <2>1, SumOfZeros DEF SumFunction
  <2>3. QED
    BY <2>2, AccountsAssumption DEF Init
<1>2. QED
  BY <1>1, RefineInvariant, ReplayNext, PTL DEF Spec

-----------------------------------------------------------------------------
(***************************************************************************)
(* Postings and deadlocks. A transfer locks the rows of an entry in the    *)
(* order of their ids, but it does so twice, and keeps the rows of its     *)
(* first entry while it waits for those of its second. That alone lets     *)
(* postings block each other, and only at the clearing account.            *)
(***************************************************************************)
\* Only an open transaction holds rows, and one that posts its clearing entry holds
\* its two in the order of their ids.
LocksInv ==
  \A p \in Requests, a \in Accounts : lock[a] = p =>
    /\ pc[p] \in InTx
    /\ pc[p] = "postClearing" =>
         /\ a \in {req[p].from, Clearing}
         /\ \A b \in {req[p].from, Clearing} : b < a => lock[b] = p

\* A call's step leaves the locks alone, gives up all its own or takes its next row.
LEMMA LockProgress ==
  ASSUME TypeInv, NEW p \in Requests, Progress(p)
  PROVE  \/ lock' = lock /\ (pc[p] \notin InTx \/ pc'[p] \in InTx \ {"postClearing"})
         \/ EndTx(p)
         \/ \E a \in Accounts : /\ IsNextRow(p, a) /\ lock[a] = None
                                /\ lock' = [lock EXCEPT ![a] = p] /\ pc' = pc
<1>1. ASSUME \/ CacheLookup(p) \/ Claim(p) \/ Recheck(p)
             \/ LoadSource(p) \/ LoadDest(p) \/ LoadClearing(p)
             \/ Create(p) \/ CreateDest(p) \/ LoadDuplicate(p) \/ Begin(p) \/ FailBegin(p)
             \/ MarkFailed(p) \/ StoreFailed(p) \/ StoreSettled(p) \/ Unlock(p)
      PROVE  lock' = lock /\ pc[p] \notin InTx
  BY <1>1, SMTT(30)
     DEF CacheLookup, Claim, Recheck, LoadSource, LoadDest, LoadClearing, Create, CreateDest,
         LoadDuplicate, Begin, FailBegin, MarkFailed, StoreFailed, StoreSettled, Unlock, txVars,
         InTx
<1>2. ASSUME PostEntry(p) \/ MarkProcessing(p) \/ MarkSettled(p)
      PROVE  EndTx(p) \/ (lock' = lock /\ pc'[p] \in InTx \ {"postClearing"})
  BY <1>2 DEF PostEntry, MarkProcessing, MarkSettled, UpdateStatusTx, FailTx, Goto, InTx,
              TypeInv, TypeOK, CallTypes
<1>3. ASSUME DeadlockVictim(p) \/ Commit(p)
      PROVE  EndTx(p) \/ (lock' = lock /\ pc[p] \notin InTx)
  BY <1>3 DEF DeadlockVictim, Commit, Committed, FailTx, txVars, InTx
<1>4. ASSUME NEW a \in Accounts, LockRow(p, a)
      PROVE  \/ EndTx(p)
             \/ /\ IsNextRow(p, a) /\ lock[a] = None
                /\ lock' = [lock EXCEPT ![a] = p] /\ pc' = pc
  BY <1>4 DEF LockRow, FailTx
<1>5. QED
  BY <1>1, <1>2, <1>3, <1>4 DEF Progress

LEMMA LocksProgress ==
  ASSUME RowsInv, TypeInv, LocksInv, NEW p \in Requests, Progress(p)
  PROVE  LocksInv'
<1>1. req' = req /\ Others(p)
  BY AnswerProgress
<1>2. lock \in [Accounts -> Requests \cup {None}] /\ None \notin Requests /\ Clearing \in Accounts
  BY BoundsAssumption, AccountsAssumption DEF TypeInv, TypeOK, TxTypes
\* What holds of the others' rows is kept when they keep their rows and get no other.
<1>3. ASSUME NEW q \in Requests \ {p}, NEW a \in Accounts, lock'[a] = q,
             \A b \in Accounts : lock'[b] = q <=> lock[b] = q
      PROVE  /\ pc'[q] \in InTx
             /\ pc'[q] = "postClearing" =>
                  /\ a \in {req'[q].from, Clearing}
                  /\ \A b \in {req'[q].from, Clearing} : b < a => lock'[b] = q
  <2>1. pc[q] \in InTx => req[q].from \in Accounts
    BY Orders DEF InTx, Order
  <2>2. QED
    BY <1>1, <1>2, <1>3, <2>1 DEF Others, LocksInv
<1>4. CASE lock' = lock /\ (pc[p] \notin InTx \/ pc'[p] \in InTx \ {"postClearing"})
  BY <1>3, <1>4 DEF LocksInv
<1>5. CASE EndTx(p)
  <2>1. \A a \in Accounts : lock'[a] # p
    BY <1>2, <1>5 DEF EndTx
  <2>2. \A q \in Requests \ {p}, b \in Accounts : lock'[b] = q <=> lock[b] = q
    BY <1>2, <1>5 DEF EndTx
  <2>3. QED
    BY <1>3, <2>1, <2>2 DEF LocksInv
<1>6. ASSUME NEW n \in Accounts, IsNextRow(p, n), lock[n] = None,
             lock' = [lock EXCEPT ![n] = p], pc' = pc
      PROVE  LocksInv'
  <2>1. \A b \in Accounts : lock'[b] = IF b = n THEN p ELSE lock[b]
    BY <1>2, <1>6
  <2>2. \A q \in Requests \ {p}, b \in Accounts : lock'[b] = q <=> lock[b] = q
    BY <1>2, <1>6, <2>1
  <2>3. pc[p] \in InTx
    BY <1>6 DEF IsNextRow, InTx
  <2>4. ASSUME pc[p] = "postClearing", NEW a \in Accounts, lock'[a] = p
        PROVE  /\ a \in {req[p].from, Clearing}
               /\ \A b \in {req[p].from, Clearing} : b < a => lock'[b] = p
    <3>1. RowsOf(EntryOf(p)) = {req[p].from, Clearing} /\ req[p].from \in Accounts
      BY <2>3, <2>4, Orders DEF EntryOf, ClearingEntry, RowsOf, InTx, Order
    <3>2. CASE a = n
      <4>1. \A b \in {req[p].from, Clearing} : lock[b] = p \/ n <= b
        BY <1>2, <1>6, <3>1 DEF IsNextRow, Held
      <4>2. \A b \in Accounts : b \in Nat
        BY AccountsAssumption
      <4>3. \A b \in {req[p].from, Clearing} : b < n => lock[b] = p
        BY <1>2, <3>1, <4>1, <4>2
      <4>4. QED
        BY <1>2, <1>6, <2>1, <3>1, <3>2, <4>3 DEF IsNextRow
    <3>3. CASE a # n
      BY <1>2, <2>1, <2>4, <3>1, <3>3 DEF LocksInv
    <3>4. QED
      BY <3>2, <3>3
  <2>5. QED
    BY <1>1, <1>3, <1>6, <2>2, <2>3, <2>4 DEF LocksInv
<1>7. QED
  BY <1>4, <1>5, <1>6, LockProgress

LEMMA LocksNext == RowsInv /\ LocksInv /\ [Next]_vars => LocksInv'
<1> SUFFICES ASSUME RowsInv, TypeInv, LocksInv, [Next]_vars PROVE LocksInv'
  BY DEF RowsInv
<1>1. ASSUME NEW p \in Requests, Progress(p) PROVE LocksInv'
  BY <1>1, LocksProgress
<1>2. ASSUME NEW p \in Requests, NEW r \in Payloads, Receive(p, r) PROVE LocksInv'
  <2>1. lock' = lock /\ \A a \in Accounts : lock[a] # p
    BY <1>2 DEF Receive, txVars, LocksInv, InTx
  <2>2. \A q \in Requests \ {p} : pc'[q] = pc[q] /\ req'[q] = req[q]
    BY <1>2 DEF Receive, Goto, TypeInv, TypeOK, CallTypes
  <2>3. QED
    BY <2>1, <2>2 DEF LocksInv
<1>3. CASE Crash
  BY <1>3, BoundsAssumption DEF Crash, LocksInv
<1>4. CASE (Environment /\ ~Crash) \/ Terminating \/ UNCHANGED vars
  BY <1>4 DEF Environment, Cancel, Expire, SetAccountStatus, Terminating, vars, txVars, callVars,
              LocksInv
<1>5. QED
  BY <1>1, <1>2, <1>3, <1>4 DEF Next

\* One posting waits for another: for the rows of its first entry, or, holding the
\* clearing account, for its destination.
LEMMA PostingWaits ==
  ASSUME TypeInv, WorkInv, NEW p \in Posting, NEW q \in Posting, WaitsFor(p, q)
  PROVE  \E a \in Accounts :
           /\ lock[a] = q /\ lock[a] # p
           /\ pc[p] = "postClearing" =>
                a \in {req[p].from, Clearing} /\ \A b \in {req[p].from, Clearing} : lock[b] = p \/ a <= b
           /\ pc[p] = "postSettlement" => lock[Clearing] = p /\ a = req[p].to /\ a # Clearing
<1>1. PICK a \in Accounts : IsNextRow(p, a) /\ lock[a] = q
  BY DEF WaitsFor, Sharers, Posting
<1>2. lock[a] # p
  BY <1>1 DEF IsNextRow, Held
<1>3. pc[p] = "postClearing" =>
        a \in {req[p].from, Clearing} /\ \A b \in {req[p].from, Clearing} : lock[b] = p \/ a <= b
  <2>1. pc[p] = "postClearing" => req[p].from \in Accounts /\ Clearing \in Accounts
    BY Orders, AccountsAssumption DEF Posting, Order
  <2>2. QED
    BY <1>1, <2>1 DEF IsNextRow, Held, EntryOf, ClearingEntry, RowsOf
<1>4. pc[p] = "postSettlement" => lock[Clearing] = p /\ a = req[p].to /\ a # Clearing
  <2>1. pc[p] = "postSettlement" => lock[Clearing] = p
    BY DEF WorkInv, WorkOf, OneEntry, Checked, Posting
  <2>2. QED
    BY <1>1, <1>2, <2>1 DEF IsNextRow, Held, EntryOf, SettlementEntry, RowsOf
<1>5. QED
  BY <1>1, <1>2, <1>3, <1>4

\* A posting that holds the clearing account and waits for another meets it there.
LEMMA HolderMeets ==
  ASSUME TypeInv, WorkInv, LocksInv, NEW q \in Posting, NEW r \in Posting, WaitsFor(q, r),
         lock[Clearing] = q
  PROVE  MeetAtClearing(q, r)
<1>1. PICK a \in Accounts :
           /\ lock[a] = r /\ lock[a] # q
           /\ pc[q] = "postClearing" =>
                a \in {req[q].from, Clearing} /\ \A b \in {req[q].from, Clearing} : lock[b] = q \/ a <= b
           /\ pc[q] = "postSettlement" => lock[Clearing] = q /\ a = req[q].to /\ a # Clearing
  BY PostingWaits
<1>2. a # Clearing /\ a \in Nat /\ Clearing \in Nat /\ Clearing \in Accounts
  BY <1>1, AccountsAssumption
<1>3. pc[r] = "postClearing"
  <2>1. pc[r] = "postSettlement" => lock[Clearing] = r
    BY DEF WorkInv, WorkOf, OneEntry, Checked, Posting
  <2>2. QED
    BY <1>1, <2>1 DEF Posting
<1>4. a = req[r].from /\ a < Clearing
  <2>1. /\ a \in {req[r].from, Clearing}
        /\ \A b \in {req[r].from, Clearing} : b < a => lock[b] = r
    BY <1>1, <1>3 DEF LocksInv, Posting
  <2>2. ~(Clearing < a)
    BY <1>1, <2>1
  <2>3. QED
    BY <1>2, <2>1, <2>2
<1>5. pc[q] = "postSettlement"
  <2>1. ASSUME pc[q] = "postClearing" PROVE FALSE
    <3>1. a = req[q].from /\ \A b \in {req[q].from, Clearing} : b < Clearing => lock[b] = q
      BY <1>1, <1>2, <2>1 DEF LocksInv, Posting
    <3>2. QED
      BY <1>1, <1>4, <3>1
  <2>2. QED
    BY <2>1 DEF Posting
<1>6. QED
  BY <1>1, <1>3, <1>4, <1>5 DEF MeetAtClearing

\* In a circle of postings somebody holds the clearing account: whoever is waited for,
\* or whoever that one waits for.
LEMMA SomeoneHolds ==
  ASSUME TypeInv, WorkInv, LocksInv, NEW p \in Posting, NEW q \in Posting, NEW r \in Posting,
         WaitsFor(p, q), WaitsFor(q, r)
  PROVE  lock[Clearing] \in {q, r}
<1>1. PICK a \in Accounts : lock[a] = q
  BY PostingWaits
<1>2. PICK b \in Accounts :
           /\ lock[b] = r /\ lock[b] # q
           /\ pc[q] = "postClearing" =>
                b \in {req[q].from, Clearing} /\ \A x \in {req[q].from, Clearing} : lock[x] = q \/ b <= x
           /\ pc[q] = "postSettlement" => lock[Clearing] = q /\ b = req[q].to /\ b # Clearing
  BY PostingWaits
<1>3. CASE pc[q] = "postSettlement"
  BY <1>2, <1>3
<1>4. CASE pc[q] = "postClearing"
  <2>1. a \in {req[q].from, Clearing} /\ b \in {req[q].from, Clearing} /\ a # b
    BY <1>1, <1>2, <1>4 DEF LocksInv, Posting
  <2>2. QED
    BY <1>1, <1>2, <2>1
<1>5. QED
  BY <1>3, <1>4 DEF Posting

\* Postings that wait for each other in a circle, of whatever length and however many
\* calls and accounts there are, contain two opposed transfers that meet at the
\* clearing account. There is no such pair, and no circle, where the clearing account
\* has the lowest id; but ids are random, and nothing in the code makes it so.
THEOREM CirclesAreOpposed == Spec => []CirclesMeetAtClearing
<1>1. Init => LocksInv
  BY BoundsAssumption DEF Init, LocksInv
<1>2. TypeInv /\ WorkInv /\ LocksInv => CirclesMeetAtClearing
  <2> SUFFICES ASSUME TypeInv, WorkInv, LocksInv, NEW n \in 1..Cardinality(Posting),
                      NEW c \in [1..n -> Posting],
                      \A i \in 1..n : WaitsFor(c[i], c[(i % n) + 1])
               PROVE  \E q, r \in Posting : MeetAtClearing(q, r)
    BY DEF CirclesMeetAtClearing, OnCycle
  <2> DEFINE next(i) == (i % n) + 1
  <2>1. n \in Nat \ {0}
    OBVIOUS
  <2>2. \A i \in 1..n : next(i) \in 1..n
    BY <2>1
  <2> DEFINE i1 == 1
             i2 == next(i1)
             i3 == next(i2)
             i4 == next(i3)
  <2>3. i1 \in 1..n /\ i2 \in 1..n /\ i3 \in 1..n /\ i4 \in 1..n
    <3>1. i1 \in 1..n
      BY <2>1
    <3>2. i2 \in 1..n
      BY <2>2, <3>1
    <3>3. i3 \in 1..n
      BY <2>2, <3>2
    <3>4. QED
      BY <2>2, <3>1, <3>2, <3>3
  <2>4. /\ WaitsFor(c[i1], c[i2]) /\ WaitsFor(c[i2], c[i3]) /\ WaitsFor(c[i3], c[i4])
        /\ {c[i1], c[i2], c[i3], c[i4]} \subseteq Posting
    BY <2>3
  <2>5. lock[Clearing] \in {c[i2], c[i3]}
    BY <2>4, SomeoneHolds
  <2>6. QED
    BY <2>4, <2>5, HolderMeets
<1>3. QED
  BY <1>1, <1>2, RefineInvariant, LocksNext, PTL DEF Spec, RefineInv, RowsInv

-----------------------------------------------------------------------------
(***************************************************************************)
(* The clearing account. An order that pays out of it is turned away while *)
(* its balance is zero, and one that passes through it leaves nothing, or  *)
(* what rounding keeps of a half-way amount.                               *)
(***************************************************************************)
\* The labels of a call whose source has passed the checks of LoadDest.
Funded == {"loadClearing", "create", "createDest", "begin"} \cup InTx

NoHalves == \A k \in Keys : txStatus[k] = "SETTLED" => ~HalfWay(req[maker[k]].amount)

ClearingInv ==
  OnlyPassesThrough /\ NoHalves =>
    /\ balance[Clearing] = 0
    /\ \A p \in Requests : req[p].from = Clearing =>
         /\ pc[p] = "loadDest" => view[p].balance = 0
         /\ pc[p] \notin Funded

\* What a commit leaves of a transfer on the clearing account, when neither of its
\* ends is that account and its amount is not half-way: nothing.
LEMMA CommitClears ==
  ASSUME RefineInv, NEW p \in Requests, Commit(p), Committed(p),
         req[p].from # Clearing, req[p].to # Clearing, ~HalfWay(req[p].amount)
  PROVE  balance'[Clearing] = balance[Clearing]
<1> USE DEF RefineInv, RowsInv
<1>1. pc[p] = "commit" /\ req[p] \in Order /\ Clearing \in Accounts
  BY Orders, AccountsAssumption DEF Commit
<1>2. delta[p][Clearing] = BothChange(req[p])[Clearing]
  BY <1>1 DEF WorkInv, WorkOf, BothEntries
<1>3. delta[p][Clearing] = 0
  <2>1. req[p].from # req[p].to
    BY <1>1 DEF ValidInv, Live, Valid
  <2>2. QED
    BY <1>1, <1>2, <2>1, BothEffects
<1>4. QED
  BY <1>1, <1>3 DEF Committed, TypeInv, TypeOK, RowTypes

\* What a call has read is its own.
LEMMA ViewProgress ==
  ASSUME TypeInv, NEW p \in Requests, Progress(p)
  PROVE  \A q \in Requests \ {p} : view'[q] = view[q]
<1>1. CASE LoadSource(p) \/ LoadDest(p)
  BY <1>1 DEF LoadSource, LoadDest, TypeInv, TypeOK, CallTypes
<1>2. CASE \/ CacheLookup(p) \/ Claim(p) \/ Recheck(p) \/ LoadClearing(p)
           \/ Create(p) \/ CreateDest(p) \/ LoadDuplicate(p) \/ Begin(p) \/ FailBegin(p)
           \/ MarkFailed(p) \/ StoreFailed(p) \/ StoreSettled(p) \/ Unlock(p)
  BY <1>2 DEF CacheLookup, Claim, Recheck, LoadClearing, Create, CreateDest, LoadDuplicate, Begin,
              FailBegin, MarkFailed, StoreFailed, StoreSettled, Unlock
<1>3. CASE \/ \E a \in Accounts : LockRow(p, a)
           \/ DeadlockVictim(p) \/ PostEntry(p) \/ MarkProcessing(p) \/ MarkSettled(p)
           \/ Commit(p)
  BY <1>3 DEF LockRow, DeadlockVictim, PostEntry, MarkProcessing, MarkSettled, UpdateStatusTx, Commit
<1>4. QED
  BY <1>1, <1>2, <1>3 DEF Progress

\* A call gets past LoadDest only with funds that LoadSource saw.
LEMMA FundedStep ==
  ASSUME RefineInv, ClearingInv, OnlyPassesThrough, NoHalves,
         NEW p \in Requests, Progress(p), req[p].from = Clearing
  PROVE  (pc'[p] = "loadDest" => view'[p].balance = 0) /\ pc'[p] \notin Funded
<1> USE DEF RefineInv, RowsInv, TypeInv, TypeOK, CallTypes
<1> DEFINE Goal == (pc'[p] = "loadDest" => view'[p].balance = 0) /\ pc'[p] \notin Funded
<1>1. Live(p) /\ pc[p] \notin Funded /\ pc[p] # "loadClearing"
  BY AnswerProgress DEF ClearingInv, Funded
<1>2. CASE LoadSource(p)
  <2>1. balance[Clearing] = 0
    BY DEF ClearingInv
  <2>2. Goal
    BY <1>2, <2>1 DEF LoadSource, Return, Goto, Funded, InTx
  <2>3. QED
    BY <2>2
<1>3. CASE LoadDest(p)
  <2>1. view[p].balance = 0 /\ req[p].amount > 0 /\ req[p].amount \in Int
    BY <1>1, <1>3, Orders DEF LoadDest, ClearingInv, ValidInv, Valid, Order
  <2>2. Refusal(req[p], view[p]) # NoRow
    BY <2>1 DEF Refusal, NoRow
  <2>3. Goal
    BY <1>3, <2>2 DEF LoadDest, Return, Goto, Funded, InTx
  <2>4. QED
    BY <2>3
<1>4. CASE CacheLookup(p) \/ Claim(p) \/ Recheck(p) \/ LoadDuplicate(p)
  <2>1. Goal
    BY <1>4 DEF CacheLookup, Claim, Recheck, LoadDuplicate, Return, Goto, Funded, InTx
  <2>2. QED
    BY <2>1
<1>5. CASE FailBegin(p) \/ MarkFailed(p) \/ StoreFailed(p) \/ StoreSettled(p) \/ Unlock(p)
  <2>1. Goal
    BY <1>5 DEF FailBegin, MarkFailed, StoreFailed, StoreSettled, Unlock, GotoStoreFailed, Return,
                Goto, Funded, InTx
  <2>2. QED
    BY <2>1
<1>6. QED
  BY <1>1, <1>2, <1>3, <1>4, <1>5 DEF Progress, LoadClearing, Create, CreateDest, Begin, LockRow,
     IsNextRow, DeadlockVictim, PostEntry, MarkProcessing, MarkSettled, Commit, Funded, InTx

\* A settled order is never changed again.
LEMMA HalvesStay ==
  ASSUME RefineInv, [Next]_vars, NoHalves'
  PROVE  NoHalves
<1> USE DEF RefineInv, RowsInv
<1> SUFFICES ASSUME NEW k \in Keys, txStatus[k] = "SETTLED"
             PROVE  ~HalfWay(req[maker[k]].amount)
  BY DEF NoHalves
<1>1. journal[k] # << >>
  <2>1. \E x, y : journal[k] = <<x, y>>
    BY DEF PostingInv, SettledIffPosted
  <2>2. QED
    BY <2>1
<1>2. maker'[k] = maker[k] /\ req'[maker[k]] = req[maker[k]]
  BY <1>1, PaidOrderKept
<1>3. txStatus'[k] = "SETTLED"
  BY TerminalKept DEF Terminal
<1>4. QED
  BY <1>2, <1>3 DEF NoHalves, HalfWay

LEMMA ClearingNext ==
  RefineInv /\ ClearingInv /\ [Next]_vars => ClearingInv'
<1> SUFFICES ASSUME RefineInv, ClearingInv, [Next]_vars, OnlyPassesThrough', NoHalves'
             PROVE  /\ balance'[Clearing] = 0
                    /\ \A q \in Requests : req'[q].from = Clearing =>
                         /\ pc'[q] = "loadDest" => view'[q].balance = 0
                         /\ pc'[q] \notin Funded
  BY DEF ClearingInv
<1> USE DEF RefineInv, RowsInv, TypeInv, TypeOK, CallTypes
<1>1. \A p \in Requests : req'[p] = req[p] \/ req[p] = NoReq
  <2>1. ASSUME NEW p \in Requests, Progress(p) PROVE req' = req
    BY <2>1, AnswerProgress
  <2>2. ASSUME NEW p \in Requests, NEW r \in Payloads, Receive(p, r)
        PROVE  \A q \in Requests : req'[q] = req[q] \/ req[q] = NoReq
    BY <2>2 DEF Receive, ValidInv
  <2>3. CASE Environment \/ Terminating \/ UNCHANGED vars
    BY <2>3 DEF Environment, Terminating, Cancel, Crash, Expire, SetAccountStatus, vars, callVars
  <2>4. QED
    BY <2>1, <2>2, <2>3 DEF Next
<1>2. OnlyPassesThrough /\ NoHalves
  BY <1>1, HalvesStay, AccountsAssumption DEF OnlyPassesThrough, NoReq, NilId
<1>3. /\ balance[Clearing] = 0
      /\ \A q \in Requests : req[q].from = Clearing =>
           (pc[q] = "loadDest" => view[q].balance = 0) /\ pc[q] \notin Funded
  BY <1>2 DEF ClearingInv
<1>4. balance'[Clearing] = 0
  <2>1. ASSUME NEW p \in Requests, Commit(p), Committed(p)
        PROVE  balance'[Clearing] = balance[Clearing]
    <3>1. req[p].from # Clearing /\ req[p].to # Clearing
      BY <1>2, <1>3, <2>1 DEF Commit, Funded, InTx, OnlyPassesThrough
    <3>2. PICK k \in Keys : k = req[p].key
      BY <2>1, Orders DEF Commit
    <3>3. txStatus'[k] = "SETTLED" /\ maker'[k] = p /\ req' = req
      BY <2>1, <3>2, CommitRow DEF Commit, FailTx, PostingInv, OwnerInv, Owning, Settling, InTx,
                                   dbVars
    <3>4. ~HalfWay(req[p].amount)
      BY <3>3 DEF NoHalves, HalfWay
    <3>5. QED
      BY <2>1, <3>1, <3>4, CommitClears
  <2>2. QED
    BY <1>3, <2>1, MoneySteps
<1>5. ASSUME NEW q \in Requests, req'[q].from = Clearing
      PROVE  (pc'[q] = "loadDest" => view'[q].balance = 0) /\ pc'[q] \notin Funded
  <2>1. ASSUME NEW p \in Requests, Progress(p), p # q
        PROVE  pc'[q] = pc[q] /\ view'[q] = view[q] /\ req'[q] = req[q]
    <3>1. view'[q] = view[q]
      BY <2>1, ViewProgress
    <3>2. QED
      BY <2>1, <3>1, AnswerProgress DEF Others
  <2>2. ASSUME Progress(q)
        PROVE  (pc'[q] = "loadDest" => view'[q].balance = 0) /\ pc'[q] \notin Funded
    BY <1>2, <1>5, <2>2, FundedStep, AnswerProgress
  <2>3. ASSUME NEW p \in Requests, NEW r \in Payloads, Receive(p, r)
        PROVE  /\ view' = view /\ (pc'[q] = pc[q] \/ pc'[q] \notin Funded \cup {"loadDest"})
               /\ req'[q] = req[q] \/ pc'[q] \notin Funded \cup {"loadDest"}
    BY <2>3 DEF Receive, Goto, Funded, InTx
  <2>4. CASE Environment \/ Terminating \/ UNCHANGED vars
    <3>1. /\ req' = req /\ view' = view
          /\ pc'[q] = pc[q] \/ pc'[q] = "dead"
      BY <2>4 DEF Environment, Terminating, Cancel, Crash, Expire, SetAccountStatus, vars, callVars
    <3>2. QED
      BY <1>3, <1>5, <3>1 DEF Funded, InTx
  <2>5. QED
    BY <1>3, <1>5, <2>1, <2>2, <2>3, <2>4 DEF Next, Funded, InTx
<1>6. QED
  BY <1>4, <1>5

\* GET /health/clearing answers 200 at every moment, in the middle of a transfer and
\* after a failure at any point of one, until a half-way amount has settled.
THEOREM AlarmsAreHalves == Spec => []OnlyHalvesAlarm
<1>1. Init => ClearingInv
  BY AccountsAssumption DEF Init, ClearingInv, OnlyPassesThrough, Funded, InTx, NoReq, NilId
<1>2. ClearingInv => OnlyHalvesAlarm
  BY DEF ClearingInv, OnlyHalvesAlarm, OnlyPassesThrough, NoHalves, GetClearingHealth
<1>3. RefineInv => RowsInv
  BY DEF RefineInv
<1>4. QED
  BY <1>1, <1>2, <1>3, RefineInvariant, ClearingNext, PTL DEF Spec

-----------------------------------------------------------------------------
(***************************************************************************)
(* Refusals. A call is refused before it has inserted its row, or in the   *)
(* transaction that would have settled it; either way it can no longer     *)
(* commit, and nobody else commits its row.                                *)
(***************************************************************************)
Refusals == {"invalid", "insufficient", "mismatch", "not_found", "no_clearing"}

\* The labels of a call that has not inserted a row, and of one past its commit.
Early   == {"idle", "cacheLookup", "claim", "recheck", "loadSource", "loadDest", "loadClearing",
            "create", "createDest"}
Closing == {"markFailed", "storeFailed", "unlock", "done", "dead"}

Unpaid(p) == \A k \in Keys : maker[k] = p => txStatus[k] # "SETTLED"

RefusedInv ==
  \A p \in Requests :
    /\ pc[p] \in Early => \A k \in Keys : maker[k] # p
    /\ reply[p] \in Refusals => pc[p] \in Closing /\ Unpaid(p)

\* A call comes to refuse before it has a row or before it commits one.
LEMMA RefusalProgress ==
  ASSUME RowsInv, NEW p \in Requests, Progress(p)
  PROVE  /\ pc'[p] \in Early => pc[p] \in Early
         /\ pc[p] \in Closing => pc'[p] \in Closing
         /\ reply'[p] \in Refusals =>
              \/ reply[p] \in Refusals
              \/ /\ pc[p] \in Early \cup Settling /\ pc'[p] \in Closing
                 /\ UNCHANGED <<maker, txStatus>>
<1> USE DEF RowsInv, TypeInv, TypeOK, CallTypes
<1> DEFINE Goal == /\ pc'[p] \in Early => pc[p] \in Early
                   /\ pc[p] \in Closing => pc'[p] \in Closing
                   /\ reply'[p] \in Refusals =>
                        \/ reply[p] \in Refusals
                        \/ /\ pc[p] \in Early \cup Settling /\ pc'[p] \in Closing
                           /\ UNCHANGED <<maker, txStatus>>
<1> USE DEF Early, Closing
<1>1. CASE CacheLookup(p) \/ Claim(p) \/ Recheck(p)
  <2>1. \A r \in Cached \cup {"error", "in_progress"} : r \notin Refusals
    BY DEF Cached, TxStatus, Zero, Refusals
  <2>2. reply'[p] = reply[p] \/ reply'[p] \in Cached \cup {"error", "in_progress"}
    BY <1>1 DEF CacheLookup, Claim, Recheck, Return
  <2>3. pc[p] \in Early /\ pc'[p] \in Early \cup Closing
    BY <1>1 DEF CacheLookup, Claim, Recheck, Return, Goto
  <2>4. Goal
    BY <2>1, <2>2, <2>3
  <2>5. QED BY <2>4
<1>2. CASE LoadSource(p) \/ LoadDest(p) \/ LoadClearing(p)
  <2>1. UNCHANGED <<maker, txStatus>> /\ pc[p] \in Early \ Closing
    BY <1>2 DEF LoadSource, LoadDest, LoadClearing, dbVars
  <2>2. reply'[p] = reply[p] \/ pc'[p] \in Closing
    BY <1>2 DEF LoadSource, LoadDest, LoadClearing, Return, Goto
  <2>3. Goal
    BY <2>1, <2>2
  <2>4. QED BY <2>3
<1>3. CASE Create(p) \/ CreateDest(p) \/ LoadDuplicate(p) \/ Begin(p)
  <2>1. \A r \in TxStatus \cup {NoRow, "error"} : r \notin Refusals
    BY DEF TxStatus, NoRow, Refusals
  <2>2. Live(p) /\ req[p].key \in Keys
    BY <1>3, Orders DEF Create, CreateDest, LoadDuplicate, Begin, Live
  <2>3. reply'[p] = reply[p] \/ reply'[p] \in TxStatus \cup {NoRow, "error"}
    BY <1>3, <2>2 DEF Create, CreateDest, LoadDuplicate, Begin, Return, RowTypes
  <2>4. pc[p] \notin Closing /\ (pc'[p] \in Early => pc[p] \in Early)
    BY <1>3 DEF Create, CreateDest, LoadDuplicate, Begin, Return, Goto
  <2>5. Goal
    BY <2>1, <2>3, <2>4
  <2>6. QED BY <2>5
<1>4. CASE PostEntry(p) \/ MarkProcessing(p) \/ MarkSettled(p) \/ \E a \in Accounts : LockRow(p, a)
  <2>1. /\ UNCHANGED <<maker, txStatus>>
        /\ pc[p] \in {"postClearing", "postSettlement", "markProcessing", "markSettled"}
    BY <1>4 DEF PostEntry, MarkProcessing, MarkSettled, UpdateStatusTx, LockRow, IsNextRow, dbVars
  <2>2. \/ reply' = reply /\ pc'[p] \notin Early
        \/ pc'[p] = "markFailed"
    BY <1>4, <2>1 DEF PostEntry, MarkProcessing, MarkSettled, UpdateStatusTx, LockRow, FailTx, Goto
  <2>3. Goal
    BY <2>1, <2>2 DEF Settling, InTx
  <2>4. QED BY <2>3
<1>5. CASE DeadlockVictim(p) \/ Commit(p)
  <2>1. /\ pc[p] \notin Closing /\ pc'[p] \notin Early
        /\ reply'[p] \in {reply[p], "error", "SETTLED"}
    BY <1>5 DEF DeadlockVictim, Commit, FailTx, Return, Goto
  <2>2. Goal
    BY <2>1 DEF Refusals
  <2>3. QED BY <2>2
<1>6. CASE FailBegin(p) \/ MarkFailed(p) \/ StoreFailed(p) \/ Unlock(p)
  <2>1. reply' = reply /\ pc'[p] \in Closing
    BY <1>6 DEF FailBegin, MarkFailed, StoreFailed, Unlock, GotoStoreFailed, Return, Goto
  <2>2. Goal
    BY <2>1
  <2>3. QED BY <2>2
<1>7. CASE StoreSettled(p)
  <2>1. pc[p] = "storeSettled" /\ pc'[p] \in Closing
    BY <1>7 DEF StoreSettled, Return, Goto
  <2>2. reply'[p] \in Cached \cup {"error"}
    BY <1>7 DEF StoreSettled, Return
  <2>3. Goal
    BY <2>1, <2>2 DEF Cached, TxStatus, Zero, Refusals
  <2>4. QED BY <2>3
<1>8. QED
  BY <1>1, <1>2, <1>3, <1>4, <1>5, <1>6, <1>7 DEF Progress

\* A row becomes SETTLED by the commit of the call that made it.
LEMMA SettlingSteps ==
  ASSUME RowsInv, [Next]_vars, NEW k \in Keys, txStatus[k] # "SETTLED", txStatus'[k] = "SETTLED"
  PROVE  \E p \in Requests : Commit(p) /\ maker[k] = p
<1> USE DEF RowsInv
<1>1. PICK p \in Requests : /\ CreateDest(p) \/ Commit(p) \/ MarkFailed(p) \/ FailBegin(p)
                            /\ k = req[p].key
  BY RowSteps
<1>2. CASE Commit(p)
  BY <1>1, <1>2 DEF Commit, PostingInv, OwnerInv, Owning, Settling, InTx
<1>3. CASE CreateDest(p) \/ MarkFailed(p) \/ FailBegin(p)
  BY <1>1, <1>3 DEF CreateDest, MarkFailed, FailBegin, Inserted, RowFailed, FailedStatus,
                    TypeInv, TypeOK, RowTypes
<1>4. QED
  BY <1>1, <1>2, <1>3

LEMMA RefusedNext ==
  RowsInv /\ MakerInv /\ RefusedInv /\ [Next]_vars => RefusedInv'
<1> SUFFICES ASSUME RowsInv, MakerInv, RefusedInv, [Next]_vars PROVE RefusedInv'
  OBVIOUS
<1> USE DEF RowsInv
\* What others do to the rows a call has made.
<1>1. ASSUME NEW p \in Requests, ~CreateDest(p), ~Commit(p), NEW k \in Keys, maker'[k] = p
      PROVE  maker[k] = p /\ (txStatus'[k] = "SETTLED" => txStatus[k] = "SETTLED")
  <2>1. maker' = maker \/ \E q \in Requests : CreateDest(q) /\ Inserted(q)
    <3>1. ASSUME NEW q \in Requests, NEW r \in Payloads, Receive(q, r) PROVE maker' = maker
      BY <3>1 DEF Receive, dbVars
    <3>2. CASE Environment \/ Terminating \/ UNCHANGED vars
      BY <3>2 DEF Environment, Terminating, Cancel, Crash, Expire, SetAccountStatus, vars, dbVars
    <3>3. QED
      BY <3>1, <3>2, MakerProgress DEF Next
  <2>2. maker[k] = p
    BY <1>1, <2>1 DEF Inserted, TypeInv, TypeOK, RowTypes
  <2>3. QED
    BY <1>1, <2>2, SettlingSteps
<1>2. ASSUME NEW p \in Requests, pc'[p] \in {pc[p], "dead"}, reply'[p] = reply[p]
      PROVE  /\ pc'[p] \in Early => \A k \in Keys : maker'[k] # p
             /\ reply'[p] \in Refusals => pc'[p] \in Closing /\ Unpaid(p)'
  <2>1. ~CreateDest(p) /\ ~Commit(p)
    BY <1>2 DEF CreateDest, Commit, FailTx, Return, Goto, TypeInv, TypeOK, CallTypes
  <2>2. QED
    BY <1>1, <1>2, <2>1 DEF RefusedInv, Early, Closing, Unpaid
<1>3. ASSUME NEW p \in Requests, Progress(p)
      PROVE  /\ pc'[p] \in Early => \A k \in Keys : maker'[k] # p
             /\ reply'[p] \in Refusals => pc'[p] \in Closing /\ Unpaid(p)'
  <2>1. ASSUME pc'[p] \in Early, NEW k \in Keys PROVE maker'[k] # p
    <3>1. ~CreateDest(p) /\ ~Commit(p)
      BY <2>1 DEF CreateDest, Commit, FailTx, Return, Goto, TypeInv, TypeOK, CallTypes, Early
    <3>2. QED
      BY <1>1, <1>3, <2>1, <3>1, RefusalProgress DEF RefusedInv
  <2>2. CASE reply[p] \in Refusals
    <3>1. pc[p] \in Closing /\ Unpaid(p)
      BY <2>2 DEF RefusedInv
    <3>2. ~CreateDest(p) /\ ~Commit(p)
      BY <3>1 DEF CreateDest, Commit, Closing
    <3>3. Unpaid(p)' /\ pc'[p] \in Closing
      BY <1>1, <1>3, <3>1, <3>2, RefusalProgress DEF Unpaid
    <3>4. QED
      BY <2>1, <3>3
  <2>3. CASE /\ pc[p] \in Early \cup Settling /\ pc'[p] \in Closing
             /\ UNCHANGED <<maker, txStatus>>
    <3>1. ASSUME NEW k \in Keys, maker[k] = p PROVE txStatus[k] # "SETTLED"
      <4>1. pc[p] \in Settling /\ txStatus[k] # NoRow
        BY <2>3, <3>1, BoundsAssumption DEF RefusedInv, MakerInv
      <4>2. QED
        BY <3>1, <4>1 DEF PostingInv, OwnerInv
    <3>2. QED
      BY <2>1, <2>3, <3>1 DEF Unpaid
  <2>4. QED
    BY <1>3, <2>1, <2>2, <2>3, RefusalProgress
<1>4. ASSUME NEW p \in Requests, NEW r \in Payloads, Receive(p, r), NEW q \in Requests
      PROVE  /\ pc'[q] \in Early => \A k \in Keys : maker'[k] # q
             /\ reply'[q] \in Refusals => pc'[q] \in Closing /\ Unpaid(q)'
  <2>1. pc[p] \in Early /\ UNCHANGED <<maker, txStatus>>
    BY <1>4 DEF Receive, Early, dbVars
  <2>2. CASE q # p
    <3>1. pc'[q] = pc[q] /\ reply'[q] = reply[q]
      BY <1>4, <2>2 DEF Receive, Goto, TypeInv, TypeOK, CallTypes
    <3>2. QED
      BY <1>2, <3>1
  <2>3. CASE q = p
    <3>1. reply[p] \notin Refusals /\ \A k \in Keys : maker[k] # p
      BY <2>1 DEF RefusedInv, Early, Closing
    <3>2. reply'[p] = reply[p] \/ pc'[p] = "done"
      BY <1>4 DEF Receive, Goto, TypeInv, TypeOK, CallTypes
    <3>3. QED
      BY <2>1, <2>3, <3>1, <3>2 DEF Closing, Unpaid
  <2>4. QED
    BY <2>2, <2>3
<1>5. CASE Environment \/ Terminating \/ UNCHANGED vars
  <2>1. \A p \in Requests : pc'[p] \in {pc[p], "dead"} /\ reply'[p] = reply[p]
    BY <1>5 DEF Environment, Terminating, Cancel, Crash, Expire, SetAccountStatus, vars, callVars
  <2>2. QED
    BY <1>2, <2>1 DEF RefusedInv
<1>6. ASSUME NEW p \in Requests, Progress(p) PROVE RefusedInv'
  <2>1. \A q \in Requests \ {p} : pc'[q] = pc[q] /\ reply'[q] = reply[q]
    BY <1>6, AnswerProgress DEF Others
  <2>2. QED
    BY <1>2, <1>3, <1>6, <2>1 DEF RefusedInv
<1>7. QED
  BY <1>4, <1>5, <1>6 DEF Next, RefusedInv

\* 400 and 404 are final: the transfer a refused call has made is not SETTLED, and
\* no crash, lost acknowledgement or retry can make it so any more.
THEOREM RefusalsAreFinal == Spec => []RefusedMeansUnpaid
<1>1. Init => RefusedInv
  BY BoundsAssumption DEF Init, RefusedInv, Refusals, NoRow
<1>2. RowsInv /\ RefusedInv => RefusedMeansUnpaid
  <2> SUFFICES ASSUME RowsInv, RefusedInv, NEW p \in Requests, HttpStatus(reply[p]) \in {400, 404},
                      NEW k \in Keys, maker[k] = p
               PROVE  GetTransferByID(k).status # "SETTLED"
    BY DEF RefusedMeansUnpaid
  <2>1. reply[p] \in Refusals
    BY DEF HttpStatus, Refusals
  <2>2. txStatus[k] # "SETTLED"
    BY <2>1 DEF RefusedInv, Unpaid
  <2>3. QED
    BY <2>2 DEF GetTransferByID, NoRow
<1>3. RefineInv => RowsInv /\ MakerInv
  BY DEF RefineInv
<1>4. QED
  BY <1>1, <1>2, <1>3, RefineInvariant, RefusedNext, PTL DEF Spec
=============================================================================
