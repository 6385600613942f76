--------------------------- MODULE TransferProofs ---------------------------
(***************************************************************************)
(* Theorems about Transfer, for every set of calls, keys and accounts,     *)
(* every clearing account and every bound on failures and status changes.  *)
(***************************************************************************)
EXTENDS Transfer, SumTheorems, TLAPS

(***************************************************************************)
(* Type correctness. A type alone is not inductive: what FailTransaction   *)
(* returns is the JSON of a row only because the row exists by then.       *)
(***************************************************************************)
\* The labels at which a call knows that the row of its key exists, and those at
\* which it has an open database transaction.
InTx == {"postClearing", "markProcessing", "postSettlement", "markSettled",
         "commit"}
AfterCreate == InTx \cup {"loadDuplicate", "begin", "failBegin", "markFailed"}

RowsExist ==
  \A p \in Requests :
    /\ pc[p] \in AfterCreate => txStatus[req[p].key] # NoRow
    /\ pc[p] \in InTx => working[p] # NoRow

TypeInv == TypeOK /\ RowsExist

LEMMA ChangeType ==
  ASSUME NEW e \in Entry
  PROVE  Change(e) \in [Accounts -> Int]
BY DEF Change, Entry, NetDelta, DebitDelta, CreditDelta

\* What an entry adds to a balance, when it leaves it at zero or more.
Effect(e, a) == NetDelta(StoredEntry(e), a, AccountType[a]) + Kept(e, a)

\* An entry changes an account, if at all, by its amount up or down.
LEMMA ChangeIs ==
  ASSUME NEW e \in Entry, NEW a \in Accounts
  PROVE  \/ /\ Change(e)[a] = 0 /\ NetDelta(StoredEntry(e), a, AccountType[a]) = 0
         \/ /\ Change(e)[a] = e.amount
            /\ NetDelta(StoredEntry(e), a, AccountType[a]) = Stored(e.amount)
         \/ /\ Change(e)[a] = -e.amount
            /\ NetDelta(StoredEntry(e), a, AccountType[a]) = -Stored(e.amount)
<1>1. e.amount \in Int /\ Stored(e.amount) \in Int /\ AccountType[a] \in AccountTypes
  BY StoredFacts, AccountsAssumption DEF Entry, Column
<1>2. /\ StoredEntry(e).dr = e.dr /\ StoredEntry(e).cr = e.cr
      /\ StoredEntry(e).amount = Stored(e.amount)
  BY DEF StoredEntry, Entry
<1>3. AccountType[a] \in DebitNormal <=> AccountType[a] \notin CreditNormal
  BY <1>1 DEF AccountTypes, DebitNormal, CreditNormal
<1>4. Change(e)[a] = NetDelta(e, a, AccountType[a])
  BY DEF Change
<1> QED
  BY <1>1, <1>2, <1>3, <1>4 DEF NetDelta, DebitDelta, CreditDelta

LEMMA EffectIs ==
  ASSUME NEW e \in Entry, NEW a \in Accounts
  PROVE  /\ Change(e)[a] \in Int
         /\ Effect(e, a) = Stored(Change(e)[a]) + KeptOf(Change(e)[a])
<1> DEFINE c == Change(e)[a]
<1>1. e.amount \in Int /\ Stored(e.amount) \in Int /\ Quantum \in Nat \ {0}
  BY StoredFacts, QuantumAssumption DEF Entry, Column
<1>2. Stored(-e.amount) = -Stored(e.amount)
  BY <1>1, StoredNegated
<1>3. HalfWay(-e.amount) <=> HalfWay(e.amount)
  BY <1>1, HalfWayNegated
<1>4. Stored(0) = 0
  BY StoredFacts, ColumnClosed
<1>5. Kept(e, a) = IF HalfWay(e.amount) /\ c < 0 THEN Quantum ELSE 0
  BY DEF Kept
<1>6. CASE c = 0 /\ NetDelta(StoredEntry(e), a, AccountType[a]) = 0
  BY <1>1, <1>4, <1>5, <1>6 DEF Effect, KeptOf
<1>7. CASE c = e.amount /\ NetDelta(StoredEntry(e), a, AccountType[a]) = Stored(e.amount)
  BY <1>1, <1>5, <1>7 DEF Effect, KeptOf
<1>8. CASE c = -e.amount /\ NetDelta(StoredEntry(e), a, AccountType[a]) = -Stored(e.amount)
  <2>1. c \in Int /\ (HalfWay(c) <=> HalfWay(e.amount)) /\ Stored(c) = -Stored(e.amount)
    BY <1>1, <1>2, <1>3, <1>8
  <2>2. Effect(e, a) = Stored(c) + KeptOf(c)
    <3> HIDE DEF c
    <3> QED
      BY <1>1, <1>5, <1>8, <2>1 DEF Effect, KeptOf
  <2> QED
    BY <2>1, <2>2
<1> QED
  BY <1>6, <1>7, <1>8, ChangeIs

LEMMA EffectType ==
  ASSUME NEW e \in Entry, NEW a \in Accounts
  PROVE  Effect(e, a) \in Column
<1>1. Change(e)[a] \in Int
  BY EffectIs
<1>2. Stored(Change(e)[a]) \in Column
  BY <1>1, StoredFacts
<1>3. KeptOf(Change(e)[a]) \in Column
  BY ColumnClosed DEF KeptOf
<1> QED
  BY <1>2, <1>3, EffectIs, ColumnClosed

\* The two roundings agree: an entry that is not refused moves each balance by its
\* stored amount, and by what a lowered balance keeps of a half-way amount.
LEMMA WrittenIs ==
  ASSUME NEW p, NEW e \in Entry, NEW a \in Accounts,
         balance[a] \in Column, delta[p][a] \in Column, balance[a] + delta[p][a] >= 0,
         a \in RowsOf(e) => balance[a] + delta[p][a] + Change(e)[a] >= 0
  PROVE  Written(p, e)[a] = delta[p][a] + Effect(e, a)
<1> DEFINE b == balance[a] + delta[p][a]
           c == Change(e)[a]
<1>1. /\ b \in Column /\ b \in Int /\ balance[a] \in Int /\ delta[p][a] \in Int
      /\ Effect(e, a) \in Int /\ c \in Int
  BY ColumnClosed, EffectType, EffectIs DEF Column
<1>2. CASE a \in RowsOf(e)
  <2>1. Stored(b + c) = b + Effect(e, a)
    <3>1. b >= 0 /\ b + c >= 0
      BY <1>2
    <3> HIDE DEF b, c
    <3>2. Stored(b + c) = b + (Stored(c) + KeptOf(c))
      BY <1>1, <3>1, StoredChange
    <3> QED
      BY <3>2, EffectIs DEF c
  <2>2. Written(p, e)[a] = Stored(b + c) - balance[a]
    BY <1>2 DEF Written
  <2> QED
    BY <1>1, <2>1, <2>2
<1>3. CASE a \notin RowsOf(e)
  <2>1. c = 0
    BY <1>3 DEF RowsOf, Change, NetDelta
  <2>2. Effect(e, a) = 0
    BY <2>1, EffectIs, StoredFacts, ColumnClosed DEF KeptOf
  <2> QED
    BY <1>1, <1>3, <2>2 DEF Written
<1> QED
  BY <1>2, <1>3

LEMMA WrittenType ==
  ASSUME NEW p \in Requests, NEW e \in Entry, balance \in [Accounts -> Int],
         delta \in [Requests -> [Accounts -> Int]]
  PROVE  Written(p, e) \in [Accounts -> Int] /\ StoredEntry(e) \in Entry
<1>1. ASSUME NEW a \in Accounts PROVE Written(p, e)[a] \in Int
  <2>1. balance[a] \in Int /\ delta[p][a] \in Int /\ Change(e)[a] \in Int
    BY ChangeType
  <2>2. Stored(balance[a] + delta[p][a] + Change(e)[a]) \in Int
    BY <2>1, StoredFacts DEF Column
  <2> QED
    BY <2>1, <2>2 DEF Written
<1>2. StoredEntry(e) \in Entry
  BY StoredFacts DEF StoredEntry, Entry, Column
<1> QED
  BY <1>1, <1>2 DEF Written

LEMMA EntryOfType ==
  ASSUME NEW p \in Requests, req[p] \in Order
  PROVE  EntryOf(p) \in Entry
BY AccountsAssumption DEF EntryOf, ClearingEntry, SettlementEntry, Order, Entry

LEMMA TypeInit == Init => TypeInv
<1> SUFFICES ASSUME Init PROVE TypeInv
  OBVIOUS
<1>1. RowTypes
  <2>1. balance \in [Accounts -> Int] /\ status \in [Accounts -> AccountStatus \cup {NoRow}]
    BY AccountsAssumption DEF Init
  <2>2. QED BY <2>1 DEF Init, RowTypes
<1>2. TxTypes
  BY DEF Init, TxTypes, NoDelta
<1>3. StoreTypes
  BY DEF Init, StoreTypes
<1>4. CallTypes
  BY DEF Init, CallTypes, Labels, NoView, View, Cached, Replies
<1>5. EnvTypes
  BY BoundsAssumption DEF Init, EnvTypes
<1>6. RowsExist
  BY DEF Init, RowsExist, AfterCreate, InTx
<1> QED
  BY <1>1, <1>2, <1>3, <1>4, <1>5, <1>6 DEF TypeInv, TypeOK

-----------------------------------------------------------------------------
(***************************************************************************)
(* What the building blocks of the actions preserve.                       *)
(***************************************************************************)
Others(p) == \A q \in Requests \ {p} : pc'[q] = pc[q]

\* A step that takes p to one of the labels L and gives a typed answer, if any.
LEMMA CallTypesStep ==
  ASSUME CallTypes, NEW p \in Requests, Live(p), req' = req,
         NEW L \in SUBSET Labels, \E l \in L : Goto(p, l),
         view' \in [Requests -> View], outcome' \in [Requests -> Cached],
         reply' \in [Requests -> Replies]
  PROVE  CallTypes' /\ Others(p) /\ pc'[p] \in L
<1>1. PICK l \in L : pc' = [pc EXCEPT ![p] = l]
  BY DEF Goto
<1>2. pc \in [Requests -> Labels]
  BY DEF CallTypes
<1>3. pc' \in [Requests -> Labels] /\ Others(p) /\ pc'[p] = l
  BY <1>1, <1>2 DEF Others
<1>4. \A q \in Requests : pc'[q] \notin {"idle", "done", "dead"} => req[q] \in Order
  BY <1>3 DEF CallTypes, Live, Others
<1> QED
  BY <1>3, <1>4 DEF CallTypes

\* return goes to one of two labels.
LEMMA ReturnGoto ==
  ASSUME CallTypes, NEW p \in Requests, NEW r \in Replies, Return(p, r)
  PROVE  (\E l \in {"unlock", "done"} : Goto(p, l)) /\ reply' \in [Requests -> Replies]
BY DEF Return, Goto, CallTypes

LEMMA FaultsStep ==
  ASSUME EnvTypes, NEW p, NEW kind, Succeeds(p) \/ Fails(p, kind) \/ AnswerLost(p, kind)
  PROVE  faults' \in 0..MaxFaults
BY BoundsAssumption DEF EnvTypes, Succeeds, Fails, AnswerLost, Fault

\* A row never disappears, so what a call knows of its row stays true while
\* others move.
LEMMA RowsExistStep ==
  ASSUME CallTypes, RowsExist, NEW p \in Requests, req' = req, Others(p),
         \A q \in Requests \ {p} : working'[q] = working[q],
         \A k \in Keys : txStatus[k] # NoRow => txStatus'[k] # NoRow,
         pc'[p] \in AfterCreate => txStatus'[req[p].key] # NoRow,
         pc'[p] \in InTx => working'[p] # NoRow
  PROVE  RowsExist'
<1>1. \A q \in Requests : pc[q] \in AfterCreate => req[q].key \in Keys
  BY DEF CallTypes, AfterCreate, InTx, Order
<1> QED
  BY <1>1 DEF RowsExist, Others

LEMMA EndTxStep ==
  ASSUME TxTypes, NEW p \in Requests, EndTx(p),
         stale' \in [Requests -> SUBSET Accounts]
  PROVE  TxTypes' /\ \A q \in Requests \ {p} : working'[q] = working[q]
<1>1. lock' \in [Accounts -> Requests \cup {None}]
  BY DEF TxTypes, EndTx
<1>2. NoDelta \in [Accounts -> Int]
  BY DEF NoDelta
<1>3. delta' \in [Requests -> [Accounts -> Int]]
  BY <1>2 DEF TxTypes, EndTx
<1>4. posted' \in [Requests -> Seq(Entry)]
  BY DEF TxTypes, EndTx
<1>5. /\ working' \in [Requests -> TxStatus \cup {NoRow}]
      /\ \A q \in Requests \ {p} : working'[q] = working[q]
  BY DEF TxTypes, EndTx
<1> QED
  BY <1>1, <1>3, <1>4, <1>5 DEF TxTypes

LEMMA FailTxStep ==
  ASSUME TypeInv, NEW p \in Requests, pc[p] \in InTx, NEW r \in Replies,
         FailTx(p, r), UNCHANGED <<dbVars, req, view, outcome>>
  PROVE  TxTypes' /\ CallTypes' /\ RowsExist'
<1> USE DEF TypeInv, TypeOK
<1>1. EndTx(p) /\ stale' \in [Requests -> SUBSET Accounts]
  BY DEF FailTx, TxTypes
<1>2. TxTypes' /\ \A q \in Requests \ {p} : working'[q] = working[q]
  BY <1>1, EndTxStep
<1>3. Live(p) /\ "markFailed" \in Labels /\ Goto(p, "markFailed")
  BY DEF Live, InTx, Labels, FailTx
<1>4. view' \in [Requests -> View] /\ outcome' \in [Requests -> Cached]
  BY DEF CallTypes
<1>5. reply' \in [Requests -> Replies]
  BY DEF FailTx, CallTypes
<1>6. CallTypes' /\ Others(p) /\ pc'[p] \in {"markFailed"}
  BY <1>3, <1>4, <1>5, CallTypesStep
<1>7. txStatus' = txStatus /\ txStatus[req[p].key] # NoRow
  BY DEF dbVars, RowsExist, AfterCreate
<1>8. RowsExist'
  BY <1>2, <1>6, <1>7, RowsExistStep DEF InTx
<1> QED
  BY <1>2, <1>6, <1>8

-----------------------------------------------------------------------------
(***************************************************************************)
(* Every action preserves TypeInv.                                         *)
(***************************************************************************)
LEMMA TypeReceive ==
  ASSUME TypeInv, NEW p \in Requests, NEW r \in Payloads, Receive(p, r)
  PROVE  TypeInv'
<1> USE DEF Receive, TypeInv, TypeOK
<1>1. Valid(r) => r \in Order
  BY PayloadsAssumption DEF Valid, Order
<1>2. RowTypes' /\ TxTypes' /\ StoreTypes' /\ EnvTypes'
  BY DEF RowTypes, TxTypes, StoreTypes, EnvTypes, dbVars, txVars, storeVars, envVars
<1>3. CallTypes'
  <2>1. pc' \in [Requests -> Labels]
    BY DEF Goto, CallTypes, Labels
  <2>2. req' \in [Requests -> Order \cup {NoReq}]
    BY <1>1 DEF CallTypes
  <2>3. \A q \in Requests : pc'[q] \notin {"idle", "done", "dead"} => req'[q] \in Order
    BY <1>1 DEF CallTypes, Goto
  <2>4. reply' \in [Requests -> Replies]
    BY DEF CallTypes, Replies, Errors
  <2> QED
    BY <2>1, <2>2, <2>3, <2>4 DEF CallTypes
<1>4. RowsExist'
  BY DEF Goto, CallTypes, RowsExist, AfterCreate, InTx, dbVars, txVars
<1> QED
  BY <1>2, <1>3, <1>4

LEMMA TypeCacheLookup ==
  ASSUME TypeInv, NEW p \in Requests, CacheLookup(p)
  PROVE  TypeInv'
<1> USE DEF CacheLookup, TypeInv, TypeOK
<1> DEFINE L == {"claim", "unlock", "done"}
<1>1. Live(p)
  BY DEF Live
<1>2. (\E l \in L : Goto(p, l)) /\ reply' \in [Requests -> Replies]
  BY ReturnGoto DEF Replies, Errors, CallTypes
<1>3. CallTypes' /\ Others(p) /\ pc'[p] \in L
  BY <1>1, <1>2, CallTypesStep DEF CallTypes, Labels
<1>4. RowTypes' /\ TxTypes' /\ StoreTypes'
  BY DEF RowTypes, TxTypes, StoreTypes, dbVars, txVars, storeVars
<1>5. EnvTypes'
  BY FaultsStep DEF EnvTypes, envVars
<1>6. RowsExist'
  BY <1>3, RowsExistStep DEF AfterCreate, InTx, dbVars, txVars
<1> QED
  BY <1>3, <1>4, <1>5, <1>6

LEMMA TypeClaim ==
  ASSUME TypeInv, NEW p \in Requests, Claim(p)
  PROVE  TypeInv'
<1> USE DEF Claim, TypeInv, TypeOK
<1> DEFINE L == {"loadSource", "recheck", "unlock", "done"}
<1>1. Live(p)
  BY DEF Live
<1>2. (\E l \in L : Goto(p, l)) /\ reply' \in [Requests -> Replies]
  BY ReturnGoto DEF Replies, Errors, CallTypes
<1>3. view' \in [Requests -> View] /\ outcome' \in [Requests -> Cached]
  BY DEF CallTypes
<1>4. CallTypes' /\ Others(p) /\ pc'[p] \in L
  BY <1>1, <1>2, <1>3, CallTypesStep DEF Labels
<1>5. RowTypes' /\ TxTypes'
  BY DEF RowTypes, TxTypes, dbVars, txVars
<1>6. StoreTypes'
  BY <1>1 DEF StoreTypes, storeVars, CallTypes
<1>7. EnvTypes'
  BY FaultsStep DEF EnvTypes, envVars
<1>8. RowsExist'
  BY <1>4, RowsExistStep DEF AfterCreate, InTx, dbVars, txVars
<1> QED
  BY <1>4, <1>5, <1>6, <1>7, <1>8

LEMMA TypeRecheck ==
  ASSUME TypeInv, NEW p \in Requests, Recheck(p)
  PROVE  TypeInv'
<1> USE DEF Recheck, TypeInv, TypeOK
<1> DEFINE L == {"unlock", "done"}
<1>1. Live(p)
  BY DEF Live
<1>2. (\E l \in L : Goto(p, l)) /\ reply' \in [Requests -> Replies]
  BY ReturnGoto DEF Replies, Errors, CallTypes
<1>3. view' \in [Requests -> View] /\ outcome' \in [Requests -> Cached]
  BY DEF CallTypes
<1>4. CallTypes' /\ Others(p) /\ pc'[p] \in L
  BY <1>1, <1>2, <1>3, CallTypesStep DEF Labels
<1>5. RowTypes' /\ TxTypes' /\ StoreTypes'
  BY DEF RowTypes, TxTypes, StoreTypes, dbVars, txVars, storeVars
<1>6. EnvTypes'
  BY FaultsStep DEF EnvTypes, envVars
<1>7. RowsExist'
  BY <1>4, RowsExistStep DEF AfterCreate, InTx, dbVars, txVars
<1> QED
  BY <1>4, <1>5, <1>6, <1>7

LEMMA TypeLoadSource ==
  ASSUME TypeInv, NEW p \in Requests, LoadSource(p)
  PROVE  TypeInv'
<1> USE DEF LoadSource, TypeInv, TypeOK
<1> DEFINE L == {"loadDest", "unlock", "done"}
<1>1. Live(p)
  BY DEF Live
<1>2. (\E l \in L : Goto(p, l)) /\ reply' \in [Requests -> Replies]
  BY ReturnGoto DEF Replies, Errors, CallTypes
<1>3. view' \in [Requests -> View] /\ outcome' \in [Requests -> Cached]
  <2>1. req[p].from \in Accounts
    BY <1>1 DEF CallTypes, Live, Order
  <2>2. [balance |-> balance[req[p].from], status |-> status[req[p].from]] \in View
    BY <2>1 DEF RowTypes, View
  <2> QED
    BY <2>2 DEF CallTypes
<1>4. CallTypes' /\ Others(p) /\ pc'[p] \in L
  BY <1>1, <1>2, <1>3, CallTypesStep DEF Labels
<1>5. RowTypes' /\ TxTypes' /\ StoreTypes'
  BY DEF RowTypes, TxTypes, StoreTypes, dbVars, txVars, storeVars
<1>6. EnvTypes'
  BY FaultsStep DEF EnvTypes, envVars
<1>7. RowsExist'
  BY <1>4, RowsExistStep DEF AfterCreate, InTx, dbVars, txVars
<1> QED
  BY <1>4, <1>5, <1>6, <1>7

LEMMA TypeLoadDest ==
  ASSUME TypeInv, NEW p \in Requests, LoadDest(p)
  PROVE  TypeInv'
<1> USE DEF LoadDest, TypeInv, TypeOK
<1> DEFINE L == {"loadClearing", "unlock", "done"}
<1>1. Live(p)
  BY DEF Live
<1>2. (\E l \in L : Goto(p, l)) /\ reply' \in [Requests -> Replies]
  BY ReturnGoto DEF Replies, Errors, CallTypes, Refusal
<1>3. view' \in [Requests -> View] /\ outcome' \in [Requests -> Cached]
  BY DEF CallTypes, View, NoView
<1>4. CallTypes' /\ Others(p) /\ pc'[p] \in L
  BY <1>1, <1>2, <1>3, CallTypesStep DEF Labels
<1>5. RowTypes' /\ TxTypes' /\ StoreTypes'
  BY DEF RowTypes, TxTypes, StoreTypes, dbVars, txVars, storeVars
<1>6. EnvTypes'
  BY FaultsStep DEF EnvTypes, envVars
<1>7. RowsExist'
  BY <1>4, RowsExistStep DEF AfterCreate, InTx, dbVars, txVars
<1> QED
  BY <1>4, <1>5, <1>6, <1>7

LEMMA TypeLoadClearing ==
  ASSUME TypeInv, NEW p \in Requests, LoadClearing(p)
  PROVE  TypeInv'
<1> USE DEF LoadClearing, TypeInv, TypeOK
<1> DEFINE L == {"create", "unlock", "done"}
<1>1. Live(p)
  BY DEF Live
<1>2. (\E l \in L : Goto(p, l)) /\ reply' \in [Requests -> Replies]
  BY ReturnGoto DEF Replies, Errors, CallTypes, ClearingRefusal
<1>3. view' \in [Requests -> View] /\ outcome' \in [Requests -> Cached]
  BY DEF CallTypes
<1>4. CallTypes' /\ Others(p) /\ pc'[p] \in L
  BY <1>1, <1>2, <1>3, CallTypesStep DEF Labels
<1>5. RowTypes' /\ TxTypes' /\ StoreTypes'
  BY DEF RowTypes, TxTypes, StoreTypes, dbVars, txVars, storeVars
<1>6. EnvTypes'
  BY FaultsStep DEF EnvTypes, envVars
<1>7. RowsExist'
  BY <1>4, RowsExistStep DEF AfterCreate, InTx, dbVars, txVars
<1> QED
  BY <1>4, <1>5, <1>6, <1>7

LEMMA TypeCreate ==
  ASSUME TypeInv, NEW p \in Requests, Create(p)
  PROVE  TypeInv'
<1> USE DEF Create, Taken, TypeInv, TypeOK
<1> DEFINE L == {"createDest", "loadDuplicate", "unlock", "done"}
<1>1. Live(p)
  BY DEF Live
<1>2. (\E l \in L : Goto(p, l)) /\ reply' \in [Requests -> Replies]
  BY ReturnGoto DEF Replies, Errors, CallTypes
<1>3. view' \in [Requests -> View] /\ outcome' \in [Requests -> Cached]
  BY DEF CallTypes
<1>4. CallTypes' /\ Others(p) /\ pc'[p] \in L
  BY <1>1, <1>2, <1>3, CallTypesStep DEF Labels
<1>5. TxTypes' /\ StoreTypes'
  BY DEF TxTypes, StoreTypes, txVars, storeVars
<1>6. RowTypes' /\ EnvTypes'
  BY FaultsStep DEF RowTypes, EnvTypes, dbVars, envVars
<1>7. pc'[p] \in AfterCreate => txStatus[req[p].key] # NoRow
  BY <1>4 DEF AfterCreate, InTx, Return, Goto, CallTypes
<1>8. RowsExist'
  BY <1>4, <1>7, RowsExistStep DEF InTx, dbVars, txVars
<1> QED
  BY <1>4, <1>5, <1>6, <1>8

LEMMA TypeCreateDest ==
  ASSUME TypeInv, NEW p \in Requests, CreateDest(p)
  PROVE  TypeInv'
<1> USE DEF CreateDest, TypeInv, TypeOK
<1> DEFINE L == {"begin", "unlock", "done"}
<1>1. Live(p)
  BY DEF Live
<1>2. (\E l \in L : Goto(p, l)) /\ reply' \in [Requests -> Replies]
  BY ReturnGoto DEF Replies, Errors, CallTypes
<1>3. view' \in [Requests -> View] /\ outcome' \in [Requests -> Cached]
  BY DEF CallTypes
<1>4. CallTypes' /\ Others(p) /\ pc'[p] \in L
  BY <1>1, <1>2, <1>3, CallTypesStep DEF Labels
<1>5. TxTypes' /\ StoreTypes'
  BY DEF TxTypes, StoreTypes, txVars, storeVars
<1>6. RowTypes'
  BY <1>1 DEF RowTypes, Inserted, TxStatus
<1>7. EnvTypes'
  BY FaultsStep DEF EnvTypes, envVars
<1>8. RowsExist'
  <2>1. req[p].key \in Keys
    BY <1>1 DEF CallTypes, Live, Order
  <2>3. \A k \in Keys : txStatus[k] # NoRow => txStatus'[k] # NoRow
    BY DEF Inserted, NoRow, RowTypes
  <2>4. pc'[p] \in AfterCreate => txStatus'[req[p].key] # NoRow
    BY <2>1, <1>4 DEF AfterCreate, InTx, Inserted, RowTypes, NoRow, Return, Goto, CallTypes
  <2> QED
    BY <1>4, <2>3, <2>4, RowsExistStep DEF InTx, txVars
<1> QED
  BY <1>4, <1>5, <1>6, <1>7, <1>8

LEMMA TypeLoadDuplicate ==
  ASSUME TypeInv, NEW p \in Requests, LoadDuplicate(p)
  PROVE  TypeInv'
<1> USE DEF LoadDuplicate, TypeInv, TypeOK
<1> DEFINE L == {"unlock", "done"}
<1>1. Live(p)
  BY DEF Live
<1>2. (\E l \in L : Goto(p, l)) /\ reply' \in [Requests -> Replies]
  BY <1>1, ReturnGoto DEF Replies, Errors, Cached, CallTypes, RowTypes, Live, Order
<1>3. view' \in [Requests -> View] /\ outcome' \in [Requests -> Cached]
  BY DEF CallTypes
<1>4. CallTypes' /\ Others(p) /\ pc'[p] \in L
  BY <1>1, <1>2, <1>3, CallTypesStep DEF Labels
<1>5. RowTypes' /\ TxTypes' /\ StoreTypes'
  BY DEF RowTypes, TxTypes, StoreTypes, dbVars, txVars, storeVars
<1>6. EnvTypes'
  BY FaultsStep DEF EnvTypes, envVars
<1>7. RowsExist'
  BY <1>4, RowsExistStep DEF AfterCreate, InTx, dbVars, txVars
<1> QED
  BY <1>4, <1>5, <1>6, <1>7

LEMMA TypeBegin ==
  ASSUME TypeInv, NEW p \in Requests, Begin(p)
  PROVE  TypeInv'
<1> USE DEF Begin, TypeInv, TypeOK
<1> DEFINE L == {"postClearing", "failBegin"}
<1>1. Live(p)
  BY DEF Live
<1>2. (\E l \in L : Goto(p, l)) /\ reply' \in [Requests -> Replies]
  BY DEF Goto, Replies, Errors, CallTypes
<1>3. view' \in [Requests -> View] /\ outcome' \in [Requests -> Cached]
  BY DEF CallTypes
<1>4. CallTypes' /\ Others(p) /\ pc'[p] \in L
  BY <1>1, <1>2, <1>3, CallTypesStep DEF Labels
<1>5. RowTypes' /\ StoreTypes'
  BY DEF RowTypes, StoreTypes, dbVars, storeVars
<1>6. TxTypes'
  BY DEF TxTypes, RowTypes, dbVars, CallTypes, Order
<1>7. EnvTypes'
  BY FaultsStep DEF EnvTypes, envVars
<1>8. RowsExist'
  <2>1. txStatus[req[p].key] # NoRow /\ txStatus' = txStatus
    BY DEF RowsExist, AfterCreate, dbVars
  <2>2. working \in [Requests -> TxStatus \cup {NoRow}]
    BY DEF TxTypes
  <2>3. /\ \A q \in Requests \ {p} : working'[q] = working[q]
        /\ pc'[p] \in InTx => working'[p] # NoRow
    BY <1>4, <2>1, <2>2 DEF InTx, Goto, CallTypes
  <2> QED
    BY <1>4, <2>1, <2>3, RowsExistStep
<1> QED
  BY <1>4, <1>5, <1>6, <1>7, <1>8

LEMMA TypeLockRow ==
  ASSUME TypeInv, NEW p \in Requests, NEW a \in Accounts, LockRow(p, a)
  PROVE  TypeInv'
<1> USE DEF LockRow, TypeInv, TypeOK
<1>1. RowTypes' /\ StoreTypes'
  BY DEF RowTypes, StoreTypes, dbVars, storeVars
<1>2. EnvTypes'
  BY FaultsStep DEF EnvTypes, envVars
<1>3. CASE lock' = [lock EXCEPT ![a] = p] /\ UNCHANGED <<stale, delta, posted, working, pc, reply>>
  <2>1. TxTypes'
    BY <1>3 DEF TxTypes
  <2>2. CallTypes' /\ RowsExist'
    BY <1>3 DEF CallTypes, RowsExist, dbVars
  <2> QED
    BY <1>1, <1>2, <2>1, <2>2
<1>4. CASE FailTx(p, "error")
  <2>1. pc[p] \in InTx /\ "error" \in Replies
    BY DEF IsNextRow, InTx, Replies, Errors
  <2> QED
    BY <1>1, <1>2, <1>4, <2>1, FailTxStep
<1> QED
  BY <1>3, <1>4

LEMMA TypeDeadlockVictim ==
  ASSUME TypeInv, NEW p \in Requests, DeadlockVictim(p)
  PROVE  TypeInv'
<1> USE DEF DeadlockVictim, TypeInv, TypeOK
<1>1. "error" \in Replies /\ UNCHANGED req
  BY DEF Replies, Errors
<1>2. RowTypes' /\ StoreTypes' /\ EnvTypes'
  BY DEF RowTypes, StoreTypes, EnvTypes, dbVars, storeVars, envVars
<1>3. CASE FailTx(p, "error") /\ pc[p] \in InTx
  BY <1>1, <1>2, <1>3, FailTxStep
<1>4. CASE pc[p] = "createDest" /\ Return(p, "error") /\ UNCHANGED txVars
  <2> DEFINE L == {"unlock", "done"}
  <2>1. Live(p)
    BY <1>4 DEF Live
  <2>2. (\E l \in L : Goto(p, l)) /\ reply' \in [Requests -> Replies]
    BY <1>1, <1>4, ReturnGoto DEF CallTypes
  <2>3. view' \in [Requests -> View] /\ outcome' \in [Requests -> Cached]
    BY DEF CallTypes
  <2>4. CallTypes' /\ Others(p) /\ pc'[p] \in L
    BY <1>1, <2>1, <2>2, <2>3, CallTypesStep DEF Labels
  <2>5. TxTypes'
    BY <1>4 DEF TxTypes, txVars
  <2>6. RowsExist'
    BY <1>1, <1>4, <2>4, RowsExistStep DEF AfterCreate, InTx, dbVars, txVars
  <2> QED
    BY <1>2, <2>4, <2>5, <2>6
<1> QED
  BY <1>3, <1>4 DEF InTx

LEMMA TypePostEntry ==
  ASSUME TypeInv, NEW p \in Requests, PostEntry(p)
  PROVE  TypeInv'
<1> USE DEF TypeInv, TypeOK
<1> DEFINE e == EntryOf(p)
<1>1. pc[p] \in InTx /\ Live(p)
  BY DEF PostEntry, InTx, Live
<1>2. e \in Entry
  BY <1>1, EntryOfType DEF CallTypes, InTx
<1>3. RowTypes' /\ StoreTypes'
  BY DEF PostEntry, RowTypes, StoreTypes, dbVars, storeVars
<1>4. EnvTypes'
  BY FaultsStep DEF PostEntry, EnvTypes, envVars
<1>5. UNCHANGED <<dbVars, req, view, outcome>>
  BY DEF PostEntry
<1>6. CASE \E r \in {PostRefusal(p, e), "error"} : FailTx(p, r)
  <2>1. {PostRefusal(p, e), "error"} \subseteq Replies
    BY DEF PostRefusal, Replies, Errors
  <2> QED
    BY <1>1, <1>3, <1>4, <1>5, <1>6, <2>1, FailTxStep
<1>7. CASE /\ delta' = [delta EXCEPT ![p] = Written(p, e)]
           /\ posted' = [posted EXCEPT ![p] = Append(@, StoredEntry(e))]
           /\ Goto(p, IF pc[p] = "postClearing" THEN "markProcessing" ELSE "markSettled")
           /\ UNCHANGED <<lock, stale, working, reply>>
  <2>1. Written(p, e) \in [Accounts -> Int] /\ StoredEntry(e) \in Entry
    BY <1>2, WrittenType DEF RowTypes, TxTypes
  <2>2. delta' \in [Requests -> [Accounts -> Int]]
    BY <1>7, <2>1 DEF TxTypes
  <2>3. posted' \in [Requests -> Seq(Entry)]
    BY <2>1, <1>7 DEF TxTypes
  <2>4. TxTypes'
    BY <1>7, <2>2, <2>3 DEF TxTypes
  <2>5. \E l \in {"markProcessing", "markSettled"} : Goto(p, l)
    BY <1>7 DEF Goto
  <2>6. CallTypes' /\ Others(p) /\ pc'[p] \in {"markProcessing", "markSettled"}
    BY <1>1, <1>5, <1>7, <2>5, CallTypesStep DEF CallTypes, Labels
  <2>7. txStatus' = txStatus /\ txStatus[req[p].key] # NoRow /\ working[p] # NoRow
    BY <1>1, <1>5 DEF RowsExist, AfterCreate, dbVars
  <2>8. RowsExist'
    BY <1>5, <1>7, <2>6, <2>7, RowsExistStep
  <2> QED
    BY <1>3, <1>4, <2>4, <2>6, <2>8
<1> QED
  BY <1>6, <1>7 DEF PostEntry

LEMMA TypeUpdateStatusTx ==
  ASSUME TypeInv, NEW p \in Requests, pc[p] \in InTx, NEW from,
         NEW to \in TxStatus, to # NoRow, NEW next \in InTx,
         UpdateStatusTx(p, from, to, next)
  PROVE  TypeInv'
<1> USE DEF UpdateStatusTx, TypeInv, TypeOK
<1>1. RowTypes' /\ StoreTypes'
  BY DEF RowTypes, StoreTypes, dbVars, storeVars
<1>2. EnvTypes'
  BY FaultsStep DEF EnvTypes, envVars
<1>3. CASE FailTx(p, "error")
  <2>1. "error" \in Replies
    BY DEF Replies, Errors
  <2> QED
    BY <1>1, <1>2, <1>3, <2>1, FailTxStep
<1>4. CASE /\ working' = [working EXCEPT ![p] = to]
           /\ Goto(p, next)
           /\ UNCHANGED <<lock, stale, delta, posted, reply>>
  <2>1. TxTypes' /\ \A q \in Requests \ {p} : working'[q] = working[q]
    BY <1>4 DEF TxTypes
  <2>2. Live(p) /\ {next} \subseteq Labels
    BY DEF Live, InTx, Labels
  <2>3. CallTypes' /\ Others(p) /\ pc'[p] \in {next}
    BY <1>4, <2>2, CallTypesStep DEF CallTypes
  <2>4. txStatus' = txStatus /\ txStatus[req[p].key] # NoRow
    BY DEF RowsExist, AfterCreate, dbVars
  <2>5. working'[p] = to
    BY <1>4 DEF TxTypes
  <2>6. RowsExist'
    BY <2>1, <2>3, <2>4, <2>5, RowsExistStep
  <2> QED
    BY <1>1, <1>2, <2>1, <2>3, <2>6
<1> QED
  BY <1>3, <1>4

LEMMA TypeMark ==
  ASSUME TypeInv, NEW p \in Requests, MarkProcessing(p) \/ MarkSettled(p)
  PROVE  TypeInv'
<1>1. /\ {"PROCESSING", "SETTLED"} \subseteq TxStatus \ {NoRow}
      /\ {"markProcessing", "markSettled", "postSettlement", "commit"} \subseteq InTx
  BY DEF TxStatus, NoRow, InTx
<1> QED
  BY <1>1, TypeUpdateStatusTx DEF MarkProcessing, MarkSettled

\* What a committed transaction writes is typed, and no row disappears with it.
LEMMA CommittedStep ==
  ASSUME TypeInv, NEW p \in Requests, pc[p] = "commit", Committed(p),
         UNCHANGED <<status, maker>>
  PROVE  /\ RowTypes' /\ TxTypes'
         /\ \A k \in Keys : txStatus[k] # NoRow => txStatus'[k] # NoRow
         /\ txStatus'[req[p].key] # NoRow
         /\ \A q \in Requests \ {p} : working'[q] = working[q]
<1> USE DEF TypeInv, TypeOK
<1>1. req[p] \in Order /\ working[p] # NoRow /\ working[p] \in TxStatus \cup {NoRow}
  BY DEF CallTypes, TxTypes, RowsExist, InTx
<1>2. balance' \in [Accounts -> Int]
  BY DEF Committed, RowTypes, TxTypes
<1>3. txStatus' \in [Keys -> TxStatus \cup {NoRow}]
  BY <1>1 DEF Committed, RowTypes
<1>4. journal' \in [Keys -> Seq(Entry)]
  <2>1. posted[p] \in Seq(Entry) /\ req[p].key \in Keys /\ journal[req[p].key] \in Seq(Entry)
    BY <1>1 DEF RowTypes, TxTypes, Order
  <2>2. journal[req[p].key] \o posted[p] \in Seq(Entry)
    BY <2>1
  <2> QED
    BY <2>2 DEF Committed, RowTypes
<1>5. RowTypes'
  BY <1>2, <1>3, <1>4 DEF RowTypes
<1>6. stale' \in [Requests -> SUBSET Accounts]
  <2>1. {req[p].from, req[p].to, Clearing} \subseteq Accounts
    BY <1>1, AccountsAssumption DEF Order
  <2> QED
    BY <2>1 DEF Committed, TxTypes
<1>7. TxTypes' /\ \A q \in Requests \ {p} : working'[q] = working[q]
  BY <1>6, EndTxStep DEF Committed
<1>8. /\ \A k \in Keys : txStatus[k] # NoRow => txStatus'[k] # NoRow
      /\ txStatus'[req[p].key] # NoRow
  BY <1>1 DEF Committed, RowTypes, Order
<1> QED
  BY <1>5, <1>7, <1>8

LEMMA TypeCommit ==
  ASSUME TypeInv, NEW p \in Requests, Commit(p)
  PROVE  TypeInv'
<1> USE DEF Commit, TypeInv, TypeOK
<1>1. StoreTypes'
  BY DEF StoreTypes, storeVars
<1>2. EnvTypes'
  BY FaultsStep DEF EnvTypes, envVars
<1>3. CASE FailTx(p, "error") /\ UNCHANGED <<dbVars, outcome>>
  <2>1. "error" \in Replies /\ pc[p] \in InTx
    BY DEF Replies, Errors, InTx
  <2>2. RowTypes'
    BY <1>3 DEF RowTypes, dbVars
  <2> QED
    BY <1>1, <1>2, <1>3, <2>1, <2>2, FailTxStep
<1>4. CASE Committed(p) /\ ~(FailTx(p, "error") /\ UNCHANGED <<dbVars, outcome>>)
  <2> DEFINE L == {"storeSettled", "unlock", "done", "markFailed"}
  <2>1. /\ RowTypes' /\ TxTypes'
        /\ \A k \in Keys : txStatus[k] # NoRow => txStatus'[k] # NoRow
        /\ txStatus'[req[p].key] # NoRow
        /\ \A q \in Requests \ {p} : working'[q] = working[q]
    BY <1>4, CommittedStep
  <2>2. (\E l \in L : Goto(p, l)) /\ reply' \in [Requests -> Replies]
    BY <1>4, ReturnGoto DEF Replies, Errors, Cached, TxStatus, CallTypes
  <2>3. outcome' \in [Requests -> Cached]
    BY <1>4 DEF CallTypes, Cached, TxStatus
  <2>4. Live(p) /\ L \subseteq Labels
    BY DEF Live, Labels
  <2>5. CallTypes' /\ Others(p) /\ pc'[p] \in L
    BY <2>2, <2>3, <2>4, CallTypesStep DEF CallTypes
  <2>6. RowsExist'
    BY <2>1, <2>5, RowsExistStep DEF InTx
  <2> QED
    BY <1>1, <1>2, <2>1, <2>5, <2>6
<1> QED
  BY <1>3, <1>4

\* FailTransaction leaves a row a row, and what it returns is one.
LEMMA RowFailedStep ==
  ASSUME TypeInv, NEW p \in Requests, pc[p] \in AfterCreate,
         RowFailed(p) \/ UNCHANGED txStatus, UNCHANGED <<balance, status, maker, journal>>
  PROVE  /\ RowTypes'
         /\ \A k \in Keys : txStatus[k] # NoRow => txStatus'[k] # NoRow
         /\ txStatus'[req[p].key] # NoRow
         /\ FailedStatus(req[p].key) \in TxStatus
<1> USE DEF TypeInv, TypeOK
<1>1. req[p].key \in Keys /\ txStatus[req[p].key] \in TxStatus /\ txStatus[req[p].key] # NoRow
  BY DEF CallTypes, AfterCreate, InTx, Order, RowsExist, RowTypes
<1>2. FailedStatus(req[p].key) \in TxStatus /\ NoRow \notin TxStatus
  BY <1>1 DEF FailedStatus, TxStatus, NoRow
<1> QED
  BY <1>1, <1>2 DEF RowFailed, RowTypes

LEMMA TypeMarkFailed ==
  ASSUME TypeInv, NEW p \in Requests, MarkFailed(p)
  PROVE  TypeInv'
<1> USE DEF MarkFailed, TypeInv, TypeOK
<1> DEFINE L == {"storeFailed", "unlock", "done"}
<1>1. Live(p)
  BY DEF Live
<1>0. /\ RowTypes'
      /\ \A k \in Keys : txStatus[k] # NoRow => txStatus'[k] # NoRow
      /\ txStatus'[req[p].key] # NoRow
      /\ FailedStatus(req[p].key) \in TxStatus
  BY RowFailedStep DEF AfterCreate
<1>2. (\E l \in L : Goto(p, l)) /\ reply' \in [Requests -> Replies]
  BY DEF Return, Goto, GotoStoreFailed, CallTypes
<1>3. view' \in [Requests -> View] /\ outcome' \in [Requests -> Cached]
  BY <1>0 DEF CallTypes, Cached
<1>4. CallTypes' /\ Others(p) /\ pc'[p] \in L
  BY <1>1, <1>2, <1>3, CallTypesStep DEF Labels
<1>5. TxTypes' /\ StoreTypes'
  BY DEF TxTypes, StoreTypes, txVars, storeVars
<1>6. RowTypes'
  BY <1>0 DEF RowTypes
<1>7. EnvTypes'
  BY FaultsStep DEF EnvTypes, envVars
<1>8. RowsExist'
  BY <1>0, <1>4, RowsExistStep DEF InTx, AfterCreate, txVars
<1> QED
  BY <1>4, <1>5, <1>6, <1>7, <1>8

LEMMA TypeFailBegin ==
  ASSUME TypeInv, NEW p \in Requests, FailBegin(p)
  PROVE  TypeInv'
<1> USE DEF FailBegin, TypeInv, TypeOK
<1> DEFINE L == {"storeFailed", "done"}
<1>1. Live(p)
  BY DEF Live
<1>0. /\ RowTypes'
      /\ \A k \in Keys : txStatus[k] # NoRow => txStatus'[k] # NoRow
      /\ txStatus'[req[p].key] # NoRow
      /\ FailedStatus(req[p].key) \in TxStatus
  BY RowFailedStep DEF AfterCreate
<1>2. (\E l \in L : Goto(p, l)) /\ reply' \in [Requests -> Replies]
  BY DEF Return, Goto, GotoStoreFailed, CallTypes
<1>3. view' \in [Requests -> View] /\ outcome' \in [Requests -> Cached]
  BY <1>0 DEF CallTypes, Cached
<1>4. CallTypes' /\ Others(p) /\ pc'[p] \in L
  BY <1>1, <1>2, <1>3, CallTypesStep DEF Labels
<1>5. TxTypes' /\ StoreTypes'
  BY DEF TxTypes, StoreTypes, txVars, storeVars
<1>6. RowTypes'
  BY <1>0 DEF RowTypes
<1>7. EnvTypes'
  BY FaultsStep DEF EnvTypes, envVars
<1>8. RowsExist'
  BY <1>0, <1>4, RowsExistStep DEF InTx, AfterCreate, txVars
<1> QED
  BY <1>4, <1>5, <1>6, <1>7, <1>8

LEMMA TypeStoreFailed ==
  ASSUME TypeInv, NEW p \in Requests, StoreFailed(p)
  PROVE  TypeInv'
<1> USE DEF StoreFailed, TypeInv, TypeOK
<1> DEFINE L == {"done"}
<1>1. Live(p)
  BY DEF Live
<1>2. (\E l \in L : Goto(p, l)) /\ reply' \in [Requests -> Replies]
  BY DEF CallTypes
<1>3. view' \in [Requests -> View] /\ outcome' \in [Requests -> Cached]
  BY DEF CallTypes
<1>4. CallTypes' /\ Others(p) /\ pc'[p] \in L
  BY <1>1, <1>2, <1>3, CallTypesStep DEF Labels
<1>5. RowTypes' /\ TxTypes'
  BY DEF RowTypes, TxTypes, dbVars, txVars
<1>6. StoreTypes'
  BY <1>1 DEF StoreTypes, CallTypes
<1>7. EnvTypes'
  BY FaultsStep DEF EnvTypes, envVars
<1>8. RowsExist'
  BY <1>4, RowsExistStep DEF AfterCreate, InTx, dbVars, txVars
<1> QED
  BY <1>4, <1>5, <1>6, <1>7, <1>8

LEMMA TypeStoreSettled ==
  ASSUME TypeInv, NEW p \in Requests, StoreSettled(p)
  PROVE  TypeInv'
<1> USE DEF StoreSettled, TypeInv, TypeOK
<1> DEFINE L == {"unlock", "done"}
<1>1. Live(p)
  BY DEF Live
<1>2. (\E l \in L : Goto(p, l)) /\ reply' \in [Requests -> Replies]
  BY ReturnGoto DEF Replies, Errors, CallTypes
<1>3. view' \in [Requests -> View] /\ outcome' \in [Requests -> Cached]
  BY DEF CallTypes
<1>4. CallTypes' /\ Others(p) /\ pc'[p] \in L
  BY <1>1, <1>2, <1>3, CallTypesStep DEF Labels
<1>5. RowTypes' /\ TxTypes'
  BY DEF RowTypes, TxTypes, dbVars, txVars
<1>6. StoreTypes'
  BY <1>1 DEF StoreTypes, CallTypes, storeVars
<1>7. EnvTypes'
  BY FaultsStep DEF EnvTypes, envVars
<1>8. RowsExist'
  BY <1>4, RowsExistStep DEF AfterCreate, InTx, dbVars, txVars
<1> QED
  BY <1>4, <1>5, <1>6, <1>7, <1>8

LEMMA TypeUnlock ==
  ASSUME TypeInv, NEW p \in Requests, Unlock(p)
  PROVE  TypeInv'
<1> USE DEF Unlock, TypeInv, TypeOK
<1> DEFINE L == {"done"}
<1>1. Live(p)
  BY DEF Live
<1>2. (\E l \in L : Goto(p, l)) /\ reply' \in [Requests -> Replies]
  BY DEF CallTypes
<1>3. view' \in [Requests -> View] /\ outcome' \in [Requests -> Cached]
  BY DEF CallTypes
<1>4. CallTypes' /\ Others(p) /\ pc'[p] \in L
  BY <1>1, <1>2, <1>3, CallTypesStep DEF Labels
<1>5. RowTypes' /\ TxTypes'
  BY DEF RowTypes, TxTypes, dbVars, txVars
<1>6. StoreTypes'
  BY <1>1 DEF StoreTypes, CallTypes
<1>7. EnvTypes'
  BY FaultsStep DEF EnvTypes, envVars
<1>8. RowsExist'
  BY <1>4, RowsExistStep DEF AfterCreate, InTx, dbVars, txVars
<1> QED
  BY <1>4, <1>5, <1>6, <1>7, <1>8

LEMMA TypeEnvironment ==
  ASSUME TypeInv, Environment
  PROVE  TypeInv'
<1> USE DEF TypeInv, TypeOK, Fault
<1>1. CASE \E p \in Requests : Cancel(p)
  BY <1>1, BoundsAssumption
     DEF Cancel, RowTypes, TxTypes, StoreTypes, CallTypes, EnvTypes, RowsExist,
         dbVars, txVars, storeVars, callVars
<1>2. CASE Crash
  <2>1. RowTypes' /\ StoreTypes' /\ EnvTypes'
    BY <1>2, BoundsAssumption DEF Crash, RowTypes, StoreTypes, EnvTypes, dbVars, envVars
  <2>2. TxTypes'
    BY <1>2 DEF Crash, TxTypes, NoDelta
  <2>3. pc' \in [Requests -> Labels] /\ \A p \in Requests : pc'[p] \in {"idle", "done", "dead"}
    BY <1>2 DEF Crash, CallTypes, Live, Labels
  <2>4. CallTypes' /\ RowsExist'
    BY <1>2, <2>3 DEF Crash, CallTypes, RowsExist, AfterCreate, InTx
  <2> QED
    BY <2>1, <2>2, <2>4
<1>3. CASE \E k \in Keys : Expire(k)
  BY <1>3, BoundsAssumption
     DEF Expire, RowTypes, TxTypes, StoreTypes, CallTypes, EnvTypes, RowsExist,
         dbVars, txVars, callVars, envVars
<1>4. CASE \E a \in Accounts, s \in AccountStatus : SetAccountStatus(a, s)
  <2>1. RowTypes' /\ StoreTypes' /\ EnvTypes'
    BY <1>4, BoundsAssumption
       DEF SetAccountStatus, RowTypes, StoreTypes, EnvTypes, storeVars
  <2>2. TxTypes'
    BY <1>4 DEF SetAccountStatus, TxTypes
  <2>3. CallTypes' /\ RowsExist'
    BY <1>4 DEF SetAccountStatus, CallTypes, RowsExist, callVars
  <2> QED
    BY <2>1, <2>2, <2>3
<1> QED
  BY <1>1, <1>2, <1>3, <1>4 DEF Environment

LEMMA TypeStutter ==
  ASSUME TypeInv, UNCHANGED vars
  PROVE  TypeInv'
BY DEF TypeInv, TypeOK, RowTypes, TxTypes, StoreTypes, CallTypes, EnvTypes,
       RowsExist, vars, dbVars, txVars, storeVars, callVars, envVars

LEMMA TypeProgress ==
  ASSUME TypeInv, NEW p \in Requests, Progress(p)
  PROVE  TypeInv'
BY TypeCacheLookup, TypeClaim, TypeRecheck, TypeLoadSource, TypeLoadDest,
   TypeLoadClearing, TypeCreate, TypeCreateDest, TypeLoadDuplicate, TypeBegin, TypeFailBegin,
   TypeLockRow, TypeDeadlockVictim, TypePostEntry, TypeMark, TypeCommit,
   TypeMarkFailed, TypeStoreFailed, TypeStoreSettled, TypeUnlock
   DEF Progress

LEMMA TypeNext == TypeInv /\ [Next]_vars => TypeInv'
<1> SUFFICES ASSUME TypeInv, [Next]_vars PROVE TypeInv'
  OBVIOUS
<1>1. CASE \E p \in Requests : Progress(p) \/ \E r \in Payloads : Receive(p, r)
  BY <1>1, TypeProgress, TypeReceive
<1>2. CASE Environment
  BY <1>2, TypeEnvironment
<1>3. CASE Terminating \/ UNCHANGED vars
  BY <1>3, TypeStutter DEF Terminating
<1> QED
  BY <1>1, <1>2, <1>3 DEF Next

LEMMA TypeInvariant == Spec => []TypeInv
BY TypeInit, TypeNext, PTL DEF Spec

\* Every variable keeps its type, in every run of any number of calls.
THEOREM TypeCorrect == Spec => []TypeOK
<1>1. TypeInv => TypeOK
  BY DEF TypeInv
<1> QED
  BY <1>1, TypeInvariant, PTL

-----------------------------------------------------------------------------
(***************************************************************************)
(* No overdraft. Only the holder of a row has changed its balance, so what *)
(* checkSufficientBalances allowed one transaction is still there when it  *)
(* commits, whatever other transactions do to other rows in between. It is *)
(* rounded when it is written; what a row holds already never is again.    *)
(***************************************************************************)
WholeFunds ==
  /\ \A a \in Accounts : balance[a] \in Column
  /\ \A p \in Requests, a \in Accounts : delta[p][a] \in Column

Covered ==
  \A p \in Requests, a \in Accounts :
    /\ delta[p][a] # 0 => lock[a] = p
    /\ balance[a] + delta[p][a] >= 0

FundsInv == WholeFunds /\ Covered

\* A transaction that ends without a commit takes nothing with it.
LEMMA FundsEndTx ==
  ASSUME TypeInv, FundsInv, NoOverdraft, NEW p \in Requests, EndTx(p), UNCHANGED balance
  PROVE  FundsInv' /\ NoOverdraft'
<1> USE DEF TypeInv, TypeOK, RowTypes, TxTypes
<1>1. \A q \in Requests, a \in Accounts :
        delta'[q][a] = IF q = p THEN 0 ELSE delta[q][a]
  BY DEF EndTx, NoDelta
<1>2. \A a \in Accounts, q \in Requests \ {p} : lock[a] = q => lock'[a] = q
  BY DEF EndTx
<1>3. \A a \in Accounts : balance'[a] = balance[a] /\ balance[a] \in Int
  OBVIOUS
<1>4. ASSUME NEW q \in Requests, NEW a \in Accounts
      PROVE  /\ delta'[q][a] # 0 => lock'[a] = q
             /\ balance'[a] + delta'[q][a] >= 0
  <2>1. CASE q = p
    BY <1>1, <1>3, <2>1 DEF NoOverdraft
  <2>2. CASE q # p
    BY <1>1, <1>2, <1>3, <2>2 DEF FundsInv, Covered
  <2> QED
    BY <2>1, <2>2
<1>5. WholeFunds'
  BY <1>1, <1>3, ColumnClosed DEF FundsInv, WholeFunds
<1> QED
  BY <1>3, <1>4, <1>5 DEF FundsInv, Covered, NoOverdraft

\* What an entry that is not refused makes of its call's change.
LEMMA PostedDelta ==
  ASSUME TypeInv, FundsInv, NEW p \in Requests, NEW e \in Entry, ~Refused(p, e)
  PROVE  \A a \in Accounts : Written(p, e)[a] = delta[p][a] + Effect(e, a)
<1> SUFFICES ASSUME NEW a \in Accounts
             PROVE  Written(p, e)[a] = delta[p][a] + Effect(e, a)
  OBVIOUS
<1>1. balance[a] \in Column /\ delta[p][a] \in Column /\ balance[a] + delta[p][a] >= 0
  BY DEF FundsInv, WholeFunds, Covered
<1>2. a \in RowsOf(e) => balance[a] + delta[p][a] + Change(e)[a] >= 0
  <2>1. Change(e)[a] \in Int /\ balance[a] \in Int /\ delta[p][a] \in Int
    BY <1>1, EffectIs DEF Column
  <2> QED
    BY <2>1 DEF Refused
<1> QED
  BY <1>1, <1>2, WrittenIs

LEMMA FundsPostEntry ==
  ASSUME TypeInv, FundsInv, NoOverdraft, NEW p \in Requests, PostEntry(p)
  PROVE  FundsInv' /\ NoOverdraft'
<1> USE DEF TypeInv, TypeOK, RowTypes, TxTypes
<1> DEFINE e == EntryOf(p)
<1>1. UNCHANGED balance
  BY DEF PostEntry, dbVars
<1>2. CASE \E r \in {PostRefusal(p, e), "error"} : FailTx(p, r)
  BY <1>1, <1>2, FundsEndTx DEF FailTx
<1>3. CASE /\ ~Refused(p, e) /\ UNCHANGED lock
           /\ delta' = [delta EXCEPT ![p] = Written(p, e)]
  <2>1. e \in Entry
    BY EntryOfType DEF PostEntry, CallTypes
  <2>2. Change(e) \in [Accounts -> Int]
    BY <2>1, ChangeType
  <2>3. \A a \in Accounts : delta'[p][a] = Written(p, e)[a]
    BY <1>3
  <2>4. \A q \in Requests \ {p}, a \in Accounts : delta'[q][a] = delta[q][a]
    BY <1>3
  <2>5. \A a \in RowsOf(e) : lock[a] = p /\ balance[a] + delta'[p][a] >= 0
    <3> SUFFICES ASSUME NEW a \in RowsOf(e)
                 PROVE  lock[a] = p /\ balance[a] + delta'[p][a] >= 0
      OBVIOUS
    <3> DEFINE n == balance[a] + delta[p][a] + Change(e)[a]
    <3>1. a \in Accounts /\ balance[a] \in Int /\ delta[p][a] \in Int /\ n \in Int
      BY <2>1, <2>2 DEF RowsOf, Entry
    <3>2. n >= 0
      BY <1>3, <3>1 DEF Refused
    <3>3. Stored(n) \in Int /\ Stored(n) >= 0
      <4> HIDE DEF n
      <4> QED
        BY <3>1, <3>2, StoredFacts DEF Column
    <3>4. delta'[p][a] = Stored(n) - balance[a]
      BY <2>3, <3>1 DEF Written
    <3>5. lock[a] = p
      BY DEF PostEntry, Held
    <3> QED
      BY <3>1, <3>3, <3>4, <3>5
  <2>6. WholeFunds'
    <3>1. \A a \in Accounts : delta'[p][a] = delta[p][a] + Effect(e, a)
      BY <1>3, <2>1, <2>3, PostedDelta
    <3>2. \A a \in Accounts : delta[p][a] \in Column /\ Effect(e, a) \in Column
      BY <2>1, EffectType DEF FundsInv, WholeFunds
    <3>3. \A a \in Accounts : delta'[p][a] \in Column
      BY <3>1, <3>2, ColumnClosed, Zenon
    <3> QED
      BY <1>1, <2>4, <3>3 DEF FundsInv, WholeFunds
  <2>7. \A a \in Accounts : /\ delta'[p][a] # 0 => lock[a] = p
                            /\ balance[a] + delta'[p][a] >= 0
    <3>1. \A a \in Accounts \ RowsOf(e) : delta'[p][a] = delta[p][a]
      BY <2>3 DEF Written
    <3> QED
      BY <2>5, <3>1 DEF FundsInv, Covered
  <2>8. ASSUME NEW q \in Requests, NEW a \in Accounts
        PROVE  /\ delta'[q][a] # 0 => lock'[a] = q
               /\ balance'[a] + delta'[q][a] >= 0
    <3>1. CASE q = p
      BY <1>1, <1>3, <2>7, <3>1
    <3>2. CASE q # p
      BY <1>1, <1>3, <2>4, <3>2 DEF FundsInv, Covered
    <3> QED
      BY <3>1, <3>2
  <2> QED
    BY <1>1, <2>6, <2>8 DEF FundsInv, Covered, NoOverdraft
<1> QED
  BY <1>2, <1>3 DEF PostEntry

LEMMA FundsCommit ==
  ASSUME TypeInv, FundsInv, NoOverdraft, NEW p \in Requests, Commit(p)
  PROVE  FundsInv' /\ NoOverdraft'
<1> USE DEF TypeInv, TypeOK, RowTypes, TxTypes
<1>1. CASE FailTx(p, "error") /\ UNCHANGED dbVars
  BY <1>1, FundsEndTx DEF FailTx, dbVars
<1>2. CASE Committed(p)
  <2>1. \A a \in Accounts : balance'[a] = balance[a] + delta[p][a]
    BY <1>2 DEF Committed
  <2>2. \A q \in Requests, a \in Accounts :
          delta'[q][a] = IF q = p THEN 0 ELSE delta[q][a]
    BY <1>2 DEF Committed, EndTx, NoDelta
  <2>3. \A a \in Accounts, q \in Requests \ {p} : lock[a] = q => lock'[a] = q
    BY <1>2 DEF Committed, EndTx
  <2>4. \A a \in Accounts : balance'[a] >= 0
    BY <2>1 DEF FundsInv, Covered
  <2>5. ASSUME NEW q \in Requests \ {p}, NEW a \in Accounts
        PROVE  balance'[a] + delta'[q][a] >= 0
    <3>0. balance'[a] \in Int /\ delta'[q][a] = delta[q][a]
      BY <2>1, <2>2
    <3>1. CASE delta[q][a] = 0
      BY <2>4, <3>0, <3>1
    <3>2. CASE delta[q][a] # 0
      <4>1. lock[a] = q /\ delta[p][a] = 0
        BY <3>2 DEF FundsInv, Covered
      <4> QED
        BY <2>1, <3>0, <4>1 DEF FundsInv, Covered
    <3> QED
      BY <3>1, <3>2
  <2>6. \A a \in Accounts : balance'[a] + delta'[p][a] >= 0
    BY <1>2, <2>1, <2>2, <2>4
  <2>7. \A q \in Requests, a \in Accounts : delta'[q][a] # 0 => lock'[a] = q
    BY <2>2, <2>3 DEF FundsInv, Covered
  <2>8. \A q \in Requests, a \in Accounts : balance'[a] + delta'[q][a] >= 0
    BY <2>5, <2>6
  <2>9. WholeFunds'
    <3>1. \A a \in Accounts : balance[a] \in Column /\ delta[p][a] \in Column
      BY DEF FundsInv, WholeFunds
    <3>2. \A a \in Accounts : balance'[a] \in Column
      BY <2>1, <3>1, ColumnClosed, Zenon
    <3>3. \A q \in Requests, a \in Accounts : delta'[q][a] \in Column
      BY <2>2, ColumnClosed DEF FundsInv, WholeFunds
    <3> QED
      BY <3>2, <3>3 DEF WholeFunds
  <2> HIDE DEF TypeInv
  <2> QED
    BY <2>4, <2>7, <2>8, <2>9 DEF FundsInv, Covered, NoOverdraft
<1> QED
  BY <1>1, <1>2 DEF Commit

\* Every other action leaves the balances alone, and the locks and changes of
\* the open transactions too, unless it ends one.
LEMMA FundsProgress ==
  ASSUME TypeInv, FundsInv, NoOverdraft, NEW p \in Requests, Progress(p)
  PROVE  FundsInv' /\ NoOverdraft'
<1> DEFINE Quiet == UNCHANGED <<balance, lock, delta>>
<1>1. Quiet => FundsInv' /\ NoOverdraft'
  BY DEF FundsInv, WholeFunds, Covered, NoOverdraft
<1>2. CASE CacheLookup(p) \/ Claim(p) \/ Recheck(p) \/ LoadSource(p) \/ LoadDest(p)
           \/ LoadClearing(p) \/ Create(p) \/ CreateDest(p) \/ LoadDuplicate(p)
           \/ Begin(p)
  BY <1>1, <1>2 DEF CacheLookup, Claim, Recheck, LoadSource, LoadDest, LoadClearing,
                    Create, CreateDest, LoadDuplicate, Begin, dbVars, txVars
<1>3. CASE FailBegin(p) \/ MarkFailed(p) \/ StoreFailed(p) \/ StoreSettled(p) \/ Unlock(p)
  BY <1>1, <1>3 DEF FailBegin, MarkFailed, StoreFailed, StoreSettled, Unlock, dbVars, txVars
<1>4. CASE \E a \in Accounts : LockRow(p, a)
  <2>1. PICK a \in Accounts : LockRow(p, a)
    BY <1>4
  <2>2. CASE FailTx(p, "error")
    BY <2>1, <2>2, FundsEndTx DEF LockRow, FailTx, dbVars
  <2>3. CASE lock[a] = None /\ lock' = [lock EXCEPT ![a] = p] /\ UNCHANGED <<balance, delta>>
    BY <2>3, BoundsAssumption DEF FundsInv, WholeFunds, Covered, NoOverdraft, TypeInv, TypeOK,
                                  TxTypes
  <2> QED
    BY <2>1, <2>2, <2>3 DEF LockRow, dbVars
<1>5. CASE DeadlockVictim(p)
  BY <1>1, <1>5, FundsEndTx DEF DeadlockVictim, FailTx, dbVars, txVars
<1>6. CASE MarkProcessing(p) \/ MarkSettled(p)
  <2>1. UNCHANGED balance /\ (EndTx(p) \/ UNCHANGED <<lock, delta>>)
    BY <1>6 DEF MarkProcessing, MarkSettled, UpdateStatusTx, FailTx, dbVars
  <2> QED
    BY <1>1, <2>1, FundsEndTx
<1> QED
  BY <1>2, <1>3, <1>4, <1>5, <1>6, FundsPostEntry, FundsCommit DEF Progress

LEMMA FundsNext ==
  TypeInv /\ FundsInv /\ NoOverdraft /\ [Next]_vars => FundsInv' /\ NoOverdraft'
<1> SUFFICES ASSUME TypeInv, FundsInv, NoOverdraft, [Next]_vars
             PROVE  FundsInv' /\ NoOverdraft'
  OBVIOUS
<1>1. UNCHANGED <<balance, lock, delta>> => FundsInv' /\ NoOverdraft'
  BY DEF FundsInv, WholeFunds, Covered, NoOverdraft
<1>2. CASE \E p \in Requests : Progress(p)
  BY <1>2, FundsProgress
<1>3. CASE \E p \in Requests, r \in Payloads : Receive(p, r)
  BY <1>1, <1>3 DEF Receive, dbVars, txVars
<1>4. CASE Crash
  BY <1>4, ColumnClosed DEF Crash, dbVars, NoDelta, FundsInv, WholeFunds, Covered, NoOverdraft,
                            TypeInv, TypeOK, RowTypes
<1>5. CASE Environment /\ ~Crash
  BY <1>1, <1>5 DEF Environment, Cancel, Expire, SetAccountStatus, dbVars, txVars
<1>6. CASE Terminating \/ UNCHANGED vars
  BY <1>1, <1>6 DEF Terminating, vars, dbVars, txVars
<1> QED
  BY <1>2, <1>3, <1>4, <1>5, <1>6 DEF Next

LEMMA FundsInit == Init => FundsInv /\ NoOverdraft
<1> SUFFICES ASSUME Init PROVE FundsInv /\ NoOverdraft
  OBVIOUS
<1>1. \A a \in Accounts : balance[a] \in Nat /\ balance[a] \in Column
  BY AccountsAssumption DEF Init, Column
<1>2. \A p \in Requests, a \in Accounts : delta[p][a] = 0
  BY DEF Init, NoDelta
<1> QED
  BY <1>1, <1>2, ColumnClosed DEF FundsInv, WholeFunds, Covered, NoOverdraft

\* No account is overdrawn, however many calls compete for its funds and whatever
\* fails: the balances start at zero or more and every committed change was
\* covered under the row lock, where rounding cannot take it below zero.
THEOREM NeverOverdrawn == Spec => []NoOverdraft
<1>1. Init => FundsInv /\ NoOverdraft
  BY FundsInit
<1> QED
  BY <1>1, FundsNext, TypeInvariant, PTL DEF Spec

-----------------------------------------------------------------------------
(***************************************************************************)
(* Settlement and postings are one. A row belongs to the call that         *)
(* inserted it, which alone posts for it and moves it on; at each label    *)
(* that call's transaction has posted exactly the entries due by then.     *)
(***************************************************************************)
\* The labels at which a call is about to settle its row, or may yet fail it.
Settling == InTx \cup {"begin", "failBegin"}
Owning   == Settling \cup {"markFailed"}

\* A row exists when it has a maker: a call that has the row's key.
OwnerInv ==
  /\ \A k \in Keys : txStatus[k] # NoRow =>
       /\ maker[k] \in Requests
       /\ req[maker[k]].key = k
       /\ pc[maker[k]] # "idle"
  /\ \A p \in Requests :
       /\ pc[p] \in Owning => maker[req[p].key] = p
       /\ pc[p] \in Settling => txStatus[req[p].key] = "PENDING"

\* What an open transaction has posted, and the status it sees.
StageOf(p) ==
  LET first == StoredEntry(ClearingEntry(req[p]))
      both  == <<first, StoredEntry(SettlementEntry(req[p]))>>
  IN  /\ pc[p] = "postClearing"   => posted[p] = << >> /\ working[p] = "PENDING"
      /\ pc[p] = "markProcessing" => posted[p] = <<first>> /\ working[p] = "PENDING"
      /\ pc[p] = "postSettlement" => posted[p] = <<first>> /\ working[p] = "PROCESSING"
      /\ pc[p] = "markSettled"    => posted[p] = both /\ working[p] = "PROCESSING"
      /\ pc[p] = "commit"         => posted[p] = both /\ working[p] = "SETTLED"
      /\ pc[p] \notin InTx        => posted[p] = << >>

StageInv == \A p \in Requests : StageOf(p)

PostingInv == OwnerInv /\ StageInv /\ SettledIffPosted

LEMMA Orders ==
  ASSUME TypeInv, NEW p \in Requests, pc[p] \notin {"idle", "done", "dead"}
  PROVE  req[p] \in Order /\ req[p].key \in Keys
BY DEF TypeInv, TypeOK, CallTypes, Order

\* A step of p that leaves rows, entries and transactions alone and does not take
\* it into the settling labels.
LEMMA PostingQuiet ==
  ASSUME PostingInv, NEW p \in Requests, Others(p), pc[p] \notin InTx,
         pc'[p] \notin Owning \cup {"idle"},
         UNCHANGED <<txStatus, maker, journal, req, posted, working>>
  PROVE  PostingInv'
<1>1. OwnerInv'
  BY DEF PostingInv, OwnerInv, Others, Owning, Settling
<1>2. StageInv'
  <2>1. ASSUME NEW q \in Requests, q # p PROVE pc'[q] = pc[q]
    BY <2>1 DEF Others
  <2>2. posted'[p] = << >> /\ pc'[p] \notin InTx
    BY DEF PostingInv, StageInv, StageOf, Owning, Settling
  <2> QED
    BY <2>1, <2>2
       DEF PostingInv, StageInv, StageOf, InTx, ClearingEntry, SettlementEntry, StoredEntry
<1>3. SettledIffPosted'
  BY DEF PostingInv, SettledIffPosted, ClearingEntry, SettlementEntry, StoredEntry
<1> QED
  BY <1>1, <1>2, <1>3 DEF PostingInv

LEMMA PostingFailTx ==
  ASSUME TypeInv, PostingInv, NEW p \in Requests, pc[p] \in InTx, NEW r, FailTx(p, r),
         UNCHANGED <<dbVars, req>>
  PROVE  PostingInv'
<1>1. Others(p) /\ pc'[p] = "markFailed"
  BY DEF FailTx, Goto, TypeInv, TypeOK, CallTypes, Others
<1>2. posted'[p] = << >> /\ \A q \in Requests \ {p} : posted'[q] = posted[q] /\ working'[q] = working[q]
  BY DEF FailTx, EndTx, TypeInv, TypeOK, TxTypes
<1>3. OwnerInv'
  BY <1>1 DEF PostingInv, OwnerInv, Others, Owning, Settling, InTx, dbVars
<1>4. StageInv'
  BY <1>1, <1>2
     DEF PostingInv, StageInv, StageOf, Others, InTx, ClearingEntry, SettlementEntry, StoredEntry
<1>5. SettledIffPosted'
  BY DEF PostingInv, SettledIffPosted, ClearingEntry, SettlementEntry, StoredEntry, dbVars
<1> QED
  BY <1>3, <1>4, <1>5 DEF PostingInv

\* A step of p's own transaction: p goes to the next stage with what it posted.
LEMMA PostingStage ==
  ASSUME TypeInv, PostingInv, NEW p \in Requests, pc[p] \in Settling, pc'[p] \in InTx,
         Others(p), UNCHANGED <<dbVars, req>>,
         \A q \in Requests \ {p} : posted'[q] = posted[q] /\ working'[q] = working[q],
         StageOf(p)'
  PROVE  PostingInv'
<1>1. OwnerInv'
  BY DEF PostingInv, OwnerInv, Others, Owning, Settling, InTx, dbVars
<1>2. StageInv'
  <2> SUFFICES ASSUME NEW q \in Requests \ {p} PROVE StageOf(q)'
    BY DEF StageInv
  <2>1. pc'[q] = pc[q] /\ posted'[q] = posted[q] /\ working'[q] = working[q] /\ StageOf(q)
    BY DEF Others, PostingInv, StageInv
  <2> QED
    BY <2>1 DEF StageOf, ClearingEntry, SettlementEntry, StoredEntry
<1>3. SettledIffPosted'
  BY DEF PostingInv, SettledIffPosted, ClearingEntry, SettlementEntry, StoredEntry, dbVars
<1> QED
  BY <1>1, <1>2, <1>3 DEF PostingInv

LEMMA PostingReceive ==
  ASSUME TypeInv, PostingInv, NEW p \in Requests, NEW r \in Payloads, Receive(p, r)
  PROVE  PostingInv'
<1>1. /\ Others(p) /\ pc[p] = "idle" /\ pc'[p] \notin Owning \cup {"idle"}
      /\ \A q \in Requests \ {p} : req'[q] = req[q]
  BY DEF Receive, Goto, Others, Owning, Settling, InTx, TypeInv, TypeOK, CallTypes
<1>2. UNCHANGED <<txStatus, maker, journal, posted, working>>
  BY DEF Receive, dbVars, txVars
<1>3. \A k \in Keys : txStatus[k] # NoRow => maker[k] \in Requests \ {p}
  BY <1>1 DEF PostingInv, OwnerInv
<1>4. OwnerInv'
  BY <1>1, <1>2, <1>3 DEF PostingInv, OwnerInv, Others, Owning, Settling
<1>5. StageInv'
  <2>1. posted'[p] = << >> /\ pc'[p] \notin InTx
    BY <1>1, <1>2 DEF PostingInv, StageInv, StageOf, Owning, Settling, InTx
  <2>2. ASSUME NEW q \in Requests \ {p} PROVE StageOf(q)'
    BY <1>1, <1>2, <2>2
       DEF PostingInv, StageInv, StageOf, Others, ClearingEntry, SettlementEntry, StoredEntry
  <2>3. StageOf(p)'
    BY <2>1 DEF StageOf, InTx
  <2> QED
    BY <2>2, <2>3 DEF StageInv
<1>6. SettledIffPosted'
  BY <1>1, <1>2, <1>3
     DEF PostingInv, SettledIffPosted, ClearingEntry, SettlementEntry, StoredEntry, NoRow
<1> QED
  BY <1>4, <1>5, <1>6 DEF PostingInv

\* Two calls never insert the same key at once, nor one that is there already: at
\* "createDest" a call has the key to itself.
InsertInv ==
  \A p \in Requests : pc[p] = "createDest" =>
    /\ txStatus[req[p].key] = NoRow
    /\ \A q \in Requests : pc[q] = "createDest" /\ req[q].key = req[p].key => q = p

\* A step of p that takes it to another label, and writes no row but that of its
\* key, when that row exists already or p is inserting it.
LEMMA InsertKept ==
  ASSUME TypeInv, InsertInv, NEW p \in Requests, Others(p), pc'[p] # "createDest", req' = req,
         \/ txStatus' = txStatus
         \/ /\ pc[p] \in AfterCreate \cup {"createDest"}
            /\ \A k \in Keys \ {req[p].key} : txStatus'[k] = txStatus[k]
  PROVE  InsertInv'
<1>1. ASSUME NEW q \in Requests, pc'[q] = "createDest"
      PROVE  /\ q # p /\ pc[q] = "createDest"
             /\ txStatus'[req[q].key] = txStatus[req[q].key]
  <2>1. q # p /\ pc[q] = "createDest"
    BY <1>1 DEF Others
  <2>2. pc[p] \in AfterCreate => txStatus[req[p].key] # NoRow
    BY DEF TypeInv, RowsExist
  <2>3. pc[p] \in AfterCreate \cup {"createDest"} => req[q].key # req[p].key
    BY <2>1, <2>2 DEF InsertInv
  <2>4. req[q].key \in Keys
    BY <2>1, Orders
  <2> QED
    BY <2>1, <2>3, <2>4
<1> QED
  BY <1>1 DEF InsertInv

LEMMA InsertCreate ==
  ASSUME TypeInv, InsertInv, NEW p \in Requests, Create(p)
  PROVE  InsertInv'
<1>1. UNCHANGED <<txStatus, req>> /\ Others(p)
  BY DEF Create, Return, Goto, Others, dbVars, TypeInv, TypeOK, CallTypes
<1>2. CASE pc'[p] = "createDest"
  <2>1. txStatus[req[p].key] = NoRow
        /\ \A q \in Requests : pc[q] = "createDest" => req[q].key # req[p].key
    BY <1>2 DEF Create, Taken, Reserved, Return, Goto, TypeInv, TypeOK, CallTypes
  <2> QED
    BY <1>1, <2>1 DEF InsertInv, Others
<1> QED
  BY <1>1, <1>2, InsertKept

\* The actions that write a row write the one of their key, which was there or is
\* being inserted.
LEMMA InsertWrite ==
  ASSUME TypeInv, InsertInv, NEW p \in Requests,
         CreateDest(p) \/ Commit(p) \/ MarkFailed(p) \/ FailBegin(p)
  PROVE  InsertInv'
<1>1. pc[p] \in AfterCreate \cup {"createDest"} /\ req' = req
  BY DEF CreateDest, Commit, MarkFailed, FailBegin, AfterCreate, InTx
<1>2. Others(p) /\ pc'[p] # "createDest"
  <2>1. CASE CreateDest(p) \/ Commit(p)
    BY <2>1 DEF CreateDest, Commit, FailTx, Return, Goto, Others, TypeInv, TypeOK, CallTypes
  <2>2. CASE MarkFailed(p) \/ FailBegin(p)
    BY <2>2, SMTT(30)
       DEF MarkFailed, FailBegin, GotoStoreFailed, Return, Goto, Others, TypeInv, TypeOK, CallTypes
  <2> QED
    BY <2>1, <2>2
<1>3. \A k \in Keys \ {req[p].key} : txStatus'[k] = txStatus[k]
  BY DEF CreateDest, Commit, MarkFailed, FailBegin, Inserted, Committed, RowFailed, dbVars,
         TypeInv, TypeOK, RowTypes
<1> QED
  BY <1>1, <1>2, <1>3, InsertKept

LEMMA InsertProgress ==
  ASSUME TypeInv, InsertInv, NEW p \in Requests, Progress(p)
  PROVE  InsertInv'
<1> DEFINE Quiet == UNCHANGED <<txStatus, req>> /\ Others(p)
                    /\ (pc'[p] # "createDest" \/ pc' = pc)
<1>1. Quiet => InsertInv'
  BY InsertKept DEF InsertInv
<1>2. CASE CacheLookup(p) \/ Claim(p) \/ Recheck(p)
  <2>1. Quiet
    BY <1>2
       DEF CacheLookup, Claim, Recheck, Return, Goto, Others, dbVars, TypeInv, TypeOK, CallTypes
  <2> QED BY <1>1, <2>1
<1>3. CASE LoadSource(p) \/ LoadDest(p) \/ LoadClearing(p)
  <2>1. Quiet
    BY <1>3 DEF LoadSource, LoadDest, LoadClearing, Return, Goto, Others, dbVars, TypeInv, TypeOK,
                CallTypes
  <2> QED BY <1>1, <2>1
<1>4. CASE LoadDuplicate(p) \/ Begin(p) \/ DeadlockVictim(p)
  <2>1. Quiet
    BY <1>4 DEF LoadDuplicate, Begin, DeadlockVictim, FailTx, Return, Goto, Others, dbVars, TypeInv,
                TypeOK, CallTypes
  <2> QED BY <1>1, <2>1
<1>5. CASE (\E a \in Accounts : LockRow(p, a)) \/ PostEntry(p)
  <2>1. Quiet
    BY <1>5 DEF LockRow, PostEntry, FailTx, Goto, Others, dbVars, TypeInv, TypeOK, CallTypes
  <2> QED BY <1>1, <2>1
<1>6. CASE MarkProcessing(p) \/ MarkSettled(p)
  <2>1. Quiet
    BY <1>6 DEF MarkProcessing, MarkSettled, UpdateStatusTx, FailTx, Goto, Others, dbVars, TypeInv,
                TypeOK, CallTypes
  <2> QED BY <1>1, <2>1
<1>7. CASE StoreFailed(p) \/ StoreSettled(p) \/ Unlock(p)
  <2>1. Quiet
    BY <1>7 DEF StoreFailed, StoreSettled, Unlock, Return, Goto, Others, dbVars, TypeInv, TypeOK,
                CallTypes
  <2> QED BY <1>1, <2>1
<1> QED
  BY <1>2, <1>3, <1>4, <1>5, <1>6, <1>7, InsertCreate, InsertWrite DEF Progress

LEMMA InsertNext == TypeInv /\ InsertInv /\ [Next]_vars => InsertInv'
<1> SUFFICES ASSUME TypeInv, InsertInv, [Next]_vars PROVE InsertInv'
  OBVIOUS
<1>1. CASE \E p \in Requests : Progress(p)
  BY <1>1, InsertProgress
<1>2. CASE \E p \in Requests, r \in Payloads : Receive(p, r)
  <2>1. PICK p \in Requests, r \in Payloads : Receive(p, r)
    BY <1>2
  <2>2. /\ Others(p) /\ pc'[p] # "createDest" /\ txStatus' = txStatus
        /\ \A q \in Requests \ {p} : req'[q] = req[q]
    BY <2>1 DEF Receive, Goto, Others, dbVars, TypeInv, TypeOK, CallTypes
  <2> QED
    BY <2>2 DEF InsertInv, Others
<1>3. CASE Crash
  BY <1>3 DEF Crash, Live, InsertInv, dbVars
<1>4. UNCHANGED <<txStatus, req, pc>> => InsertInv'
  BY DEF InsertInv
<1>5. CASE (Environment /\ ~Crash) \/ Terminating \/ UNCHANGED vars
  BY <1>4, <1>5 DEF Environment, Cancel, Expire, SetAccountStatus, Terminating, vars, dbVars,
                    txVars, callVars
<1> QED
  BY <1>1, <1>2, <1>3, <1>5 DEF Next

LEMMA PostingCreate ==
  ASSUME TypeInv, PostingInv, NEW p \in Requests, Create(p)
  PROVE  PostingInv'
<1>1. /\ UNCHANGED <<txStatus, maker, journal, req, posted, working>>
      /\ pc[p] \notin InTx
  BY DEF Create, InTx, dbVars, txVars
<1>2. Others(p) /\ pc'[p] \notin Owning \cup {"idle"}
  BY DEF Create, Return, Goto, Others, Owning, Settling, InTx, TypeInv, TypeOK, CallTypes
<1> QED
  BY <1>1, <1>2, PostingQuiet

LEMMA PostingCreateDest ==
  ASSUME TypeInv, InsertInv, PostingInv, NEW p \in Requests, CreateDest(p)
  PROVE  PostingInv'
<1> DEFINE k == req[p].key
<1>1. pc[p] = "createDest" /\ k \in Keys /\ UNCHANGED <<journal, req, posted, working>>
  BY Orders DEF CreateDest, txVars
<1>2. Others(p) /\ pc'[p] \notin InTx \cup {"idle", "failBegin", "markFailed"}
  BY DEF CreateDest, Return, Goto, Others, InTx, TypeInv, TypeOK, CallTypes
<1>3. CASE UNCHANGED <<txStatus, maker>> /\ pc'[p] # "begin"
  BY <1>1, <1>2, <1>3, PostingQuiet DEF Owning, Settling, InTx
<1>4. CASE txStatus[k] = NoRow /\ Inserted(p)
  <2>1. /\ txStatus'[k] = "PENDING" /\ maker'[k] = p
        /\ \A j \in Keys \ {k} : txStatus'[j] = txStatus[j] /\ maker'[j] = maker[j]
    BY <1>1, <1>4 DEF Inserted, TypeInv, TypeOK, RowTypes
  <2>2. \A q \in Requests : pc[q] \in Owning => req[q].key \in Keys \ {k}
    BY <1>4, Orders DEF Owning, Settling, InTx, TypeInv, RowsExist, AfterCreate
  <2>3. OwnerInv'
    BY <1>1, <1>2, <2>1, <2>2 DEF PostingInv, OwnerInv, Others, Owning, Settling
  <2>4. StageInv'
    <3>1. StageOf(p)'
      BY <1>1, <1>2 DEF PostingInv, StageInv, StageOf, InTx
    <3>2. ASSUME NEW q \in Requests \ {p} PROVE StageOf(q)'
      BY <1>1, <1>2, <3>2
         DEF PostingInv, StageInv, StageOf, Others, ClearingEntry, SettlementEntry, StoredEntry
    <3> QED
      BY <3>1, <3>2 DEF StageInv
  <2>5. SettledIffPosted'
    BY <1>1, <1>4, <2>1
       DEF PostingInv, SettledIffPosted, ClearingEntry, SettlementEntry, StoredEntry, NoRow
  <2> QED
    BY <2>3, <2>4, <2>5 DEF PostingInv
<1>5. (UNCHANGED <<txStatus, maker>> /\ pc'[p] # "begin") \/ (txStatus[k] = NoRow /\ Inserted(p))
  BY DEF CreateDest, InsertInv, Return, Goto, TypeInv, TypeOK, CallTypes
<1> QED
  BY <1>3, <1>4, <1>5

LEMMA PostingBegin ==
  ASSUME TypeInv, PostingInv, NEW p \in Requests, Begin(p)
  PROVE  PostingInv'
<1>1. /\ pc[p] = "begin" /\ pc'[p] \in {"postClearing", "failBegin"} /\ Others(p)
      /\ UNCHANGED <<dbVars, req, posted>>
      /\ pc'[p] = "postClearing" => working'[p] = txStatus[req[p].key]
      /\ \A q \in Requests \ {p} : working'[q] = working[q]
  BY DEF Begin, Goto, Others, TypeInv, TypeOK, CallTypes, TxTypes
<1>2. /\ posted[p] = << >> /\ txStatus[req[p].key] = "PENDING"
      /\ maker[req[p].key] = p
  BY <1>1 DEF PostingInv, StageInv, StageOf, OwnerInv, Owning, Settling, InTx
<1>3. OwnerInv'
  BY <1>1, <1>2 DEF PostingInv, OwnerInv, Others, Owning, Settling, InTx, dbVars
<1>4. StageInv'
  <2>1. StageOf(p)'
    BY <1>1, <1>2 DEF StageOf, InTx
  <2>2. ASSUME NEW q \in Requests \ {p} PROVE StageOf(q)'
    BY <1>1, <2>2
       DEF PostingInv, StageInv, StageOf, Others, ClearingEntry, SettlementEntry, StoredEntry
  <2> QED
    BY <2>1, <2>2 DEF StageInv
<1>5. SettledIffPosted'
  BY <1>1 DEF PostingInv, SettledIffPosted, ClearingEntry, SettlementEntry, StoredEntry, dbVars
<1> QED
  BY <1>3, <1>4, <1>5 DEF PostingInv

LEMMA AppendSecond ==
  ASSUME NEW x, NEW y
  PROVE  Append(<<x>>, y) = <<x, y>>
<1> DEFINE S == {x, y}
           s == Append(<<x>>, y)
           t == <<x, y>>
<1>1. s \in Seq(S) /\ Len(s) = 2 /\ s[1] = x /\ s[2] = y
  OBVIOUS
<1>2. t \in Seq(S) /\ Len(t) = 2 /\ t[1] = x /\ t[2] = y
  OBVIOUS
<1> HIDE DEF s, t
<1>3. \A i \in 1..Len(s) : s[i] = t[i]
  BY <1>1, <1>2
<1>4. s = t
  BY <1>1, <1>2, <1>3
<1> QED
  BY <1>4 DEF s, t

LEMMA PostingPostEntry ==
  ASSUME TypeInv, PostingInv, NEW p \in Requests, PostEntry(p)
  PROVE  PostingInv'
<1> DEFINE e == EntryOf(p)
<1>1. pc[p] \in {"postClearing", "postSettlement"} /\ UNCHANGED <<dbVars, req>>
  BY DEF PostEntry
<1>2. CASE \E r \in {PostRefusal(p, e), "error"} : FailTx(p, r)
  BY <1>1, <1>2, PostingFailTx DEF InTx
<1>3. CASE /\ posted' = [posted EXCEPT ![p] = Append(@, StoredEntry(e))] /\ UNCHANGED working
           /\ Goto(p, IF pc[p] = "postClearing" THEN "markProcessing" ELSE "markSettled")
  <2>1. /\ Others(p)
        /\ pc'[p] = IF pc[p] = "postClearing" THEN "markProcessing" ELSE "markSettled"
    BY <1>3 DEF Goto, Others, TypeInv, TypeOK, CallTypes
  <2>2. /\ posted'[p] = Append(posted[p], StoredEntry(e))
        /\ \A q \in Requests \ {p} : posted'[q] = posted[q]
    BY <1>3 DEF TypeInv, TypeOK, TxTypes
  <2>3. CASE pc[p] = "postClearing"
    <3>1. e = ClearingEntry(req[p]) /\ posted[p] = << >> /\ working[p] = "PENDING"
      BY <2>3 DEF EntryOf, PostingInv, StageInv, StageOf
    <3>2. posted'[p] = <<StoredEntry(ClearingEntry(req[p]))>>
      BY <2>2, <3>1
    <3>3. StageOf(p)'
      BY <1>1, <1>3, <2>1, <2>3, <3>1, <3>2 DEF StageOf, InTx, ClearingEntry
    <3> QED
      BY <1>1, <1>3, <2>1, <2>2, <2>3, <3>3, PostingStage DEF Settling, InTx
  <2>4. CASE pc[p] = "postSettlement"
    <3>1. /\ e = SettlementEntry(req[p])
          /\ posted[p] = <<StoredEntry(ClearingEntry(req[p]))>>
          /\ working[p] = "PROCESSING"
      BY <2>4 DEF EntryOf, PostingInv, StageInv, StageOf
    <3>2. posted'[p] = <<StoredEntry(ClearingEntry(req[p])), StoredEntry(SettlementEntry(req[p]))>>
      BY <2>2, <3>1, AppendSecond
    <3>3. StageOf(p)'
      BY <1>1, <1>3, <2>1, <2>4, <3>1, <3>2
         DEF StageOf, InTx, ClearingEntry, SettlementEntry, StoredEntry
    <3> QED
      BY <1>1, <1>3, <2>1, <2>2, <2>4, <3>3, PostingStage DEF Settling, InTx
  <2> QED
    BY <1>1, <2>3, <2>4
<1> QED
  BY <1>2, <1>3 DEF PostEntry

LEMMA PostingMark ==
  ASSUME TypeInv, PostingInv, NEW p \in Requests, MarkProcessing(p) \/ MarkSettled(p)
  PROVE  PostingInv'
<1>1. pc[p] \in {"markProcessing", "markSettled"} /\ UNCHANGED <<dbVars, req>>
  BY DEF MarkProcessing, MarkSettled, UpdateStatusTx
<1>2. CASE FailTx(p, "error")
  BY <1>1, <1>2, PostingFailTx DEF InTx
<1>3. CASE ~FailTx(p, "error")
  <2>1. \/ /\ pc[p] = "markProcessing" /\ Goto(p, "postSettlement")
           /\ working' = [working EXCEPT ![p] = "PROCESSING"]
        \/ /\ pc[p] = "markSettled" /\ Goto(p, "commit")
           /\ working' = [working EXCEPT ![p] = "SETTLED"]
    BY <1>3 DEF MarkProcessing, MarkSettled, UpdateStatusTx
  <2>2. UNCHANGED posted
    BY <1>3 DEF MarkProcessing, MarkSettled, UpdateStatusTx
  <2>3. /\ Others(p) /\ \A q \in Requests \ {p} : working'[q] = working[q]
        /\ \/ pc[p] = "markProcessing" /\ pc'[p] = "postSettlement" /\ working'[p] = "PROCESSING"
           \/ pc[p] = "markSettled" /\ pc'[p] = "commit" /\ working'[p] = "SETTLED"
    BY <2>1 DEF Goto, Others, TypeInv, TypeOK, CallTypes, TxTypes
  <2>4. StageOf(p)'
    BY <1>1, <2>2, <2>3
       DEF PostingInv, StageInv, StageOf, InTx, ClearingEntry, SettlementEntry, StoredEntry
  <2> QED
    BY <1>1, <2>2, <2>3, <2>4, PostingStage DEF Settling, InTx
<1> QED
  BY <1>2, <1>3

LEMMA PostingCommit ==
  ASSUME TypeInv, PostingInv, NEW p \in Requests, Commit(p)
  PROVE  PostingInv'
<1> DEFINE k == req[p].key
<1>1. pc[p] = "commit" /\ UNCHANGED req /\ k \in Keys
  BY Orders DEF Commit
<1>2. CASE FailTx(p, "error") /\ UNCHANGED dbVars
  BY <1>1, <1>2, PostingFailTx DEF InTx
<1>3. CASE ~(FailTx(p, "error") /\ UNCHANGED dbVars)
  <2>1. Committed(p) /\ UNCHANGED maker
    BY <1>3 DEF Commit
  <2>2. Others(p) /\ pc'[p] \notin Settling \cup {"idle"}
    BY <1>3 DEF Commit, Return, Goto, Others, Settling, InTx, TypeInv, TypeOK, CallTypes
  <2>3. /\ maker[k] = p /\ txStatus[k] = "PENDING" /\ working[p] = "SETTLED"
        /\ posted[p] = <<StoredEntry(ClearingEntry(req[p])), StoredEntry(SettlementEntry(req[p]))>>
    BY <1>1 DEF PostingInv, OwnerInv, StageInv, StageOf, Owning, Settling, InTx
  <2>4. /\ txStatus'[k] = "SETTLED"
        /\ \A j \in Keys \ {k} : txStatus'[j] = txStatus[j] /\ journal'[j] = journal[j]
    BY <1>1, <2>1, <2>3 DEF Committed, TypeInv, TypeOK, RowTypes
  <2>5. journal'[k] = <<StoredEntry(ClearingEntry(req[p])), StoredEntry(SettlementEntry(req[p]))>>
    <3>1. journal[k] = << >>
      BY <1>1, <2>3 DEF PostingInv, SettledIffPosted
    <3>2. journal'[k] = journal[k] \o posted[p]
      BY <1>1, <2>1 DEF Committed, TypeInv, TypeOK, RowTypes
    <3>3. posted[p] \in Seq(Entry)
      BY DEF TypeInv, TypeOK, TxTypes
    <3> QED
      BY <2>3, <3>1, <3>2, <3>3
  <2>6. /\ posted'[p] = << >>
        /\ \A q \in Requests \ {p} : posted'[q] = posted[q] /\ working'[q] = working[q]
    BY <2>1 DEF Committed, EndTx, TypeInv, TypeOK, TxTypes
  <2>7. \A q \in Requests \ {p} : pc[q] \in Owning => req[q].key \in Keys \ {k}
    BY <2>3, Orders DEF PostingInv, OwnerInv, Owning, Settling, InTx
  <2>8. OwnerInv'
    BY <1>1, <2>1, <2>2, <2>3, <2>4, <2>7
       DEF PostingInv, OwnerInv, Others, Owning, Settling
  <2>9. StageInv'
    <3>1. StageOf(p)'
      BY <2>2, <2>6 DEF StageOf, Settling, InTx
    <3>2. ASSUME NEW q \in Requests \ {p} PROVE StageOf(q)'
      BY <1>1, <2>2, <2>6, <3>2
         DEF PostingInv, StageInv, StageOf, Others, ClearingEntry, SettlementEntry, StoredEntry
    <3> QED
      BY <3>1, <3>2 DEF StageInv
  <2>10. SettledIffPosted'
    BY <1>1, <2>1, <2>3, <2>4, <2>5
       DEF PostingInv, SettledIffPosted, ClearingEntry, SettlementEntry, StoredEntry
  <2> QED
    BY <2>8, <2>9, <2>10 DEF PostingInv
<1> QED
  BY <1>2, <1>3

LEMMA PostingRowFailed ==
  ASSUME TypeInv, PostingInv, NEW p \in Requests, MarkFailed(p) \/ FailBegin(p)
  PROVE  PostingInv'
<1> DEFINE k == req[p].key
<1>1. /\ pc[p] \in {"markFailed", "failBegin"} /\ k \in Keys
      /\ UNCHANGED <<maker, journal, req, posted, working>>
  BY Orders DEF MarkFailed, FailBegin, txVars
<1>2. Others(p) /\ pc'[p] \notin Owning \cup {"idle"}
  BY DEF MarkFailed, FailBegin, Return, Goto, GotoStoreFailed, Others, Owning, Settling, InTx,
         TypeInv, TypeOK, CallTypes
<1>3. CASE UNCHANGED txStatus
  BY <1>1, <1>2, <1>3, PostingQuiet DEF InTx
<1>4. CASE RowFailed(p)
  <2>1. /\ txStatus[k] # NoRow /\ maker[k] = p
    BY <1>1 DEF PostingInv, OwnerInv, Owning, Settling, TypeInv, RowsExist, AfterCreate
  <2>2. txStatus[k] \in TxStatus
    BY <1>1, <2>1 DEF TypeInv, TypeOK, RowTypes
  <2>3. /\ txStatus'[k] # NoRow /\ (txStatus'[k] = "SETTLED" <=> txStatus[k] = "SETTLED")
        /\ \A j \in Keys \ {k} : txStatus'[j] = txStatus[j]
    BY <1>1, <1>4, <2>1, <2>2 DEF RowFailed, FailedStatus, TypeInv, TypeOK, RowTypes, NoRow
  <2>4. \A q \in Requests \ {p} : pc[q] \in Owning => req[q].key \in Keys \ {k}
    BY <2>1, Orders DEF PostingInv, OwnerInv, Owning, Settling, InTx
  <2>5. OwnerInv'
    BY <1>1, <1>2, <2>1, <2>3, <2>4 DEF PostingInv, OwnerInv, Others, Owning, Settling
  <2>6. StageInv'
    <3>1. StageOf(p)'
      BY <1>1, <1>2 DEF PostingInv, StageInv, StageOf, Owning, Settling, InTx
    <3>2. ASSUME NEW q \in Requests \ {p} PROVE StageOf(q)'
      BY <1>1, <1>2, <3>2
         DEF PostingInv, StageInv, StageOf, Others, ClearingEntry, SettlementEntry, StoredEntry
    <3> QED
      BY <3>1, <3>2 DEF StageInv
  <2>7. SettledIffPosted'
    BY <1>1, <2>3 DEF PostingInv, SettledIffPosted, ClearingEntry, SettlementEntry, StoredEntry
  <2> QED
    BY <2>5, <2>6, <2>7 DEF PostingInv
<1> QED
  BY <1>3, <1>4 DEF MarkFailed, FailBegin

LEMMA PostingProgress ==
  ASSUME TypeInv, InsertInv, PostingInv, NEW p \in Requests, Progress(p)
  PROVE  PostingInv'
<1>1. CASE CacheLookup(p) \/ Claim(p) \/ Recheck(p) \/ LoadDuplicate(p)
  <2>1. /\ UNCHANGED <<txStatus, maker, journal, req, posted, working>>
        /\ pc[p] \notin InTx
    BY <1>1 DEF CacheLookup, Claim, Recheck, LoadDuplicate, InTx, dbVars, txVars
  <2>2. Others(p) /\ pc'[p] \notin Owning \cup {"idle"}
    BY <1>1 DEF CacheLookup, Claim, Recheck, LoadDuplicate, Return, Goto, Others, Owning, Settling,
                InTx, TypeInv, TypeOK, CallTypes
  <2> QED
    BY <2>1, <2>2, PostingQuiet
<1>2. CASE LoadSource(p) \/ LoadDest(p) \/ LoadClearing(p)
  <2>1. /\ UNCHANGED <<txStatus, maker, journal, req, posted, working>>
        /\ pc[p] \notin InTx
    BY <1>2 DEF LoadSource, LoadDest, LoadClearing, InTx, dbVars, txVars
  <2>2. Others(p) /\ pc'[p] \notin Owning \cup {"idle"}
    BY <1>2 DEF LoadSource, LoadDest, LoadClearing, Return, Goto, Others, Owning, Settling,
                InTx, TypeInv, TypeOK, CallTypes
  <2> QED
    BY <2>1, <2>2, PostingQuiet
<1>3. CASE StoreFailed(p) \/ StoreSettled(p) \/ Unlock(p)
  <2>1. /\ UNCHANGED <<txStatus, maker, journal, req, posted, working>>
        /\ pc[p] \notin InTx
    BY <1>3 DEF StoreFailed, StoreSettled, Unlock, InTx, dbVars, txVars
  <2>2. Others(p) /\ pc'[p] \notin Owning \cup {"idle"}
    BY <1>3 DEF StoreFailed, StoreSettled, Unlock, Return, Goto, Others, Owning, Settling,
                InTx, TypeInv, TypeOK, CallTypes
  <2> QED
    BY <2>1, <2>2, PostingQuiet
<1>4. CASE (\E a \in Accounts : LockRow(p, a)) \/ DeadlockVictim(p)
  <2>1. UNCHANGED <<dbVars, req>>
    BY <1>4 DEF LockRow, DeadlockVictim
  <2>2. CASE FailTx(p, "error") /\ pc[p] \in InTx
    BY <2>1, <2>2, PostingFailTx
  <2>3. CASE UNCHANGED <<posted, working, pc>>
    BY <2>1, <2>3 DEF PostingInv, OwnerInv, StageInv, StageOf, SettledIffPosted, ClearingEntry,
                      SettlementEntry, StoredEntry, dbVars
  <2>4. CASE pc[p] = "createDest" /\ Return(p, "error") /\ UNCHANGED txVars
    <3>1. /\ UNCHANGED <<txStatus, maker, journal, req, posted, working>>
          /\ pc[p] \notin InTx
      BY <2>1, <2>4 DEF InTx, dbVars, txVars
    <3>2. Others(p) /\ pc'[p] \notin Owning \cup {"idle"}
      BY <2>4 DEF Return, Goto, Others, Owning, Settling, InTx, TypeInv, TypeOK, CallTypes
    <3> QED
      BY <3>1, <3>2, PostingQuiet
  <2> QED
    BY <1>4, <2>2, <2>3, <2>4 DEF LockRow, DeadlockVictim, IsNextRow, InTx
<1> QED
  BY <1>1, <1>2, <1>3, <1>4, PostingCreate, PostingCreateDest, PostingBegin, PostingPostEntry,
     PostingMark, PostingCommit, PostingRowFailed DEF Progress

LEMMA PostingNext == TypeInv /\ InsertInv /\ PostingInv /\ [Next]_vars => PostingInv'
<1> SUFFICES ASSUME TypeInv, InsertInv, PostingInv, [Next]_vars PROVE PostingInv'
  OBVIOUS
<1>1. CASE \E p \in Requests : Progress(p) \/ \E r \in Payloads : Receive(p, r)
  BY <1>1, PostingProgress, PostingReceive
<1>2. CASE Crash
  <2>1. UNCHANGED <<txStatus, maker, journal, req>>
    BY <1>2 DEF Crash, dbVars
  <2>2. \A p \in Requests :
          /\ pc'[p] \in {"idle", "done", "dead"}
          /\ pc'[p] = "idle" <=> pc[p] = "idle"
          /\ posted'[p] = << >>
    BY <1>2 DEF Crash, Live
  <2>3. OwnerInv'
    <3>1. \A p \in Requests : pc'[p] \notin Owning /\ pc'[p] \notin Settling
      BY <2>2 DEF Owning, Settling, InTx
    <3> QED
      BY <2>1, <2>2, <3>1 DEF PostingInv, OwnerInv
  <2>4. StageInv'
    <3>1. ASSUME NEW p \in Requests PROVE StageOf(p)'
      <4>1. posted'[p] = << >> /\ pc'[p] \in {"idle", "done", "dead"}
        BY <2>2
      <4> QED
        BY <4>1 DEF StageOf
    <3> QED
      BY <3>1 DEF StageInv
  <2>5. SettledIffPosted'
    BY <2>1 DEF PostingInv, SettledIffPosted, ClearingEntry, SettlementEntry, StoredEntry
  <2> QED
    BY <2>3, <2>4, <2>5 DEF PostingInv
<1>3. CASE UNCHANGED <<txStatus, maker, journal, req, posted, working, pc>>
  BY <1>3 DEF PostingInv, OwnerInv, StageInv, StageOf, SettledIffPosted, ClearingEntry,
              SettlementEntry, StoredEntry
<1>4. CASE (Environment /\ ~Crash) \/ Terminating \/ UNCHANGED vars
  BY <1>3, <1>4 DEF Environment, Cancel, Expire, SetAccountStatus, Terminating, vars, dbVars,
                    txVars, callVars
<1> QED
  BY <1>1, <1>2, <1>4 DEF Next

\* A key has its two journal entries exactly when its row is SETTLED: no retry,
\* race, lost answer or crash settles twice, posts half a transfer, or leaves a
\* posted transfer unsettled.
THEOREM SettledExactlyOnce == Spec => []SettledIffPosted
<1>1. Init => InsertInv /\ PostingInv
  BY DEF Init, InsertInv, PostingInv, OwnerInv, StageInv, StageOf, SettledIffPosted, Owning,
         Settling, InTx, NoRow
<1>2. PostingInv => SettledIffPosted
  BY DEF PostingInv
<1> QED
  BY <1>1, <1>2, InsertNext, PostingNext, TypeInvariant, PTL DEF Spec

=============================================================================
