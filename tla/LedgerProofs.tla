---------------------------- MODULE LedgerProofs ----------------------------
(***************************************************************************)
(* Theorems about LedgerEngine, for every set of accounts, clients, runs   *)
(* of the seed program, postings, entries and bounds: postings do not wait *)
(* for each other in a circle, only the balance of an ACTIVE account       *)
(* moves, and the chart of accounts is committed as a whole; balances      *)
(* replay the journal, statements do not overdraw and the trial balance    *)
(* nets to zero, each within what rounding may come to; absent failures    *)
(* the events of an account are its history, whoever changes it.           *)
(***************************************************************************)
EXTENDS LedgerEngine, SumTheorems, TLAPS

(***************************************************************************)
(* What is needed of the types for the locks. (TypesInv has all of them.)  *)
(***************************************************************************)
IsRow(r) == r = [type |-> r.type, currency |-> r.currency, status |-> r.status,
                 balance |-> r.balance, version |-> r.version]

LedgerTypes ==
  /\ account = [a \in DOMAIN account |-> account[a]]
  /\ \A a \in DOMAIN account : IsRow(account[a])
  /\ rowLock \in [Ids -> Posters \cup {None}]
  /\ posterPc \in [Posters -> {"idle", "select", "lock", "commit", "done"}]
  /\ entry \in [Posters -> Entries \cup {NoEntry}]
  /\ found \in [Posters -> SUBSET Ids]
  /\ \A p \in Posters : found[p] \subseteq DOMAIN account

\* A posting holds only rows it has found, and of those the lowest.
LockInv ==
  \A p \in Posters :
    /\ \A a \in Ids : rowLock[a] = p => posterPc[p] \in {"lock", "commit"} /\ a \in found[p]
    /\ \A a, b \in found[p] : rowLock[a] = p /\ b < a => rowLock[b] = p

\* A posting about to commit holds all the rows of its entry, and they are ACTIVE.
ReadyInv ==
  \A p \in Posters : posterPc[p] = "commit" =>
    /\ found[p] = AccountsOf(entry[p])
    /\ \A a \in found[p] : rowLock[a] = p /\ account[a].status = "ACTIVE"

LedgerInv == LedgerTypes /\ LockInv /\ ReadyInv

LEMMA LedgerInit == Init => LedgerInv
<1>1. SUFFICES ASSUME Init PROVE LedgerInv
  OBVIOUS
<1>2. LedgerTypes
  BY <1>1, TableAssumption
     DEF Init, TableInit, JournalInit, LedgerTypes, Account, IsRow
<1>3. LockInv /\ ReadyInv
  BY <1>1, TableAssumption DEF Init, TableInit, JournalInit, LockInv, ReadyInv
<1>4. QED
  BY <1>2, <1>3 DEF LedgerInv

(***************************************************************************)
(* Changes of the accounts table                                           *)
(***************************************************************************)
\* What every writer of the table leaves as it was: the rows there are stay, and only a
\* status update gives another status, to a row that no posting holds.
TableStep ==
  /\ account' = [a \in DOMAIN account' |-> account'[a]]
  /\ DOMAIN account \subseteq DOMAIN account'
  /\ \A a \in DOMAIN account' : IsRow(account'[a])
  /\ \A a \in DOMAIN account :
       account'[a].status # account[a].status /\ a \in Ids => rowLock[a] = None

LEMMA UnchangedTable ==
  ASSUME LedgerTypes, UNCHANGED account
  PROVE  TableStep
BY DEF LedgerTypes, TableStep

LEMMA AddedRows ==
  ASSUME LedgerTypes, NEW rows, account' = WithRows(rows),
         \A a \in DOMAIN rows : IsRow(rows[a])
  PROVE  /\ TableStep
         /\ \A a \in DOMAIN account : account'[a] = account[a]
         /\ \A a \in DOMAIN account' \ DOMAIN account : a \in DOMAIN rows /\ account'[a] = rows[a]
BY DEF LedgerTypes, TableStep, WithRows, Exists

LEMMA NewRow ==
  ASSUME NEW type, NEW currency
  PROVE  IsRow(NewAccount(type, currency)) /\ NewAccount(type, currency).balance = 0
BY DEF IsRow, NewAccount

\* The clients and the seed program do not touch what the postings hold.
LEMMA LedgerByOthers ==
  ASSUME LedgerInv, TableStep, UNCHANGED <<rowLock, journalVars>>
  PROVE  LedgerInv'
<1>1. UNCHANGED <<posterPc, entry, found>>
  BY DEF journalVars, posterVars
<1>2. LedgerTypes'
  BY <1>1 DEF LedgerInv, LedgerTypes, TableStep
<1>3. LockInv'
  BY <1>1 DEF LedgerInv, LockInv
<1>4. ReadyInv'
  <2>1. \A p \in Posters : AccountsOf(entry[p])' = AccountsOf(entry[p])
    BY <1>1 DEF AccountsOf
  <2>2. QED
    BY <1>1, <2>1, TableAssumption DEF LedgerInv, LedgerTypes, ReadyInv, TableStep
<1>5. QED
  BY <1>2, <1>3, <1>4 DEF LedgerInv

\* No balance moves, no account changes its type, and new accounts are empty.
KeepsMoney ==
  /\ \A a \in DOMAIN account : /\ account'[a].balance = account[a].balance
                               /\ account'[a].type = account[a].type
  /\ \A a \in DOMAIN account' \ DOMAIN account : account'[a].balance = 0

LEMMA StatusUpdate ==
  ASSUME LedgerTypes, NEW a, NEW s, a \in Ids => rowLock[a] = None,
         account' = [account EXCEPT ![a].status = s, ![a].version = @ + 1]
  PROVE  TableStep /\ KeepsMoney
<1>1. DOMAIN account' = DOMAIN account
  OBVIOUS
<1>2. \A b \in DOMAIN account :
        account'[b] = IF b = a THEN [account[b] EXCEPT !.status = s, !.version = @ + 1]
                      ELSE account[b]
  OBVIOUS
<1>3. ASSUME NEW b \in DOMAIN account
      PROVE
        /\ IsRow(account'[b])
        /\ account'[b].balance = account[b].balance /\ account'[b].type = account[b].type
        /\ b # a => account'[b].status = account[b].status
  <2>1. CASE b # a
    BY <1>2, <2>1 DEF LedgerTypes
  <2>2. CASE b = a
    <3>1. PICK r, x : r = account[b] /\ x = account'[b]
      OBVIOUS
    <3>2. x = [r EXCEPT !.status = s, !.version = @ + 1]
      BY <1>2, <2>2, <3>1
    <3>3. IsRow(r)
      BY <3>1 DEF LedgerTypes
    <3>4. IsRow(x) /\ x.balance = r.balance /\ x.type = r.type
      BY <3>2, <3>3 DEF IsRow
    <3>5. QED
      BY <2>2, <3>1, <3>4
  <2>3. QED
    BY <2>1, <2>2
<1>4. QED
  BY <1>1, <1>3 DEF TableStep, KeepsMoney

\* Creating an account and changing a status move no balance.
LEMMA AdminTable ==
  ASSUME LedgerTypes, AdminNext
  PROVE  TableStep /\ KeepsMoney /\ UNCHANGED rowLock
<1>1. CASE UNCHANGED tableVars
  BY <1>1, UnchangedTable DEF tableVars, KeepsMoney
<1>2. ASSUME NEW p \in Admins, InsertAccount(p)
      PROVE  TableStep /\ KeepsMoney /\ UNCHANGED rowLock
  <2>1. CASE UNCHANGED account
    BY <1>2, <2>1, UnchangedTable DEF InsertAccount, KeepsMoney
  <2>2. ASSUME NEW a \in Ids,
               account' = WithRows([b \in {a} |->
                            NewAccount(adminReq[p].type, adminReq[p].currency)])
        PROVE  TableStep /\ KeepsMoney
    BY <2>2, AddedRows, NewRow DEF KeepsMoney
  <2>3. QED
    BY <1>2, <2>1, <2>2 DEF InsertAccount
<1>3. ASSUME NEW p \in Admins, WriteStatus(p)
      PROVE  TableStep /\ KeepsMoney /\ UNCHANGED rowLock
  <2>1. CASE UNCHANGED account
    BY <1>3, <2>1, UnchangedTable DEF WriteStatus, KeepsMoney
  <2>2. CASE account' # account
    BY <1>3, <2>2, StatusUpdate DEF WriteStatus
  <2>3. QED
    BY <1>3, <2>1, <2>2 DEF WriteStatus
<1>4. ASSUME NEW p \in Admins,
             ReadStatus(p) \/ LogAudit(p) \/ \E r \in AdminRequests : Submit(p, r)
      PROVE  UNCHANGED tableVars
  BY <1>4 DEF ReadStatus, LogAudit, Submit
<1>5. QED
  BY <1>1, <1>2, <1>3, <1>4 DEF AdminNext, AdminStep

\* A run of the seed program adds rows when it commits, and nothing else.
LEMMA SeedTable ==
  ASSUME LedgerTypes, SeedNext
  PROVE  TableStep /\ KeepsMoney /\ UNCHANGED rowLock
<1>1. CASE UNCHANGED tableVars
  BY <1>1, UnchangedTable DEF tableVars, KeepsMoney
<1>2. ASSUME NEW s \in Seeders, CommitSeed(s)
      PROVE  TableStep /\ KeepsMoney /\ UNCHANGED rowLock
  <2>1. CASE UNCHANGED account
    BY <1>2, <2>1, UnchangedTable DEF CommitSeed, KeepsMoney
  <2>2. CASE account' = WithRows([a \in drafted[s] |-> SeedRow(a)])
    BY <1>2, <2>2, AddedRows, NewRow DEF CommitSeed, SeedRow, KeepsMoney
  <2>3. QED
    BY <1>2, <2>1, <2>2 DEF CommitSeed, Fatal
<1>3. ASSUME NEW s \in Seeders,
             BeginSeed(s) \/ \E i \in DOMAIN Chart :
               LoadParent(s, i) \/ CheckExists(s, i) \/ InsertChartAccount(s, i)
      PROVE  UNCHANGED tableVars
  BY <1>3 DEF BeginSeed, LoadParent, CheckExists, InsertChartAccount, UniqueViolation,
              Fatal, tableVars
<1>4. QED
  BY <1>1, <1>2, <1>3 DEF SeedNext, SeedStep

(***************************************************************************)
(* Postings                                                                *)
(***************************************************************************)
\* The end of a posting frees its rows, and leaves the others theirs.
LEMMA LedgerEndTx ==
  ASSUME LedgerInv, NEW p \in Posters, NEW r, EndTx(p, r),
         account' = [a \in DOMAIN account' |-> account'[a]],
         DOMAIN account \subseteq DOMAIN account',
         \A a \in DOMAIN account' : IsRow(account'[a]),
         \A a \in DOMAIN account : account'[a].status = account[a].status
  PROVE  LedgerInv'
<1> USE DEF LedgerInv
<1>1. /\ \A a \in Ids : rowLock'[a] = IF rowLock[a] = p THEN None ELSE rowLock[a]
      /\ \A q \in Posters :
           /\ posterPc'[q] = IF q = p THEN "done" ELSE posterPc[q]
           /\ entry'[q] = IF q = p THEN NoEntry ELSE entry[q]
           /\ found'[q] = IF q = p THEN {} ELSE found[q]
  BY DEF EndTx, Return, PosterGoto, LedgerTypes
<1>2. LedgerTypes'
  BY DEF EndTx, Return, PosterGoto, LedgerTypes
<1>3. LockInv'
  BY <1>1, TableAssumption DEF LockInv, LedgerTypes
<1>4. ReadyInv'
  <2>1. \A q \in Posters : q # p => AccountsOf(entry[q])' = AccountsOf(entry[q])
    BY <1>1 DEF AccountsOf
  <2>2. QED
    BY <1>1, <2>1 DEF ReadyInv, LedgerTypes
<1>5. QED
  BY <1>2, <1>3, <1>4

LEMMA LedgerPost ==
  ASSUME LedgerInv, NEW p \in Posters, NEW e \in Entries, PostJournalEntry(p, e)
  PROVE  LedgerInv'
<1> USE DEF LedgerInv
<1>1. /\ posterPc[p] = "idle" /\ posterPc'[p] \in {"select", "done"}
      /\ \A q \in Posters \ {p} : posterPc'[q] = posterPc[q] /\ entry'[q] = entry[q]
      /\ UNCHANGED <<account, rowLock, found>>
  BY DEF PostJournalEntry, PosterGoto, Return, LedgerTypes, tableVars
<1>2. LedgerTypes'
  BY <1>1 DEF PostJournalEntry, PosterGoto, Return, LedgerTypes
<1>3. LockInv'
  BY <1>1 DEF LockInv, LedgerTypes
<1>4. ReadyInv'
  <2>1. \A q \in Posters : q # p => AccountsOf(entry[q])' = AccountsOf(entry[q])
    BY <1>1 DEF AccountsOf
  <2>2. QED
    BY <1>1, <2>1 DEF ReadyInv
<1>5. QED
  BY <1>2, <1>3, <1>4

\* The rows a posting is about to lock are there, and it holds none yet.
LEMMA LedgerSelect ==
  ASSUME LedgerInv, NEW p \in Posters, SelectAccounts(p)
  PROVE  LedgerInv'
<1> USE DEF LedgerInv
<1>1. /\ posterPc[p] = "select"
      /\ \A q \in Posters :
           /\ posterPc'[q] = IF q = p THEN "lock" ELSE posterPc[q]
           /\ q # p => found'[q] = found[q]
      /\ found'[p] \subseteq DOMAIN account /\ found'[p] \subseteq Ids
      /\ UNCHANGED <<account, rowLock, entry>>
  BY DEF SelectAccounts, PosterGoto, LedgerTypes, tableVars, Exists
<1>2. LedgerTypes'
  BY <1>1 DEF SelectAccounts, PosterGoto, LedgerTypes
<1>3. LockInv'
  BY <1>1 DEF LockInv, LedgerTypes
<1>4. ReadyInv'
  <2>1. \A q \in Posters : AccountsOf(entry[q])' = AccountsOf(entry[q])
    BY <1>1 DEF AccountsOf
  <2>2. QED
    BY <1>1, <2>1 DEF ReadyInv
<1>5. QED
  BY <1>2, <1>3, <1>4

\* ORDER BY id: what is locked next is above what is held.
LEMMA LedgerLock ==
  ASSUME LedgerInv, NEW p \in Posters, NEW a \in Ids, LockAccount(p, a)
  PROVE  LedgerInv'
<1> USE DEF LedgerInv
<1>1. /\ posterPc[p] = "lock" /\ a \in found[p] /\ rowLock[a] = None
      /\ \A b \in found[p] : rowLock[b] # p => a <= b
      /\ \A b \in Ids : rowLock'[b] = IF b = a THEN p ELSE rowLock[b]
      /\ UNCHANGED <<account, posterPc, entry, found>>
  BY DEF LockAccount, LowestOf, LedgerTypes, posterVars
<1>2. LedgerTypes'
  BY <1>1 DEF LockAccount, LedgerTypes
<1>3. LockInv'
  <2>1. Ids \subseteq Nat
    BY TableAssumption
  <2>2. QED
    BY <1>1, <2>1, TableAssumption DEF LockInv, LedgerTypes
<1>4. ReadyInv'
  <2>1. \A q \in Posters : AccountsOf(entry[q])' = AccountsOf(entry[q])
    BY <1>1 DEF AccountsOf
  <2>2. QED
    BY <1>1, <2>1, TableAssumption DEF ReadyInv, LedgerTypes
<1>5. QED
  BY <1>2, <1>3, <1>4

LEMMA LedgerInsert ==
  ASSUME LedgerInv, NEW p \in Posters, InsertEntry(p)
  PROVE  LedgerInv'
<1> USE DEF LedgerInv
<1>1. UNCHANGED account
  BY DEF InsertEntry
<1>2. ASSUME NEW r, EndTx(p, r)
      PROVE  LedgerInv'
  BY <1>1, <1>2, LedgerEndTx DEF LedgerTypes
<1>3. CASE PosterGoto(p, "commit") /\ Accepts(p) /\ UNCHANGED <<rowLock, entry, found>>
  <2>1. /\ posterPc[p] = "lock"
        /\ \A q \in Posters : posterPc'[q] = IF q = p THEN "commit" ELSE posterPc[q]
        /\ found[p] = AccountsOf(entry[p])
        /\ \A a \in found[p] : rowLock[a] = p /\ account[a].status = "ACTIVE"
    BY <1>3 DEF InsertEntry, HasLocked, Accepts, PosterGoto, LedgerTypes
  <2>2. LedgerTypes'
    BY <1>1, <1>3 DEF PosterGoto, LedgerTypes
  <2>3. LockInv'
    BY <1>3, <2>1 DEF LockInv
  <2>4. ReadyInv'
    <3>1. \A q \in Posters : AccountsOf(entry[q])' = AccountsOf(entry[q])
      BY <1>3 DEF AccountsOf
    <3>2. QED
      BY <1>1, <1>3, <2>1, <3>1 DEF ReadyInv
  <2>5. QED
    BY <2>2, <2>3, <2>4
<1>4. QED
  BY <1>2, <1>3 DEF InsertEntry, Refuse

\* Applying an entry moves the balances of its accounts, and leaves what else the rows
\* hold but their version.
LEMMA AppliedRows ==
  ASSUME LedgerTypes, NEW e, account' = Applied(e)
  PROVE  /\ account' = [a \in DOMAIN account' |-> account'[a]]
         /\ DOMAIN account' = DOMAIN account
         /\ \A a \in DOMAIN account :
              /\ IsRow(account'[a])
              /\ account'[a].status = account[a].status /\ account'[a].type = account[a].type
              /\ a \notin AccountsOf(e) => account'[a] = account[a]
              /\ a \in AccountsOf(e) =>
                   account'[a].balance
                     = Stored(account[a].balance + NetChange(e.lines, a, account[a].type))
<1>1. /\ account' = [a \in DOMAIN account' |-> account'[a]]
      /\ DOMAIN account' = DOMAIN account
  BY DEF Applied
<1>2. ASSUME NEW a \in DOMAIN account
      PROVE  /\ IsRow(account'[a])
             /\ account'[a].status = account[a].status /\ account'[a].type = account[a].type
             /\ a \notin AccountsOf(e) => account'[a] = account[a]
             /\ a \in AccountsOf(e) =>
                  account'[a].balance
                    = Stored(account[a].balance + NetChange(e.lines, a, account[a].type))
  <2>1. CASE a \notin AccountsOf(e)
    BY <2>1 DEF Applied, LedgerTypes
  <2>2. CASE a \in AccountsOf(e)
    <3>1. PICK r, x : r = account[a] /\ x = account'[a]
      OBVIOUS
    <3>2. PICK b : /\ x = [r EXCEPT !.balance = b, !.version = @ + 1]
                   /\ b = Stored(r.balance + NetChange(e.lines, a, r.type))
      BY <2>2, <3>1 DEF Applied
    <3>3. IsRow(r)
      BY <3>1 DEF LedgerTypes
    <3>4. IsRow(x) /\ x.status = r.status /\ x.type = r.type /\ x.balance = b
      BY <3>2, <3>3 DEF IsRow
    <3>5. QED
      BY <2>2, <3>1, <3>2, <3>4
  <2>3. QED
    BY <2>1, <2>2
<1>3. QED
  BY <1>1, <1>2

LEMMA LedgerCommit ==
  ASSUME LedgerInv, NEW p \in Posters, CommitEntry(p)
  PROVE  LedgerInv'
<1>1. PICK r : EndTx(p, r)
  BY DEF CommitEntry
<1>2. CASE UNCHANGED account
  BY <1>1, <1>2, LedgerEndTx DEF LedgerInv, LedgerTypes
<1>3. CASE account' = Applied(entry[p])
  BY <1>1, <1>3, AppliedRows, LedgerEndTx DEF LedgerInv
<1>4. QED
  BY <1>2, <1>3 DEF CommitEntry

LEMMA LedgerPosterStep ==
  ASSUME LedgerInv, NEW p \in Posters, PosterStep(p)
  PROVE  LedgerInv'
<1>1. CASE SelectAccounts(p)
  BY <1>1, LedgerSelect
<1>2. CASE InsertEntry(p)
  BY <1>2, LedgerInsert
<1>3. CASE CommitEntry(p)
  BY <1>3, LedgerCommit
<1>4. CASE \E a \in Ids : LockAccount(p, a)
  BY <1>4, LedgerLock
<1>5. QED
  BY <1>1, <1>2, <1>3, <1>4 DEF PosterStep

LEMMA LedgerNext ==
  ASSUME LedgerInv, [Next]_vars
  PROVE  LedgerInv'
<1>1. CASE UNCHANGED vars
  BY <1>1, LedgerByOthers, UnchangedTable DEF vars, tableVars, LedgerInv
<1>2. CASE AdminNext /\ UNCHANGED <<seedVars, journalVars>>
  BY <1>2, AdminTable, LedgerByOthers DEF LedgerInv
<1>3. CASE SeedNext /\ UNCHANGED <<adminVars, journalVars>>
  BY <1>3, SeedTable, LedgerByOthers DEF LedgerInv
<1>4. CASE JournalNext
  BY <1>4, LedgerPosterStep, LedgerPost DEF JournalNext
<1>5. QED
  BY <1>1, <1>2, <1>3, <1>4 DEF Next

LEMMA LedgerInvariant == Spec => []LedgerInv
<1>1. Init => LedgerInv
  BY LedgerInit
<1>2. LedgerInv /\ [Next]_vars => LedgerInv'
  BY LedgerNext
<1>3. QED
  BY <1>1, <1>2, PTL DEF Spec

(***************************************************************************)
(* Theorems                                                                *)
(***************************************************************************)
\* Of two postings that each held a row the other needs, the one that holds the
\* lower of the two would need the higher, and the other would have taken the
\* higher before the lower.
THEOREM LockOrder == Spec => []PostersNeverCircle
<1>1. ASSUME LedgerInv, NEW p \in Posters, NEW q \in Posters, p # q,
             NEW a \in found[p], rowLock[a] = q,
             NEW b \in found[q], rowLock[b] = p
      PROVE  FALSE
  <2> USE <1>1 DEF LedgerInv
  <2>1. a \in Nat /\ b \in Nat /\ a \in Ids /\ b \in Ids
    BY TableAssumption DEF LedgerTypes
  <2>2. a \in found[q] /\ b \in found[p] /\ a # b
    BY <2>1 DEF LockInv
  <2>3. CASE a < b
    BY <2>2, <2>3 DEF LockInv
  <2>4. CASE b < a
    BY <2>2, <2>4 DEF LockInv
  <2>5. QED
    BY <2>1, <2>2, <2>3, <2>4
<1>2. LedgerInv => PostersNeverCircle
  BY <1>1 DEF PostersNeverCircle
<1>3. QED
  BY <1>2, LedgerInvariant, PTL

\* A balance moves only by the commit of an entry, which holds the rows of its
\* accounts since it found them ACTIVE.
LEMMA MoveWhileActive ==
  ASSUME LedgerInv, [Next]_vars, NEW a \in DOMAIN account,
         account'[a].balance # account[a].balance
  PROVE  account[a].status = "ACTIVE"
<1> USE DEF LedgerInv
<1>1. CASE UNCHANGED account
  BY <1>1
<1>2. CASE AdminNext
  BY <1>2, AdminTable DEF KeepsMoney
<1>3. CASE SeedNext
  BY <1>3, SeedTable DEF KeepsMoney
<1>4. ASSUME NEW p \in Posters, PosterStep(p) \/ \E e \in Entries : PostJournalEntry(p, e),
             account' # account
      PROVE  account[a].status = "ACTIVE"
  <2>1. /\ posterPc[p] = "commit"
        /\ account' = Applied(entry[p])
    BY <1>4 DEF PosterStep, PostJournalEntry, SelectAccounts, InsertEntry, CommitEntry,
                LockAccount, tableVars
  <2>2. a \in AccountsOf(entry[p])
    BY <2>1, AppliedRows
  <2>3. QED
    BY <2>1, <2>2 DEF ReadyInv
<1>5. QED
  BY <1>1, <1>2, <1>3, <1>4 DEF Next, JournalNext, vars, tableVars

\* No entry moves the balance of an account that is FROZEN or CLOSED, whenever its
\* status was changed.
THEOREM OnlyActiveBalancesMove == Spec => OnlyActiveMove
<1>1. LedgerInv /\ [Next]_vars =>
        [\A a \in DOMAIN account :
           account'[a].balance # account[a].balance
             => account[a].status = "ACTIVE"]_account
  BY MoveWhileActive
<1>2. QED
  BY <1>1, LedgerInvariant, PTL DEF Spec, OnlyActiveMove

-----------------------------------------------------------------------------
(***************************************************************************)
(* Amounts. Sums over the lines of an entry are integers.                  *)
(***************************************************************************)
LEMMA LineFacts ==
  ASSUME NEW lines \in Seq(Line)
  PROVE  /\ IsFiniteSet(DOMAIN lines)
         /\ \A i \in DOMAIN lines : lines[i] \in Line /\ lines[i].amount \in Int
<1>1. IsFiniteSet(DOMAIN lines)
  <2>1. DOMAIN lines = 1..Len(lines) /\ Len(lines) \in Nat
    OBVIOUS
  <2>2. QED
    BY <2>1, FS_Interval
<1>2. \A l \in Line : l.amount \in Int
  BY DEF Line
<1>3. QED
  BY <1>1, <1>2

LEMMA EffectType ==
  ASSUME NEW line \in Line, NEW a, NEW type
  PROVE  EffectOf(line, a, type) \in Int
BY DEF EffectOf, DebitDelta, CreditDelta, Line

LEMMA NetChangeType ==
  ASSUME NEW lines \in Seq(Line), NEW a, NEW type
  PROVE  NetChange(lines, a, type) \in Int
<1> DEFINE f == [i \in DOMAIN lines |-> EffectOf(lines[i], a, type)]
<1>1. \A i \in DOMAIN lines : f[i] \in Int
  BY LineFacts, EffectType
<1>2. SumFunctionOnSet(f, DOMAIN lines) \in Int
  BY <1>1, LineFacts, SumType
<1>3. QED
  BY <1>2 DEF NetChange, SumFunction

-----------------------------------------------------------------------------
(***************************************************************************)
(* All of the types. A request that reaches the database is well-formed,   *)
(* and the account of a status update or an event exists; the seed program *)
(* inserts accounts of the chart; a posting that holds an uncommitted      *)
(* entry has taken one timestamp, and time passes for these only.          *)
(***************************************************************************)
AdminStage ==
  \A p \in Admins :
    /\ adminPc[p] = "insert" =>
         /\ adminReq[p] \in CreateRequest
         /\ adminReq[p].type \in AccountTypes /\ adminReq[p].currency \in Currencies
    /\ adminPc[p] \in {"read", "write"} =>
         adminReq[p] \in UpdateRequest /\ adminReq[p].to \in AccountStatus
    /\ adminPc[p] = "write" => adminReq[p].id \in DOMAIN account
    /\ adminPc[p] = "log" => logging[p] \in Event /\ logging[p].id \in DOMAIN account
    /\ adminPc[p] # "log" => logging[p] = NoEvent

SeededIds == {Chart[i].id : i \in DOMAIN Chart}

DraftedInv == \A s \in Seeders : drafted[s] \subseteq SeededIds

Stamped == {p \in Posters : posterPc[p] \in {"commit", "done"}}

TypesInv == TypeOK /\ AdminStage /\ DraftedInv /\ clock <= Cardinality(Stamped) + 1

\* The number of failures stays within its bound, whoever meets one.
LEMMA FaultsType ==
  ASSUME faults \in 0..MaxFaults, Succeeds \/ \E kind : Fault(kind)
  PROVE  faults' \in 0..MaxFaults
BY TableAssumption DEF Succeeds, Fault

LEMMA AccountTyped ==
  ASSUME NEW type \in AccountTypes, NEW currency \in Currencies
  PROVE  NewAccount(type, currency) \in Account
BY DEF NewAccount, Account, AccountStatus

LEMMA SeedRowTyped ==
  ASSUME NEW a \in SeededIds
  PROVE  a \in ChartIds /\ SeedRow(a) \in Account
<1>1. \A i \in DOMAIN Chart : /\ Chart[i].id \in ChartIds /\ Chart[i].type \in AccountTypes
                              /\ Chart[i].currency \in Currencies
  <2> DEFINE R == [id : ChartIds, type : AccountTypes, currency : Currencies,
                   parent : ChartIds \cup {NoParent}]
  <2>1. Chart \in Seq(R)
    BY ChartAssumption
  <2>2. \A c \in R : c.id \in ChartIds /\ c.type \in AccountTypes /\ c.currency \in Currencies
    OBVIOUS
  <2> HIDE DEF R
  <2>3. \A i \in DOMAIN Chart : Chart[i] \in R
    BY <2>1
  <2>4. QED
    BY <2>2, <2>3
<1>2. PICK c \in {Chart[i] : i \in DOMAIN Chart} :
        c.id = a /\ SeedRow(a) = NewAccount(c.type, c.currency)
  BY DEF SeededIds, SeedRow
<1>3. QED
  BY <1>1, <1>2, AccountTyped

LEMMA RowsAdded ==
  ASSUME TableTypes, NEW rows, account' = WithRows(rows),
         \A a \in DOMAIN rows : a \in Ids /\ rows[a] \in Account
  PROVE  /\ DOMAIN account' \subseteq Ids /\ account' \in [DOMAIN account' -> Account]
         /\ DOMAIN account \subseteq DOMAIN account'
BY DEF TableTypes, WithRows, Exists

LEMMA AppendTyped ==
  ASSUME NEW S, NEW s \in Seq(S), NEW e \in S
  PROVE  Append(s, e) \in Seq(S)
OBVIOUS

LEMMA AdminTyped ==
  ASSUME TypesInv, AdminNext, UNCHANGED <<seedVars, journalVars>>
  PROVE  TypesInv'
<1> USE DEF TypesInv, TypeOK, AdminTypes, AdminStage
<1>1. PICK p \in Admins : AdminStep(p) \/ \E r \in AdminRequests : Submit(p, r)
  BY DEF AdminNext
<1>2. SeedTypes' /\ DraftedInv' /\ JournalTypes' /\ clock' <= Cardinality(Stamped') + 1
  BY DEF SeedTypes, DraftedInv, JournalTypes, Stamped, seedVars, journalVars, posterVars
<1>3. faults' \in 0..MaxFaults
  BY <1>1, FaultsType, ZenonT(40)
     DEF AdminStep, InsertAccount, ReadStatus, WriteStatus, LogAudit, Submit, Succeeds, TableTypes
<1>4. UNCHANGED rowLock
  BY <1>1 DEF AdminStep, InsertAccount, ReadStatus, WriteStatus, LogAudit, Submit, tableVars
<1>6. ASSUME AdminTypes', AdminStage', DOMAIN account' \subseteq Ids,
             account' \in [DOMAIN account' -> Account]
      PROVE  TypesInv'
  BY <1>2, <1>3, <1>4, <1>6 DEF TableTypes
<1>7. ASSUME NEW code \in {400, 404, 500, 201, 200}, Answer(p, code), UNCHANGED requests,
             events' \in Seq(Event),
             DOMAIN account' \subseteq Ids, account' \in [DOMAIN account' -> Account],
             DOMAIN account \subseteq DOMAIN account'
      PROVE  TypesInv'
  <2>1. AdminTypes'
    BY <1>7 DEF Answer, AdminGoto
  <2>2. AdminStage'
    BY <1>7 DEF Answer, AdminGoto
  <2>3. QED
    BY <1>6, <1>7, <2>1, <2>2
<1>5. ASSUME NEW e \in Event, GoOnToLog(p, e), UNCHANGED <<events, requests>>,
             DOMAIN account' \subseteq Ids, account' \in [DOMAIN account' -> Account],
             DOMAIN account \subseteq DOMAIN account', e.id \in DOMAIN account'
      PROVE  TypesInv'
  <2>1. AdminTypes'
    BY <1>5 DEF GoOnToLog, AdminGoto
  <2>2. AdminStage'
    BY <1>5 DEF GoOnToLog, AdminGoto
  <2>3. QED
    BY <1>5, <1>6, <2>1, <2>2
<1>8. ASSUME NEW r \in AdminRequests, Submit(p, r) PROVE TypesInv'
  <2>1. requests' \in 0..MaxRequests
    BY <1>8, AdminAssumption DEF Submit
  <2>2. CASE Answer(p, 400)
    <3>1. AdminTypes'
      BY <1>8, <2>1, <2>2 DEF Submit, Answer, AdminGoto
    <3>2. AdminStage'
      BY <1>8, <2>2 DEF Submit, Answer, AdminGoto, tableVars
    <3>3. QED
      BY <1>6, <1>8, <3>1, <3>2 DEF Submit, tableVars, TableTypes
  <2>3. CASE /\ ~Malformed(r) /\ adminReq' = [adminReq EXCEPT ![p] = r]
             /\ AdminGoto(p, IF r.op = "create" THEN "insert" ELSE "read")
             /\ answer' = [answer EXCEPT ![p] = 0] /\ UNCHANGED <<current, logging>>
    <3>1. AdminTypes'
      BY <1>8, <2>1, <2>3 DEF Submit, AdminGoto
    <3>2. CASE r.op = "create"
      <4>1. r \in CreateRequest /\ r.type \in AccountTypes /\ r.currency \in Currencies
        BY <2>3, <3>2, AdminAssumption
           DEF CreateRequest, UpdateRequest, Malformed, MalformedCreate
      <4>2. AdminStage'
        BY <1>8, <2>3, <3>2, <4>1 DEF Submit, AdminGoto, tableVars
      <4>3. QED
        BY <1>6, <1>8, <3>1, <4>2 DEF Submit, tableVars, TableTypes
    <3>3. CASE r.op # "create"
      <4>1. r \in UpdateRequest /\ r.to \in AccountStatus
        BY <2>3, <3>3, AdminAssumption
           DEF CreateRequest, UpdateRequest, Malformed, MalformedUpdate
      <4>2. AdminStage'
        BY <1>8, <2>3, <3>3, <4>1 DEF Submit, AdminGoto, tableVars
      <4>3. QED
        BY <1>6, <1>8, <3>1, <4>2 DEF Submit, tableVars, TableTypes
    <3>4. QED
      BY <3>2, <3>3
  <2>4. QED
    BY <1>8, <2>2, <2>3 DEF Submit
<1>9. CASE InsertAccount(p)
  <2>1. CASE Answer(p, 400) /\ UNCHANGED <<account, events>>
    BY <1>7, <1>9, <2>1 DEF InsertAccount, TableTypes
  <2>2. ASSUME NEW a \in Ids \ (DOMAIN account \cup ChartIds),
               account' = WithRows([b \in {a} |->
                            NewAccount(adminReq[p].type, adminReq[p].currency)]),
               GoOnToLog(p, CreatedEvent(a)) \/ Answer(p, 400)
        PROVE  TypesInv'
    <3>1. NewAccount(adminReq[p].type, adminReq[p].currency) \in Account
      BY <1>9, AccountTyped DEF InsertAccount
    <3>2. /\ DOMAIN account' \subseteq Ids /\ account' \in [DOMAIN account' -> Account]
          /\ DOMAIN account \subseteq DOMAIN account'
      BY <2>2, <3>1, RowsAdded
    <3>3. a \in DOMAIN account'
      BY <2>2 DEF WithRows
    <3>4. CreatedEvent(a) \in Event /\ CreatedEvent(a).id = a
      BY DEF CreatedEvent, Event, EventTypes, AccountStatus
    <3>5. UNCHANGED <<events, requests>>
      BY <1>9 DEF InsertAccount
    <3>6. QED
      BY <1>5, <1>7, <2>2, <3>2, <3>3, <3>4, <3>5
  <2>3. QED
    BY <1>9, <2>1, <2>2 DEF InsertAccount
<1>10. CASE ReadStatus(p)
  <2>1. CASE \E code \in {404, 400, 500} : Answer(p, code)
    BY <1>7, <1>10, <2>1 DEF ReadStatus, TableTypes, tableVars
  <2>2. CASE /\ Exists(adminReq[p].id)
             /\ current' = [current EXCEPT ![p] = account[adminReq[p].id].status]
             /\ AdminGoto(p, "write") /\ UNCHANGED <<answer, adminReq, logging>>
    <3>1. account[adminReq[p].id].status \in AccountStatus
      BY <2>2 DEF Exists, TableTypes, Account
    <3>2. AdminTypes'
      BY <1>10, <2>2, <3>1 DEF ReadStatus, AdminGoto
    <3>3. AdminStage'
      BY <1>10, <2>2 DEF ReadStatus, AdminGoto, Exists, tableVars
    <3>4. QED
      BY <1>6, <1>10, <3>2, <3>3 DEF ReadStatus, tableVars, TableTypes
  <2>3. QED
    BY <1>10, <2>1, <2>2 DEF ReadStatus
<1>11. CASE WriteStatus(p)
  <2>1. CASE Answer(p, 500) /\ UNCHANGED account
    BY <1>7, <1>11, <2>1 DEF WriteStatus, TableTypes
  <2>2. CASE account' = [account EXCEPT ![adminReq[p].id].status = adminReq[p].to,
                                        ![adminReq[p].id].version = @ + 1]
    <3>1. /\ adminReq[p].id \in DOMAIN account /\ adminReq[p].to \in AccountStatus
          /\ account[adminReq[p].id].version \in Nat
      BY <1>11 DEF WriteStatus, TableTypes, Account
    <3>2. /\ DOMAIN account' = DOMAIN account /\ DOMAIN account' \subseteq Ids
          /\ account' \in [DOMAIN account' -> Account]
      <4>1. PICK a \in DOMAIN account, to \in AccountStatus :
              a = adminReq[p].id /\ to = adminReq[p].to
        BY <3>1
      <4>2. account' = [account EXCEPT ![a] = [account[a] EXCEPT !.status = to, !.version = @ + 1]]
        BY <2>2, <4>1 DEF TableTypes
      <4>3. [account[a] EXCEPT !.status = to, !.version = @ + 1] \in Account
        <5>1. PICK row \in Account : row = account[a]
          BY DEF TableTypes
        <5>2. /\ IsRow(row) /\ row.type \in AccountTypes /\ row.currency \in Currencies
              /\ row.balance \in Int /\ row.version \in Nat
          BY DEF Account, IsRow
        <5>3. PICK x : x = [row EXCEPT !.status = to, !.version = @ + 1]
          OBVIOUS
        <5>4. /\ IsRow(x) /\ x.type = row.type /\ x.currency = row.currency
              /\ x.status = to /\ x.balance = row.balance /\ x.version = row.version + 1
          BY <5>2, <5>3 DEF IsRow
        <5>5. x \in Account
          BY <5>2, <5>4 DEF Account, IsRow
        <5>6. QED
          BY <5>1, <5>3, <5>5
      <4>4. QED
        BY <4>2, <4>3 DEF TableTypes
    <3>3. CASE GoOnToLog(p, StatusEvent(p))
      <4>1. EventType(adminReq[p].to) \in EventTypes /\ current[p] \in AccountStatus \cup {NoStatus}
        BY DEF EventType, EventTypes
      <4>2. StatusEvent(p) \in Event /\ StatusEvent(p).id = adminReq[p].id
        BY <3>1, <4>1 DEF StatusEvent, Event, TableTypes
      <4>3. UNCHANGED <<events, requests>>
        BY <1>11 DEF WriteStatus
      <4>4. QED
        BY <1>5, <3>1, <3>2, <3>3, <4>2, <4>3
    <3>4. CASE Answer(p, 500)
      BY <1>7, <1>11, <3>2, <3>4 DEF WriteStatus
    <3>5. QED
      BY <1>11, <3>3, <3>4 DEF WriteStatus
  <2>3. QED
    BY <1>11, <2>1, <2>2 DEF WriteStatus
<1>12. CASE LogAudit(p)
  <2>1. events' \in Seq(Event)
    <3>1. events' = events \/ events' = Append(events, logging[p])
      BY <1>12 DEF LogAudit
    <3>2. logging[p] \in Event
      BY <1>12 DEF LogAudit
    <3>3. QED
      BY <3>1, <3>2, AppendTyped
  <2>2. PICK code \in {200, 201} : Answer(p, code)
    BY <1>12 DEF LogAudit
  <2>3. QED
    BY <1>7, <1>12, <2>1, <2>2 DEF LogAudit, TableTypes, tableVars
<1>13. QED
  BY <1>1, <1>8, <1>9, <1>10, <1>11, <1>12 DEF AdminStep

LEMMA SeedTyped ==
  ASSUME TypesInv, SeedNext, UNCHANGED <<adminVars, journalVars>>
  PROVE  TypesInv'
<1> USE DEF TypesInv, TypeOK, SeedTypes
<1>1. PICK s \in Seeders : BeginSeed(s) \/ SeedStep(s)
  BY DEF SeedNext
<1>2. AdminTypes' /\ JournalTypes' /\ clock' <= Cardinality(Stamped') + 1
  BY DEF AdminTypes, JournalTypes, Stamped, adminVars, journalVars, posterVars
<1>3. faults' \in 0..MaxFaults
  BY <1>1, FaultsType DEF SeedStep, BeginSeed, LoadParent, CheckExists, InsertChartAccount,
                          CommitSeed, Succeeds, TableTypes
<1>4. UNCHANGED rowLock
  BY <1>1 DEF SeedStep, BeginSeed, LoadParent, CheckExists, InsertChartAccount, CommitSeed,
              tableVars
<1>5. /\ \A i \in DOMAIN Chart : Chart[i].id \in SeededIds
      /\ SeededIds \subseteq ChartIds /\ ChartIds \subseteq Ids
  BY SeedRowTyped, TableAssumption DEF SeededIds
<1>6. /\ DOMAIN account' \subseteq Ids /\ account' \in [DOMAIN account' -> Account]
      /\ DOMAIN account \subseteq DOMAIN account'
  <2>1. CASE UNCHANGED account
    BY <2>1 DEF TableTypes
  <2>2. CASE account' = WithRows([a \in drafted[s] |-> SeedRow(a)])
    <3>1. \A a \in drafted[s] : a \in Ids /\ SeedRow(a) \in Account
      BY <1>5, SeedRowTyped DEF DraftedInv
    <3>2. QED
      BY <2>2, <3>1, RowsAdded
  <2>3. QED
    BY <1>1, <2>1, <2>2 DEF SeedStep, BeginSeed, LoadParent, CheckExists, InsertChartAccount,
                            CommitSeed, UniqueViolation, Fatal, tableVars
<1>7. SeedTypes' /\ DraftedInv'
  <2>1. CASE Fatal(s)
    BY <2>1 DEF Fatal, SeedGoto, DraftedInv
  <2>2. ASSUME NEW rest \in SUBSET DOMAIN Chart, GoOn(s, rest), UNCHANGED drafted
        PROVE  SeedTypes' /\ DraftedInv'
    BY <2>2 DEF GoOn, SeedGoto, DraftedInv
  <2>3. CASE BeginSeed(s)
    BY <2>2, <2>3 DEF BeginSeed
  <2>4. ASSUME NEW i \in DOMAIN Chart, LoadParent(s, i) PROVE SeedTypes' /\ DraftedInv'
    BY <2>1, <2>4 DEF LoadParent, SeedGoto, DraftedInv
  <2>5. ASSUME NEW i \in DOMAIN Chart, CheckExists(s, i) PROVE SeedTypes' /\ DraftedInv'
    <3>1. todo[s] \ {i} \in SUBSET DOMAIN Chart
      OBVIOUS
    <3>2. QED
      BY <2>1, <2>2, <2>5, <3>1 DEF CheckExists, SeedGoto, DraftedInv
  <2>6. ASSUME NEW i \in DOMAIN Chart, InsertChartAccount(s, i) PROVE SeedTypes' /\ DraftedInv'
    <3>1. CASE /\ drafted' = [drafted EXCEPT ![s] = @ \cup {Chart[i].id}]
               /\ GoOn(s, todo[s] \ {i})
      BY <1>5, <3>1 DEF GoOn, SeedGoto, DraftedInv
    <3>2. QED
      BY <2>1, <2>6, <3>1 DEF InsertChartAccount, UniqueViolation
  <2>7. CASE CommitSeed(s)
    <3>1. CASE /\ drafted' = [drafted EXCEPT ![s] = {}] /\ UNCHANGED todo
               /\ SeedGoto(s, "done") \/ SeedGoto(s, "fatal")
      BY <3>1 DEF SeedGoto, DraftedInv
    <3>2. QED
      BY <2>1, <2>7, <3>1 DEF CommitSeed
  <2>8. QED
    BY <1>1, <2>3, <2>4, <2>5, <2>6, <2>7 DEF SeedStep
<1>8. AdminStage'
  BY <1>6 DEF AdminStage, adminVars
<1>9. QED
  BY <1>2, <1>3, <1>4, <1>6, <1>7, <1>8 DEF TableTypes

\* A posting takes a timestamp once.
LEMMA StampedCount ==
  ASSUME IsFiniteSet(Posters), TypesInv, NEW p \in Posters,
         \A q \in Posters \ {p} : posterPc'[q] = posterPc[q],
         posterPc[p] \in {"commit", "done"} => posterPc'[p] \in {"commit", "done"}
  PROVE  /\ Cardinality(Stamped) <= Cardinality(Stamped')
         /\ posterPc[p] = "lock" /\ posterPc'[p] = "commit"
              => Cardinality(Stamped') = Cardinality(Stamped) + 1
         /\ Cardinality(Stamped') <= Cardinality(Posters)
         /\ Cardinality(Stamped) \in Nat /\ Cardinality(Stamped') \in Nat
<1>1. IsFiniteSet(Stamped) /\ IsFiniteSet(Stamped') /\ Stamped' \subseteq Posters
  BY FS_Subset DEF Stamped
<1>2. /\ Cardinality(Stamped) \in Nat /\ Cardinality(Stamped') \in Nat
      /\ Cardinality(Stamped') <= Cardinality(Posters)
  BY <1>1, FS_CardinalityType, FS_Subset
<1>3. Stamped \subseteq Stamped'
  BY DEF Stamped
<1>4. Cardinality(Stamped) <= Cardinality(Stamped')
  BY <1>1, <1>3, FS_Subset
<1>5. ASSUME posterPc[p] = "lock", posterPc'[p] = "commit"
      PROVE  Cardinality(Stamped') = Cardinality(Stamped) + 1
  <2>1. p \notin Stamped /\ Stamped' = Stamped \cup {p}
    BY <1>5 DEF Stamped
  <2>2. QED
    BY <1>1, <2>1, FS_AddElement
<1>6. QED
  BY <1>2, <1>4, <1>5

LEMMA EntryTyped ==
  ASSUME NEW e \in JournalEntry \cup {NoEntry}
  PROVE  e.lines \in Seq(Line)
<1>1. << >> \in Seq(Line)
  OBVIOUS
<1>2. CASE e = NoEntry
  BY <1>1, <1>2 DEF NoEntry
<1>3. CASE e \in JournalEntry
  BY <1>3 DEF JournalEntry
<1>4. QED
  BY <1>2, <1>3

LEMMA PostersEntry ==
  ASSUME JournalTypes, NEW p \in Posters
  PROVE  /\ entry[p] \in JournalEntry \cup {NoEntry}
         /\ entry[p].lines \in Seq(Line) /\ entry[p].postedAt \in Nat
<1>1. entry[p] \in JournalEntry \cup {NoEntry}
  BY EntriesAssumption DEF JournalTypes
<1>2. (\A e \in JournalEntry : e.postedAt \in Nat) /\ NoEntry.postedAt \in Nat
  <2>1. \A e \in JournalEntry : e.postedAt \in Nat
    BY DEF JournalEntry
  <2>2. NoEntry.postedAt \in Nat
    BY DEF NoEntry, ZeroTime
  <2>3. QED
    BY <2>1, <2>2
<1>3. QED
  BY <1>1, <1>2, EntryTyped

\* The committed rows once an entry is applied.
LEMMA AppliedTyped ==
  ASSUME TableTypes, NEW e, e.lines \in Seq(Line), account' = Applied(e)
  PROVE  DOMAIN account' = DOMAIN account /\ account' \in [DOMAIN account' -> Account]
<1>1. ASSUME NEW a \in DOMAIN account PROVE account'[a] \in Account
  <2>1. PICK row \in Account : row = account[a]
    BY DEF TableTypes
  <2>2. CASE a \notin AccountsOf(e)
    BY <2>1, <2>2 DEF Applied
  <2>3. CASE a \in AccountsOf(e)
    <3>1. PICK n \in Int : n = Stored(row.balance + NetChange(e.lines, a, row.type))
      <4>1. row.balance \in Int /\ NetChange(e.lines, a, row.type) \in Int
        BY NetChangeType DEF Account
      <4>2. row.balance + NetChange(e.lines, a, row.type) \in Int
        BY <4>1
      <4>3. QED
        BY <4>2, StoredFacts DEF Column
    <3>2. PICK x : x = account'[a] /\ x = [row EXCEPT !.balance = n, !.version = @ + 1]
      BY <2>1, <2>3, <3>1 DEF Applied
    <3>3. /\ IsRow(row) /\ row.type \in AccountTypes /\ row.currency \in Currencies
          /\ row.status \in AccountStatus /\ row.version \in Nat
      BY DEF Account, IsRow
    <3>4. /\ IsRow(x) /\ x.type = row.type /\ x.currency = row.currency
          /\ x.status = row.status /\ x.balance = n /\ x.version = row.version + 1
      BY <3>2, <3>3 DEF IsRow
    <3>5. x \in Account
      BY <3>1, <3>3, <3>4 DEF Account, IsRow
    <3>6. QED
      BY <3>2, <3>5
  <2>4. QED
    BY <2>2, <2>3
<1>2. DOMAIN account' = DOMAIN account /\ account' = [a \in DOMAIN account |-> account'[a]]
  BY DEF Applied
<1>3. QED
  BY <1>1, <1>2

LEMMA JournalTyped ==
  ASSUME IsFiniteSet(Posters), TypesInv, JournalNext, UNCHANGED <<adminVars, seedVars>>
  PROVE  TypesInv'
<1> USE DEF TypesInv, TypeOK
<1>1. PICK p \in Posters : PosterStep(p) \/ \E e \in Entries : PostJournalEntry(p, e)
  BY DEF JournalNext
<1>2. AdminTypes' /\ SeedTypes' /\ DraftedInv'
  BY DEF AdminTypes, SeedTypes, DraftedInv, adminVars, seedVars
<1>3. faults' \in 0..MaxFaults
  BY <1>1, FaultsType DEF PosterStep, PostJournalEntry, SelectAccounts, InsertEntry, CommitEntry,
                          LockAccount, Succeeds, TableTypes
<1>4. posterPc[p] \in {"idle", "select", "lock", "commit", "done"}
  BY DEF JournalTypes
<1>5. ASSUME JournalTypes', \A q \in Posters \ {p} : posterPc'[q] = posterPc[q],
             posterPc[p] \in {"commit", "done"} => posterPc'[p] \in {"commit", "done"},
             \/ clock' = clock
             \/ clock' = clock + 1 /\ posterPc[p] = "lock" /\ posterPc'[p] = "commit",
             rowLock' \in [Ids -> Posters \cup {None}], DOMAIN account' = DOMAIN account,
             account' \in [DOMAIN account' -> Account]
      PROVE  TypesInv'
  <2>1. TableTypes'
    BY <1>3, <1>5 DEF TableTypes
  <2>2. AdminStage'
    BY <1>5 DEF AdminStage, adminVars
  <2>3. clock' <= Cardinality(Stamped') + 1
    <3>1. clock \in Nat
      BY DEF JournalTypes
    <3>2. QED
      BY <1>5, <3>1, StampedCount
  <2>4. QED
    BY <1>2, <1>5, <2>1, <2>2, <2>3
<1>6. /\ DOMAIN account = DOMAIN account /\ account \in [DOMAIN account -> Account]
      /\ rowLock \in [Ids -> Posters \cup {None}]
  BY DEF TableTypes
<1>7. ASSUME NEW r \in Results, EndTx(p, r), UNCHANGED clock, journal' \in Seq(Posted),
             DOMAIN account' = DOMAIN account, account' \in [DOMAIN account' -> Account]
      PROVE  TypesInv'
  <2>1. JournalTypes'
    <3>1. NoDraft \in Posted
      BY DEF NoDraft, Posted, ZeroTime
    <3>2. QED
      BY <1>7, <3>1 DEF EndTx, Return, PosterGoto, JournalTypes
  <2>2. rowLock' \in [Ids -> Posters \cup {None}]
    BY <1>6, <1>7 DEF EndTx
  <2>3. posterPc' = [posterPc EXCEPT ![p] = "done"]
    BY <1>7 DEF EndTx, Return, PosterGoto
  <2>4. QED
    BY <1>5, <1>7, <2>1, <2>2, <2>3 DEF JournalTypes
<1>8. ASSUME NEW e \in Entries, PostJournalEntry(p, e) PROVE TypesInv'
  <2>1. JournalTypes'
    BY <1>8 DEF PostJournalEntry, Return, PosterGoto, JournalTypes, Results
  <2>2. /\ posterPc[p] = "idle" /\ \A q \in Posters \ {p} : posterPc'[q] = posterPc[q]
        /\ UNCHANGED <<clock, account, rowLock>>
    BY <1>8 DEF PostJournalEntry, Return, PosterGoto, JournalTypes, tableVars
  <2>3. QED
    BY <1>5, <1>6, <2>1, <2>2
<1>9. CASE SelectAccounts(p)
  <2>1. JournalTypes'
    BY <1>9 DEF SelectAccounts, PosterGoto, JournalTypes
  <2>2. /\ posterPc[p] = "select" /\ \A q \in Posters \ {p} : posterPc'[q] = posterPc[q]
        /\ UNCHANGED <<clock, account, rowLock>>
    BY <1>9 DEF SelectAccounts, PosterGoto, JournalTypes, tableVars
  <2>3. QED
    BY <1>5, <1>6, <2>1, <2>2
<1>10. ASSUME NEW a \in Ids, LockAccount(p, a) PROVE TypesInv'
  <2>1. JournalTypes' /\ UNCHANGED <<posterPc, clock, account>>
    BY <1>10 DEF LockAccount, posterVars, JournalTypes
  <2>2. rowLock' \in [Ids -> Posters \cup {None}]
    BY <1>6, <1>10 DEF LockAccount
  <2>3. QED
    BY <1>5, <1>6, <2>1, <2>2
<1>11. CASE InsertEntry(p)
  <2>1. CASE \E r \in Results : EndTx(p, r) /\ UNCHANGED <<clock, account, journal>>
    BY <1>6, <1>7, <2>1 DEF JournalTypes
  <2>2. CASE /\ clock' \in {clock, clock + 1}
             /\ draft' = [draft EXCEPT ![p] = [entry |-> entry[p],
                                               postedAt |-> Stamp(entry[p], clock')]]
             /\ PosterGoto(p, "commit")
             /\ UNCHANGED <<rowLock, entry, found, result, account, journal>>
    <3>1. posterPc[p] = "lock" /\ posterPc' = [posterPc EXCEPT ![p] = "commit"]
      BY <1>11, <2>2 DEF InsertEntry, PosterGoto
    <3>2. clock' \in 1..(Cardinality(Posters) + 1) /\ clock' \in Nat
      <4>1. clock \in Nat /\ clock >= 1 /\ clock <= Cardinality(Stamped) + 1
        BY DEF JournalTypes
      <4>2. Cardinality(Stamped') = Cardinality(Stamped) + 1 /\ Cardinality(Stamped) \in Nat
        BY <3>1, StampedCount DEF JournalTypes
      <4>3. Cardinality(Stamped') <= Cardinality(Posters) /\ Cardinality(Posters) \in Nat
        BY <3>1, StampedCount, FS_CardinalityType DEF JournalTypes
      <4>4. clock' >= 1 /\ clock' <= Cardinality(Posters) + 1 /\ clock' \in Nat
        BY <2>2, <4>1, <4>2, <4>3
      <4>5. QED
        BY <4>3, <4>4
    <3>3. [entry |-> entry[p], postedAt |-> Stamp(entry[p], clock')] \in Posted
      <4>1. entry[p].postedAt \in Nat
        BY PostersEntry
      <4>2. QED
        BY <3>2, <4>1, PostersEntry DEF Posted, JournalTypes, Stamp
    <3>4. JournalTypes'
      BY <2>2, <3>1, <3>2, <3>3 DEF JournalTypes
    <3>5. QED
      BY <1>5, <1>6, <2>2, <3>1, <3>4 DEF JournalTypes
  <2>3. QED
    BY <1>11, <2>1, <2>2 DEF InsertEntry, Refuse, Results
<1>12. CASE CommitEntry(p)
  <2>1. /\ UNCHANGED clock /\ \E r \in Results : EndTx(p, r)
        /\ \/ UNCHANGED <<account, journal>>
           \/ account' = Applied(entry[p]) /\ journal' = Append(journal, draft[p])
    BY <1>12 DEF CommitEntry, Results
  <2>2. CASE UNCHANGED <<account, journal>>
    BY <1>6, <1>7, <2>1, <2>2 DEF JournalTypes
  <2>3. CASE account' = Applied(entry[p]) /\ journal' = Append(journal, draft[p])
    <3>1. journal' \in Seq(Posted)
      BY <2>3, AppendTyped DEF JournalTypes
    <3>2. QED
      BY <1>7, <2>1, <2>3, <3>1, PostersEntry, AppliedTyped
  <2>4. QED
    BY <2>1, <2>2, <2>3
<1>13. QED
  BY <1>1, <1>8, <1>9, <1>10, <1>11, <1>12 DEF PosterStep

LEMMA TypesInvariant == IsFiniteSet(Posters) => (Spec => []TypesInv)
<1> SUFFICES ASSUME IsFiniteSet(Posters) PROVE Spec => []TypesInv
  OBVIOUS
<1>1. ASSUME Init PROVE TypesInv
  <2>1. TableTypes /\ SeedTypes /\ DraftedInv
    BY <1>1, TableAssumption DEF Init, TableInit, SeedInit, TableTypes, SeedTypes, DraftedInv
  <2>2. AdminTypes /\ AdminStage
    BY <1>1, AdminAssumption DEF Init, AdminInit, AdminTypes, AdminStage
  <2>3. Cardinality(Posters) \in Nat /\ Cardinality(Stamped) \in Nat
    BY FS_CardinalityType, FS_Subset DEF Stamped
  <2>4. JournalTypes /\ clock <= Cardinality(Stamped) + 1
    BY <1>1, <2>3 DEF Init, JournalInit, JournalTypes, Results, NoDraft, Posted, ZeroTime
  <2>5. QED
    BY <2>1, <2>2, <2>4 DEF TypesInv, TypeOK
<1>2. ASSUME TypesInv, UNCHANGED vars PROVE TypesInv'
  BY <1>2 DEF vars, tableVars, adminVars, seedVars, journalVars, posterVars, TypesInv, TypeOK,
              TableTypes, AdminTypes, SeedTypes, JournalTypes, AdminStage, DraftedInv, Stamped
<1>3. TypesInv /\ [Next]_vars => TypesInv'
  BY <1>2, AdminTyped, SeedTyped, JournalTyped DEF Next
<1>4. QED
  BY <1>1, <1>3, PTL DEF Spec

\* Every state of the accounts table, of the requests, the seed runs, the postings and
\* the journal is typed; above all, what a balance is moved by is an integer.
THEOREM LedgerTypeCorrect == ASSUME IsFiniteSet(Posters) PROVE Spec => []TypeOK
<1>1. TypesInv => TypeOK
  BY DEF TypesInv
<1>2. QED
  BY <1>1, TypesInvariant, PTL

-----------------------------------------------------------------------------
(***************************************************************************)
(* What the postings and the journal hold. Every entry was admitted, and   *)
(* its accounts exist. Two entries of one account which the service        *)
(* stamped were committed in the order of their timestamps, and one that   *)
(* is about to be committed comes after those there are, or with the last  *)
(* of them: its timestamp was taken under the row locks. It still has the  *)
(* funds it was checked for.                                               *)
(***************************************************************************)
Underway == {"select", "lock", "commit"}

\* Two entries have an account in common.
Meet(e, f) == AccountsOf(e) \cap AccountsOf(f) # {}

EntryInv ==
  /\ \A p \in Posters :
       /\ posterPc[p] \in Underway => entry[p] \in Entries /\ Admitted(entry[p])
       /\ posterPc[p] = "commit" => draft[p].entry = entry[p]
  /\ \A i \in DOMAIN journal :
       /\ journal[i].entry \in Entries /\ Admitted(journal[i].entry)
       /\ AccountsOf(journal[i].entry) \subseteq DOMAIN account

\* The service stamps the entry itself.
Clocked(e) == e.postedAt = ZeroTime

StampInv ==
  /\ \A i \in DOMAIN journal :
       Clocked(journal[i].entry) => journal[i].postedAt <= clock
  /\ \A i, j \in DOMAIN journal :
       i < j /\ Meet(journal[i].entry, journal[j].entry)
         /\ Clocked(journal[i].entry) /\ Clocked(journal[j].entry)
         => journal[i].postedAt <= journal[j].postedAt
  /\ \A p \in Posters : posterPc[p] = "commit" /\ Clocked(entry[p]) =>
       /\ draft[p].postedAt <= clock
       /\ \A i \in DOMAIN journal :
            Clocked(journal[i].entry) /\ Meet(journal[i].entry, entry[p])
              => journal[i].postedAt <= draft[p].postedAt

FundedInv ==
  \A p \in Posters : posterPc[p] = "commit" =>
    \A a \in found[p] :
      account[a].balance + NetChange(entry[p].lines, a, account[a].type) >= 0

JournalInv == EntryInv /\ StampInv /\ FundedInv

LEMMA JournalByOthers ==
  ASSUME LedgerInv, JournalInv, KeepsMoney, DOMAIN account \subseteq DOMAIN account',
         UNCHANGED journalVars
  PROVE  JournalInv'
<1>1. UNCHANGED <<posterPc, entry, found, draft, journal, clock>>
  BY DEF journalVars, posterVars
<1>2. EntryInv'
  BY <1>1 DEF JournalInv, EntryInv
<1>3. StampInv'
  BY <1>1 DEF JournalInv, StampInv
<1>4. FundedInv'
  <2>1. \A p \in Posters : found[p] \subseteq DOMAIN account
    BY DEF LedgerInv, LedgerTypes
  <2>2. QED
    BY <1>1, <2>1 DEF JournalInv, FundedInv, KeepsMoney
<1>5. QED
  BY <1>2, <1>3, <1>4 DEF JournalInv

\* A posting goes on, or ends, without an entry.
LEMMA JournalKept ==
  ASSUME JournalInv, NEW p \in Posters, UNCHANGED <<account, journal, clock>>,
         \A q \in Posters \ {p} : /\ posterPc'[q] = posterPc[q] /\ entry'[q] = entry[q]
                                 /\ found'[q] = found[q] /\ draft'[q] = draft[q],
         posterPc'[p] # "commit",
         posterPc'[p] \in Underway => entry'[p] \in Entries /\ Admitted(entry'[p])
  PROVE  JournalInv'
<1>1. EntryInv'
  BY DEF JournalInv, EntryInv
<1>2. StampInv'
  BY DEF JournalInv, StampInv
<1>3. FundedInv'
  BY DEF JournalInv, FundedInv
<1>4. QED
  BY <1>1, <1>2, <1>3 DEF JournalInv

LEMMA EndOfTx ==
  ASSUME TypesInv, NEW p \in Posters, NEW r, EndTx(p, r)
  PROVE  /\ \A q \in Posters \ {p} : /\ posterPc'[q] = posterPc[q] /\ entry'[q] = entry[q]
                                     /\ found'[q] = found[q] /\ draft'[q] = draft[q]
         /\ posterPc'[p] = "done"
BY DEF TypesInv, TypeOK, JournalTypes, EndTx, Return, PosterGoto

LEMMA JournalInsert ==
  ASSUME TypesInv, LedgerInv, JournalInv, NEW p \in Posters, InsertEntry(p)
  PROVE  JournalInv'
<1> USE DEF TypesInv, TypeOK, JournalTypes
<1>1. CASE \E r : EndTx(p, r) /\ UNCHANGED <<account, journal, clock>>
  BY <1>1, EndOfTx, JournalKept DEF Underway
<1>2. CASE /\ Accepts(p) /\ clock' \in {clock, clock + 1}
           /\ draft' = [draft EXCEPT ![p] = [entry |-> entry[p],
                                             postedAt |-> Stamp(entry[p], clock')]]
           /\ PosterGoto(p, "commit")
           /\ UNCHANGED <<rowLock, entry, found, result, account, journal>>
  <2>1. /\ posterPc[p] = "lock" /\ posterPc'[p] = "commit"
        /\ \A q \in Posters \ {p} : posterPc'[q] = posterPc[q] /\ draft'[q] = draft[q]
        /\ draft'[p] = [entry |-> entry[p], postedAt |-> Stamp(entry[p], clock')]
    BY <1>2 DEF InsertEntry, PosterGoto
  <2>2. EntryInv'
    BY <1>2, <2>1 DEF JournalInv, EntryInv, Underway
  <2>3. StampInv'
    <3>0. \A d \in Posted : d.postedAt \in Nat
      BY DEF Posted
    <3>1. /\ clock \in Nat /\ \A i \in DOMAIN journal : journal[i].postedAt \in Nat
          /\ \A q \in Posters : draft[q].postedAt \in Nat
      BY <3>0
    <3>2. clock' \in Nat /\ clock <= clock'
      BY <1>2, <3>1
    <3>3. ASSUME Clocked(entry[p]) PROVE draft'[p].postedAt = clock'
      BY <2>1, <3>3 DEF Clocked, Stamp
    <3>4. ASSUME NEW q \in Posters, posterPc'[q] = "commit", Clocked(entry[q])
          PROVE  /\ draft'[q].postedAt <= clock'
                 /\ \A i \in DOMAIN journal :
                      Clocked(journal[i].entry) /\ Meet(journal[i].entry, entry[q])
                        => journal[i].postedAt <= draft'[q].postedAt
      <4>1. CASE q = p
        BY <3>1, <3>2, <3>3, <3>4, <4>1 DEF JournalInv, StampInv
      <4>2. CASE q # p
        <5>1. posterPc[q] = "commit" /\ draft'[q] = draft[q]
          BY <2>1, <3>4, <4>2
        <5>2. QED
          BY <3>1, <3>2, <3>4, <5>1 DEF JournalInv, StampInv
      <4>3. QED
        BY <4>1, <4>2
    <3>5. \A i \in DOMAIN journal : Clocked(journal[i].entry) => journal[i].postedAt <= clock'
      BY <3>1, <3>2 DEF JournalInv, StampInv
    <3>6. QED
      BY <1>2, <3>4, <3>5 DEF JournalInv, StampInv
  <2>4. FundedInv'
    BY <1>2, <2>1 DEF JournalInv, FundedInv, Accepts
  <2>5. QED
    BY <2>2, <2>3, <2>4 DEF JournalInv
<1>3. QED
  BY <1>1, <1>2 DEF InsertEntry, Refuse

\* What a commit does to the journal and to the balances.
Commits(p) ==
  /\ posterPc[p] = "commit" /\ (\E r : EndTx(p, r)) /\ UNCHANGED clock
  /\ account' = Applied(entry[p]) /\ journal' = Append(journal, draft[p])

\* Postings about to commit have no account in common: each holds the rows of its own.
LEMMA CommitsApart ==
  ASSUME LedgerInv, NEW p \in Posters, NEW q \in Posters, p # q,
         posterPc[p] = "commit", posterPc[q] = "commit"
  PROVE  ~Meet(entry[p], entry[q])
BY DEF LedgerInv, ReadyInv, Meet

LEMMA JournalCommit ==
  ASSUME TypesInv, LedgerInv, JournalInv, NEW p \in Posters, CommitEntry(p)
  PROVE  JournalInv'
<1> USE DEF TypesInv, TypeOK, JournalTypes
<1>1. CASE \E r : EndTx(p, r) /\ UNCHANGED <<account, journal, clock>>
  BY <1>1, EndOfTx, JournalKept DEF Underway
<1>2. CASE Commits(p)
  <2>1. /\ \A q \in Posters \ {p} : /\ posterPc'[q] = posterPc[q] /\ entry'[q] = entry[q]
                                    /\ found'[q] = found[q] /\ draft'[q] = draft[q]
        /\ posterPc'[p] = "done"
    BY <1>2, EndOfTx DEF Commits
  <2>2. PICK d \in Posted : d = draft[p]
    OBVIOUS
  <2>3. /\ d.entry = entry[p] /\ posterPc[p] = "commit" /\ entry[p] \in Entries
        /\ Admitted(entry[p]) /\ d.postedAt \in Nat
        /\ AccountsOf(entry[p]) \subseteq DOMAIN account
        /\ Clocked(entry[p]) =>
             /\ d.postedAt <= clock
             /\ \A i \in DOMAIN journal :
                  Clocked(journal[i].entry) /\ Meet(journal[i].entry, entry[p])
                    => journal[i].postedAt <= d.postedAt
    BY <1>2, <2>2 DEF Commits, JournalInv, EntryInv, StampInv, Underway, Posted,
                      LedgerInv, LedgerTypes, ReadyInv
  <2>4. /\ DOMAIN journal' = DOMAIN journal \cup {Len(journal) + 1}
        /\ journal'[Len(journal) + 1] = d
        /\ \A i \in DOMAIN journal : journal'[i] = journal[i] /\ i < Len(journal) + 1
    BY <1>2, <2>2 DEF Commits
  <2>5. /\ DOMAIN account' = DOMAIN account
        /\ \A a \in DOMAIN account : /\ account'[a].type = account[a].type
                                     /\ a \notin AccountsOf(entry[p]) => account'[a] = account[a]
    BY <1>2, AppliedRows DEF Commits, LedgerInv
  <2>6. EntryInv'
    <3>1. \A q \in Posters :
            /\ posterPc'[q] \in Underway => entry'[q] \in Entries /\ Admitted(entry'[q])
            /\ posterPc'[q] = "commit" => draft'[q].entry = entry'[q]
      BY <2>1 DEF JournalInv, EntryInv, Underway
    <3>2. \A i \in DOMAIN journal' :
            /\ journal'[i].entry \in Entries /\ Admitted(journal'[i].entry)
            /\ AccountsOf(journal'[i].entry) \subseteq DOMAIN account'
      BY <2>3, <2>4, <2>5 DEF JournalInv, EntryInv
    <3>3. QED
      BY <3>1, <3>2 DEF EntryInv
  <2>7. StampInv'
    <3>1. /\ clock' = clock
          /\ \A i \in DOMAIN journal' :
               Clocked(journal'[i].entry) => journal'[i].postedAt <= clock
      BY <1>2, <2>3, <2>4 DEF Commits, JournalInv, StampInv
    <3>2. ASSUME NEW i \in DOMAIN journal', NEW j \in DOMAIN journal', i < j,
                 Meet(journal'[i].entry, journal'[j].entry),
                 Clocked(journal'[i].entry), Clocked(journal'[j].entry)
          PROVE  journal'[i].postedAt <= journal'[j].postedAt
      <4>1. i \in DOMAIN journal /\ i \in Nat /\ j \in Nat
        BY <2>4, <3>2
      <4>2. CASE j \in DOMAIN journal
        BY <2>4, <3>2, <4>1, <4>2 DEF JournalInv, StampInv
      <4>3. CASE j = Len(journal) + 1
        BY <2>3, <2>4, <3>2, <4>1, <4>3
      <4>4. QED
        BY <2>4, <4>2, <4>3
    <3>3. ASSUME NEW q \in Posters, posterPc'[q] = "commit", Clocked(entry'[q])
          PROVE  /\ draft'[q].postedAt <= clock
                 /\ \A i \in DOMAIN journal' :
                      Clocked(journal'[i].entry) /\ Meet(journal'[i].entry, entry'[q])
                        => journal'[i].postedAt <= draft'[q].postedAt
      <4>1. q # p /\ posterPc[q] = "commit" /\ entry'[q] = entry[q] /\ draft'[q] = draft[q]
        BY <2>1, <3>3
      <4>2. ~Meet(entry[p], entry[q])
        BY <2>3, <4>1, CommitsApart
      <4>3. QED
        BY <2>3, <2>4, <3>3, <4>1, <4>2 DEF JournalInv, StampInv
    <3>4. QED
      BY <3>1, <3>2, <3>3 DEF StampInv
  <2>8. FundedInv'
    <3>1. ASSUME NEW q \in Posters, posterPc'[q] = "commit", NEW a \in found'[q]
          PROVE  account'[a] = account[a]
      <4>1. q # p /\ posterPc[q] = "commit" /\ a \in found[q]
        BY <2>1, <3>1
      <4>2. ~Meet(entry[p], entry[q]) /\ found[q] = AccountsOf(entry[q]) /\ a \in DOMAIN account
        BY <2>3, <4>1, CommitsApart DEF LedgerInv, ReadyInv, LedgerTypes
      <4>3. QED
        BY <2>5, <4>1, <4>2 DEF Meet
    <3>2. QED
      BY <2>1, <3>1 DEF JournalInv, FundedInv
  <2>9. QED
    BY <2>6, <2>7, <2>8 DEF JournalInv
<1>3. QED
  BY <1>1, <1>2 DEF CommitEntry, Commits

LEMMA JournalNextKept ==
  ASSUME TypesInv, LedgerInv, JournalInv, [Next]_vars
  PROVE  JournalInv'
<1>1. CASE UNCHANGED vars
  BY <1>1, JournalByOthers DEF vars, tableVars, KeepsMoney
<1>2. CASE (AdminNext \/ SeedNext) /\ UNCHANGED journalVars
  BY <1>2, AdminTable, SeedTable, JournalByOthers DEF LedgerInv, TableStep
<1>3. ASSUME NEW p \in Posters, NEW e \in Entries, PostJournalEntry(p, e) PROVE JournalInv'
  <2>1. /\ UNCHANGED <<account, journal, clock, found, draft>>
        /\ \A q \in Posters \ {p} : posterPc'[q] = posterPc[q] /\ entry'[q] = entry[q]
        /\ \/ posterPc'[p] = "done"
           \/ posterPc'[p] = "select" /\ entry'[p] = e /\ Admitted(e)
    BY <1>3 DEF PostJournalEntry, Return, PosterGoto, TypesInv, TypeOK, JournalTypes, tableVars
  <2>2. QED
    BY <2>1, JournalKept DEF Underway
<1>4. ASSUME NEW p \in Posters, SelectAccounts(p) PROVE JournalInv'
  <2>1. /\ UNCHANGED <<account, journal, clock, entry, draft>>
        /\ \A q \in Posters \ {p} : posterPc'[q] = posterPc[q] /\ found'[q] = found[q]
        /\ posterPc[p] = "select" /\ posterPc'[p] = "lock"
    BY <1>4 DEF SelectAccounts, PosterGoto, TypesInv, TypeOK, JournalTypes, tableVars
  <2>2. QED
    BY <2>1, JournalKept DEF JournalInv, EntryInv, Underway
<1>5. ASSUME NEW p \in Posters, NEW a \in Ids, LockAccount(p, a) PROVE JournalInv'
  <2>1. UNCHANGED <<account, journal, clock, entry, draft, posterPc, found>> /\ posterPc[p] = "lock"
    BY <1>5 DEF LockAccount, posterVars
  <2>2. QED
    BY <2>1, JournalKept DEF JournalInv, EntryInv, Underway
<1>6. QED
  BY <1>1, <1>2, <1>3, <1>4, <1>5, JournalInsert, JournalCommit DEF Next, JournalNext, PosterStep

LEMMA JournalInvariant == IsFiniteSet(Posters) => (Spec => []JournalInv)
<1>1. Init => JournalInv
  BY DEF Init, JournalInit, JournalInv, EntryInv, StampInv, FundedInv, Underway
<1>2. TypesInv /\ LedgerInv /\ JournalInv /\ [Next]_vars => JournalInv'
  BY JournalNextKept
<1>3. QED
  BY <1>1, <1>2, TypesInvariant, LedgerInvariant, PTL DEF Spec

-----------------------------------------------------------------------------
(***************************************************************************)
(* Money. A balance is kept by increments, one per account and entry, each *)
(* rounded by its column; the stored lines are rounded one by one. The     *)
(* balance stays within what these roundings may come to of the sum of the *)
(* stored lines.                                                           *)
(***************************************************************************)
LEMMA WithinAdds ==
  ASSUME NEW m \in Int, NEW n \in Int, NEW s \in Int, NEW r \in Int,
         Within(m, s), Within(n, r)
  PROVE  Within(m + n, s + r)
BY DEF Within

\* Two sums are as close as their terms are together.
LEMMA SumWithin ==
  ASSUME NEW S, IsFiniteSet(S), NEW f, NEW g, NEW h,
         \A x \in S : /\ f[x] \in Int /\ g[x] \in Int /\ h[x] \in Int
                      /\ Within(g[x] - f[x], h[x])
  PROVE  /\ SumFunctionOnSet(f, S) \in Int /\ SumFunctionOnSet(g, S) \in Int
         /\ SumFunctionOnSet(h, S) \in Int
         /\ Within(SumFunctionOnSet(g, S) - SumFunctionOnSet(f, S), SumFunctionOnSet(h, S))
<1> DEFINE u == [x \in S |-> g[x] - f[x]]
           w == [x \in S |-> 2 * (g[x] - f[x])]
           v == [x \in S |-> -(2 * (g[x] - f[x]))]
<1>1. \A x \in S : /\ u[x] \in Int /\ w[x] \in Int /\ v[x] \in Int
                   /\ g[x] = f[x] + u[x] /\ w[x] = u[x] + u[x] /\ v[x] = -w[x]
                   /\ w[x] <= h[x] /\ v[x] <= h[x]
  BY DEF Within
<1> HIDE DEF u, w, v
<1>2. SumFunctionOnSet(g, S) = SumFunctionOnSet(f, S) + SumFunctionOnSet(u, S)
  BY <1>1, SumPointwise
<1>3. SumFunctionOnSet(w, S) = SumFunctionOnSet(u, S) + SumFunctionOnSet(u, S)
  BY <1>1, SumPointwise
<1>4. SumFunctionOnSet(w, S) <= SumFunctionOnSet(h, S)
  BY <1>1, SumBounded
<1>5. SumFunctionOnSet(v, S) <= SumFunctionOnSet(h, S)
  BY <1>1, SumBounded
<1>6. SumFunctionOnSet(v, S) = -SumFunctionOnSet(w, S)
  BY <1>1, SumNegated
<1>7. /\ SumFunctionOnSet(f, S) \in Int /\ SumFunctionOnSet(g, S) \in Int
      /\ SumFunctionOnSet(h, S) \in Int /\ SumFunctionOnSet(u, S) \in Int
  <2>1. SumFunctionOnSet(f, S) \in Int /\ SumFunctionOnSet(g, S) \in Int
    BY SumType
  <2>2. SumFunctionOnSet(h, S) \in Int
    BY SumType
  <2>3. SumFunctionOnSet(u, S) \in Int
    BY <1>1, SumType
  <2>4. QED
    BY <2>1, <2>2, <2>3
<1>8. QED
  BY <1>2, <1>3, <1>4, <1>5, <1>6, <1>7 DEF Within

LEMMA WithinRounded ==
  ASSUME NEW x \in Int, NEW y \in Int, NEW m \in Int, NEW n \in Int,
         NEW q \in Nat, NEW s \in Nat, Within(n - m, s),
         2 * (y - (x + m)) <= q, 2 * ((x + m) - y) <= q
  PROVE  Within(y - x - n, q + s)
BY DEF Within

\* What the columns keep of a line, and how far that is from the line.
LEMMA LineStored ==
  ASSUME NEW line \in Line, NEW a, NEW type
  PROVE  LET kept == [line EXCEPT !.amount = Stored(@)]
             m == EffectOf(line, a, type)
             n == EffectOf(kept, a, type)
         IN  /\ kept \in Line /\ kept.account = line.account /\ kept.type = line.type
             /\ m \in Int /\ n \in Int /\ n \in Column /\ LineSlack(line) \in Nat
             /\ Within(n - m, LineSlack(line))
             /\ Whole(line.amount) \/ line.account # a => n = m
             /\ line.account # a => m = 0 /\ n = 0
<1>1. PICK x \in Int, y \in Int : x = line.amount /\ y = Stored(x)
  BY StoredFacts DEF Line, Column
<1>2. /\ y \in Column /\ (Whole(x) => y = x)
      /\ 2 * (y - x) <= Quantum /\ 2 * (x - y) <= Quantum
  BY <1>1, StoredFacts DEF Column
<1>3. PICK kept : /\ kept = [line EXCEPT !.amount = Stored(@)]
                  /\ kept = [line EXCEPT !.amount = y]
  BY <1>1
<1>4. kept \in Line /\ kept.account = line.account /\ kept.type = line.type /\ kept.amount = y
  BY <1>3 DEF Line
<1>5. PICK q \in Nat : q = Quantum
  BY QuantumAssumption
<1>6. LineSlack(line) = IF Whole(x) THEN 0 ELSE q
  BY <1>1, <1>5 DEF LineSlack
<1>7. -y \in Column /\ 0 \in Column /\ -y \in Int
  BY <1>2, ColumnClosed, Zenon DEF Column
<1>8. \/ EffectOf(line, a, type) = x /\ EffectOf(kept, a, type) = y /\ line.account = a
      \/ EffectOf(line, a, type) = -x /\ EffectOf(kept, a, type) = -y /\ line.account = a
      \/ EffectOf(line, a, type) = 0 /\ EffectOf(kept, a, type) = 0 /\ line.account # a
  BY <1>1, <1>4 DEF EffectOf, DebitDelta, CreditDelta
<1>9. Within(y - x, LineSlack(line)) /\ Within(-y - (-x), LineSlack(line))
      /\ Within(0 - 0, LineSlack(line)) /\ LineSlack(line) \in Nat
  BY <1>2, <1>5, <1>6 DEF Within
<1>10. QED
  BY <1>1, <1>2, <1>3, <1>4, <1>7, <1>8, <1>9

\* What an entry adds to a balance, and what its stored lines add up to.
LEMMA EntryStored ==
  ASSUME NEW e, e.lines \in Seq(Line), NEW a, NEW type, NEW b \in Column
  PROVE  LET n == NetChange(StoredLines(e), a, type)
             balance == Stored(b + NetChange(e.lines, a, type))
         IN  /\ n \in Int /\ balance \in Column /\ balance \in Int
             /\ SlackOn(e, a) \in Nat
             /\ Within(balance - b - n, SlackOn(e, a))
<1>1. PICK lines \in Seq(Line) : lines = e.lines
  OBVIOUS
<1> DEFINE I == DOMAIN lines
           on == {i \in I : lines[i].account = a}
           f == [i \in I |-> EffectOf(lines[i], a, type)]
           g == [i \in I |-> EffectOf([lines[i] EXCEPT !.amount = Stored(@)], a, type)]
           slack == [i \in I |-> LineSlack(lines[i])]
           h == [i \in I |-> IF i \in on THEN slack[i] ELSE 0]
<1>2. IsFiniteSet(I) /\ \A i \in I : lines[i] \in Line
  BY LineFacts
<1>3. ASSUME NEW i \in I
      PROVE  /\ f[i] \in Int /\ g[i] \in Int /\ g[i] \in Column /\ slack[i] \in Nat /\ h[i] \in Nat
             /\ Within(g[i] - f[i], h[i])
             /\ (i \in on => Whole(lines[i].amount)) => g[i] = f[i]
  <2>1. PICK line \in Line : line = lines[i]
    BY <1>2
  <2>2. /\ f[i] = EffectOf(line, a, type) /\ slack[i] = LineSlack(line)
        /\ g[i] = EffectOf([line EXCEPT !.amount = Stored(@)], a, type)
        /\ i \in on <=> line.account = a
    BY <2>1
  <2>3. /\ f[i] \in Int /\ g[i] \in Int /\ g[i] \in Column /\ slack[i] \in Nat
        /\ Within(g[i] - f[i], slack[i])
        /\ Whole(line.amount) \/ line.account # a => g[i] = f[i]
        /\ line.account # a => f[i] = 0 /\ g[i] = 0
    <3>1. PICK m, n : /\ m = EffectOf(line, a, type)
                      /\ n = EffectOf([line EXCEPT !.amount = Stored(@)], a, type)
      OBVIOUS
    <3>2. /\ m \in Int /\ n \in Int /\ n \in Column /\ LineSlack(line) \in Nat
          /\ Within(n - m, LineSlack(line))
          /\ Whole(line.amount) \/ line.account # a => n = m
          /\ line.account # a => m = 0 /\ n = 0
      BY <3>1, LineStored
    <3>3. f[i] = m /\ g[i] = n /\ slack[i] = LineSlack(line)
      BY <2>2, <3>1
    <3> HIDE DEF f, g, slack, h, on
    <3>4. QED
      BY <3>2, <3>3
  <2>4. h[i] = IF i \in on THEN slack[i] ELSE 0
    OBVIOUS
  <2>5. Within(0 - 0, 0)
    BY DEF Within
  <2> HIDE DEF f, g, slack, h, on
  <2>6. QED
    BY <2>1, <2>2, <2>3, <2>4, <2>5
<1>4. /\ NetChange(e.lines, a, type) = SumFunctionOnSet(f, I)
      /\ NetChange(StoredLines(e), a, type) = SumFunctionOnSet(g, I)
  <2>1. DOMAIN StoredLines(e) = I
    BY <1>1 DEF StoredLines
  <2>2. [i \in DOMAIN StoredLines(e) |-> EffectOf(StoredLines(e)[i], a, type)] = g
    BY <1>1, <2>1 DEF StoredLines
  <2>3. QED
    BY <1>1, <2>2 DEF NetChange, SumFunction
<1>5. SlackOn(e, a) = IF \A i \in on : Whole(lines[i].amount) THEN 0
                      ELSE Quantum + SumFunctionOnSet(slack, on)
  BY <1>1 DEF SlackOn
<1>6. on \in SUBSET I
  OBVIOUS
<1>7. /\ \A i \in on : slack[i] \in Int /\ h[i] = slack[i]
      /\ \A i \in I \ on : h[i] = 0
  <2>1. /\ \A i \in on : i \in I /\ h[i] = slack[i]
        /\ \A i \in I \ on : h[i] = 0
    OBVIOUS
  <2>2. \A i \in on : slack[i] \in Nat
    BY <1>3
  <2> HIDE DEF f, g, slack, h, on, I
  <2>3. QED
    BY <2>1, <2>2
<1> HIDE DEF f, g, slack, h, on, I
<1>8. SumFunctionOnSet(h, I) = SumFunctionOnSet(slack, on)
  BY <1>2, <1>6, <1>7, SumWhere
<1>9. SumFunctionOnSet(h, I) \in Nat
  <2>1. 0 \in Nat /\ \A m, n \in Nat : m + n \in Nat
    OBVIOUS
  <2>2. \A i \in I : h[i] \in Nat
    BY <1>3
  <2>3. QED
    BY <1>2, <2>1, <2>2, SumClosed
<1>10. PICK F \in Int, G \in Int, H \in Nat, q \in Nat, x \in Int :
         /\ F = SumFunctionOnSet(f, I) /\ G = SumFunctionOnSet(g, I) /\ Within(G - F, H)
         /\ H = SumFunctionOnSet(h, I) /\ q = Quantum /\ x = b
  <2>1. /\ SumFunctionOnSet(f, I) \in Int /\ SumFunctionOnSet(g, I) \in Int
        /\ Within(SumFunctionOnSet(g, I) - SumFunctionOnSet(f, I), SumFunctionOnSet(h, I))
    <3>1. \A i \in I : f[i] \in Int /\ g[i] \in Int /\ h[i] \in Int /\ Within(g[i] - f[i], h[i])
      BY <1>3
    <3>2. QED
      BY <1>2, <3>1, SumWithin
  <2>2. b \in Int /\ Quantum \in Nat
    BY QuantumAssumption DEF Column
  <2>3. QED
    BY <1>9, <2>1, <2>2
<1>11. PICK y \in Column : /\ y = Stored(x + F) /\ y \in Int
                           /\ x + F \in Column => y = x + F
                           /\ 2 * (y - (x + F)) <= q /\ 2 * ((x + F) - y) <= q
  <2>1. x + F \in Int
    BY <1>10
  <2>2. QED
    BY <1>10, <2>1, StoredFacts DEF Column
<1>12. /\ NetChange(StoredLines(e), a, type) = G /\ b = x /\ G \in Int
       /\ Stored(b + NetChange(e.lines, a, type)) = y /\ y \in Int /\ y \in Column
       /\ q + H \in Nat /\ 0 \in Nat
  <2>1. NetChange(StoredLines(e), a, type) = G /\ b = x /\ G \in Int
    BY <1>4, <1>10
  <2>2. Stored(b + NetChange(e.lines, a, type)) = y
    BY <1>4, <1>10, <1>11
  <2>3. y \in Int /\ y \in Column
    BY <1>11
  <2>4. q + H \in Nat /\ 0 \in Nat
    BY <1>10
  <2>5. QED
    BY <2>1, <2>2, <2>3, <2>4
<1>13. CASE \A i \in on : Whole(lines[i].amount)
  <2>1. \A i \in I : f[i] = g[i]
    BY <1>3, <1>13
  <2>2. F = G
    BY <1>2, <1>10, <2>1, SumSame
  <2>3. G \in Column
    BY <1>2, <1>3, <1>10, ColumnSum
  <2>4. x + F \in Column
    BY <1>10, <2>2, <2>3, ColumnClosed, Zenon
  <2>5. y - x - G = 0
    BY <1>11, <2>2, <2>4
  <2>6. SlackOn(e, a) = 0 /\ Within(0, 0)
    BY <1>5, <1>13 DEF Within
  <2>7. QED
    BY <1>12, <2>5, <2>6
<1>14. CASE ~\A i \in on : Whole(lines[i].amount)
  <2>1. SlackOn(e, a) = q + H
    BY <1>5, <1>8, <1>10, <1>14
  <2>2. Within(y - x - G, q + H)
    BY <1>10, <1>11, WithinRounded
  <2>3. QED
    BY <1>12, <2>1, <2>2
<1>15. QED
  BY <1>13, <1>14

Opening(a) == IF a \in DOMAIN InitAccounts THEN InitAccounts[a].balance ELSE 0

\* What each entry of the journal js does to account a of the given type, and how much
\* rounding may blur that.
Changes(js, a, type) == [i \in DOMAIN js |-> NetChange(StoredLines(js[i].entry), a, type)]

Slacks(js, a) == [i \in DOMAIN js |-> SlackOn(js[i].entry, a)]

MoneyInv ==
  /\ DOMAIN InitAccounts \subseteq DOMAIN account
  /\ \A a \in DOMAIN account : account[a].balance \in Column
  /\ BalanceIsReplay
  /\ StatementNeverOverdrawn

\* The sums over the entries there were are not changed by one more.
LEMMA SumsKept ==
  ASSUME NEW js \in Seq(Posted), NEW d \in Posted, NEW a, NEW type,
         NEW S \in SUBSET DOMAIN js
  PROVE  /\ IsFiniteSet(S)
         /\ SumFunctionOnSet(Changes(Append(js, d), a, type), S)
              = SumFunctionOnSet(Changes(js, a, type), S)
         /\ SumFunctionOnSet(Slacks(Append(js, d), a), S) = SumFunctionOnSet(Slacks(js, a), S)
<1>1. IsFiniteSet(S)
  <2>1. DOMAIN js = 1..Len(js) /\ Len(js) \in Nat
    OBVIOUS
  <2>2. IsFiniteSet(DOMAIN js)
    BY <2>1, FS_Interval
  <2>3. QED
    BY <2>2, FS_Subset
<1>2. \A i \in S : i \in DOMAIN js /\ i \in DOMAIN Append(js, d) /\ Append(js, d)[i] = js[i]
  OBVIOUS
<1>3. \A i \in S : Changes(Append(js, d), a, type)[i] = Changes(js, a, type)[i]
  BY <1>2 DEF Changes
<1>4. \A i \in S : Slacks(Append(js, d), a)[i] = Slacks(js, a)[i]
  BY <1>2 DEF Slacks
<1>5. SumFunctionOnSet(Changes(Append(js, d), a, type), S)
        = SumFunctionOnSet(Changes(js, a, type), S)
  BY <1>1, <1>3, SumSame
<1>6. SumFunctionOnSet(Slacks(Append(js, d), a), S) = SumFunctionOnSet(Slacks(js, a), S)
  BY <1>1, <1>4, SumSame
<1>7. QED
  BY <1>1, <1>5, <1>6

LEMMA MoneyByOthers ==
  ASSUME EntryInv, MoneyInv, KeepsMoney, DOMAIN account \subseteq DOMAIN account',
         UNCHANGED journal
  PROVE  MoneyInv'
<1>1. \A a \in DOMAIN account : \A S : Replay(a, S)' = Replay(a, S) /\ Slack(a, S)' = Slack(a, S)
  BY DEF Replay, Moved, KeepsMoney, Slack
<1>2. \A a : AccountEntries(a)' = AccountEntries(a)
  BY DEF AccountEntries
<1>3. ASSUME NEW a \in DOMAIN account' \ DOMAIN account
      PROVE  /\ account'[a].balance = 0 /\ a \notin DOMAIN InitAccounts
             /\ AccountEntries(a)' = {}
  BY <1>3 DEF AccountEntries, EntryInv, MoneyInv, KeepsMoney
<1>4. \A a \in DOMAIN account' : account'[a].balance \in Column
  BY <1>3, ColumnClosed DEF MoneyInv, KeepsMoney
<1>5. BalanceIsReplay'
  <2>1. ASSUME NEW a \in DOMAIN account'
        PROVE  Within(account[a].balance - Replay(a, AccountEntries(a)),
                      Slack(a, AccountEntries(a)))'
    <3>1. CASE a \in DOMAIN account
      <4>1. /\ account'[a].balance = account[a].balance
            /\ Replay(a, AccountEntries(a))' = Replay(a, AccountEntries(a))
            /\ Slack(a, AccountEntries(a))' = Slack(a, AccountEntries(a))
        BY <1>2, <3>1 DEF KeepsMoney, Replay, Moved, Slack
      <4>2. Within(account[a].balance - Replay(a, AccountEntries(a)), Slack(a, AccountEntries(a)))
        BY <3>1 DEF MoneyInv, BalanceIsReplay
      <4>3. QED
        BY <4>1, <4>2 DEF Within
    <3>2. CASE a \notin DOMAIN account
      <4>1. Replay(a, AccountEntries(a))' = 0 /\ Slack(a, AccountEntries(a))' = 0
        <5>1. a \in DOMAIN account' /\ AccountEntries(a)' = {} /\ Opening(a) = 0
          BY <1>3, <3>2 DEF Opening
        <5>2. Replay(a, AccountEntries(a))' = 0
          BY <1>3, <3>2, SumEmpty DEF Replay
        <5>3. Slack(a, AccountEntries(a))' = 0
          BY <5>1, SumEmpty DEF Slack
        <5>4. QED
          BY <5>2, <5>3
      <4>2. QED
        BY <1>3, <3>2, <4>1 DEF Within
    <3>3. QED
      BY <3>1, <3>2
  <2>2. QED
    BY <2>1 DEF BalanceIsReplay
<1>6. StatementNeverOverdrawn'
  <2>1. ASSUME NEW a \in DOMAIN account', NEW i \in AccountEntries(a)'
        PROVE  (LET shown == {j \in AccountEntries(a) : ~NewestFirst(j, i)}
                IN  (\A j \in AccountEntries(a) : journal[j].entry.postedAt = ZeroTime)
                      => 2 * Replay(a, shown) + Slack(a, shown) >= 0)'
    <3>1. a \in DOMAIN account /\ i \in AccountEntries(a)
      BY <1>2, <1>3, <2>1
    <3>2. PICK shown : /\ shown = {j \in AccountEntries(a) : ~NewestFirst(j, i)}
                       /\ shown = {j \in AccountEntries(a) : ~NewestFirst(j, i)}'
      BY <1>2 DEF NewestFirst
    <3>3. Replay(a, shown)' = Replay(a, shown) /\ Slack(a, shown)' = Slack(a, shown)
      BY <1>1, <3>1
    <3>4. (\A j \in AccountEntries(a) : journal[j].entry.postedAt = ZeroTime)
            => 2 * Replay(a, shown) + Slack(a, shown) >= 0
      BY <3>1, <3>2 DEF MoneyInv, StatementNeverOverdrawn
    <3>5. (\A j \in AccountEntries(a) : journal[j].entry.postedAt = ZeroTime)'
            => 2 * Replay(a, shown)' + Slack(a, shown)' >= 0
      BY <1>2, <3>3, <3>4
    <3>6. QED
      BY <3>2, <3>5 DEF Replay, Slack, Moved
  <2>2. QED
    BY <2>1 DEF StatementNeverOverdrawn
<1>7. QED
  BY <1>4, <1>5, <1>6 DEF MoneyInv

\* A commit adds to the journal what it adds to the balances.
LEMMA MoneyCommit ==
  ASSUME TypesInv, LedgerInv, JournalInv, JournalInv', MoneyInv, NEW p \in Posters, Commits(p)
  PROVE  MoneyInv'
<1> USE DEF TypesInv, TypeOK, JournalTypes
<1> PICK n : n = Len(journal) + 1
  OBVIOUS
<1>1. PICK d \in Posted : d = draft[p]
  OBVIOUS
<1>2. PICK e \in Entries : e = entry[p] /\ e = d.entry
  BY <1>1 DEF Commits, JournalInv, EntryInv, Underway
<1>3. /\ journal \in Seq(Posted) /\ journal' = Append(journal, d) /\ n \notin DOMAIN journal
      /\ DOMAIN journal' = DOMAIN journal \cup {n} /\ journal'[n] = d
      /\ \A i \in DOMAIN journal : journal'[i] = journal[i]
  BY <1>1 DEF Commits
<1>4. /\ DOMAIN account' = DOMAIN account
      /\ \A a \in DOMAIN account :
           /\ account'[a].type = account[a].type
           /\ a \notin AccountsOf(e) => account'[a] = account[a]
           /\ a \in AccountsOf(e) =>
                account'[a].balance
                  = Stored(account[a].balance + NetChange(e.lines, a, account[a].type))
  BY <1>2, AppliedRows DEF Commits, LedgerInv
<1>5. ASSUME NEW a \in DOMAIN account, a \in AccountsOf(e)
      PROVE  /\ account'[a].balance \in Column /\ SlackOn(e, a) \in Nat
             /\ NetChange(StoredLines(e), a, account[a].type) \in Int
             /\ Within(account'[a].balance - account[a].balance
                         - NetChange(StoredLines(e), a, account[a].type), SlackOn(e, a))
  <2>1. PICK b \in Column : b = account[a].balance
    BY DEF MoneyInv
  <2>2. e.lines \in Seq(Line)
    BY EntriesAssumption, EntryTyped
  <2>3. account'[a].balance = Stored(b + NetChange(e.lines, a, account[a].type))
    BY <1>4, <1>5, <2>1
  <2>4. PICK type, k, c : /\ type = account[a].type /\ k = NetChange(StoredLines(e), a, type)
                         /\ c = Stored(b + NetChange(e.lines, a, type))
    OBVIOUS
  <2>5. c \in Column /\ k \in Int /\ SlackOn(e, a) \in Nat /\ Within(c - b - k, SlackOn(e, a))
    BY <2>2, <2>4, EntryStored
  <2>6. QED
    BY <2>1, <2>3, <2>4, <2>5
<1>6. \A a \in DOMAIN account' : account'[a].balance \in Column
  BY <1>4, <1>5 DEF MoneyInv
<1>7. ASSUME NEW a \in DOMAIN account, NEW S \in SUBSET DOMAIN journal
      PROVE  Replay(a, S)' = Replay(a, S) /\ Slack(a, S)' = Slack(a, S) /\ IsFiniteSet(S)
  <2>1. PICK type : type = account[a].type /\ type = account'[a].type
    BY <1>4
  <2>2. /\ SumFunctionOnSet(Changes(journal', a, type), S)
             = SumFunctionOnSet(Changes(journal, a, type), S)
        /\ SumFunctionOnSet(Slacks(journal', a), S) = SumFunctionOnSet(Slacks(journal, a), S)
        /\ IsFiniteSet(S)
    BY <1>3, SumsKept, SMTT(30)
  <2>3. QED
    BY <2>1, <2>2 DEF Replay, Moved, Changes, Slack, Slacks
<1>8. ASSUME NEW a \in DOMAIN account
      PROVE  /\ AccountEntries(a) \subseteq DOMAIN journal
             /\ AccountEntries(a)' = IF a \in AccountsOf(e) THEN AccountEntries(a) \cup {n}
                                     ELSE AccountEntries(a)
  BY <1>2, <1>3 DEF AccountEntries
<1>9. ASSUME NEW a \in DOMAIN account, a \in AccountsOf(e),
             NEW S \in SUBSET DOMAIN journal
      PROVE  /\ Replay(a, S \cup {n})' \in Int /\ Slack(a, S \cup {n})' \in Int
             /\ Replay(a, S) \in Int /\ Slack(a, S) \in Int
             /\ Replay(a, S \cup {n})'
                  = Replay(a, S) + NetChange(StoredLines(e), a, account[a].type)
             /\ Slack(a, S \cup {n})' = Slack(a, S) + SlackOn(e, a)
  <2>1. PICK type : type = account[a].type /\ type = account'[a].type
    BY <1>4
  <2>2. PICK f, g : f = Changes(journal', a, type) /\ g = Slacks(journal', a)
    OBVIOUS
  <2>3. \A i \in DOMAIN journal' : f[i] \in Int /\ g[i] \in Int
    <3>1. \A i \in DOMAIN journal' :
            journal'[i].entry \in Entries /\ journal'[i].entry.lines \in Seq(Line)
      BY EntriesAssumption, EntryTyped DEF JournalInv, EntryInv
    <3>2. \A i \in DOMAIN journal' : /\ NetChange(StoredLines(journal'[i].entry), a, type) \in Int
                                     /\ SlackOn(journal'[i].entry, a) \in Int
      <4>1. 0 \in Column
        BY ColumnClosed
      <4>2. ASSUME NEW i \in DOMAIN journal'
            PROVE  /\ NetChange(StoredLines(journal'[i].entry), a, type) \in Int
                   /\ SlackOn(journal'[i].entry, a) \in Int
        <5>1. PICK x : x = journal'[i].entry /\ x.lines \in Seq(Line)
          BY <3>1
        <5>2. NetChange(StoredLines(x), a, type) \in Int /\ SlackOn(x, a) \in Nat
          BY <4>1, <5>1, EntryStored
        <5>3. QED
          BY <5>1, <5>2
      <4>3. QED
        BY <4>2
    <3>3. QED
      BY <2>2, <3>2 DEF Changes, Slacks
  <2>4. f[n] = NetChange(StoredLines(e), a, type) /\ g[n] = SlackOn(e, a)
    BY <1>2, <1>3, <2>2 DEF Changes, Slacks
  <2>5. IsFiniteSet(S) /\ n \notin S /\ \A i \in S \cup {n} : f[i] \in Int /\ g[i] \in Int
    BY <1>3, <1>7, <2>3
  <2>6. /\ SumFunctionOnSet(f, S \cup {n}) = SumFunctionOnSet(f, S) + f[n]
        /\ SumFunctionOnSet(g, S \cup {n}) = SumFunctionOnSet(g, S) + g[n]
    BY <2>5, SumAdd
  <2>7. SumFunctionOnSet(f, S) \in Int /\ SumFunctionOnSet(g, S) \in Int
    BY <2>5, SumType
  <2>8. Opening(a) \in Int
    BY TableAssumption DEF Opening, Account
  <2>9. /\ Replay(a, S \cup {n})' = Opening(a) + SumFunctionOnSet(f, S \cup {n})
        /\ Replay(a, S)' = Opening(a) + SumFunctionOnSet(f, S)
        /\ Slack(a, S \cup {n})' = SumFunctionOnSet(g, S \cup {n})
        /\ Slack(a, S)' = SumFunctionOnSet(g, S)
    BY <2>1, <2>2 DEF Replay, Moved, Changes, Opening, Slack, Slacks
  <2>10. Replay(a, S)' = Replay(a, S) /\ Slack(a, S)' = Slack(a, S)
    BY <1>7
  <2>11. f[n] \in Int /\ g[n] \in Int
    BY <2>5
  <2>12. PICK x \in Int, y \in Int, z \in Int, u \in Int, w \in Int :
           /\ x = Opening(a) /\ y = SumFunctionOnSet(f, S) /\ z = f[n]
           /\ u = SumFunctionOnSet(g, S) /\ w = g[n]
    BY <2>7, <2>8, <2>11
  <2>13. /\ Replay(a, S) = x + y /\ Replay(a, S \cup {n})' = x + (y + z)
         /\ Slack(a, S) = u /\ Slack(a, S \cup {n})' = u + w
    BY <2>6, <2>9, <2>10, <2>12
  <2>14. z = NetChange(StoredLines(e), a, account[a].type) /\ w = SlackOn(e, a)
    BY <2>1, <2>4, <2>12
  <2>15. x + (y + z) = (x + y) + z /\ x + y \in Int /\ x + (y + z) \in Int /\ u + w \in Int
    OBVIOUS
  <2>16. QED
    BY <2>13, <2>14, <2>15
<1>10. ASSUME NEW a \in DOMAIN account
       PROVE  Within(account[a].balance - Replay(a, AccountEntries(a)),
                     Slack(a, AccountEntries(a)))'
  <2>1. Within(account[a].balance - Replay(a, AccountEntries(a)), Slack(a, AccountEntries(a)))
    BY DEF MoneyInv, BalanceIsReplay
  <2>2. CASE a \notin AccountsOf(e)
    BY <1>4, <1>7, <1>8, <2>1, <2>2 DEF Within, Replay, Moved, Slack
  <2>3. CASE a \in AccountsOf(e)
    <3>1. PICK S \in SUBSET DOMAIN journal : S = AccountEntries(a)
      BY <1>8
    <3>2. PICK b \in Int, B \in Int, m \in Int, s \in Int, R \in Int, L \in Int :
            /\ b = account[a].balance /\ B = account'[a].balance
            /\ m = NetChange(StoredLines(e), a, account[a].type) /\ s = SlackOn(e, a)
            /\ R = Replay(a, S) /\ L = Slack(a, S)
      <4>1. account[a].balance \in Int /\ account'[a].balance \in Int
        BY <1>5, <2>3 DEF MoneyInv, Column
      <4>2. NetChange(StoredLines(e), a, account[a].type) \in Int /\ SlackOn(e, a) \in Int
        BY <1>5, <2>3
      <4>3. Replay(a, S) \in Int /\ Slack(a, S) \in Int
        BY <1>9, <2>3
      <4>4. QED
        BY <4>1, <4>2, <4>3
    <3>3. Within(B - b - m, s) /\ Within(b - R, L)
      BY <1>5, <2>1, <2>3, <3>1, <3>2
    <3>4. Within((B - b - m) + (b - R), s + L)
      BY <3>3, WithinAdds
    <3>5. (B - b - m) + (b - R) = B - (R + m) /\ s + L = L + s
      OBVIOUS
    <3>6. Within(B - (R + m), L + s)
      BY <3>4, <3>5
    <3>7. Replay(a, S \cup {n})' = R + m /\ Slack(a, S \cup {n})' = L + s
      BY <1>9, <2>3, <3>2
    <3>8. AccountEntries(a)' = S \cup {n}
      BY <1>8, <2>3, <3>1
    <3>9. Replay(a, AccountEntries(a))' = R + m /\ Slack(a, AccountEntries(a))' = L + s
      BY <3>7, <3>8 DEF Replay, Moved, Slack
    <3>10. QED
      BY <3>2, <3>6, <3>9 DEF Within
  <2>4. QED
    BY <2>2, <2>3
<1>11. BalanceIsReplay'
  BY <1>4, <1>10 DEF BalanceIsReplay
<1>12. ASSUME NEW a \in DOMAIN account, a \in AccountsOf(e)
       PROVE  2 * Replay(a, AccountEntries(a))' + Slack(a, AccountEntries(a))' >= 0
  <2>1. account'[a].balance >= 0 /\ account'[a].balance \in Int
    <3>1. a \in found[p]
      BY <1>2, <1>12, ZenonT(40) DEF LedgerInv, ReadyInv, Commits
    <3>2. account[a].balance + NetChange(e.lines, a, account[a].type) >= 0
      BY <1>2, <3>1 DEF JournalInv, FundedInv, Commits
    <3>3. account[a].balance \in Int /\ NetChange(e.lines, a, account[a].type) \in Int
      BY EntriesAssumption, EntryTyped, NetChangeType DEF MoneyInv, Column
    <3>4. account[a].balance + NetChange(e.lines, a, account[a].type) \in Int
      BY <3>3
    <3>5. Stored(account[a].balance + NetChange(e.lines, a, account[a].type)) >= 0
      BY <3>2, <3>4, StoredFacts
    <3>6. QED
      BY <1>4, <1>5, <1>12, <3>5 DEF Column
  <2>2. PICK S \in SUBSET DOMAIN journal : S = AccountEntries(a)
    BY <1>8
  <2>3. AccountEntries(a)' = S \cup {n}
    BY <1>8, <1>12, <2>2
  <2>4. Replay(a, AccountEntries(a))' \in Int /\ Slack(a, AccountEntries(a))' \in Int
    BY <1>9, <1>12, <2>3 DEF Replay, Moved, Slack
  <2>5. Within(account'[a].balance - Replay(a, AccountEntries(a))', Slack(a, AccountEntries(a))')
    BY <1>10 DEF Within
  <2>6. QED
    BY <2>1, <2>4, <2>5 DEF Within
<1>13. StatementNeverOverdrawn'
  <2>1. ASSUME NEW a \in DOMAIN account, NEW i \in AccountEntries(a)',
               (\A j \in AccountEntries(a) : journal[j].entry.postedAt = ZeroTime)'
        PROVE  (LET shown == {j \in AccountEntries(a) : ~NewestFirst(j, i)}
                IN  2 * Replay(a, shown) + Slack(a, shown) >= 0)'
    <3>1. \A j \in AccountEntries(a) : journal[j].entry.postedAt = ZeroTime
      BY <1>3, <1>8, <2>1
    <3>2. /\ \A j \in DOMAIN journal : journal[j].postedAt \in Nat
          /\ d.postedAt \in Nat
      <4>1. \A x \in Posted : x.postedAt \in Nat
        BY DEF Posted
      <4>2. QED
        BY <4>1
    <3>3. ASSUME a \in AccountsOf(e), NEW j \in AccountEntries(a)
          PROVE  journal[j].postedAt <= d.postedAt
      <4>1. n \in AccountEntries(a)'
        BY <1>8, <3>3
      <4>2. Clocked(e)
        BY <1>2, <1>3, <2>1, <4>1 DEF Clocked
      <4>3. Clocked(journal[j].entry) /\ Meet(journal[j].entry, e) /\ j \in DOMAIN journal
        BY <3>1, <3>3 DEF Clocked, Meet, AccountEntries
      <4>4. QED
        BY <1>1, <1>2, <4>2, <4>3 DEF Commits, JournalInv, StampInv
    <3>4. CASE a \in AccountsOf(e) /\ journal'[i].postedAt = d.postedAt
      <4>1. \A j \in AccountEntries(a)' : ~NewestFirst(j, i)'
        <5>1. ASSUME NEW j \in AccountEntries(a)' PROVE journal'[j].postedAt <= d.postedAt
          <6>1. CASE j = n
            BY <1>3, <3>2, <6>1
          <6>2. CASE j # n
            BY <1>3, <1>8, <3>3, <3>4, <5>1, <6>2
          <6>3. QED
            BY <6>1, <6>2
        <5>2. \A j \in AccountEntries(a)' : journal'[j].postedAt \in Nat
          BY <1>3, <1>8, <3>2
        <5>3. QED
          BY <3>2, <3>4, <5>1, <5>2 DEF NewestFirst
      <4>2. {j \in AccountEntries(a) : ~NewestFirst(j, i)}' = AccountEntries(a)'
        BY <4>1
      <4>3. 2 * Replay(a, AccountEntries(a))' + Slack(a, AccountEntries(a))' >= 0
        BY <1>12, <3>4
      <4>4. QED
        BY <4>2, <4>3 DEF Replay, Moved, Slack
    <3>5. CASE ~(a \in AccountsOf(e) /\ journal'[i].postedAt = d.postedAt)
      <4>1. i \in AccountEntries(a) /\ i \in DOMAIN journal /\ journal'[i] = journal[i]
        BY <1>3, <1>8, <2>1, <3>5
      <4>2. a \in AccountsOf(e) => NewestFirst(n, i)'
        BY <1>3, <3>2, <3>3, <3>5, <4>1 DEF NewestFirst
      <4>3. \A j \in AccountEntries(a) : NewestFirst(j, i)' <=> NewestFirst(j, i)
        BY <1>3, <1>8, <4>1 DEF NewestFirst
      <4>4. PICK S \in SUBSET DOMAIN journal :
              /\ S = {j \in AccountEntries(a) : ~NewestFirst(j, i)}
              /\ S = {j \in AccountEntries(a) : ~NewestFirst(j, i)}'
        BY <1>8, <4>2, <4>3
      <4>5. 2 * Replay(a, S) + Slack(a, S) >= 0
        BY <3>1, <4>1, <4>4 DEF MoneyInv, StatementNeverOverdrawn
      <4>6. Replay(a, S)' = Replay(a, S) /\ Slack(a, S)' = Slack(a, S)
        BY <1>7
      <4>7. QED
        BY <4>4, <4>5, <4>6 DEF Replay, Moved, Slack
    <3>6. QED
      BY <3>4, <3>5
  <2>2. QED
    BY <1>4, <2>1 DEF StatementNeverOverdrawn
<1>14. QED
  BY <1>4, <1>6, <1>11, <1>13 DEF MoneyInv

\* Only a commit moves money, and it writes the journal with it.
LEMMA MoneySteps ==
  ASSUME LedgerInv, [Next]_vars
  PROVE  \/ KeepsMoney /\ DOMAIN account \subseteq DOMAIN account' /\ UNCHANGED journal
         \/ \E p \in Posters : Commits(p)
<1>1. CASE UNCHANGED <<account, journal>>
  BY <1>1 DEF KeepsMoney
<1>2. CASE (AdminNext \/ SeedNext) /\ UNCHANGED journalVars
  BY <1>2, AdminTable, SeedTable DEF LedgerInv, TableStep, journalVars
<1>3. ASSUME NEW p \in Posters, PosterStep(p) \/ \E e \in Entries : PostJournalEntry(p, e),
             ~UNCHANGED <<account, journal>>
      PROVE  Commits(p)
  <2>1. CommitEntry(p)
    BY <1>3 DEF PosterStep, PostJournalEntry, SelectAccounts, LockAccount, InsertEntry, tableVars
  <2>2. QED
    BY <1>3, <2>1 DEF CommitEntry, Commits
<1>4. QED
  BY <1>1, <1>2, <1>3 DEF Next, JournalNext, vars, tableVars, journalVars

LEMMA MoneyInvariant == IsFiniteSet(Posters) => (Spec => []MoneyInv)
<1> SUFFICES ASSUME IsFiniteSet(Posters) PROVE Spec => []MoneyInv
  OBVIOUS
<1>1. ASSUME Init PROVE MoneyInv
  <2>1. account = InitAccounts /\ \A a : AccountEntries(a) = {}
    BY <1>1 DEF Init, TableInit, JournalInit, AccountEntries
  <2>2. \A a \in DOMAIN account : account[a].balance \in Column /\ account[a].balance \in Int
    BY <2>1, TableAssumption DEF Account, Column
  <2>3. \A a \in DOMAIN account :
          Replay(a, AccountEntries(a)) = account[a].balance + 0 /\ Slack(a, AccountEntries(a)) = 0
    BY <2>1, <2>2, SumEmpty DEF Replay, Slack
  <2>4. BalanceIsReplay
    BY <2>2, <2>3 DEF BalanceIsReplay, Within
  <2>5. QED
    BY <2>1, <2>2, <2>4 DEF MoneyInv, StatementNeverOverdrawn
<1>2. TypesInv /\ LedgerInv /\ JournalInv /\ JournalInv' /\ MoneyInv /\ [Next]_vars => MoneyInv'
  <2>1. SUFFICES ASSUME TypesInv, LedgerInv, JournalInv, JournalInv', MoneyInv, [Next]_vars
                 PROVE  MoneyInv'
    OBVIOUS
  <2>2. QED
    BY <2>1, MoneySteps, MoneyByOthers, MoneyCommit DEF JournalInv
<1>3. QED
  BY <1>1, <1>2, TypesInvariant, LedgerInvariant, JournalInvariant, PTL DEF Spec

\* The balance of every account is what its journal lines add up to, but for what the
\* rounding of amounts with more digits than the columns explains, through concurrent
\* postings, failures and lost acknowledgements.
THEOREM BalancesReplay ==
  ASSUME IsFiniteSet(Posters)
  PROVE  Spec => []BalanceIsReplay
<1>1. MoneyInv => BalanceIsReplay
  BY DEF MoneyInv
<1>2. QED
  BY <1>1, MoneyInvariant, PTL

\* The entries of an account which the service stamped all by itself, read in the order
\* of their timestamps, never overdraw it by more than rounding explains: the order of
\* posted_at is the order of effect.
THEOREM StatementsNeverOverdraw ==
  ASSUME IsFiniteSet(Posters)
  PROVE  Spec => []StatementNeverOverdrawn
<1>1. MoneyInv => StatementNeverOverdrawn
  BY DEF MoneyInv
<1>2. QED
  BY <1>1, MoneyInvariant, PTL

-----------------------------------------------------------------------------
(***************************************************************************)
(* The trial balance: a table of accounts and entries, whose columns each  *)
(* add up to an entry's debits less its credits as they are stored. No     *)
(* invariant of the balances is needed, but that every entry of the        *)
(* journal was admitted, hence balanced before it was rounded.             *)
(***************************************************************************)
LEMMA AccountsFinite ==
  ASSUME NEW e, e.lines \in Seq(Line)
  PROVE  IsFiniteSet(AccountsOf(e))
<1> DEFINE f == [i \in DOMAIN e.lines |-> e.lines[i].account]
<1>1. IsFiniteSet(DOMAIN e.lines)
  BY LineFacts
<1>2. f \in Surjection(DOMAIN e.lines, AccountsOf(e))
  BY DEF Surjection, AccountsOf
<1>3. QED
  BY <1>1, <1>2, FS_Surjection

\* The lines of one type, picked out of all lines by their types.
LEMMA TotalOverAll ==
  ASSUME NEW lines \in Seq(Line), NEW type
  PROVE  LET f == [i \in DOMAIN lines |-> IF lines[i].type = type THEN lines[i].amount ELSE 0]
         IN  /\ SumFunctionOnSet(f, DOMAIN lines) = Total(lines, type)
             /\ Total(lines, type) \in Int
<1> DEFINE f == [i \in DOMAIN lines |-> IF lines[i].type = type THEN lines[i].amount ELSE 0]
           amount == [i \in DOMAIN lines |-> lines[i].amount]
           P == {i \in DOMAIN lines : lines[i].type = type}
<1>1. /\ IsFiniteSet(DOMAIN lines) /\ P \in SUBSET DOMAIN lines
      /\ \A i \in DOMAIN lines : f[i] \in Int /\ amount[i] \in Int
  BY LineFacts
<1>2. /\ \A i \in P : f[i] = amount[i]
      /\ \A i \in DOMAIN lines \ P : f[i] = 0
  OBVIOUS
<1>3. Total(lines, type) = SumFunctionOnSet(amount, P)
  BY DEF Total
<1> HIDE DEF f, amount, P
<1>4. IsFiniteSet(P) /\ IsFiniteSet(DOMAIN lines \ P)
  BY <1>1, FS_Subset
<1>5. SumFunctionOnSet(f, P) = SumFunctionOnSet(amount, P)
  BY <1>2, <1>4, SumSame
<1>6. SumFunctionOnSet(f, DOMAIN lines \ P) = 0
  BY <1>2, <1>4, SumOfZeros
<1>7. SumFunctionOnSet(f, DOMAIN lines)
        = SumFunctionOnSet(f, P) + SumFunctionOnSet(f, DOMAIN lines \ P)
  BY <1>1, SumSplit
<1>8. SumFunctionOnSet(amount, P) \in Int
  BY <1>1, <1>4, SumType
<1>9. SumFunctionOnSet(f, DOMAIN lines) = Total(lines, type) /\ Total(lines, type) \in Int
  BY <1>3, <1>5, <1>6, <1>7, <1>8
<1>10. QED
  BY <1>9 DEF f

\* Debits count as they are, credits against them.
Signed(lines) ==
  [i \in DOMAIN lines |-> IF lines[i].type = "DEBIT" THEN lines[i].amount ELSE -lines[i].amount]

\* What lines do to all of their accounts, counted as assets: debits less credits.
LEMMA LinesNet ==
  ASSUME NEW lines \in Seq(Line), \A i \in DOMAIN lines : lines[i].type \in LineTypes,
         NEW S, IsFiniteSet(S), \A i \in DOMAIN lines : lines[i].account \in S
  PROVE  SumFunctionOnSet([a \in S |-> NetChange(lines, a, "ASSET")], S)
           = SumFunctionOnSet(Signed(lines), DOMAIN lines)
<1> DEFINE I == DOMAIN lines
           row == [a \in S |-> [i \in I |-> EffectOf(lines[i], a, "ASSET")]]
           column(i) == [a \in S |-> row[a][i]]
           signed == Signed(lines)
<1>1. /\ IsFiniteSet(I)
      /\ \A i \in I : lines[i] \in Line /\ lines[i].amount \in Int
  BY LineFacts
<1>2. \A a \in S, i \in I : row[a][i] \in Int
  BY <1>1, EffectType
<1>3. [a \in S |-> NetChange(lines, a, "ASSET")] = [a \in S |-> SumFunctionOnSet(row[a], I)]
  BY DEF NetChange, SumFunction
<1>4. ASSUME NEW i \in I PROVE SumFunctionOnSet(column(i), S) = signed[i]
  <2> DEFINE c == column(i)
             b == lines[i].account
  <2>1. b \in S /\ \A a \in S : c[a] \in Int
    BY <1>2
  <2>2. c[b] = signed[i] /\ signed[i] \in Int
    BY <1>1, <2>1 DEF EffectOf, DebitDelta, CreditDelta, LineTypes, DebitNormal, CreditNormal,
                      Signed
  <2>3. \A a \in S \ {b} : c[a] = 0
    BY DEF EffectOf
  <2> HIDE DEF c, b, signed
  <2>4. SumFunctionOnSet(c, S) = c[b] + SumFunctionOnSet(c, S \ {b})
    BY <2>1, SumRemove
  <2>5. SumFunctionOnSet(c, S \ {b}) = 0
    BY <2>3, SumOfZeros, FS_Subset
  <2>6. SumFunctionOnSet(c, S) = signed[i]
    BY <2>2, <2>4, <2>5
  <2>7. QED
    BY <2>6 DEF c
<1>5. SumFunctionOnSet([a \in S |-> SumFunctionOnSet(row[a], I)], S)
        = SumFunctionOnSet([i \in I |-> SumFunctionOnSet(column(i), S)], I)
  <2> HIDE DEF row, I
  <2>1. QED
    BY <1>1, <1>2, SumSwap
<1>6. [i \in I |-> SumFunctionOnSet(column(i), S)] = signed
  <2>1. [i \in I |-> SumFunctionOnSet(column(i), S)] = [i \in I |-> signed[i]]
    BY <1>4
  <2>2. [i \in I |-> signed[i]] = signed
    BY DEF Signed
  <2>3. QED
    BY <2>1, <2>2
<1>7. QED
  BY <1>3, <1>5, <1>6, ZenonT(60)

\* The debits and credits of an entry that was admitted are equal.
LEMMA SignedIsZero ==
  ASSUME NEW lines \in Seq(Line), \A i \in DOMAIN lines : lines[i].type \in LineTypes,
         Total(lines, "DEBIT") = Total(lines, "CREDIT")
  PROVE  SumFunctionOnSet(Signed(lines), DOMAIN lines) = 0
<1> DEFINE I == DOMAIN lines
           signed == Signed(lines)
           debit == [i \in I |-> IF lines[i].type = "DEBIT" THEN lines[i].amount ELSE 0]
           credit == [i \in I |-> IF lines[i].type = "CREDIT" THEN lines[i].amount ELSE 0]
<1>1. IsFiniteSet(I) /\ \A i \in I : lines[i].amount \in Int
  BY LineFacts
<1>2. \A i \in I : /\ signed[i] \in Int /\ credit[i] \in Int
                   /\ debit[i] = signed[i] + credit[i]
  BY <1>1 DEF LineTypes, Signed
<1>3. /\ SumFunctionOnSet(debit, I) = Total(lines, "DEBIT")
      /\ SumFunctionOnSet(credit, I) = Total(lines, "CREDIT")
      /\ Total(lines, "DEBIT") \in Int /\ Total(lines, "CREDIT") \in Int
  BY TotalOverAll
<1> HIDE DEF signed, debit, credit, I
<1>4. SumFunctionOnSet(debit, I) = SumFunctionOnSet(signed, I) + SumFunctionOnSet(credit, I)
  BY <1>1, <1>2, SumPointwise
<1>5. SumFunctionOnSet(signed, I) \in Int
  BY <1>1, <1>2, SumType
<1>6. SumFunctionOnSet(signed, I) = 0
  BY <1>3, <1>4, <1>5
<1>7. QED
  BY <1>6 DEF signed, I

\* What the stored lines of an entry do to all of its accounts, counted as assets, adds up
\* to nothing but what was rounded.
LEMMA EntryNets ==
  ASSUME NEW e, e.lines \in Seq(Line), Admitted(e),
         NEW S, IsFiniteSet(S), AccountsOf(e) \subseteq S
  PROVE  /\ EntrySlack(e) \in Int
         /\ Within(SumFunctionOnSet([a \in S |-> NetChange(StoredLines(e), a, "ASSET")], S),
                   EntrySlack(e))
<1>1. PICK lines \in Seq(Line) : lines = e.lines
  OBVIOUS
<1>2. PICK kept : kept = StoredLines(e)
  OBVIOUS
<1> DEFINE I == DOMAIN lines
           f == Signed(lines)
           g == Signed(kept)
           slack == [i \in I |-> LineSlack(lines[i])]
<1>3. IsFiniteSet(I) /\ \A i \in I : /\ lines[i] \in Line /\ lines[i].type \in LineTypes
                                       /\ lines[i].account \in S
  BY <1>1, LineFacts DEF Admitted, AccountsOf
<1>4. /\ DOMAIN kept = I
      /\ \A i \in I : kept[i] = [lines[i] EXCEPT !.amount = Stored(@)]
  BY <1>1, <1>2 DEF StoredLines
<1>5. ASSUME NEW i \in I
      PROVE  /\ kept[i] \in Line /\ kept[i].account = lines[i].account
             /\ kept[i].type = lines[i].type
             /\ f[i] \in Int /\ g[i] \in Int /\ slack[i] \in Nat
             /\ Within(g[i] - f[i], slack[i])
  <2>1. PICK line \in Line, b \in S : /\ line = lines[i] /\ line.type \in LineTypes
                                      /\ b = line.account
    BY <1>3
  <2>2. PICK x : x = [line EXCEPT !.amount = Stored(@)] /\ x = kept[i]
    BY <1>4, <2>1
  <2>3. /\ x \in Line /\ x.account = line.account /\ x.type = line.type
        /\ EffectOf(line, b, "ASSET") \in Int /\ EffectOf(x, b, "ASSET") \in Int
        /\ LineSlack(line) \in Nat
        /\ Within(EffectOf(x, b, "ASSET") - EffectOf(line, b, "ASSET"), LineSlack(line))
    BY <2>2, LineStored
  <2>4. f[i] = EffectOf(line, b, "ASSET") /\ g[i] = EffectOf(x, b, "ASSET")
    BY <1>4, <2>1, <2>2, <2>3
       DEF Signed, EffectOf, DebitDelta, CreditDelta, LineTypes, DebitNormal, CreditNormal
  <2>5. slack[i] = LineSlack(line)
    BY <2>1
  <2> HIDE DEF f, g, slack
  <2>6. QED
    BY <2>1, <2>2, <2>3, <2>4, <2>5
<1>6. kept \in Seq(Line)
  <2>1. PICK n \in Nat : I = 1..n
    <3>1. I = 1..Len(lines) /\ Len(lines) \in Nat
      OBVIOUS
    <3>2. QED
      BY <3>1
  <2>2. kept = [i \in 1..n |-> kept[i]]
    BY <1>1, <1>2, <2>1 DEF StoredLines
  <2>3. kept \in [1..n -> Line]
    <3>1. \A i \in 1..n : kept[i] \in Line
      BY <1>5, <2>1
    <3>2. QED
      BY <2>2, <3>1
  <2>4. QED
    BY <2>3
<1>7. SumFunctionOnSet([a \in S |-> NetChange(kept, a, "ASSET")], S) = SumFunctionOnSet(g, I)
  <2>1. /\ \A i \in DOMAIN kept : kept[i].type \in LineTypes
        /\ \A i \in DOMAIN kept : kept[i].account \in S
    BY <1>3, <1>4, <1>5
  <2>2. SumFunctionOnSet([a \in S |-> NetChange(kept, a, "ASSET")], S)
          = SumFunctionOnSet(Signed(kept), DOMAIN kept)
    BY <1>6, <2>1, LinesNet
  <2>3. QED
    BY <1>4, <2>2
<1>8. SumFunctionOnSet(f, I) = 0
  BY <1>1, <1>3, SignedIsZero DEF Admitted, Balanced
<1>9. EntrySlack(e) = SumFunctionOnSet(slack, I)
  BY <1>1 DEF EntrySlack, SumFunction
<1> HIDE DEF f, g, slack, I
<1>10. /\ SumFunctionOnSet(g, I) \in Int /\ SumFunctionOnSet(slack, I) \in Int
       /\ Within(SumFunctionOnSet(g, I) - SumFunctionOnSet(f, I), SumFunctionOnSet(slack, I))
  <2>1. \A i \in I : /\ f[i] \in Int /\ g[i] \in Int /\ slack[i] \in Int
                     /\ Within(g[i] - f[i], slack[i])
    BY <1>5
  <2>2. QED
    BY <1>3, <2>1, SumWithin
<1>11. SumFunctionOnSet(g, I) - SumFunctionOnSet(f, I) = SumFunctionOnSet(g, I)
  BY <1>8, <1>10
<1>12. QED
  BY <1>2, <1>7, <1>9, <1>10, <1>11

LEMMA JournalNets ==
  ASSUME TypesInv, EntryInv, NEW c
  PROVE  Within(NetTotal(c), SumFunctionOnSet([i \in DOMAIN journal |->
                                                 EntrySlack(journal[i].entry)],
                                              CountedEntries(c)))
<1> DEFINE A == TrialBalanceAccounts(c)
           I == CountedEntries(c)
           J == DOMAIN journal
           row == [a \in A |-> [i \in J |-> Moved(i, a, "ASSET")]]
           column(i) == [a \in A |-> row[a][i]]
           slack == [i \in J |-> EntrySlack(journal[i].entry)]
<1>1. IsFiniteSet(J) /\ I \subseteq J /\ IsFiniteSet(I)
  <2>1. J = 1..Len(journal) /\ Len(journal) \in Nat
    BY DEF TypesInv, TypeOK, JournalTypes
  <2>2. IsFiniteSet(J)
    BY <2>1, FS_Interval
  <2>3. I \subseteq J
    BY DEF CountedEntries
  <2>4. QED
    BY <2>2, <2>3, FS_Subset
<1>2. ASSUME NEW i \in J
      PROVE  /\ journal[i].entry \in Entries /\ Admitted(journal[i].entry)
             /\ journal[i].entry.lines \in Seq(Line)
             /\ \A a : Moved(i, a, "ASSET") \in Int
  <2>1. PICK e \in Entries : e = journal[i].entry /\ e.lines \in Seq(Line) /\ Admitted(e)
    BY EntriesAssumption, EntryTyped DEF EntryInv
  <2>2. 0 \in Column
    BY ColumnClosed
  <2>3. \A a : NetChange(StoredLines(e), a, "ASSET") \in Int
    BY <2>1, <2>2, EntryStored
  <2>4. QED
    BY <2>1, <2>3 DEF Moved
<1>3. IsFiniteSet(A)
  <2> DEFINE accounts == [i \in I |-> AccountsOf(journal[i].entry)]
             T == {AccountsOf(journal[i].entry) : i \in I}
  <2>1. accounts \in Surjection(I, T)
    BY DEF Surjection
  <2>2. IsFiniteSet(T)
    <3> HIDE DEF accounts, T, I
    <3>1. QED
      BY <1>1, <2>1, FS_Surjection
  <2>3. \A x \in T : IsFiniteSet(x)
    BY <1>1, <1>2, AccountsFinite
  <2>4. A = UNION T
    BY DEF TrialBalanceAccounts
  <2> HIDE DEF T, A
  <2>5. QED
    BY <2>2, <2>3, <2>4, FS_UNION
<1>4. \A a \in A, i \in I : row[a][i] \in Int
  BY <1>1, <1>2
<1>5. ASSUME NEW i \in I
      PROVE  /\ SumFunctionOnSet(column(i), A) \in Int /\ slack[i] \in Int
             /\ Within(SumFunctionOnSet(column(i), A), slack[i])
  <2>1. PICK e : e = journal[i].entry /\ e.lines \in Seq(Line) /\ Admitted(e)
    BY <1>1, <1>2
  <2>2. AccountsOf(e) \subseteq A
    BY <2>1 DEF TrialBalanceAccounts
  <2>3. column(i) = [a \in A |-> NetChange(StoredLines(e), a, "ASSET")] /\ slack[i] = EntrySlack(e)
    BY <1>1, <1>2, <2>1 DEF Moved
  <2>4. \A a \in A : column(i)[a] \in Int
    BY <1>4
  <2> DEFINE col == column(i)
  <2> HIDE DEF A, col, slack
  <2>5. SumFunctionOnSet(col, A) \in Int
    <3>1. \A a \in A : col[a] \in Int
      BY <2>4 DEF col
    <3>2. QED
      BY <1>3, <3>1, SumType
  <2>6. col = [a \in A |-> NetChange(StoredLines(e), a, "ASSET")]
    BY <2>3 DEF col
  <2>7. /\ EntrySlack(e) \in Int
        /\ Within(SumFunctionOnSet([a \in A |-> NetChange(StoredLines(e), a, "ASSET")], A),
                  EntrySlack(e))
    BY <1>3, <2>1, <2>2, EntryNets
  <2>8. /\ SumFunctionOnSet(col, A) \in Int /\ slack[i] \in Int
        /\ Within(SumFunctionOnSet(col, A), slack[i])
    BY <2>3, <2>5, <2>6, <2>7
  <2>9. QED
    BY <2>8 DEF col
<1>6. NetTotal(c) = SumFunctionOnSet([a \in A |-> SumFunctionOnSet(row[a], I)], A)
  <2>1. [a \in A |-> NetOf(c, a)] = [a \in A |-> SumFunctionOnSet(row[a], I)]
    BY DEF NetOf
  <2>2. NetTotal(c) = SumFunctionOnSet([a \in A |-> NetOf(c, a)], A)
    BY DEF NetTotal, SumFunction
  <2>3. QED
    BY <2>1, <2>2
<1>7. SumFunctionOnSet([a \in A |-> SumFunctionOnSet(row[a], I)], A)
        = SumFunctionOnSet([i \in I |-> SumFunctionOnSet(column(i), A)], I)
  <2> HIDE DEF row, A, I
  <2>1. QED
    BY <1>1, <1>3, <1>4, SumSwap
<1>8. Within(SumFunctionOnSet([i \in I |-> SumFunctionOnSet(column(i), A)], I),
             SumFunctionOnSet(slack, I))
  <2> DEFINE g == [i \in I |-> SumFunctionOnSet(column(i), A)]
             zero == [i \in I |-> 0]
  <2>1. \A i \in I : /\ zero[i] \in Int /\ g[i] \in Int /\ slack[i] \in Int
                     /\ Within(g[i] - zero[i], slack[i])
    <3>1. ASSUME NEW i \in I
          PROVE  /\ zero[i] \in Int /\ g[i] \in Int /\ slack[i] \in Int
                 /\ Within(g[i] - zero[i], slack[i])
      <4>1. PICK x \in Int : x = SumFunctionOnSet(column(i), A) /\ Within(x, slack[i])
                            /\ slack[i] \in Int
        BY <1>5
      <4>2. g[i] = x /\ zero[i] = 0 /\ x - 0 = x
        BY <4>1
      <4> HIDE DEF g, zero, slack
      <4>3. QED
        BY <4>1, <4>2
    <3>2. QED
      BY <3>1
  <2>2. \A i \in I : zero[i] = 0
    OBVIOUS
  <2> HIDE DEF g, zero, slack, I
  <2>3. SumFunctionOnSet(zero, I) = 0
    BY <1>1, <2>2, SumOfZeros
  <2>4. /\ SumFunctionOnSet(g, I) \in Int
        /\ Within(SumFunctionOnSet(g, I) - SumFunctionOnSet(zero, I), SumFunctionOnSet(slack, I))
    BY <1>1, <2>1, SumWithin
  <2>5. SumFunctionOnSet(g, I) - SumFunctionOnSet(zero, I) = SumFunctionOnSet(g, I)
    BY <2>3, <2>4
  <2>6. Within(SumFunctionOnSet(g, I), SumFunctionOnSet(slack, I))
    BY <2>4, <2>5
  <2>7. QED
    BY <2>6 DEF g
<1>9. QED
  <2> HIDE DEF row, A, slack
  <2>1. Within(NetTotal(c), SumFunctionOnSet(slack, I))
    BY <1>6, <1>7, <1>8
  <2>2. QED
    BY <2>1 DEF slack

\* However amounts are rounded and whatever fails, the debits and credits of a currency
\* differ over all of its accounts by no more than the rounding of its lines: by nothing
\* when these are multiples of 0.0001.
THEOREM TrialBalances ==
  ASSUME IsFiniteSet(Posters)
  PROVE  Spec => []TrialBalanceIsClose
<1>1. TypesInv /\ JournalInv => TrialBalanceIsClose
  BY JournalNets DEF TrialBalanceIsClose, JournalInv
<1>2. QED
  BY <1>1, TypesInvariant, JournalInvariant, PTL

-----------------------------------------------------------------------------
(***************************************************************************)
(* The chart of accounts. What a run of the seed program is done with, it  *)
(* can see: it found the row, or has it in its transaction. So when it     *)
(* commits, what the others have committed and its own rows are the chart. *)
(***************************************************************************)
EnsuredBy(s) ==
  /\ seedPc[s] \in {"parent", "exists", "insert", "commit"} =>
       \A i \in DOMAIN Chart \ todo[s] : Chart[i].id \in DOMAIN account \cup drafted[s]
  /\ seedPc[s] = "commit" => todo[s] = {}

EnsuredInv == \A s \in Seeders : EnsuredBy(s)

ChartInv == EnsuredInv /\ ChartIsWhole

LEMMA SeededAre == SeededIds \subseteq ChartIds /\ SeededIds = {Chart[i].id : i \in DOMAIN Chart}
BY SeedRowTyped DEF SeededIds

LEMMA ChartByOthers ==
  ASSUME ChartInv, UNCHANGED seedVars, DOMAIN account \subseteq DOMAIN account',
         SeededIds \cap DOMAIN account' \subseteq DOMAIN account
  PROVE  ChartInv'
<1>1. EnsuredInv'
  BY DEF ChartInv, EnsuredInv, EnsuredBy, seedVars
<1>2. ChartIsWhole'
  BY SeededAre DEF ChartInv, ChartIsWhole
<1>3. QED
  BY <1>1, <1>2 DEF ChartInv

\* A run that goes on to the accounts of rest has ensured the others.
LEMMA ChartGoesOn ==
  ASSUME TypesInv, NEW s \in Seeders, NEW rest \in SUBSET DOMAIN Chart, GoOn(s, rest),
         \A i \in DOMAIN Chart \ rest : Chart[i].id \in DOMAIN account' \cup drafted'[s]
  PROVE  EnsuredBy(s)'
BY DEF TypesInv, TypeOK, SeedTypes, GoOn, SeedGoto, EnsuredBy

LEMMA ChartBySeed ==
  ASSUME TypesInv, ChartInv, SeedNext
  PROVE  ChartInv'
<1> USE DEF TypesInv, TypeOK, SeedTypes
<1>1. PICK s \in Seeders : BeginSeed(s) \/ SeedStep(s)
  BY DEF SeedNext
<1>2. /\ DOMAIN account \subseteq DOMAIN account'
      /\ \A q \in Seeders \ {s} : /\ seedPc'[q] = seedPc[q] /\ todo'[q] = todo[q]
                                 /\ drafted'[q] = drafted[q]
  <2>1. DOMAIN account \subseteq DOMAIN account'
    BY <1>1 DEF SeedStep, BeginSeed, LoadParent, CheckExists, InsertChartAccount, CommitSeed,
                UniqueViolation, Fatal, tableVars, WithRows, Exists
  <2>2. CASE BeginSeed(s) \/ CommitSeed(s)
    BY <2>1, <2>2 DEF BeginSeed, CommitSeed, Fatal, GoOn, SeedGoto
  <2>3. ASSUME NEW i \in DOMAIN Chart,
               LoadParent(s, i) \/ CheckExists(s, i) \/ InsertChartAccount(s, i)
        PROVE  \A q \in Seeders \ {s} : /\ seedPc'[q] = seedPc[q] /\ todo'[q] = todo[q]
                                       /\ drafted'[q] = drafted[q]
    BY <2>3 DEF LoadParent, CheckExists, InsertChartAccount, UniqueViolation, Fatal, GoOn, SeedGoto
  <2>4. QED
    BY <1>1, <2>1, <2>2, <2>3 DEF SeedStep
<1>3. SUFFICES ASSUME TRUE PROVE EnsuredBy(s)' /\ ChartIsWhole'
  BY <1>2 DEF ChartInv, EnsuredInv, EnsuredBy
<1>4. CASE Fatal(s)
  BY <1>4 DEF Fatal, SeedGoto, EnsuredBy, ChartInv, ChartIsWhole
<1>5. CASE BeginSeed(s)
  BY <1>5, ChartGoesOn DEF BeginSeed, tableVars, ChartInv, ChartIsWhole
<1>6. ASSUME NEW i \in DOMAIN Chart, LoadParent(s, i), ~Fatal(s)
      PROVE  EnsuredBy(s)' /\ ChartIsWhole'
  BY <1>6 DEF LoadParent, SeedGoto, ChartInv, EnsuredInv, EnsuredBy, ChartIsWhole
<1>7. ASSUME NEW i \in DOMAIN Chart, CheckExists(s, i), ~Fatal(s)
      PROVE  EnsuredBy(s)' /\ ChartIsWhole'
  <2>1. UNCHANGED <<account, drafted>> /\ seedPc[s] = "exists"
    BY <1>7 DEF CheckExists
  <2>2. ChartIsWhole'
    BY <2>1 DEF ChartInv, ChartIsWhole
  <2>3. CASE SeedGoto(s, "insert") /\ UNCHANGED todo
    BY <2>1, <2>2, <2>3 DEF SeedGoto, ChartInv, EnsuredInv, EnsuredBy
  <2>4. CASE GoOn(s, todo[s] \ {i}) /\ Visible(s, Chart[i].id)
    <3>1. PICK rest \in SUBSET DOMAIN Chart : rest = todo[s] \ {i}
      OBVIOUS
    <3>2. \A j \in DOMAIN Chart \ rest : Chart[j].id \in DOMAIN account' \cup drafted'[s]
      BY <2>1, <2>4, <3>1 DEF ChartInv, EnsuredInv, EnsuredBy, Visible, Exists
    <3>3. QED
      BY <2>2, <2>4, <3>1, <3>2, ChartGoesOn
  <2>5. QED
    BY <1>7, <2>3, <2>4 DEF CheckExists
<1>8. ASSUME NEW i \in DOMAIN Chart, InsertChartAccount(s, i), ~Fatal(s)
      PROVE  EnsuredBy(s)' /\ ChartIsWhole'
  <2>1. /\ UNCHANGED account /\ seedPc[s] = "insert" /\ GoOn(s, todo[s] \ {i})
        /\ drafted'[s] = drafted[s] \cup {Chart[i].id}
    BY <1>8 DEF InsertChartAccount, UniqueViolation
  <2>2. PICK rest \in SUBSET DOMAIN Chart : rest = todo[s] \ {i}
    OBVIOUS
  <2>3. \A j \in DOMAIN Chart \ rest : Chart[j].id \in DOMAIN account' \cup drafted'[s]
    BY <2>1, <2>2 DEF ChartInv, EnsuredInv, EnsuredBy
  <2>4. QED
    BY <2>1, <2>2, <2>3, ChartGoesOn DEF ChartInv, ChartIsWhole
<1>9. ASSUME CommitSeed(s), ~Fatal(s)
      PROVE  EnsuredBy(s)' /\ ChartIsWhole'
  <2>1. /\ account' = WithRows([a \in drafted[s] |-> SeedRow(a)]) /\ seedPc[s] = "commit"
        /\ SeedGoto(s, "done") \/ SeedGoto(s, "fatal")
    BY <1>9 DEF CommitSeed
  <2>2. DOMAIN account' = DOMAIN account \cup drafted[s]
    BY <2>1 DEF WithRows
  <2>3. SeededIds \subseteq DOMAIN account'
    BY <2>1, <2>2, SeededAre DEF ChartInv, EnsuredInv, EnsuredBy
  <2>4. EnsuredBy(s)'
    BY <2>1 DEF SeedGoto, EnsuredBy
  <2>5. QED
    BY <2>3, <2>4, SeededAre DEF ChartIsWhole
<1>10. QED
  BY <1>1, <1>4, <1>5, <1>6, <1>7, <1>8, <1>9 DEF SeedStep

LEMMA ChartNext ==
  ASSUME TypesInv, LedgerInv, ChartInv, [Next]_vars
  PROVE  ChartInv'
<1>1. CASE UNCHANGED vars
  BY <1>1, ChartByOthers DEF vars, tableVars
<1>2. CASE AdminNext /\ UNCHANGED seedVars
  <2>1. DOMAIN account \subseteq DOMAIN account'
    BY <1>2, AdminTable DEF LedgerInv, TableStep
  <2>2. DOMAIN account' \cap ChartIds \subseteq DOMAIN account
    <3>1. PICK p \in Admins : AdminStep(p) \/ \E r \in AdminRequests : Submit(p, r)
      BY <1>2 DEF AdminNext
    <3>2. CASE InsertAccount(p)
      BY <3>2 DEF InsertAccount, WithRows, Exists
    <3>3. CASE WriteStatus(p)
      BY <3>3 DEF WriteStatus
    <3>4. CASE ReadStatus(p) \/ LogAudit(p) \/ \E r \in AdminRequests : Submit(p, r)
      BY <3>4 DEF ReadStatus, LogAudit, Submit, tableVars
    <3>5. QED
      BY <3>1, <3>2, <3>3, <3>4 DEF AdminStep
  <2>3. QED
    BY <1>2, <2>1, <2>2, SeededAre, ChartByOthers
<1>3. CASE SeedNext
  BY <1>3, ChartBySeed
<1>4. CASE JournalNext /\ UNCHANGED <<adminVars, seedVars>>
  <2>1. DOMAIN account' = DOMAIN account
    <3>1. PICK p \in Posters : PosterStep(p) \/ \E e \in Entries : PostJournalEntry(p, e)
      BY <1>4 DEF JournalNext
    <3>2. UNCHANGED account \/ account' = Applied(entry[p])
      BY <3>1 DEF PosterStep, PostJournalEntry, SelectAccounts, LockAccount, InsertEntry,
                  CommitEntry, tableVars
    <3>3. QED
      BY <3>2, AppliedRows DEF LedgerInv
  <2>2. QED
    BY <1>4, <2>1, ChartByOthers
<1>5. QED
  BY <1>1, <1>2, <1>3, <1>4 DEF Next

\* However many runs of the seed program there are, and wherever one fails: the chart of
\* accounts is committed as a whole, if it was there as a whole or not at all.
THEOREM ChartStaysWhole ==
  ASSUME IsFiniteSet(Posters),
         \/ SeededIds \subseteq DOMAIN InitAccounts
         \/ SeededIds \cap DOMAIN InitAccounts = {}
  PROVE  Spec => []ChartIsWhole
<1>1. Init => ChartInv
  BY SeededAre DEF Init, TableInit, SeedInit, ChartInv, EnsuredInv, EnsuredBy, ChartIsWhole
<1>2. TypesInv /\ LedgerInv /\ ChartInv /\ [Next]_vars => ChartInv'
  BY ChartNext
<1>3. ChartInv => ChartIsWhole
  BY DEF ChartInv
<1>4. QED
  BY <1>1, <1>2, <1>3, TypesInvariant, LedgerInvariant, PTL DEF Spec

-----------------------------------------------------------------------------
(***************************************************************************)
(* The events of an account, absent failures. A status update overtakes    *)
(* another between its read, its UPDATE and its event; but the status it   *)
(* has read stays one that was told, or is about to be, and every status   *)
(* an account gets is told by the event that comes with it.                *)
(***************************************************************************)
Start(a) == IF a \in DOMAIN InitAccounts THEN {InitAccounts[a].status}
            ELSE IF a \in ChartIds THEN {"ACTIVE"} ELSE {NoStatus}

Outcomes(a) == {e.to : e \in Told(a)}

Known(a) == Start(a) \cup Outcomes(a)

HistoryOf(a) ==
  /\ account[a].status \in IF Told(a) = {} THEN Start(a) ELSE Outcomes(a)
  /\ \A e \in Told(a) : e.from \in Known(a) \ {e.to}

\* What the service has read, and checked against what it is to write.
ReadInv ==
  \A p \in Admins : adminPc[p] = "write" =>
    current[p] \in Known(adminReq[p].id) \ {adminReq[p].to}

HistoryInv ==
  /\ DOMAIN InitAccounts \subseteq DOMAIN account
  /\ \A i \in DOMAIN events : events[i].id \in DOMAIN account
  /\ faults = 0 => ReadInv /\ \A a \in DOMAIN account : HistoryOf(a)

\* A failure is not forgotten.
LEMMA FaultsGrow ==
  ASSUME TypesInv, [Next]_vars
  PROVE  faults' = 0 => faults = 0
<1>1. Succeeds \/ (\E kind : Fault(kind)) => (faults' = 0 => faults = 0)
  BY DEF Succeeds, Fault, TypesInv, TypeOK, TableTypes
<1>2. CASE AdminNext
  BY <1>1, <1>2, ZenonT(40)
     DEF AdminNext, AdminStep, InsertAccount, ReadStatus, WriteStatus, LogAudit, Submit, Succeeds
<1>3. CASE SeedNext
  BY <1>1, <1>3 DEF SeedNext, SeedStep, BeginSeed, LoadParent, CheckExists, InsertChartAccount,
                    CommitSeed, Succeeds
<1>4. CASE JournalNext
  BY <1>1, <1>4 DEF JournalNext, PosterStep, PostJournalEntry, SelectAccounts, LockAccount,
                    InsertEntry, CommitEntry, Succeeds
<1>5. QED
  BY <1>2, <1>3, <1>4 DEF Next, vars

\* An event is told once it is about to be written.
IsTold(e) == (\E i \in DOMAIN events : events[i] = e) \/ (\E p \in Admins : logging[p] = e)

LEMMA NoEventIsNone == NoEvent \notin Event
<1>1. \A e \in Event : e.type \in EventTypes
  BY DEF Event
<1>2. NoEvent.type \notin EventTypes
  BY DEF NoEvent, EventTypes
<1>3. QED
  BY <1>1, <1>2

LEMMA ToldFrom ==
  ASSUME NEW evs \in Seq(Event), NEW lgs \in [Admins -> Event \cup {NoEvent}], NEW e
  PROVE  e \in Range(evs) \cup Range(lgs) /\ e # NoEvent <=>
           e \in Event /\ ((\E i \in DOMAIN evs : evs[i] = e) \/ \E p \in Admins : lgs[p] = e)
<1>1. /\ Range(evs) = {evs[i] : i \in DOMAIN evs}
      /\ Range(lgs) = {lgs[p] : p \in Admins}
  BY DEF Range
<1>2. \A i \in DOMAIN evs : evs[i] \in Event
  OBVIOUS
<1>3. QED
  BY <1>1, <1>2, NoEventIsNone

LEMMA ToldAre ==
  ASSUME AdminTypes, NEW a
  PROVE  Told(a) = {e \in Event : IsTold(e) /\ e.id = a}
<1>1. events \in Seq(Event) /\ logging \in [Admins -> Event \cup {NoEvent}]
  BY DEF AdminTypes
<1>2. QED
  BY <1>1, ToldFrom DEF Told, IsTold

LEMMA ToldWillBe ==
  ASSUME AdminTypes', NEW a
  PROVE  Told(a)' = {e \in Event : IsTold(e)' /\ e.id = a}
<1>1. events' \in Seq(Event) /\ logging' \in [Admins -> Event \cup {NoEvent}]
  BY DEF AdminTypes
<1>2. QED
  BY <1>1, ToldFrom DEF Told, IsTold

\* An event is told from when its change is made; writing it makes no difference.
LEMMA ToldOnceChanged ==
  ASSUME AdminTypes, AdminTypes', NEW p \in Admins, NEW x \in Event, UNCHANGED events,
         logging[p] = NoEvent, logging' = [logging EXCEPT ![p] = x], NEW a
  PROVE  Told(a)' = IF a = x.id THEN Told(a) \cup {x} ELSE Told(a)
<1>1. \A e \in Event : IsTold(e)' <=> IsTold(e) \/ e = x
  <2>1. /\ logging'[p] = x /\ \A q \in Admins \ {p} : logging'[q] = logging[q]
    BY DEF AdminTypes
  <2>2. QED
    BY <2>1, NoEventIsNone DEF IsTold
<1>2. QED
  BY <1>1, ToldAre, ToldWillBe

LEMMA ToldOnceWritten ==
  ASSUME AdminTypes, AdminTypes', NEW p \in Admins, NEW x \in Event, logging[p] = x,
         logging' = [logging EXCEPT ![p] = NoEvent], events' = Append(events, x), NEW a
  PROVE  Told(a)' = Told(a)
<1>1. \A e \in Event : IsTold(e)' <=> IsTold(e)
  <2>1. /\ logging'[p] = NoEvent /\ \A q \in Admins \ {p} : logging'[q] = logging[q]
    BY DEF AdminTypes
  <2>2. events \in Seq(Event)
    BY DEF AdminTypes
  <2>3. \A e : (\E i \in DOMAIN events' : events'[i] = e)
                 <=> (\E i \in DOMAIN events : events[i] = e) \/ e = x
    <3>1. /\ DOMAIN events' = DOMAIN events \cup {Len(events) + 1}
          /\ events'[Len(events) + 1] = x
          /\ \A i \in DOMAIN events : events'[i] = events[i]
      BY <2>2
    <3>2. QED
      BY <3>1
  <2>4. QED
    BY <2>1, <2>3, NoEventIsNone DEF IsTold
<1>2. QED
  BY <1>1, ToldAre, ToldWillBe

\* Only accounts there are are told of.
LEMMA ToldExist ==
  ASSUME TypesInv, HistoryInv, NEW a, a \notin DOMAIN account
  PROVE  Told(a) = {}
<1>1. ASSUME NEW e \in Event, IsTold(e) PROVE e.id \in DOMAIN account
  <2>1. CASE \E i \in DOMAIN events : events[i] = e
    BY <2>1 DEF HistoryInv
  <2>2. CASE \E p \in Admins : logging[p] = e
    <3>1. PICK p \in Admins : logging[p] = e /\ logging[p] # NoEvent
      BY <2>2, NoEventIsNone
    <3>2. QED
      BY <3>1 DEF TypesInv, AdminStage
  <2>3. QED
    BY <1>1, <2>1, <2>2 DEF IsTold
<1>2. QED
  BY <1>1, ToldAre DEF TypesInv, TypeOK

\* Only the account service changes a status, and only the seed program adds other rows.
LEMMA StatusesKept ==
  ASSUME TypesInv, LedgerInv, SeedNext \/ JournalNext \/ UNCHANGED account
  PROVE  /\ DOMAIN account \subseteq DOMAIN account'
         /\ \A a \in DOMAIN account : account'[a].status = account[a].status
         /\ \A a \in DOMAIN account' \ DOMAIN account :
              a \in ChartIds /\ account'[a].status = "ACTIVE"
<1> USE DEF LedgerInv
<1>1. CASE UNCHANGED account
  BY <1>1
<1>2. ASSUME NEW s \in Seeders, CommitSeed(s), account' # account
      PROVE  /\ DOMAIN account \subseteq DOMAIN account'
             /\ \A a \in DOMAIN account : account'[a] = account[a]
             /\ \A a \in DOMAIN account' \ DOMAIN account :
                  a \in ChartIds /\ account'[a].status = "ACTIVE"
  <2>1. account' = WithRows([a \in drafted[s] |-> SeedRow(a)])
    BY <1>2 DEF CommitSeed, Fatal
  <2>2. \A a \in drafted[s] : a \in ChartIds /\ SeedRow(a).status = "ACTIVE"
    <3>1. \A a \in drafted[s] : a \in ChartIds
      BY DEF TypesInv, TypeOK, SeedTypes
    <3>2. \A a : SeedRow(a).status = "ACTIVE"
      BY DEF SeedRow, NewAccount
    <3>3. QED
      BY <3>1, <3>2
  <2>3. QED
    BY <2>1, <2>2 DEF WithRows, Exists
<1>3. ASSUME NEW s \in Seeders,
             BeginSeed(s) \/ \E i \in DOMAIN Chart :
               LoadParent(s, i) \/ CheckExists(s, i) \/ InsertChartAccount(s, i)
      PROVE  UNCHANGED account
  BY <1>3 DEF BeginSeed, LoadParent, CheckExists, InsertChartAccount, UniqueViolation,
              Fatal, tableVars
<1>4. ASSUME NEW p \in Posters, PosterStep(p) \/ \E e \in Entries : PostJournalEntry(p, e),
             account' # account
      PROVE  account' = Applied(entry[p])
  BY <1>4 DEF PosterStep, PostJournalEntry, SelectAccounts, InsertEntry, CommitEntry,
              LockAccount, tableVars
<1>5. CASE SeedNext
  BY <1>1, <1>2, <1>3, <1>5 DEF SeedNext, SeedStep
<1>6. CASE JournalNext
  <2>1. PICK p \in Posters : PosterStep(p) \/ \E e \in Entries : PostJournalEntry(p, e)
    BY <1>6 DEF JournalNext
  <2>2. CASE account' # account
    BY <1>4, <2>1, <2>2, AppliedRows
  <2>3. QED
    BY <1>1, <2>2
<1>7. QED
  BY <1>1, <1>5, <1>6

\* Nothing new is told and no status changes.
LEMMA HistoryKept ==
  ASSUME TypesInv, HistoryInv, faults' = 0 => faults = 0,
         \A a : Told(a)' = Told(a),
         \A i \in DOMAIN events' : events'[i].id \in DOMAIN account',
         DOMAIN account \subseteq DOMAIN account',
         \A a \in DOMAIN account : account'[a].status = account[a].status,
         \A a \in DOMAIN account' \ DOMAIN account :
           a \in ChartIds /\ account'[a].status = "ACTIVE",
         \A p \in Admins : adminPc'[p] = "write" =>
           \/ adminPc[p] = "write" /\ current'[p] = current[p] /\ adminReq'[p] = adminReq[p]
           \/ /\ adminReq'[p].id \in DOMAIN account
              /\ current'[p] = account[adminReq'[p].id].status
              /\ current'[p] # adminReq'[p].to
  PROVE  HistoryInv'
<1>1. DOMAIN InitAccounts \subseteq DOMAIN account'
  BY DEF HistoryInv
<1>2. \A a : Outcomes(a)' = Outcomes(a) /\ Known(a)' = Known(a)
  BY DEF Outcomes, Known, Start
<1>3. ASSUME faults = 0 PROVE ReadInv'
  <2>1. ASSUME NEW a \in DOMAIN account PROVE account[a].status \in Known(a)
    BY <1>3 DEF HistoryInv, HistoryOf, Known
  <2>2. ASSUME NEW p \in Admins, adminPc'[p] = "write"
        PROVE  (current[p] \in Known(adminReq[p].id) \ {adminReq[p].to})'
    <3>1. current'[p] \in Known(adminReq'[p].id) \ {adminReq'[p].to}
      <4>1. CASE adminPc[p] = "write" /\ current'[p] = current[p] /\ adminReq'[p] = adminReq[p]
        BY <1>3, <4>1 DEF HistoryInv, ReadInv
      <4>2. CASE /\ adminReq'[p].id \in DOMAIN account
                 /\ current'[p] = account[adminReq'[p].id].status
                 /\ current'[p] # adminReq'[p].to
        BY <2>1, <4>2
      <4>3. QED
        BY <2>2, <4>1, <4>2
    <3>2. PICK a : a = adminReq'[p].id
      OBVIOUS
    <3>3. current'[p] \in Known(a)' /\ current'[p] # adminReq'[p].to
      BY <1>2, <3>1, <3>2
    <3>4. QED
      BY <3>2, <3>3 DEF Known, Outcomes, Told, Start
  <2>3. QED
    BY <2>2 DEF ReadInv
<1>4. ASSUME faults = 0, NEW a \in DOMAIN account' PROVE HistoryOf(a)'
  <2>1. CASE a \in DOMAIN account
    BY <1>2, <1>4, <2>1 DEF HistoryInv, HistoryOf, Start
  <2>2. CASE a \notin DOMAIN account
    <3>1. Told(a)' = {}
      BY <2>2, ToldExist
    <3>2. account'[a].status \in Start(a)
      BY <1>4, <2>2 DEF Start, HistoryInv
    <3>3. QED
      BY <3>1, <3>2 DEF HistoryOf, Start
  <2>3. QED
    BY <2>1, <2>2
<1>5. QED
  BY <1>1, <1>3, <1>4 DEF HistoryInv

\* An account gets the status that a new event leads to.
LEMMA HistoryGrows ==
  ASSUME TypesInv, HistoryInv, faults' = 0 => faults = 0, NEW x \in Event,
         \A a : Told(a)' = IF a = x.id THEN Told(a) \cup {x} ELSE Told(a),
         UNCHANGED events, DOMAIN account' = DOMAIN account \cup {x.id},
         account'[x.id].status = x.to,
         \A a \in DOMAIN account \ {x.id} : account'[a].status = account[a].status,
         x.id \notin DOMAIN account => x.id \notin ChartIds /\ x.from = NoStatus,
         x.id \in DOMAIN account /\ faults = 0 => x.from \in Known(x.id) \ {x.to},
         \A p \in Admins : adminPc'[p] = "write" =>
           adminPc[p] = "write" /\ current'[p] = current[p] /\ adminReq'[p] = adminReq[p]
  PROVE  HistoryInv'
<1>1. DOMAIN InitAccounts \subseteq DOMAIN account'
  BY DEF HistoryInv
<1>2. \A i \in DOMAIN events' : events'[i].id \in DOMAIN account'
  BY DEF HistoryInv
<1>3. /\ \A a : Told(a) \subseteq Told(a)' /\ Outcomes(a) \subseteq Outcomes(a)'
      /\ \A a : Start(a)' = Start(a)
      /\ \A a : Known(a) \subseteq Known(a)'
      /\ \A a : a # x.id => Outcomes(a)' = Outcomes(a)
      /\ x \in Told(x.id)' /\ x.to \in Outcomes(x.id)'
  <2>1. /\ \A a : Told(a) \subseteq Told(a)'
        /\ \A a : a # x.id => Told(a)' = Told(a)
        /\ x \in Told(x.id)'
    OBVIOUS
  <2>2. \A a : Outcomes(a)' = {e.to : e \in Told(a)'}
    BY DEF Outcomes
  <2>3. \A a : Outcomes(a) \subseteq Outcomes(a)'
    BY <2>1, <2>2 DEF Outcomes
  <2>4. \A a : Start(a)' = Start(a)
    BY DEF Start
  <2>5. \A a : Known(a)' = Start(a)' \cup Outcomes(a)'
    BY DEF Known
  <2>6. QED
    BY <2>1, <2>2, <2>3, <2>4, <2>5 DEF Known, Outcomes
<1>4. ASSUME faults = 0 PROVE ReadInv'
  <2>1. ASSUME NEW p \in Admins, adminPc'[p] = "write"
        PROVE  (current[p] \in Known(adminReq[p].id) \ {adminReq[p].to})'
    <3>1. current[p] \in Known(adminReq[p].id) \ {adminReq[p].to}
      BY <1>4, <2>1 DEF HistoryInv, ReadInv
    <3>2. PICK a : a = adminReq[p].id /\ a = adminReq'[p].id
      BY <2>1
    <3>3. current'[p] \in Known(a)' /\ current'[p] # adminReq'[p].to
      BY <1>3, <2>1, <3>1, <3>2
    <3>4. QED
      BY <3>2, <3>3 DEF Known, Outcomes, Told, Start
  <2>2. QED
    BY <2>1 DEF ReadInv
<1>5. ASSUME faults = 0, NEW a \in DOMAIN account' PROVE HistoryOf(a)'
  <2>1. CASE a # x.id
    <3>1. HistoryOf(a) /\ account'[a].status = account[a].status /\ Told(a)' = Told(a)
      BY <1>5, <2>1 DEF HistoryInv
    <3>2. Known(a)' = Known(a) /\ Outcomes(a)' = Outcomes(a) /\ Start(a)' = Start(a)
      BY <1>3, <2>1 DEF Known
    <3>3. QED
      BY <3>1, <3>2 DEF HistoryOf
  <2>2. CASE a = x.id
    <3>1. account'[a].status \in Outcomes(a)' /\ Told(a)' # {}
      BY <1>3, <2>2
    <3>2. ASSUME NEW e \in Told(a)' PROVE e.from \in Known(a)' \ {e.to}
      <4>1. CASE e = x
        <5>1. CASE a \in DOMAIN account
          BY <1>3, <1>5, <2>2, <4>1, <5>1
        <5>2. CASE a \notin DOMAIN account
          <6>1. Start(a)' = {NoStatus} /\ x.from = NoStatus
            BY <1>3, <2>2, <5>2 DEF Start, HistoryInv
          <6>2. x.to # NoStatus
            BY DEF Event, AccountStatus, NoStatus
          <6>3. QED
            BY <4>1, <6>1, <6>2 DEF Known
        <5>3. QED
          BY <5>1, <5>2
      <4>2. CASE e # x
        <5>1. e \in Told(a)
          BY <2>2, <3>2, <4>2
        <5>2. a \in DOMAIN account
          BY <5>1, ToldExist
        <5>3. e.from \in Known(a) \ {e.to}
          BY <1>5, <5>1, <5>2 DEF HistoryInv, HistoryOf
        <5>4. QED
          BY <1>3, <5>3
      <4>3. QED
        BY <4>1, <4>2
    <3>3. QED
      BY <3>1, <3>2 DEF HistoryOf
  <2>3. QED
    BY <2>1, <2>2
<1>6. QED
  BY <1>1, <1>2, <1>4, <1>5 DEF HistoryInv

\* After a failure only the ids of the events are of interest.
LEMMA HistoryFails ==
  ASSUME TypesInv, HistoryInv, faults' # 0, DOMAIN account \subseteq DOMAIN account',
         \/ UNCHANGED events
         \/ \E e \in Event : e.id \in DOMAIN account /\ events' = Append(events, e)
  PROVE  HistoryInv'
<1>1. events \in Seq(Event)
  BY DEF TypesInv, TypeOK, AdminTypes
<1>2. \A i \in DOMAIN events' : events'[i].id \in DOMAIN account'
  <2>1. CASE UNCHANGED events
    BY <2>1 DEF HistoryInv
  <2>2. ASSUME NEW e \in Event, e.id \in DOMAIN account, events' = Append(events, e)
        PROVE  \A i \in DOMAIN events' : events'[i].id \in DOMAIN account'
    <3>1. /\ DOMAIN events' = DOMAIN events \cup {Len(events) + 1}
          /\ events'[Len(events) + 1] = e
          /\ \A i \in DOMAIN events : events'[i] = events[i]
      BY <1>1, <2>2
    <3>2. QED
      BY <2>2, <3>1 DEF HistoryInv
  <2>3. QED
    BY <2>1, <2>2
<1>3. QED
  BY <1>2 DEF HistoryInv

\* Neither an event nor one about to be written is new.
LEMMA SameTold ==
  ASSUME TypesInv, TypesInv', UNCHANGED <<events, logging>>
  PROVE  \A a : Told(a)' = Told(a)
BY DEF Told


\* The row of an account after a status update.
LEMMA StatusWritten ==
  ASSUME TypesInv, NEW a \in DOMAIN account, NEW to,
         account' = [account EXCEPT ![a].status = to, ![a].version = @ + 1]
  PROVE  /\ DOMAIN account' = DOMAIN account /\ account'[a].status = to
         /\ \A b \in DOMAIN account \ {a} : account'[b] = account[b]
<1>1. PICK row \in Account : row = account[a]
  BY DEF TypesInv, TypeOK, TableTypes
<1>2. account' = [account EXCEPT ![a] = [row EXCEPT !.status = to, !.version = @ + 1]]
  BY <1>1 DEF TypesInv, TypeOK, TableTypes
<1>3. [row EXCEPT !.status = to, !.version = @ + 1].status = to
  BY DEF Account
<1>4. QED
  BY <1>2, <1>3

LEMMA HistoryByAdmin ==
  ASSUME TypesInv, TypesInv', HistoryInv, AdminNext, faults' = 0 => faults = 0
  PROVE  HistoryInv'
<1>1. PICK p \in Admins : AdminStep(p) \/ \E r \in AdminRequests : Submit(p, r)
  BY DEF AdminNext
<1>2. /\ events \in Seq(Event) /\ faults \in Nat /\ AdminTypes /\ AdminTypes'
      /\ adminPc \in [Admins -> {"idle", "insert", "read", "write", "log"}]
      /\ adminReq \in [Admins -> AdminRequests \cup {NoRequest}]
      /\ current \in [Admins -> AccountStatus \cup {NoStatus}]
      /\ logging \in [Admins -> Event \cup {NoEvent}]
  BY DEF TypesInv, TypeOK, AdminTypes, TableTypes
<1>3. /\ adminPc[p] # "log" => logging[p] = NoEvent
      /\ adminPc[p] = "log" => logging[p] \in Event /\ logging[p].id \in DOMAIN account
      /\ adminPc[p] = "write" => adminReq[p].id \in DOMAIN account /\ adminReq[p].id \in Ids
                                   /\ adminReq[p].to \in AccountStatus
  BY DEF TypesInv, TypeOK, TableTypes, AdminStage
\* A step that changes neither a status nor what is told.
<1>4. ASSUME UNCHANGED account, \A a : Told(a)' = Told(a),
             \A i \in DOMAIN events' : events'[i].id \in DOMAIN account,
             \A q \in Admins \ {p} : /\ adminPc'[q] = adminPc[q] /\ current'[q] = current[q]
                                     /\ adminReq'[q] = adminReq[q],
             adminPc'[p] = "write" => /\ adminReq'[p].id \in DOMAIN account
                                      /\ current'[p] = account[adminReq'[p].id].status
                                      /\ current'[p] # adminReq'[p].to
      PROVE  HistoryInv'
  BY <1>4, HistoryKept
<1>5. ASSUME UNCHANGED <<account, events, logging>>,
             \A q \in Admins \ {p} : /\ adminPc'[q] = adminPc[q] /\ current'[q] = current[q]
                                     /\ adminReq'[q] = adminReq[q],
             adminPc'[p] = "write" => /\ adminReq'[p].id \in DOMAIN account
                                      /\ current'[p] = account[adminReq'[p].id].status
                                      /\ current'[p] # adminReq'[p].to
      PROVE  HistoryInv'
  <2>1. (\A a : Told(a)' = Told(a)) /\ \A i \in DOMAIN events' : events'[i].id \in DOMAIN account
    BY <1>5, SameTold DEF HistoryInv
  <2>2. QED
    BY <1>4, <1>5, <2>1
<1>6. ASSUME NEW code, Answer(p, code), UNCHANGED <<account, events>>, adminPc[p] # "log"
      PROVE  HistoryInv'
  <2>1. UNCHANGED logging /\ adminPc'[p] = "idle"
    BY <1>2, <1>3, <1>6 DEF Answer, AdminGoto
  <2>2. \A q \in Admins \ {p} : /\ adminPc'[q] = adminPc[q] /\ current'[q] = current[q]
                                 /\ adminReq'[q] = adminReq[q]
    BY <1>2, <1>6 DEF Answer, AdminGoto
  <2>3. QED
    BY <1>5, <1>6, <2>1, <2>2
\* A change with its event.
<1>7. ASSUME NEW x \in Event, GoOnToLog(p, x), UNCHANGED events, adminPc[p] # "log",
             DOMAIN account' = DOMAIN account \cup {x.id}, account'[x.id].status = x.to,
             \A a \in DOMAIN account \ {x.id} : account'[a].status = account[a].status,
             x.id \notin DOMAIN account => x.id \notin ChartIds /\ x.from = NoStatus,
             x.id \in DOMAIN account /\ faults = 0 => x.from \in Known(x.id) \ {x.to}
      PROVE  HistoryInv'
  <2>1. \A a : Told(a)' = IF a = x.id THEN Told(a) \cup {x} ELSE Told(a)
    BY <1>2, <1>3, <1>7, ToldOnceChanged DEF GoOnToLog
  <2>2. \A q \in Admins : adminPc'[q] = "write" =>
          adminPc[q] = "write" /\ current'[q] = current[q] /\ adminReq'[q] = adminReq[q]
    BY <1>2, <1>7 DEF GoOnToLog, AdminGoto
  <2>3. QED
    BY <1>7, <2>1, <2>2, HistoryGrows
<1>8. ASSUME NEW kind, Fault(kind) PROVE faults' # 0
  BY <1>2, <1>8 DEF Fault
<1>9. ASSUME NEW r \in AdminRequests, Submit(p, r) PROVE HistoryInv'
  <2>1. adminPc[p] = "idle" /\ UNCHANGED <<account, events>>
    BY <1>9 DEF Submit, tableVars
  <2>2. CASE Answer(p, 400)
    BY <1>6, <2>1, <2>2
  <2>3. CASE /\ adminReq' = [adminReq EXCEPT ![p] = r]
             /\ AdminGoto(p, IF r.op = "create" THEN "insert" ELSE "read")
             /\ UNCHANGED <<current, logging>>
    <3>1. adminPc'[p] # "write"
      BY <1>2, <2>3 DEF AdminGoto
    <3>2. \A q \in Admins \ {p} : /\ adminPc'[q] = adminPc[q] /\ current'[q] = current[q]
                                   /\ adminReq'[q] = adminReq[q]
      BY <1>2, <2>3 DEF AdminGoto
    <3>3. QED
      BY <1>5, <2>1, <2>3, <3>1, <3>2
  <2>4. QED
    BY <1>9, <2>2, <2>3 DEF Submit
<1>10. CASE ReadStatus(p)
  <2>1. adminPc[p] = "read" /\ UNCHANGED <<account, events>>
    BY <1>10 DEF ReadStatus, tableVars
  <2>2. CASE \E code : Answer(p, code)
    BY <1>6, <2>1, <2>2
  <2>3. CASE /\ Exists(adminReq[p].id)
             /\ ~RefusesTransition(account[adminReq[p].id].status, adminReq[p].to)
             /\ current' = [current EXCEPT ![p] = account[adminReq[p].id].status]
             /\ AdminGoto(p, "write") /\ UNCHANGED <<answer, adminReq, logging>>
    <3>1. /\ adminReq'[p].id \in DOMAIN account /\ adminReq' = adminReq
          /\ current'[p] = account[adminReq'[p].id].status
          /\ current'[p] # adminReq'[p].to
      BY <1>2, <2>3 DEF Exists, RefusesTransition
    <3>2. \A q \in Admins \ {p} : adminPc'[q] = adminPc[q] /\ current'[q] = current[q]
      BY <1>2, <2>3 DEF AdminGoto
    <3>3. QED
      BY <1>5, <2>1, <2>3, <3>1, <3>2
  <2>4. QED
    BY <1>10, <2>2, <2>3 DEF ReadStatus
<1>11. CASE InsertAccount(p)
  <2>1. adminPc[p] = "insert" /\ UNCHANGED events
    BY <1>11 DEF InsertAccount
  <2>2. CASE Answer(p, 400) /\ UNCHANGED account
    BY <1>6, <2>1, <2>2
  <2>3. ASSUME NEW a \in Ids \ (DOMAIN account \cup ChartIds),
               account' = WithRows([b \in {a} |->
                            NewAccount(adminReq[p].type, adminReq[p].currency)]),
               GoOnToLog(p, CreatedEvent(a)) \/ Fault("lostAck")
        PROVE  HistoryInv'
    <3>1. /\ DOMAIN account' = DOMAIN account \cup {a} /\ account'[a].status = "ACTIVE"
          /\ \A b \in DOMAIN account : account'[b] = account[b]
      BY <2>3 DEF WithRows, Exists, NewAccount
    <3>2. CASE Fault("lostAck")
      BY <1>8, <2>1, <3>1, <3>2, HistoryFails
    <3>3. CASE GoOnToLog(p, CreatedEvent(a))
      <4>1. PICK x \in Event : /\ x = CreatedEvent(a) /\ x.id = a
                               /\ x.from = NoStatus /\ x.to = "ACTIVE"
        BY <2>3 DEF CreatedEvent, Event, EventTypes, AccountStatus
      <4>2. GoOnToLog(p, x)
        BY <3>3, <4>1
      <4>3. QED
        BY <1>7, <2>1, <2>3, <3>1, <4>1, <4>2
    <3>4. QED
      BY <2>3, <3>2, <3>3
  <2>4. QED
    BY <1>11, <2>2, <2>3 DEF InsertAccount
<1>12. CASE WriteStatus(p)
  <2>1. adminPc[p] = "write" /\ UNCHANGED events
    BY <1>12 DEF WriteStatus
  <2>2. CASE Answer(p, 500) /\ UNCHANGED account
    BY <1>6, <2>1, <2>2
  <2>3. ASSUME account' = [account EXCEPT ![adminReq[p].id].status = adminReq[p].to,
                                          ![adminReq[p].id].version = @ + 1],
               GoOnToLog(p, StatusEvent(p)) \/ Fault("lostAck")
        PROVE  HistoryInv'
    <3>1. PICK a \in DOMAIN account : a = adminReq[p].id
      BY <1>3, <2>1
    <3>2. PICK to \in AccountStatus : to = adminReq[p].to
      BY <1>3, <2>1
    <3>3. /\ DOMAIN account' = DOMAIN account /\ account'[a].status = to
          /\ \A b \in DOMAIN account \ {a} : account'[b] = account[b]
      BY <2>3, <3>1, <3>2, StatusWritten
    <3>4. CASE Fault("lostAck")
      BY <1>8, <2>1, <3>3, <3>4, HistoryFails
    <3>5. CASE GoOnToLog(p, StatusEvent(p))
      <4>1. EventType(to) \in EventTypes
        BY DEF EventType, EventTypes
      <4>2. PICK x \in Event : /\ x = StatusEvent(p) /\ x.id = a
                               /\ x.from = current[p] /\ x.to = to
        <5>1. current[p] \in AccountStatus \cup {NoStatus} /\ a \in Ids
          BY <1>2, <1>3, <2>1, <3>1
        <5>2. StatusEvent(p) = [id |-> a, type |-> EventType(to), from |-> current[p], to |-> to]
          BY <3>1, <3>2 DEF StatusEvent
        <5>3. StatusEvent(p) \in Event
          BY <4>1, <5>1, <5>2 DEF Event
        <5>4. QED
          BY <5>2, <5>3
      <4>3. GoOnToLog(p, x)
        BY <3>5, <4>2
      <4>4. faults = 0 => x.from \in Known(a) \ {x.to}
        BY <2>1, <3>1, <3>2, <4>2 DEF HistoryInv, ReadInv
      <4>5. QED
        BY <1>7, <2>1, <3>3, <4>2, <4>3, <4>4
    <3>6. QED
      BY <2>3, <3>4, <3>5
  <2>4. QED
    BY <1>12, <2>2, <2>3 DEF WriteStatus
<1>13. CASE LogAudit(p)
  <2>1. adminPc[p] = "log" /\ UNCHANGED account
    BY <1>13 DEF LogAudit, tableVars
  <2>2. PICK code : Answer(p, code)
    BY <1>13 DEF LogAudit
  <2>3. PICK x \in Event : x = logging[p] /\ x.id \in DOMAIN account
    BY <1>3, <2>1
  <2>4. CASE \E kind : Fault(kind)
    BY <1>8, <1>13, <2>1, <2>3, <2>4, HistoryFails DEF LogAudit
  <2>5. CASE events' = Append(events, x)
    <3>1. /\ logging' = [logging EXCEPT ![p] = NoEvent] /\ adminPc'[p] = "idle"
          /\ \A q \in Admins \ {p} : /\ adminPc'[q] = adminPc[q] /\ current'[q] = current[q]
                                     /\ adminReq'[q] = adminReq[q]
      BY <1>2, <2>2 DEF Answer, AdminGoto
    <3>2. \A a : Told(a)' = Told(a)
      BY <1>2, <2>3, <2>5, <3>1, ToldOnceWritten
    <3>3. \A i \in DOMAIN events' : events'[i].id \in DOMAIN account
      <4>1. /\ DOMAIN events' = DOMAIN events \cup {Len(events) + 1}
            /\ events'[Len(events) + 1] = x
            /\ \A i \in DOMAIN events : events'[i] = events[i]
        BY <1>2, <2>5
      <4>2. QED
        BY <2>3, <4>1 DEF HistoryInv
    <3>4. QED
      BY <1>4, <2>1, <3>1, <3>2, <3>3
  <2>6. QED
    BY <1>13, <2>3, <2>4, <2>5 DEF LogAudit
<1>14. QED
  BY <1>1, <1>9, <1>10, <1>11, <1>12, <1>13 DEF AdminStep

LEMMA HistoryByOthers ==
  ASSUME TypesInv, TypesInv', LedgerInv, HistoryInv, faults' = 0 => faults = 0,
         SeedNext \/ JournalNext \/ UNCHANGED account, UNCHANGED adminVars
  PROVE  HistoryInv'
<1>1. UNCHANGED <<adminPc, adminReq, current, logging, events>>
  BY DEF adminVars
<1>2. /\ DOMAIN account \subseteq DOMAIN account'
      /\ \A a \in DOMAIN account : account'[a].status = account[a].status
      /\ \A a \in DOMAIN account' \ DOMAIN account :
           a \in ChartIds /\ account'[a].status = "ACTIVE"
  BY StatusesKept
<1>3. \A a : Told(a)' = Told(a)
  BY <1>1, SameTold
<1>4. \A i \in DOMAIN events' : events'[i].id \in DOMAIN account'
  BY <1>1, <1>2 DEF HistoryInv
<1>5. QED
  BY <1>1, <1>2, <1>3, <1>4, HistoryKept

LEMMA HistoryNext ==
  ASSUME TypesInv, TypesInv', LedgerInv, HistoryInv, [Next]_vars
  PROVE  HistoryInv'
<1>1. faults' = 0 => faults = 0
  BY FaultsGrow
<1>2. CASE AdminNext
  BY <1>1, <1>2, HistoryByAdmin
<1>3. CASE (SeedNext \/ JournalNext \/ UNCHANGED account) /\ UNCHANGED adminVars
  BY <1>1, <1>3, HistoryByOthers
<1>4. QED
  BY <1>2, <1>3 DEF Next, vars, tableVars

\* However many administrators change an account at once, absent failures the events
\* tell its history: its status is one an event leads to, and each event leads on from
\* a status that another one, or the start, accounts for.
THEOREM HistoryIsTold == ASSUME IsFiniteSet(Posters) PROVE Spec => []EventsTellHistory
<1>1. ASSUME Init PROVE HistoryInv
  <2>1. /\ account = InitAccounts /\ events = << >> /\ \A p \in Admins : adminPc[p] = "idle"
    BY <1>1 DEF Init, TableInit, AdminInit
  <2>2. \A a : Told(a) = {}
    <3>1. Range(events) = {} /\ Range(logging) \subseteq {NoEvent}
      BY <1>1, <2>1 DEF Init, AdminInit, Range
    <3>2. QED
      BY <3>1 DEF Told
  <2>3. QED
    BY <2>1, <2>2 DEF HistoryInv, ReadInv, HistoryOf, Start
<1>2. TypesInv /\ TypesInv' /\ LedgerInv /\ HistoryInv /\ [Next]_vars => HistoryInv'
  BY HistoryNext
<1>3. HistoryInv => EventsTellHistory
  BY DEF HistoryInv, HistoryOf, Known, Outcomes, Start, EventsTellHistory
<1>4. QED
  BY <1>1, <1>2, <1>3, TypesInvariant, LedgerInvariant, PTL DEF Spec
=============================================================================
