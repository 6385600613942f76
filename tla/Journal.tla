------------------------------- MODULE Journal -------------------------------
(***************************************************************************)
(* PostJournalEntry (internal/ledger) and the reads of the ledger: entries *)
(* of any number of lines, posted by concurrent calls, each in one READ    *)
(* COMMITTED transaction that locks its accounts in id order.              *)
(***************************************************************************)
EXTENDS AccountTable, SequencesExt

CONSTANT Entries  \* the entries callers may post

VARIABLES
  posterPc,  \* the round trip a poster is about to make
  entry,     \* its entry
  found,     \* the accounts its SELECT has found
  draft,     \* its uncommitted header and lines, or NoDraft
  result,    \* what it returned
  journal,   \* the committed entries, in the order they were committed
  clock      \* the time of the service

posterVars  == <<posterPc, entry, found, draft, result>>
journalVars == <<posterVars, journal, clock>>

LineTypes   == {"DEBIT", "CREDIT"}
EntryStatus == {"POSTED", "REVERSED"}

Line == [account : Nat, type : STRING, amount : Int]

\* A JournalEntry. "header" says that description and posted_by are filled in;
\* postedAt is a time the caller gives, or the zero time.
JournalEntry == [header : BOOLEAN, currency : STRING, status : EntryStatus,
                 postedAt : Nat, lines : Seq(Line)]

ZeroTime == 0

ASSUME EntriesAssumption == Entries \subseteq JournalEntry

NoEntry == [header |-> FALSE, currency |-> "", status |-> "POSTED",
            postedAt |-> ZeroTime, lines |-> << >>]

\* "refused" stands for the errors of a check, "error" for those of the database.
Results == {"none", "posted", "refused", "error"}

Posted == [entry : JournalEntry \cup {NoEntry}, postedAt : Nat]

NoDraft == [entry |-> NoEntry, postedAt |-> ZeroTime]

JournalTypes ==
  /\ posterPc \in [Posters -> {"idle", "select", "lock", "commit", "done"}]
  /\ entry \in [Posters -> Entries \cup {NoEntry}]
  /\ found \in [Posters -> SUBSET Ids]
  /\ draft \in [Posters -> Posted]
  /\ result \in [Posters -> Results]
  /\ journal \in Seq(Posted)
  /\ clock \in 1..(Cardinality(Posters) + 1)

JournalInit ==
  /\ posterPc = [p \in Posters |-> "idle"]
  /\ entry = [p \in Posters |-> NoEntry]
  /\ found = [p \in Posters |-> {}]
  /\ draft = [p \in Posters |-> NoDraft]
  /\ result = [p \in Posters |-> "none"]
  /\ journal = << >>
  /\ clock = 1

PosterGoto(p, label) == posterPc' = [posterPc EXCEPT ![p] = label]

(***************************************************************************)
(* Amounts                                                                 *)
(***************************************************************************)
Total(lines, type) ==
  SumFunctionOnSet([i \in DOMAIN lines |-> lines[i].amount],
                   {i \in DOMAIN lines : lines[i].type = type})

\* Mutant: only the number of lines on each side is compared.
HasBothSides(e) ==
  \A type \in LineTypes : \E i \in DOMAIN e.lines : e.lines[i].type = type

\* PostJournalEntry: total debits equal total credits, to the last digit.
Balanced(e) == Total(e.lines, "DEBIT") = Total(e.lines, "CREDIT")

\* computeNetDeltas: the lines of an entry netted per account.
EffectOf(line, a, type) ==
  IF line.account # a THEN 0
  ELSE IF line.type = "DEBIT" THEN DebitDelta(type, line.amount)
       ELSE CreditDelta(type, line.amount)

NetChange(lines, a, type) ==
  SumFunction([i \in DOMAIN lines |-> EffectOf(lines[i], a, type)])

AccountsOf(e) == {e.lines[i].account : i \in DOMAIN e.lines}

(***************************************************************************)
(* Posting an entry                                                        *)
(***************************************************************************)
Return(p, r) ==
  /\ result' = [result EXCEPT ![p] = r]
  /\ PosterGoto(p, "done")

\* The checks of PostJournalEntry, before the transaction begins.
Admitted(e) == Balanced(e) /\ \A i \in DOMAIN e.lines : e.lines[i].type \in LineTypes

\* validateEntryHeader.
HasHeader(e) == e.header /\ e.currency # "" /\ e.lines # << >>

PostJournalEntry(p, e) ==
  /\ posterPc[p] = "idle"
  /\ \/ /\ Succeeds /\ Admitted(e) /\ HasHeader(e)
        /\ entry' = [entry EXCEPT ![p] = e]
        /\ PosterGoto(p, "select") /\ UNCHANGED result
     \/ /\ Succeeds /\ ~(Admitted(e) /\ HasHeader(e))
        /\ Return(p, "refused") /\ UNCHANGED entry
     \/ /\ Fault("db") /\ Admitted(e)
        /\ Return(p, "error") /\ UNCHANGED entry
  /\ UNCHANGED <<tableVars, found, draft, journal, clock>>

\* The transaction ends with the call: its rows are free, and r is returned.
EndTx(p, r) ==
  /\ rowLock' = [a \in Ids |-> IF rowLock[a] = p THEN None ELSE rowLock[a]]
  /\ draft' = [draft EXCEPT ![p] = NoDraft]
  /\ entry' = [entry EXCEPT ![p] = NoEntry]
  /\ found' = [found EXCEPT ![p] = {}]
  /\ Return(p, r)

\* SELECT ... WHERE id = ANY($1) ORDER BY id FOR UPDATE sees the rows there are when
\* it begins, and locks them one by one.
SelectAccounts(p) ==
  /\ posterPc[p] = "select"
  /\ found' = [found EXCEPT ![p] = {a \in Ids : Exists(a) /\ a \in AccountsOf(entry[p])}]
  /\ PosterGoto(p, "lock")
  /\ UNCHANGED <<tableVars, entry, draft, result, journal, clock, faults>>

\* Mutant: FOR UPDATE without ORDER BY.
AnyOf(S, a) == a \in S

LowestOf(S, a) == a \in S /\ \A b \in S : a <= b

LockAccount(p, a) ==
  /\ posterPc[p] = "lock"
  /\ LowestOf({b \in found[p] : rowLock[b] # p}, a)
  /\ rowLock[a] = None
  /\ rowLock' = [rowLock EXCEPT ![a] = p]
  /\ UNCHANGED <<account, posterVars, journal, clock, faults>>

\* Mutant: an account may be FROZEN or CLOSED.
AcceptsAnyStatus(p) ==
  LET e == entry[p]
  IN  /\ found[p] = AccountsOf(e)
      /\ \A a \in found[p] : account[a].currency = e.currency
      /\ \A a \in found[p] :
           account[a].balance + NetChange(e.lines, a, account[a].type) >= 0

\* What an entry must pass once its rows are locked: loadAndLockAccounts, and
\* checkSufficientBalances.
Accepts(p) ==
  LET e == entry[p]
  IN  /\ found[p] = AccountsOf(e)
      /\ \A a \in found[p] : account[a].status = "ACTIVE"
                             /\ account[a].currency = e.currency
      /\ \A a \in found[p] :
           account[a].balance + NetChange(e.lines, a, account[a].type) >= 0

\* The check of insertEntryLines, and that of the column, on what it stores.
AmountsArePositive(e) == \A i \in DOMAIN e.lines : Stored(e.lines[i].amount) > 0

\* Mutant: an account that was not found is looked for again.
SelectAgain(p) ==
  /\ PosterGoto(p, "select")
  /\ UNCHANGED <<rowLock, entry, found, draft, result>>

Refuse(p) == EndTx(p, "refused")

\* Mutant: SELECT without FOR UPDATE.
HasRead(p) == found[p] \subseteq Ids

HasLocked(p) == \A a \in found[p] : rowLock[a] = p

\* The posted_at of an entry: the caller's own, or time.Now().
Stamp(e, now) == IF e.postedAt = ZeroTime THEN now ELSE e.postedAt

\* The rest of insertJournalEntryTx under the locks: the checks, the header with its
\* posted_at, the lines and the balances. Time may pass between two entries or not.
InsertEntry(p) ==
  /\ posterPc[p] = "lock"
  /\ HasLocked(p)
  /\ \/ /\ Succeeds /\ Accepts(p) /\ AmountsArePositive(entry[p])
        /\ clock' \in {clock, clock + 1}
        /\ draft' = [draft EXCEPT ![p] = [entry |-> entry[p],
                                          postedAt |-> Stamp(entry[p], clock')]]
        /\ PosterGoto(p, "commit") /\ UNCHANGED <<rowLock, entry, found, result>>
     \/ /\ Succeeds /\ ~(Accepts(p) /\ AmountsArePositive(entry[p]))
        /\ Refuse(p) /\ UNCHANGED clock
     \/ /\ Fault("db")
        /\ EndTx(p, "error") /\ UNCHANGED clock
  /\ UNCHANGED <<account, journal>>

\* Mutant: the lines of an entry are applied one after the other from the balance
\* that was read.
AppliedLast(e) ==
  [a \in DOMAIN account |->
     IF a \notin AccountsOf(e) THEN account[a]
     ELSE LET last == SelectLastInSeq(e.lines, LAMBDA l : l.account = a)
          IN  [account[a] EXCEPT
                 !.balance = Stored(@ + EffectOf(e.lines[last], a, account[a].type)),
                 !.version = @ + 1]]

\* Mutant: one UPDATE for each line, where the lines of an account are netted.
AppliedByLine(e) ==
  [a \in DOMAIN account |->
     [account[a] EXCEPT
        !.balance = Stored(@ + NetChange(e.lines, a, account[a].type)),
        !.version = @ + Cardinality({i \in DOMAIN e.lines : e.lines[i].account = a})]]

\* balance = balance + $1, version = version + 1.
Applied(e) ==
  [a \in DOMAIN account |->
     IF a \notin AccountsOf(e) THEN account[a]
     ELSE [account[a] EXCEPT
             !.balance = Stored(@ + NetChange(e.lines, a, account[a].type)),
             !.version = @ + 1]]

CommitEntry(p) ==
  /\ posterPc[p] = "commit"
  /\ \/ /\ account' = Applied(entry[p])
        /\ journal' = Append(journal, draft[p])
        /\ \/ Succeeds /\ EndTx(p, "posted")
           \/ Fault("lostAck") /\ EndTx(p, "error")
     \/ /\ Fault("db")
        /\ EndTx(p, "error") /\ UNCHANGED <<account, journal>>
  /\ UNCHANGED clock

PosterStep(p) ==
  SelectAccounts(p) \/ InsertEntry(p) \/ CommitEntry(p) \/ \E a \in Ids : LockAccount(p, a)

JournalNext ==
  \E p \in Posters : PosterStep(p) \/ \E e \in Entries : PostJournalEntry(p, e)

(***************************************************************************)
(* Reading the ledger                                                      *)
(***************************************************************************)
\* The lines of posted entries as the columns hold them.
StoredLines(e) ==
  [i \in DOMAIN e.lines |-> [e.lines[i] EXCEPT !.amount = Stored(@)]]

\* What the lines of the i-th entry of the journal do to account a.
Moved(i, a, type) == NetChange(StoredLines(journal[i].entry), a, type)

\* GetTrialBalance for currency c: debits less credits of each account with a line,
\* and their sum.
CountedEntries(c) ==
  {i \in DOMAIN journal : journal[i].entry.currency = c /\ journal[i].entry.status = "POSTED"}

NetOf(c, a) ==
  SumFunctionOnSet([i \in DOMAIN journal |-> Moved(i, a, "ASSET")], CountedEntries(c))

TrialBalanceAccounts(c) == UNION {AccountsOf(journal[i].entry) : i \in CountedEntries(c)}

NetTotal(c) == SumFunction([a \in TrialBalanceAccounts(c) |-> NetOf(c, a)])

\* GetAccountEntryRows: the entries with a line of account a, the newest first.
AccountEntries(a) == {i \in DOMAIN journal : a \in AccountsOf(journal[i].entry)}

NewestFirst(i, j) == journal[i].postedAt > journal[j].postedAt

-----------------------------------------------------------------------------
(***************************************************************************)
(* Properties                                                              *)
(***************************************************************************)
\* Rounding moves a line by half a stored unit at most, and a balance once for each
\* entry, but nothing that is whole. Twice what it may come to, of entry e as a whole,
\* on account a, and on account a over the entries S.
LineSlack(line) == IF Whole(line.amount) THEN 0 ELSE Quantum

EntrySlack(e) == SumFunction([i \in DOMAIN e.lines |-> LineSlack(e.lines[i])])

SlackOn(e, a) ==
  LET on == {i \in DOMAIN e.lines : e.lines[i].account = a}
  IN  IF \A i \in on : Whole(e.lines[i].amount) THEN 0
      ELSE Quantum + SumFunctionOnSet([i \in DOMAIN e.lines |-> LineSlack(e.lines[i])], on)

Slack(a, S) == SumFunctionOnSet([i \in DOMAIN journal |-> SlackOn(journal[i].entry, a)], S)

Within(n, slack) == -slack <= 2 * n /\ 2 * n <= slack

\* The stored balance of an account, which the code keeps by increments, is what
\* its stored lines add up to: exactly, as long as these were whole, and else within
\* what the rounding of each line and of each increment may come to.
Replay(a, S) ==
  (IF a \in DOMAIN InitAccounts THEN InitAccounts[a].balance ELSE 0)
    + SumFunctionOnSet([i \in DOMAIN journal |-> Moved(i, a, account[a].type)], S)

BalanceIsReplay ==
  \A a \in DOMAIN account :
    Within(account[a].balance - Replay(a, AccountEntries(a)), Slack(a, AccountEntries(a)))

\* The trial balance of every currency nets to zero, within the rounding of its lines.
TrialBalanceIsClose ==
  \A c \in Currencies :
    Within(NetTotal(c), SumFunctionOnSet([i \in DOMAIN journal |-> EntrySlack(journal[i].entry)],
                                         CountedEntries(c)))

\* "net_total (should be zero when the ledger is consistent)" (README.md), and nothing
\* but balanced entries is ever posted.
TrialBalanced == \A c \in Currencies : NetTotal(c) = 0

\* No two postings each hold a row the other needs: ORDER BY id is enough here,
\* where an entry locks all its rows in one statement.
PostersNeverCircle ==
  \A p, q \in Posters :
    LET needs(x, y) == \E a \in found[x] : rowLock[a] = y
    IN  p # q => ~(needs(p, q) /\ needs(q, p))

\* The entries of an account are listed in the order they took effect, as long as no
\* caller gives one a time of its own: read from the oldest, moment by moment, they
\* never overdraw it by more than rounding explains. posted_at is the clock of the
\* service, so this needs it to be taken under the row locks.
StatementNeverOverdrawn ==
  \A a \in DOMAIN account : \A i \in AccountEntries(a) :
    LET shown == {j \in AccountEntries(a) : ~NewestFirst(j, i)}
    IN  (\A j \in AccountEntries(a) : journal[j].entry.postedAt = ZeroTime)
          => 2 * Replay(a, shown) + Slack(a, shown) >= 0

\* A balance only moves while its account is ACTIVE, although its status may be
\* changed by others at any moment.
OnlyActiveMove ==
  [][\A a \in DOMAIN account :
       account'[a].balance # account[a].balance => account[a].status = "ACTIVE"]_account
=============================================================================
