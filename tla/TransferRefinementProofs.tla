---------------------- MODULE TransferRefinementProofs ----------------------
(***************************************************************************)
(* Transfer implements AtomicTransfer: the commit of a transaction is the  *)
(* one step in which an order's amount moves from its source to its        *)
(* destination. For that, the rows the transaction has checked must still  *)
(* be as they were, and the two entries must cancel on the clearing row,   *)
(* but for the unit that rounding keeps there.                             *)
(***************************************************************************)
EXTENDS TransferAnswersProofs

\* The labels at which a transaction has posted one entry, and those at which it
\* has posted both.
OneEntry    == {"markProcessing", "postSettlement"}
BothEntries == {"markSettled", "commit"}

\* What the first entry of a transfer changes, and what both do.
FirstChange(r) == [a \in Accounts |-> Effect(ClearingEntry(r), a)]

BothChange(r) ==
  [a \in Accounts |-> Effect(ClearingEntry(r), a) + Effect(SettlementEntry(r), a)]

\* The entry that both amount to, from the source to the destination.
Net(r) == [dr |-> r.from, cr |-> r.to, amount |-> r.amount]

\* p holds a row that it may post to.
Checked(p, a) == lock[a] = p /\ status[a] = "ACTIVE" /\ Currency[a] = req[p].currency

\* The unrounded change of e would leave a at zero or more.
Affords(e, a) == balance[a] + Change(e)[a] >= 0

WorkOf(p) ==
  LET r == req[p]
  IN  /\ pc[p] \in OneEntry => delta[p] = FirstChange(r)
      /\ pc[p] \in BothEntries => delta[p] = BothChange(r)
      /\ pc[p] \notin OneEntry \cup BothEntries => delta[p] = NoDelta
      /\ pc[p] \in OneEntry \cup BothEntries => Checked(p, r.from) /\ Checked(p, Clearing)
      /\ pc[p] \in BothEntries => Checked(p, r.to)
      /\ pc[p] \in OneEntry =>
           Affords(ClearingEntry(r), r.from) /\ Affords(ClearingEntry(r), Clearing)
      /\ pc[p] \in BothEntries => Affords(Net(r), r.from) /\ Affords(Net(r), r.to)

WorkInv == \A p \in Requests : WorkOf(p)

\* A call that has not arrived has no order; one that has, a valid one.
ValidInv ==
  \A p \in Requests : /\ pc[p] = "idle" => req[p] = NoReq
                      /\ Live(p) => Valid(req[p])

\* The entries change the source and the destination once each, and cancel elsewhere.
LEMMA EntriesNetOut ==
  ASSUME NEW r \in Order, r.from # r.to, NEW a \in Accounts
  PROVE  LET first == Change(ClearingEntry(r))[a]
             second == Change(SettlementEntry(r))[a]
         IN  /\ first + second = Change(Net(r))[a]
             /\ a \in {r.from, r.to} => first = 0 \/ second = 0
             /\ a \notin {r.from, r.to, Clearing} => first = 0 /\ second = 0
             /\ a = Clearing /\ a \notin {r.from, r.to} =>
                  first \in {r.amount, -r.amount} /\ second = -first
<1>1. r.amount \in Int
  BY DEF Order
<1>2. DebitDelta(AccountType[a], r.amount) + CreditDelta(AccountType[a], r.amount) = 0
  BY <1>1, AccountsAssumption DEF DebitDelta, CreditDelta, AccountTypes, DebitNormal, CreditNormal
<1>3. /\ DebitDelta(AccountType[a], r.amount) \in {r.amount, -r.amount}
      /\ CreditDelta(AccountType[a], r.amount) \in {r.amount, -r.amount}
  BY <1>1 DEF DebitDelta, CreditDelta
<1>4. QED
  BY <1>1, <1>2, <1>3, SMTT(30) DEF Change, Net, NetDelta, ClearingEntry, SettlementEntry

LEMMA OrderEntries ==
  ASSUME NEW r \in Order
  PROVE  /\ ClearingEntry(r) \in Entry /\ SettlementEntry(r) \in Entry /\ Net(r) \in Entry
         /\ r.from \in Accounts /\ r.to \in Accounts /\ Clearing \in Accounts
BY AccountsAssumption DEF Order, Entry, ClearingEntry, SettlementEntry, Net

LEMMA NoEffect ==
  ASSUME NEW e \in Entry, NEW a \in Accounts, Change(e)[a] = 0
  PROVE  Effect(e, a) = 0
BY EffectIs, StoredFacts, ColumnClosed DEF KeptOf

\* What is left of the two roundings: those of one entry, and on the clearing account
\* the unit that it keeps of a half-way amount.
LEMMA BothEffects ==
  ASSUME NEW r \in Order, r.from # r.to, NEW a \in Accounts
  PROVE  BothChange(r)[a] = IF a \in {r.from, r.to}
                            THEN Stored(Change(Net(r))[a]) + KeptOf(Change(Net(r))[a])
                            ELSE IF a = Clearing /\ HalfWay(r.amount) THEN Quantum ELSE 0
<1> DEFINE first == Change(ClearingEntry(r))[a]
           second == Change(SettlementEntry(r))[a]
           net == Change(Net(r))[a]
<1>1. /\ first \in Int /\ Effect(ClearingEntry(r), a) = Stored(first) + KeptOf(first)
      /\ second \in Int /\ Effect(SettlementEntry(r), a) = Stored(second) + KeptOf(second)
      /\ net \in Int
  BY OrderEntries, EffectIs
<1>2. BothChange(r)[a] = Effect(ClearingEntry(r), a) + Effect(SettlementEntry(r), a)
  BY DEF BothChange
<1>3. /\ first = 0 => Effect(ClearingEntry(r), a) = 0
      /\ second = 0 => Effect(SettlementEntry(r), a) = 0
  BY OrderEntries, NoEffect
<1>4. /\ first + second = net
      /\ a \in {r.from, r.to} => first = 0 \/ second = 0
      /\ a \notin {r.from, r.to, Clearing} => first = 0 /\ second = 0
      /\ a = Clearing /\ a \notin {r.from, r.to} =>
           first \in {r.amount, -r.amount} /\ second = -first
  BY EntriesNetOut
<1>5. /\ Effect(ClearingEntry(r), a) \in Int /\ Effect(SettlementEntry(r), a) \in Int
      /\ Quantum \in Nat \ {0} /\ r.amount \in Int
  BY OrderEntries, EffectType, QuantumAssumption DEF Column, Order
<1>6. CASE a \in {r.from, r.to}
  <2>1. \/ first = 0 /\ second = net
        \/ second = 0 /\ first = net
    BY <1>1, <1>4, <1>6
  <2>2. BothChange(r)[a] = Stored(net) + KeptOf(net)
    <3> HIDE DEF first, second, net
    <3> QED
      BY <1>1, <1>2, <1>3, <1>5, <2>1
  <2>3. QED
    BY <1>6, <2>2
<1>7. CASE a \notin {r.from, r.to} /\ a = Clearing
  <2>1. PICK x \in Int : first = x /\ second = -x /\ x \in {r.amount, -r.amount}
    BY <1>1, <1>4, <1>7
  <2>2. /\ Stored(-x) = -Stored(x) /\ Stored(x) \in Int
        /\ HalfWay(-x) <=> HalfWay(x)
        /\ HalfWay(x) <=> HalfWay(r.amount)
    <3>1. Stored(-x) = -Stored(x) /\ Stored(x) \in Int
      BY StoredNegated, StoredFacts DEF Column
    <3>2. HalfWay(-x) <=> HalfWay(x)
      BY HalfWayNegated
    <3>3. HalfWay(x) <=> HalfWay(r.amount)
      BY <1>5, <2>1, HalfWayNegated
    <3>4. QED
      BY <3>1, <3>2, <3>3
  <2>3. HalfWay(x) => x # 0
    BY <1>5 DEF HalfWay
  <2>4. KeptOf(x) + KeptOf(-x) = IF HalfWay(x) THEN Quantum ELSE 0
    BY <1>5, <2>2, <2>3 DEF KeptOf
  <2>5. KeptOf(x) \in Int /\ KeptOf(-x) \in Int
    BY <1>5 DEF KeptOf
  <2>6. BothChange(r)[a] = (Stored(x) + KeptOf(x)) + (Stored(-x) + KeptOf(-x))
    <3> HIDE DEF first, second
    <3> QED
      BY <1>1, <1>2, <2>1
  <2>7. BothChange(r)[a] = IF HalfWay(r.amount) THEN Quantum ELSE 0
    BY <1>5, <2>2, <2>4, <2>5, <2>6
  <2>8. QED
    BY <1>7, <2>7
<1>8. CASE a \notin {r.from, r.to, Clearing}
  BY <1>2, <1>3, <1>4, <1>8
<1>9. QED
  BY <1>6, <1>7, <1>8

-----------------------------------------------------------------------------
(***************************************************************************)
(* WorkInv is kept. Others can do nothing to a row that p has locked.      *)
(***************************************************************************)
LEMMA WorkKept ==
  ASSUME TypeInv, NEW q \in Requests, WorkOf(q),
         pc'[q] \in OneEntry <=> pc[q] \in OneEntry,
         pc'[q] \in BothEntries <=> pc[q] \in BothEntries,
         req'[q] = req[q], delta'[q] = delta[q],
         \A a \in Accounts : lock[a] = q =>
           lock'[a] = q /\ status'[a] = status[a] /\ balance'[a] = balance[a]
  PROVE  WorkOf(q)'
<1> DEFINE r == req[q]
<1>1. pc[q] \in OneEntry \cup BothEntries => r.from \in Accounts /\ r.to \in Accounts
  BY Orders DEF OneEntry, BothEntries, Order
<1>2. \A a \in Accounts : Checked(q, a) => Checked(q, a)' /\ balance'[a] = balance[a]
  BY DEF Checked
<1>3. /\ FirstChange(r)' = FirstChange(r) /\ BothChange(r)' = BothChange(r)
      /\ \A a : /\ Change(ClearingEntry(r))'[a] = Change(ClearingEntry(r))[a]
                /\ Change(Net(r))'[a] = Change(Net(r))[a]
      /\ NoDelta' = NoDelta
  BY DEF FirstChange, BothChange, Effect, Kept, Change, ClearingEntry, SettlementEntry, Net,
         StoredEntry, NoDelta
<1>4. Clearing \in Accounts
  BY AccountsAssumption
<1>5. /\ pc[q] \in OneEntry =>
           /\ delta'[q] = FirstChange(r)'
           /\ (Affords(ClearingEntry(r), r.from) /\ Affords(ClearingEntry(r), Clearing))'
      /\ pc[q] \in BothEntries =>
           /\ delta'[q] = BothChange(r)'
           /\ (Affords(Net(r), r.from) /\ Affords(Net(r), r.to))'
           /\ Checked(q, r.to)'
  BY <1>1, <1>2, <1>3, <1>4 DEF WorkOf, Affords
<1>6. /\ pc[q] \notin OneEntry \cup BothEntries => delta'[q] = NoDelta'
      /\ pc[q] \in OneEntry \cup BothEntries => Checked(q, r.from)' /\ Checked(q, Clearing)'
  BY <1>1, <1>2, <1>3, <1>4 DEF WorkOf
<1> QED
  BY <1>5, <1>6 DEF WorkOf

LEMMA WorkStep ==
  ASSUME TypeInv, WorkInv, NEW p \in Requests, Others(p),
         \A q \in Requests \ {p} :
           /\ req'[q] = req[q] /\ delta'[q] = delta[q]
           /\ \A a \in Accounts : lock[a] = q => lock'[a] = q /\ balance'[a] = balance[a],
         status' = status, WorkOf(p)'
  PROVE  WorkInv'
<1>1. ASSUME NEW q \in Requests \ {p} PROVE WorkOf(q)'
  BY WorkKept DEF WorkInv, Others
<1>2. QED
  BY <1>1 DEF WorkInv

\* A step of p outside the settlement transaction.
LEMMA WorkQuiet ==
  ASSUME TypeInv, WorkInv, NEW p \in Requests, Others(p),
         UNCHANGED <<req, delta, lock, status, balance>>,
         pc[p] \notin OneEntry \cup BothEntries, pc'[p] \notin OneEntry \cup BothEntries
  PROVE  WorkInv'
<1>1. WorkOf(p)'
  BY DEF WorkInv, WorkOf, NoDelta
<1>2. QED
  BY <1>1, WorkStep

LEMMA WorkFailTx ==
  ASSUME TypeInv, WorkInv, NEW p \in Requests, NEW r, FailTx(p, r),
         UNCHANGED <<status, req, balance>>
  PROVE  WorkInv'
<1> USE DEF TypeInv, TypeOK, CallTypes, TxTypes
<1>1. Others(p) /\ pc'[p] = "markFailed"
  BY DEF FailTx, Goto, Others
<1>2. delta' = [delta EXCEPT ![p] = NoDelta]
  BY DEF FailTx, EndTx
<1>3. /\ delta'[p] = NoDelta
      /\ \A q \in Requests \ {p} : delta'[q] = delta[q]
  BY <1>2
<1>4. WorkOf(p)'
  BY <1>1, <1>3 DEF WorkOf, OneEntry, BothEntries, NoDelta
<1>5. QED
  BY <1>1, <1>3, <1>4, WorkStep DEF FailTx, EndTx

\* What a clearing entry that is not refused has done, and what both entries have.
LEMMA FirstEntryPosted ==
  ASSUME TypeInv, FundsInv, NEW p \in Requests, req[p] \in Order, delta[p] = NoDelta,
         ~Refused(p, ClearingEntry(req[p]))
  PROVE  LET e == ClearingEntry(req[p])
         IN  Written(p, e) = FirstChange(req[p]) /\ Affords(e, e.dr) /\ Affords(e, e.cr)
<1> DEFINE e == ClearingEntry(req[p])
<1>1. e \in Entry
  BY OrderEntries
<1>2. \A a \in Accounts : delta[p][a] = 0 /\ Effect(e, a) \in Int /\ Change(e)[a] \in Int
  BY <1>1, EffectType, EffectIs DEF NoDelta, Column
<1>3. \A a \in Accounts : Written(p, e)[a] = Effect(e, a)
  BY <1>1, <1>2, PostedDelta
<1>4. Written(p, e) = FirstChange(req[p])
  BY <1>3 DEF Written, FirstChange
<1>5. \A a \in {e.dr, e.cr} : a \in Accounts /\ Affords(e, a)
  BY <1>1, <1>2 DEF Refused, RowsOf, Affords, Entry, TypeInv, TypeOK, RowTypes
<1> QED
  BY <1>4, <1>5

LEMMA BothEntriesPosted ==
  ASSUME TypeInv, FundsInv, NEW p \in Requests, req[p] \in Order, req[p].from # req[p].to,
         delta[p] = FirstChange(req[p]), Affords(ClearingEntry(req[p]), req[p].from),
         Affords(ClearingEntry(req[p]), Clearing), ~Refused(p, SettlementEntry(req[p]))
  PROVE  /\ Written(p, SettlementEntry(req[p])) = BothChange(req[p])
         /\ Affords(Net(req[p]), req[p].from) /\ Affords(Net(req[p]), req[p].to)
<1> DEFINE r == req[p]
           c == ClearingEntry(r)
           s == SettlementEntry(r)
<1>1. c \in Entry /\ s \in Entry /\ Net(r) \in Entry
      /\ r.from \in Accounts /\ r.to \in Accounts /\ Clearing \in Accounts
  BY OrderEntries
<1>2. \A a \in Accounts : /\ delta[p][a] = Effect(c, a) /\ Effect(c, a) \in Int
                          /\ Effect(s, a) \in Int /\ balance[a] \in Int
                          /\ Change(c)[a] \in Int /\ Change(s)[a] \in Int
                          /\ Change(Net(r))[a] = Change(c)[a] + Change(s)[a]
  BY <1>1, EffectType, EffectIs, EntriesNetOut
     DEF FirstChange, Column, TypeInv, TypeOK, RowTypes
<1>3. \A a \in Accounts : Written(p, s)[a] = Effect(c, a) + Effect(s, a)
  BY <1>1, <1>2, PostedDelta
<1>4. Written(p, s) = BothChange(r)
  BY <1>3 DEF Written, BothChange
<1>5. ASSUME NEW a \in {r.from, r.to} PROVE Affords(Net(r), a)
  <2>1. a \in Accounts
    BY <1>1
  <2>2. CASE Change(c)[a] = 0
    <3>1. Effect(c, a) = 0
      BY <1>1, <2>1, <2>2, NoEffect
    <3>2. CASE a \in RowsOf(s)
      <4>1. balance[a] + delta[p][a] + Change(s)[a] >= 0
        BY <1>2, <2>1, <3>2 DEF Refused
      <4> QED
        BY <1>2, <2>1, <2>2, <3>1, <4>1 DEF Affords
    <3>3. CASE a \notin RowsOf(s)
      <4>1. Change(s)[a] = 0
        BY <2>1, <3>3 DEF Change, NetDelta, RowsOf
      <4>2. balance[a] + delta[p][a] >= 0
        BY <2>1 DEF FundsInv, Covered
      <4> QED
        BY <1>2, <2>1, <2>2, <3>1, <4>1, <4>2 DEF Affords
    <3> QED
      BY <3>2, <3>3
  <2>3. CASE Change(c)[a] # 0
    <3>1. Change(s)[a] = 0
      BY <1>1, <2>1, <2>3, EntriesNetOut
    <3>2. a \in {r.from, Clearing}
      BY <2>1, <2>3 DEF Change, NetDelta, ClearingEntry
    <3> QED
      BY <1>2, <2>1, <3>1, <3>2 DEF Affords
  <2> QED
    BY <2>2, <2>3
<1> QED
  BY <1>4, <1>5

LEMMA WorkPostEntry ==
  ASSUME TypeInv, FundsInv, ValidInv, WorkInv, NEW p \in Requests, PostEntry(p)
  PROVE  WorkInv'
<1> USE DEF TypeInv, TypeOK, CallTypes, TxTypes
<1> DEFINE e == EntryOf(p)
           r == req[p]
<1>1. /\ pc[p] \in {"postClearing", "postSettlement"} /\ RowsOf(e) \subseteq Held(p)
      /\ UNCHANGED <<status, req, balance>>
  BY DEF PostEntry, dbVars
<1>2. CASE \E x \in {PostRefusal(p, e), "error"} : FailTx(p, x)
  BY <1>1, <1>2, WorkFailTx
<1>3. CASE /\ ~Refused(p, e) /\ UNCHANGED lock
           /\ delta' = [delta EXCEPT ![p] = Written(p, e)]
           /\ Goto(p, IF pc[p] = "postClearing" THEN "markProcessing" ELSE "markSettled")
  <2>1. r \in Order /\ r.from # r.to
    BY <1>1, Orders DEF ValidInv, Live, Valid
  <2>2. /\ Others(p)
        /\ pc'[p] = IF pc[p] = "postClearing" THEN "markProcessing" ELSE "markSettled"
    BY <1>3 DEF Goto, Others
  <2>3. /\ delta'[p] = Written(p, e)
        /\ \A q \in Requests \ {p} : delta'[q] = delta[q]
    BY <1>3
  <2>4. \A a \in RowsOf(e) : Checked(p, a)
    BY <1>1, <1>3 DEF Held, Refused, Checked
  <2>5. \A a : Checked(p, a) => Checked(p, a)'
    BY <1>1, <1>3 DEF Checked
  <2>6. /\ (\A a : Affords(ClearingEntry(r), a) => Affords(ClearingEntry(r), a)')
        /\ (\A a : Affords(Net(r), a) => Affords(Net(r), a)')
        /\ FirstChange(r)' = FirstChange(r) /\ BothChange(r)' = BothChange(r)
        /\ r' = r
    BY <1>1 DEF FirstChange, BothChange, Effect, Kept, Change, ClearingEntry, SettlementEntry,
                Net, StoredEntry, Affords
  <2>7. CASE pc[p] = "postClearing"
    <3>1. e = ClearingEntry(r) /\ RowsOf(e) = {r.from, Clearing} /\ e.dr = r.from /\ e.cr = Clearing
      BY <2>7 DEF EntryOf, ClearingEntry, RowsOf
    <3>2. delta[p] = NoDelta
      BY <2>7 DEF WorkInv, WorkOf, OneEntry, BothEntries
    <3>3. /\ delta'[p] = FirstChange(r)
          /\ Affords(ClearingEntry(r), r.from) /\ Affords(ClearingEntry(r), Clearing)
      BY <1>3, <2>1, <2>3, <3>1, <3>2, FirstEntryPosted
    <3>4. Checked(p, r.from) /\ Checked(p, Clearing)
      BY <2>4, <3>1
    <3>5. pc'[p] \in OneEntry \ BothEntries
      BY <2>2, <2>7 DEF OneEntry, BothEntries
    <3>6. WorkOf(p)'
      BY <2>5, <2>6, <3>3, <3>4, <3>5 DEF WorkOf
    <3>7. QED
      BY <1>1, <1>3, <2>2, <2>3, <3>6, WorkStep
  <2>8. CASE pc[p] = "postSettlement"
    <3>1. e = SettlementEntry(r) /\ RowsOf(e) = {r.to, Clearing}
      BY <2>8 DEF EntryOf, SettlementEntry, RowsOf
    <3>2. /\ delta[p] = FirstChange(r) /\ Checked(p, r.from)
          /\ Affords(ClearingEntry(r), r.from) /\ Affords(ClearingEntry(r), Clearing)
      BY <2>8 DEF WorkInv, WorkOf, OneEntry, BothEntries
    <3>3. delta'[p] = BothChange(r) /\ Affords(Net(r), r.from) /\ Affords(Net(r), r.to)
      BY <1>3, <2>1, <2>3, <3>1, <3>2, BothEntriesPosted
    <3>4. Checked(p, r.from) /\ Checked(p, r.to) /\ Checked(p, Clearing)
      BY <2>4, <3>1, <3>2
    <3>5. pc'[p] \in BothEntries \ OneEntry
      BY <2>2, <2>8 DEF OneEntry, BothEntries
    <3>6. WorkOf(p)'
      BY <2>5, <2>6, <3>3, <3>4, <3>5 DEF WorkOf
    <3>7. QED
      BY <1>1, <1>3, <2>2, <2>3, <3>6, WorkStep
  <2>9. QED
    BY <1>1, <2>7, <2>8
<1>4. QED
  BY <1>2, <1>3 DEF PostEntry

LEMMA WorkMark ==
  ASSUME TypeInv, WorkInv, NEW p \in Requests, MarkProcessing(p) \/ MarkSettled(p)
  PROVE  WorkInv'
<1> USE DEF TypeInv, TypeOK, CallTypes
<1>1. UNCHANGED <<status, req, balance>>
  BY DEF MarkProcessing, MarkSettled, UpdateStatusTx, dbVars
<1>2. CASE FailTx(p, "error")
  BY <1>1, <1>2, WorkFailTx
<1>3. CASE ~FailTx(p, "error")
  <2>1. /\ UNCHANGED <<lock, delta>>
        /\ \/ pc[p] = "markProcessing" /\ Goto(p, "postSettlement")
           \/ pc[p] = "markSettled" /\ Goto(p, "commit")
    BY <1>3 DEF MarkProcessing, MarkSettled, UpdateStatusTx
  <2>2. /\ Others(p)
        /\ \/ pc[p] = "markProcessing" /\ pc'[p] = "postSettlement"
           \/ pc[p] = "markSettled" /\ pc'[p] = "commit"
    BY <2>1 DEF Goto, Others
  <2>3. /\ pc'[p] \in OneEntry <=> pc[p] \in OneEntry
        /\ pc'[p] \in BothEntries <=> pc[p] \in BothEntries
    BY <2>2 DEF OneEntry, BothEntries
  <2>4. WorkOf(p)'
    <3> HIDE DEF TypeInv
    <3> QED
      BY <1>1, <2>1, <2>3, WorkKept DEF WorkInv
  <2>5. QED
    BY <1>1, <2>1, <2>2, <2>4, WorkStep
<1>4. QED
  BY <1>2, <1>3

LEMMA WorkCommit ==
  ASSUME TypeInv, FundsInv, WorkInv, NEW p \in Requests, Commit(p)
  PROVE  WorkInv'
<1> USE DEF TypeInv, TypeOK, CallTypes, TxTypes, RowTypes
<1>1. UNCHANGED <<status, req>> /\ EndTx(p)
  BY DEF Commit, Committed, FailTx, dbVars
<1>2. Others(p) /\ pc'[p] \notin OneEntry \cup BothEntries
  BY DEF Commit, FailTx, Return, Goto, Others, OneEntry, BothEntries
<1>3. delta' = [delta EXCEPT ![p] = NoDelta]
  BY <1>1 DEF EndTx
<1>4. delta'[p] = NoDelta /\ \A q \in Requests \ {p} : delta'[q] = delta[q]
  BY <1>3
<1>5. WorkOf(p)'
  BY <1>2, <1>4 DEF WorkOf, NoDelta
<1>6. ASSUME NEW q \in Requests \ {p}, NEW a \in Accounts, lock[a] = q
      PROVE  lock'[a] = q /\ balance'[a] = balance[a]
  <2>1. lock'[a] = q
    BY <1>1, <1>6 DEF EndTx
  <2>2. delta[p][a] = 0 /\ balance[a] \in Int
    BY <1>6 DEF FundsInv, Covered
  <2>3. balance' = balance \/ balance' = [b \in Accounts |-> balance[b] + delta[p][b]]
    BY DEF Commit, Committed, dbVars
  <2> QED
    BY <2>1, <2>2, <2>3
<1>7. QED
  BY <1>1, <1>2, <1>4, <1>5, <1>6, WorkStep

LEMMA WorkLockRow ==
  ASSUME TypeInv, WorkInv, NEW p \in Requests, NEW b \in Accounts, LockRow(p, b)
  PROVE  WorkInv'
<1> USE DEF TypeInv, TypeOK, CallTypes, TxTypes
<1>1. UNCHANGED <<status, req, balance>>
  BY DEF LockRow, dbVars
<1>2. CASE FailTx(p, "error")
  BY <1>1, <1>2, WorkFailTx
<1>3. CASE lock[b] = None /\ lock' = [lock EXCEPT ![b] = p] /\ UNCHANGED <<delta, pc>>
  <2>1. \A q \in Requests, a \in Accounts : lock[a] = q => lock'[a] = q
    BY <1>3, BoundsAssumption
  <2>2. \A q \in Requests : WorkOf(q)'
    <3> HIDE DEF TypeInv
    <3> QED
      BY <1>1, <1>3, <2>1, WorkKept DEF WorkInv
  <2>3. QED
    BY <2>2 DEF WorkInv
<1>4. QED
  BY <1>2, <1>3 DEF LockRow

LEMMA WorkProgress ==
  ASSUME TypeInv, FundsInv, ValidInv, WorkInv, NEW p \in Requests, Progress(p)
  PROVE  WorkInv'
<1> USE DEF TypeInv, TypeOK, CallTypes
<1> DEFINE Quiet == /\ UNCHANGED <<req, delta, lock, status, balance>> /\ Others(p)
                    /\ {pc[p], pc'[p]} \cap (OneEntry \cup BothEntries) = {}
<1>1. Quiet => WorkInv'
  BY WorkQuiet
<1>2. CASE CacheLookup(p) \/ Claim(p) \/ Recheck(p) \/ LoadSource(p) \/ LoadDest(p)
           \/ LoadClearing(p)
  <2>1. Quiet
    BY <1>2 DEF CacheLookup, Claim, Recheck, LoadSource, LoadDest, LoadClearing, Return, Goto,
                Others, OneEntry, BothEntries, dbVars, txVars
  <2>2. QED BY <1>1, <2>1
<1>3. CASE Create(p) \/ CreateDest(p) \/ LoadDuplicate(p) \/ Begin(p)
  <2>1. Quiet
    BY <1>3 DEF Create, CreateDest, LoadDuplicate, Begin, Return, Goto,
                Others, OneEntry, BothEntries, dbVars, txVars
  <2>2. QED BY <1>1, <2>1
<1>4. CASE FailBegin(p) \/ MarkFailed(p) \/ StoreFailed(p) \/ StoreSettled(p) \/ Unlock(p)
  <2>1. Quiet
    BY <1>4 DEF FailBegin, MarkFailed, StoreFailed, StoreSettled, Unlock, GotoStoreFailed, Return,
                Goto, Others, OneEntry, BothEntries, dbVars, txVars
  <2>2. QED BY <1>1, <2>1
<1>5. CASE DeadlockVictim(p)
  <2>1. CASE FailTx(p, "error")
    BY <1>5, <2>1, WorkFailTx DEF DeadlockVictim, dbVars
  <2>2. CASE pc[p] = "createDest" /\ Return(p, "error") /\ UNCHANGED txVars
    <3>1. Quiet
      BY <1>5, <2>2 DEF DeadlockVictim, Return, Goto, Others, OneEntry, BothEntries, dbVars, txVars
    <3>2. QED BY <1>1, <3>1
  <2>3. QED
    BY <1>5, <2>1, <2>2 DEF DeadlockVictim
<1>6. QED
  BY <1>2, <1>3, <1>4, <1>5, WorkLockRow, WorkPostEntry, WorkMark, WorkCommit DEF Progress

LEMMA WorkNext == TypeInv /\ FundsInv /\ ValidInv /\ WorkInv /\ [Next]_vars => WorkInv'
<1> SUFFICES ASSUME TypeInv, FundsInv, ValidInv, WorkInv, [Next]_vars PROVE WorkInv'
  OBVIOUS
<1> USE DEF TypeInv, TypeOK, CallTypes
<1>1. ASSUME NEW p \in Requests, Progress(p) PROVE WorkInv'
  BY <1>1, WorkProgress
<1>2. ASSUME NEW p \in Requests, NEW r \in Payloads, Receive(p, r)
      PROVE  WorkInv'
  <2>1. /\ Others(p) /\ UNCHANGED <<delta, lock, status, balance>>
        /\ \A q \in Requests \ {p} : req'[q] = req[q]
        /\ {pc[p], pc'[p]} \cap (OneEntry \cup BothEntries) = {}
    BY <1>2 DEF Receive, Goto, Others, OneEntry, BothEntries, dbVars, txVars
  <2>2. WorkOf(p)'
    BY <2>1 DEF WorkInv, WorkOf, NoDelta
  <2>3. QED
    BY <2>1, <2>2, WorkStep
<1>3. CASE Crash
  <2>1. ASSUME NEW p \in Requests
        PROVE  delta'[p] = NoDelta /\ pc'[p] \notin OneEntry \cup BothEntries
    BY <1>3 DEF Crash, Live, OneEntry, BothEntries
  <2>2. QED
    BY <2>1 DEF WorkInv, WorkOf, NoDelta
<1>4. CASE UNCHANGED <<pc, req, delta, lock, status, balance>>
  <2> HIDE DEF TypeInv
  <2> QED
    BY <1>4, WorkKept DEF WorkInv
<1>5. ASSUME NEW b \in Accounts, NEW s \in AccountStatus, SetAccountStatus(b, s)
      PROVE  WorkInv'
  <2>1. UNCHANGED <<pc, req, delta, lock, balance>>
    BY <1>5 DEF SetAccountStatus, callVars
  <2>2. \A p \in Requests, a \in Accounts : lock[a] = p => status'[a] = status[a]
    BY <1>5, BoundsAssumption DEF SetAccountStatus, RowTypes
  <2>3. QED
    <3> HIDE DEF TypeInv
    <3> QED
      BY <2>1, <2>2, WorkKept DEF WorkInv
<1>6. CASE (Environment /\ ~Crash /\ ~(\E a \in Accounts, s \in AccountStatus : SetAccountStatus(a, s)))
           \/ Terminating \/ UNCHANGED vars
  BY <1>4, <1>6 DEF Environment, Cancel, Expire, Terminating, vars, dbVars, txVars, callVars
<1>7. QED
  BY <1>1, <1>2, <1>3, <1>5, <1>6 DEF Next, Environment

-----------------------------------------------------------------------------
(***************************************************************************)
(* The steps of AtomicTransfer.                                            *)
(***************************************************************************)
\* A call works on a payload somebody sent.
PayloadInv == \A p \in Requests : Live(p) => req[p] \in Payloads

LEMMA PayloadNext == RowsInv /\ PayloadInv /\ [Next]_vars => PayloadInv'
<1> SUFFICES ASSUME RowsInv, PayloadInv, [Next]_vars PROVE PayloadInv'
  OBVIOUS
<1>1. ASSUME NEW p \in Requests, Progress(p) PROVE PayloadInv'
  BY <1>1, AnswerProgress DEF PayloadInv, Live, Others
<1>2. ASSUME NEW p \in Requests, NEW r \in Payloads, Receive(p, r) PROVE PayloadInv'
  BY <1>2 DEF Receive, Goto, PayloadInv, Live, RowsInv, TypeInv, TypeOK, CallTypes
<1>3. CASE Crash
  BY <1>3 DEF Crash, PayloadInv, Live
<1>4. CASE (Environment /\ ~Crash) \/ Terminating \/ UNCHANGED vars
  BY <1>4 DEF Environment, Cancel, Expire, SetAccountStatus, Terminating, vars, callVars,
              PayloadInv, Live
<1>5. QED
  BY <1>1, <1>2, <1>3, <1>4 DEF Next

LEMMA ValidNext == RowsInv /\ ValidInv /\ [Next]_vars => ValidInv'
<1> SUFFICES ASSUME RowsInv, ValidInv, [Next]_vars PROVE ValidInv'
  OBVIOUS
<1>1. ASSUME NEW p \in Requests, Progress(p) PROVE ValidInv'
  BY <1>1, AnswerProgress DEF ValidInv, Live, Others
<1>2. ASSUME NEW p \in Requests, NEW r \in Payloads, Receive(p, r) PROVE ValidInv'
  <2>1. \A q \in Requests \ {p} : req'[q] = req[q] /\ pc'[q] = pc[q]
    BY <1>2 DEF Receive, Goto, RowsInv, TypeInv, TypeOK, CallTypes
  <2>2. pc'[p] # "idle" /\ (pc'[p] # "done" => Valid(req'[p]))
    BY <1>2 DEF Receive, Goto, RowsInv, TypeInv, TypeOK, CallTypes
  <2>3. QED
    BY <2>1, <2>2 DEF ValidInv, Live, Valid
<1>3. CASE Crash
  BY <1>3 DEF Crash, ValidInv, Live
<1>4. CASE (Environment /\ ~Crash) \/ Terminating \/ UNCHANGED vars
  BY <1>4 DEF Environment, Cancel, Expire, SetAccountStatus, Terminating, vars, callVars,
              ValidInv, Live, Valid
<1>5. QED
  BY <1>1, <1>2, <1>3, <1>4 DEF Next

RefineInv ==
  /\ RowsInv /\ FundsInv /\ NoOverdraft /\ MakerInv
  /\ WorkInv /\ ValidInv /\ PayloadInv

LEMMA RefineInvariant == Spec => []RefineInv
<1>1. Init => FundsInv /\ NoOverdraft
  BY FundsInit
<1>2. Init => MakerInv /\ WorkInv /\ ValidInv /\ PayloadInv
  BY DEF Init, MakerInv, WorkInv, WorkOf, OneEntry, BothEntries, ValidInv, PayloadInv, Live
<1>3. Init /\ [][Next]_vars => []RefineInv
  <2>1. RowsInv => TypeInv
    BY DEF RowsInv
  <2>2. QED
    BY <1>1, <1>2, <2>1, RowsInvariant, FundsNext, MakerNext, WorkNext, ValidNext, PayloadNext,
       PTL
       DEF Spec, RefineInv
<1>4. QED
  BY <1>3 DEF Spec

\* The abstract state, as Transfer gives it.
LEMMA SameOrders ==
  ASSUME UNCHANGED <<req, maker>>
  PROVE  [k \in Keys |-> OrderOf(k)]' = [k \in Keys |-> OrderOf(k)]
BY DEF OrderOf

LEMMA AtomicInit == Init => Atomic!Init
<1> SUFFICES ASSUME Init PROVE Atomic!Init
  OBVIOUS
<1>1. [k \in Keys |-> OrderOf(k)] = [k \in Keys |-> NoReq]
  BY DEF Init, OrderOf
<1>2. [k \in Keys |-> OutcomeOf(k)] = [k \in Keys |-> "none"]
  BY DEF Init, OutcomeOf, NoRow
<1>3. QED
  BY <1>1, <1>2 DEF Init, Atomic!Init

\* A commit settles the order: it moves what both entries post, between rows that
\* are as they were when the transaction locked them.
LEMMA AtomicCommit ==
  ASSUME RefineInv, NEW p \in Requests, Commit(p), Committed(p),
         NEW k \in Keys, k = req[p].key
  PROVE  Atomic!Settle(k)
<1> DEFINE r == req[p]
<1> USE DEF RefineInv, RowsInv
<1>1. /\ pc[p] = "commit" /\ r \in Order
      /\ txStatus[k] = "PENDING" /\ txStatus'[k] = "SETTLED" /\ maker[k] = p
      /\ UNCHANGED <<req, maker, status>>
  BY CommitRow, Orders DEF Commit, FailTx, PostingInv, OwnerInv, Owning, Settling, InTx, dbVars
<1>2. r.from \in Accounts /\ r.to \in Accounts
  BY <1>1 DEF Order
<1>3. /\ Checked(p, r.from) /\ Checked(p, r.to) /\ delta[p] = BothChange(r)
      /\ Affords(Net(r), r.from) /\ Affords(Net(r), r.to)
  BY <1>1 DEF WorkInv, WorkOf, BothEntries, OneEntry
<1>4. r.from # r.to
  BY <1>1 DEF ValidInv, Live, Valid
<1>5. \A a \in Accounts : Atomic!Due(r, a) = balance[a] + Change(Net(r))[a]
  BY DEF Atomic!Due, Atomic!NetDelta, Atomic!DebitDelta, Atomic!CreditDelta, Atomic!DebitNormal,
         Atomic!CreditNormal, Change, Net, NetDelta, DebitDelta, CreditDelta, DebitNormal,
         CreditNormal
<1>6. [j \in Keys |-> OrderOf(j)][k] = r
  BY <1>1, BoundsAssumption DEF OrderOf
<1>7. \A a \in {r.from, r.to} : Atomic!Due(r, a) >= 0
  BY <1>2, <1>3, <1>5 DEF Affords
<1>8. ASSUME NEW a \in Accounts
      PROVE  balance[a] + delta[p][a] =
               IF a \in {r.from, r.to} THEN Stored(Atomic!Due(r, a))
               ELSE IF a = Clearing /\ HalfWay(r.amount) THEN balance[a] + Quantum
               ELSE balance[a]
  <2> DEFINE c == Change(Net(r))[a]
  <2>1. /\ c \in Int /\ Net(r) \in Entry
        /\ balance[a] \in Column /\ balance[a] \in Int /\ balance[a] >= 0
    BY <1>1, OrderEntries, EffectIs DEF FundsInv, WholeFunds, NoOverdraft, Column
  <2>2. delta[p][a] = IF a \in {r.from, r.to} THEN Stored(c) + KeptOf(c)
                      ELSE IF a = Clearing /\ HalfWay(r.amount) THEN Quantum ELSE 0
    BY <1>1, <1>3, <1>4, BothEffects
  <2>3. a \in {r.from, r.to} => Stored(balance[a] + c) = balance[a] + (Stored(c) + KeptOf(c))
    <3>1. a \in {r.from, r.to} => balance[a] + c >= 0
      BY <1>3 DEF Affords
    <3> HIDE DEF c
    <3> QED
      BY <2>1, <3>1, StoredChange
  <2>4. Atomic!Due(r, a) = balance[a] + c
    BY <1>5
  <2>5. CASE a \in {r.from, r.to}
    BY <2>2, <2>3, <2>4, <2>5
  <2>6. CASE a \notin {r.from, r.to}
    BY <2>1, <2>2, <2>6
  <2>7. QED
    BY <2>5, <2>6
<1>9. balance' = Atomic!Moved(r)
  <2>1. \A n : Atomic!Stored(n) = Stored(n) /\ (Atomic!HalfWay(n) <=> HalfWay(n))
    BY DEF Atomic!Stored, Stored, Atomic!HalfWay, HalfWay
  <2>2. Atomic!Moved(r) = [a \in Accounts |-> balance[a] + delta[p][a]]
    BY <1>8, <2>1 DEF Atomic!Moved
  <2>3. QED
    BY <2>2 DEF Committed
<1>10. [j \in Keys |-> OutcomeOf(j)]' = [[j \in Keys |-> OutcomeOf(j)] EXCEPT ![k] = "settled"]
  <2>1. \A j \in Keys \ {k} : txStatus'[j] = txStatus[j]
    BY DEF Committed, TypeInv, TypeOK, RowTypes
  <2>2. \A j \in Keys : OutcomeOf(j)' = IF j = k THEN "settled" ELSE OutcomeOf(j)
    BY <1>1, <2>1 DEF OutcomeOf, NoRow
  <2>3. QED
    BY <2>2
<1>11. [j \in Keys |-> OutcomeOf(j)][k] = "open"
  BY <1>1 DEF OutcomeOf, NoRow
<1>12. {r.from, r.to} \subseteq {a \in Accounts : status[a] = "ACTIVE"}
       /\ Currency[r.from] = r.currency /\ Currency[r.to] = r.currency
  BY <1>2, <1>3 DEF Checked
<1>13. [j \in Keys |-> OrderOf(j)]' = [j \in Keys |-> OrderOf(j)]
  BY <1>1, SameOrders
<1>14. {a \in Accounts : status[a] = "ACTIVE"}' = {a \in Accounts : status[a] = "ACTIVE"}
  BY <1>1
<1>15. QED
  BY <1>6, <1>7, <1>9, <1>10, <1>11, <1>12, <1>13, <1>14 DEF Atomic!Settle

\* An INSERT accepts the order of its call under a key nobody has used.
LEMMA AtomicInsert ==
  ASSUME RefineInv, NEW p \in Requests, CreateDest(p), Inserted(p),
         NEW k \in Keys, k = req[p].key, NEW r \in Payloads, r = req[p]
  PROVE  Atomic!Accept(k, r)
<1> USE DEF RefineInv, RowsInv, TypeInv, TypeOK, RowTypes
<1>1. txStatus[k] = NoRow /\ UNCHANGED <<balance, status, req>>
  BY DEF CreateDest, InsertInv
<1>2. /\ txStatus'[k] = "PENDING" /\ maker'[k] = p
      /\ \A j \in Keys \ {k} : txStatus'[j] = txStatus[j] /\ maker'[j] = maker[j]
  BY DEF Inserted
<1>3. \A j \in Keys : OrderOf(j)' = IF j = k THEN r ELSE OrderOf(j)
  BY <1>1, <1>2, BoundsAssumption DEF OrderOf
<1>4. \A j \in Keys : OutcomeOf(j)' = IF j = k THEN "open" ELSE OutcomeOf(j)
  BY <1>2 DEF OutcomeOf, NoRow
<1>5. OutcomeOf(k) = "none"
  BY <1>1 DEF OutcomeOf, NoRow
<1>6. [j \in Keys |-> OrderOf(j)]' = [[j \in Keys |-> OrderOf(j)] EXCEPT ![k] = r]
  BY <1>3
<1>7. [j \in Keys |-> OutcomeOf(j)]' = [[j \in Keys |-> OutcomeOf(j)] EXCEPT ![k] = "open"]
  BY <1>4
<1>8. QED
  BY <1>1, <1>5, <1>6, <1>7 DEF Atomic!Accept

\* FailTransaction fails an open order, and leaves a decided one alone.
LEMMA AtomicFail ==
  ASSUME RefineInv, NEW p \in Requests, pc[p] \in AfterCreate, RowFailed(p),
         UNCHANGED <<balance, status, maker, req>>,
         NEW k \in Keys, k = req[p].key
  PROVE  Atomic!Fail(k) \/ UNCHANGED Atomic!vars
<1> USE DEF RefineInv, RowsInv, TypeInv, TypeOK, RowTypes
<1>1. [j \in Keys |-> OrderOf(j)]' = [j \in Keys |-> OrderOf(j)]
  BY SameOrders
<1>2. \A j \in Keys \ {k} : txStatus'[j] = txStatus[j]
  BY DEF RowFailed
<1>3. CASE txStatus[k] \in {"PENDING", "PROCESSING"}
  <2>1. txStatus'[k] = "FAILED"
    BY <1>3 DEF RowFailed, FailedStatus
  <2>2. \A j \in Keys : OutcomeOf(j)' = IF j = k THEN "failed" ELSE OutcomeOf(j)
    BY <1>2, <2>1 DEF OutcomeOf, NoRow
  <2>3. OutcomeOf(k) = "open"
    BY <1>3 DEF OutcomeOf, NoRow
  <2>4. [j \in Keys |-> OutcomeOf(j)]' = [[j \in Keys |-> OutcomeOf(j)] EXCEPT ![k] = "failed"]
    BY <2>2
  <2>5. QED
    BY <1>1, <2>3, <2>4 DEF Atomic!Fail
<1>4. CASE txStatus[k] \notin {"PENDING", "PROCESSING"}
  <2>1. txStatus' = txStatus
    BY <1>4 DEF RowFailed, FailedStatus
  <2>2. [j \in Keys |-> OutcomeOf(j)]' = [j \in Keys |-> OutcomeOf(j)]
    BY <2>1 DEF OutcomeOf
  <2>3. QED
    BY <1>1, <2>2 DEF Atomic!vars
<1>5. QED
  BY <1>3, <1>4

\* A call that arrives has made no row.
LEMMA ReceiveKeepsOrders ==
  ASSUME RefineInv, NEW p \in Requests, NEW r \in Payloads, Receive(p, r)
  PROVE  [k \in Keys |-> OrderOf(k)]' = [k \in Keys |-> OrderOf(k)]
<1> USE DEF RefineInv, RowsInv
<1>1. \A k \in Keys : maker[k] # p
  BY BoundsAssumption DEF Receive, PostingInv, OwnerInv, MakerInv
<1>2. maker' = maker /\ \A q \in Requests : q # p => req'[q] = req[q]
  BY DEF Receive, dbVars, TypeInv, TypeOK, CallTypes
<1>3. \A k \in Keys : OrderOf(k)' = OrderOf(k)
  BY <1>1, <1>2 DEF OrderOf, TypeInv, TypeOK, RowTypes
<1>4. QED
  BY <1>3

\* A step that writes no row writes no balance, nor an account's status.
LEMMA QuietProgress ==
  ASSUME NEW p \in Requests, Progress(p)
  PROVE  \/ UNCHANGED dbVars
         \/ CreateDest(p) \/ Commit(p) \/ MarkFailed(p) \/ FailBegin(p)
<1>1. CASE \/ CacheLookup(p) \/ Claim(p) \/ Recheck(p)
           \/ LoadSource(p) \/ LoadDest(p) \/ LoadClearing(p)
           \/ Create(p) \/ LoadDuplicate(p) \/ Begin(p)
  BY <1>1 DEF CacheLookup, Claim, Recheck, LoadSource, LoadDest, LoadClearing, Create,
              LoadDuplicate, Begin
<1>2. CASE \/ \E a \in Accounts : LockRow(p, a)
           \/ DeadlockVictim(p) \/ PostEntry(p) \/ MarkProcessing(p) \/ MarkSettled(p)
           \/ StoreFailed(p) \/ StoreSettled(p) \/ Unlock(p)
  BY <1>2 DEF LockRow, DeadlockVictim, PostEntry, MarkProcessing, MarkSettled, UpdateStatusTx,
              StoreFailed, StoreSettled, Unlock
<1>3. QED
  BY <1>1, <1>2 DEF Progress

\* Balances and entries are written by commits, and by nothing else.
LEMMA MoneySteps ==
  ASSUME [Next]_vars
  PROVE  \/ UNCHANGED <<balance, journal>>
         \/ \E p \in Requests : Commit(p) /\ Committed(p)
<1>1. ASSUME NEW p \in Requests, Progress(p)
      PROVE  UNCHANGED <<balance, journal>> \/ (Commit(p) /\ Committed(p))
  BY <1>1, QuietProgress DEF dbVars, CreateDest, Commit, MarkFailed, FailBegin
<1>2. ASSUME NEW p \in Requests, NEW r \in Payloads, Receive(p, r)
      PROVE  UNCHANGED <<balance, journal>>
  BY <1>2 DEF Receive, dbVars
<1>3. CASE Environment \/ Terminating \/ UNCHANGED vars
  BY <1>3 DEF Environment, Terminating, Cancel, Crash, Expire, SetAccountStatus, vars, dbVars
<1>4. QED
  BY <1>1, <1>2, <1>3 DEF Next

LEMMA AtomicProgress ==
  ASSUME RefineInv, NEW p \in Requests, Progress(p)
  PROVE  Atomic!Next \/ UNCHANGED Atomic!vars
<1>1. Live(p) /\ req' = req /\ req[p].key \in Keys /\ req[p] \in Payloads
  BY AnswerProgress, Orders DEF RefineInv, RowsInv, PayloadInv, Live
<1>2. PICK k \in Keys, r \in Payloads : k = req[p].key /\ r = req[p]
  BY <1>1
<1>3. CASE UNCHANGED dbVars
  <2>1. [j \in Keys |-> OrderOf(j)]' = [j \in Keys |-> OrderOf(j)]
    BY <1>1, <1>3, SameOrders DEF dbVars
  <2>2. [j \in Keys |-> OutcomeOf(j)]' = [j \in Keys |-> OutcomeOf(j)]
    BY <1>3 DEF OutcomeOf, dbVars
  <2>3. QED
    BY <1>3, <2>1, <2>2 DEF Atomic!vars, dbVars
<1>4. CASE CreateDest(p) /\ Inserted(p)
  BY <1>2, <1>4, AtomicInsert DEF Atomic!Next
<1>5. CASE Commit(p) /\ Committed(p)
  BY <1>2, <1>5, AtomicCommit DEF Atomic!Next
<1>6. CASE (MarkFailed(p) \/ FailBegin(p)) /\ RowFailed(p)
  <2>1. pc[p] \in AfterCreate /\ UNCHANGED <<balance, status, maker, req>>
    BY <1>6 DEF MarkFailed, FailBegin, AfterCreate
  <2>2. QED
    BY <1>2, <1>6, <2>1, AtomicFail DEF Atomic!Next
<1>7. UNCHANGED dbVars \/ (CreateDest(p) /\ Inserted(p)) \/ (Commit(p) /\ Committed(p))
      \/ ((MarkFailed(p) \/ FailBegin(p)) /\ RowFailed(p))
  BY QuietProgress DEF CreateDest, Commit, MarkFailed, FailBegin, dbVars
<1>8. QED
  BY <1>3, <1>4, <1>5, <1>6, <1>7

\* A transfer is one step: whatever calls, failures, crashes and status changes do
\* in between, each key is accepted once and decided once, and what settles moves
\* its amount once, between ACTIVE accounts of its currency, and overdraws neither.
THEOREM TransfersAreAtomic == Spec => ImplementsAtomic
<1>1. RefineInv /\ [Next]_vars => [Atomic!Next]_(Atomic!vars)
  <2>1. SUFFICES ASSUME RefineInv, [Next]_vars
                 PROVE  Atomic!Next \/ UNCHANGED Atomic!vars
    OBVIOUS
  <2>2. ASSUME NEW p \in Requests, NEW r \in Payloads, Receive(p, r)
        PROVE  UNCHANGED Atomic!vars
    <3>1. [k \in Keys |-> OrderOf(k)]' = [k \in Keys |-> OrderOf(k)]
      BY <2>1, <2>2, ReceiveKeepsOrders
    <3>2. UNCHANGED <<balance, status, txStatus>>
      BY <2>2 DEF Receive, dbVars
    <3>3. [k \in Keys |-> OutcomeOf(k)]' = [k \in Keys |-> OutcomeOf(k)]
      BY <3>2 DEF OutcomeOf
    <3>4. QED
      BY <3>1, <3>2, <3>3 DEF Atomic!vars
  <2>3. ASSUME NEW a \in Accounts, NEW s \in AccountStatus, SetAccountStatus(a, s)
        PROVE  Atomic!Next
    <3>1. UNCHANGED <<balance, txStatus, maker, req>>
      BY <2>3 DEF SetAccountStatus, callVars
    <3>2. [k \in Keys |-> OrderOf(k)]' = [k \in Keys |-> OrderOf(k)]
      BY <3>1, SameOrders
    <3>3. [k \in Keys |-> OutcomeOf(k)]' = [k \in Keys |-> OutcomeOf(k)]
      BY <3>1 DEF OutcomeOf
    <3>4. {b \in Accounts : status[b] = "ACTIVE"}' \in SUBSET Accounts
      OBVIOUS
    <3>5. QED
      BY <3>1, <3>2, <3>3, <3>4 DEF Atomic!Next, Atomic!ChangeStatus
  <2>4. CASE UNCHANGED <<dbVars, req>>
    <3>1. [k \in Keys |-> OrderOf(k)]' = [k \in Keys |-> OrderOf(k)]
      BY <2>4, SameOrders DEF dbVars
    <3>2. [k \in Keys |-> OutcomeOf(k)]' = [k \in Keys |-> OutcomeOf(k)]
      BY <2>4 DEF OutcomeOf, dbVars
    <3>3. QED
      BY <2>4, <3>1, <3>2 DEF Atomic!vars, dbVars
  <2>5. CASE (\E p \in Requests : Cancel(p)) \/ Crash \/ (\E k \in Keys : Expire(k))
             \/ Terminating \/ UNCHANGED vars
    BY <2>4, <2>5 DEF Cancel, Crash, Expire, Terminating, vars, callVars
  <2>6. QED
    BY <2>1, <2>2, <2>3, <2>5, AtomicProgress DEF Next, Environment
<1>2. QED
  BY <1>1, AtomicInit, RefineInvariant, PTL DEF Spec, ImplementsAtomic, Atomic!Spec
=============================================================================
