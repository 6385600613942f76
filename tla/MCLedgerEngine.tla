--------------------------- MODULE MCLedgerEngine ---------------------------
(***************************************************************************)
(* Small instances of LedgerEngine for TLC. Accounts 1 and 2 are the chart *)
(* the seed program inserts, 3 and 4 are customers that are there, and 5   *)
(* and 6 are ids that may be created.                                      *)
(***************************************************************************)
EXTENDS LedgerEngine

Customer(type, currency, n) ==
  [type |-> type, currency |-> currency, status |-> "ACTIVE", balance |-> n,
   version |-> 0]

MCInit(n) == [a \in {3, 4} |-> IF a = 3 THEN Customer("LIABILITY", "GHS", n)
                               ELSE Customer("ASSET", "GHS", n)]
MCIds        == 1..6
MCAccounts   == MCInit(2)
MCChartIds   == {1, 2}
MCChart      == <<[id |-> 2, type |-> "LIABILITY", currency |-> "GHS", parent |-> 1],
                  [id |-> 1, type |-> "LIABILITY", currency |-> "GHS", parent |-> 0]>>
MCCurrencies == {"GHS", "USD"}

Update(a, to) == [op |-> "update", id |-> a, to |-> to]
Create == [op |-> "create", named |-> TRUE, type |-> "LIABILITY", currency |-> "USD"]
MCRequests   == {Update(3, "CLOSED"), Update(3, "FROZEN"), Update(3, "GONE"),
                 Update(1, "FROZEN"), Create}
ChartRequests == {Update(2, to) : to \in {"FROZEN", "CLOSED", "ACTIVE"}}

L(a, type, n) == [account |-> a, type |-> type, amount |-> n]
Timed(time, lines) == [header |-> TRUE, currency |-> "GHS", status |-> "POSTED",
                       postedAt |-> time, lines |-> lines]
Entry(lines) == Timed(ZeroTime, lines)

Halved == Entry(<<L(3, "DEBIT", 1), L(3, "DEBIT", 1), L(4, "CREDIT", 2)>>)

\* One unit is half of the smallest amount a column holds. What the customers' account
\* types allow: money out, once at a time of its own and once in halves, and in by an
\* entry of three lines; and entries that are turned away, for an account that is not
\* there, for their sum, their sign and for having no lines.
ThreeLines == Entry(<<L(3, "DEBIT", 2), L(3, "CREDIT", 4), L(4, "DEBIT", 2)>>)
MCEntries == {Entry(<<L(3, "DEBIT", 2), L(4, "CREDIT", 2)>>),
              Timed(1, <<L(3, "DEBIT", 4), L(4, "CREDIT", 4)>>),
              ThreeLines, Halved,
              Entry(<<L(2, "CREDIT", 2), L(4, "DEBIT", 2)>>),
              Entry(<<L(4, "DEBIT", 2), L(3, "CREDIT", 4)>>),
              Entry(<<L(3, "DEBIT", -2), L(4, "CREDIT", -2)>>),
              Entry(<< >>)}
ChartEntries == {Entry(<<L(2, "CREDIT", 2), L(2, "CREDIT", 2), L(4, "DEBIT", 4)>>)}

\* Two LIABILITY customers with one stored unit each, and an entry of half of it.
Halves      == [a \in {3, 4} |-> Customer("LIABILITY", "GHS", 2)]
HalfEntries == {Entry(<<L(3, "DEBIT", 1), L(4, "CREDIT", 1)>>),
                Entry(<<L(4, "DEBIT", 2), L(3, "CREDIT", 2)>>)}
NoRequests  == {}

\* Two half debits and a whole credit.
HalfDebits == {Halved}

\* Clients who change one customer.
Changes == {Update(3, to) : to \in {"FROZEN", "CLOSED", "ACTIVE"}}

\* A client who freezes a customer and one who closes it.
FreezeOrClose == {Update(3, "FROZEN"), Update(3, "CLOSED")}

(***************************************************************************)
(* What the repository's documents and tests say, for the runs that show   *)
(* otherwise.                                                              *)
(***************************************************************************)
\* internal/transaction/stress_test.go:24: no money is created between customers.
NoMoneyCreated ==
  MapThenSumSet(LAMBDA a : account[a].balance, {3, 4})
    = MapThenSumSet(LAMBDA a : InitAccounts[a].balance, {3, 4})
=============================================================================
