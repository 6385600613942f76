---------------------------- MODULE AccountTable ----------------------------
(***************************************************************************)
(* The accounts table as the account service, the seed program and the     *)
(* ledger share it: its committed rows, the row locks of open              *)
(* transactions, and the failures of a round trip.                         *)
(***************************************************************************)
EXTENDS Postings, Sequences, FiniteSetsExt, Functions

CONSTANTS
  Ids,          \* account ids; ORDER BY id is the order of the naturals
  InitAccounts, \* the rows there are at the start
  ChartIds,     \* the ids of the chart of accounts the seed program inserts
  Currencies,   \* currency codes the service knows
  Posters,      \* the calls of PostJournalEntry, which lock rows
  FaultKinds,   \* the kinds of failure that may happen
  MaxFaults,    \* bound on the number of failures
  None          \* not a poster

AccountStatus == {"ACTIVE", "FROZEN", "CLOSED"}

Account == [type : AccountTypes, currency : Currencies, status : AccountStatus,
            balance : Int, version : Nat]

ASSUME TableAssumption ==
  /\ Ids \subseteq Nat
  /\ DOMAIN InitAccounts \cup ChartIds \subseteq Ids
  /\ InitAccounts \in [DOMAIN InitAccounts -> Account]
  /\ \A a \in DOMAIN InitAccounts : Whole(InitAccounts[a].balance)
  /\ FaultKinds \subseteq {"db", "lostAck"}
  /\ MaxFaults \in Nat
  /\ None \notin Posters

VARIABLES
  account,  \* committed rows by id
  rowLock,  \* the poster that holds the row lock of an account
  faults

tableVars == <<account, rowLock>>

TableTypes ==
  /\ DOMAIN account \subseteq Ids
  /\ account \in [DOMAIN account -> Account]
  /\ rowLock \in [Ids -> Posters \cup {None}]
  /\ faults \in 0..MaxFaults

TableInit ==
  /\ account = InitAccounts
  /\ rowLock = [a \in Ids |-> None]
  /\ faults = 0

Exists(a) == a \in DOMAIN account

\* The row an INSERT makes when it names no balance.
NewAccount(type, currency) ==
  [type |-> type, currency |-> currency, status |-> "ACTIVE",
   balance |-> 0, version |-> 0]

\* The committed rows with others added.
WithRows(rows) ==
  [a \in DOMAIN account \cup DOMAIN rows |->
     IF Exists(a) THEN account[a] ELSE rows[a]]

\* A round trip succeeds, or fails at the expense of one failure: before it took
\* effect ("db") or after ("lostAck").
Succeeds == UNCHANGED faults

Fault(kind) ==
  /\ kind \in FaultKinds
  /\ faults < MaxFaults
  /\ faults' = faults + 1
=============================================================================
