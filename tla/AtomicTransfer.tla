--------------------------- MODULE AtomicTransfer ---------------------------
(***************************************************************************)
(* What the transfer service promises, with no database transaction, lock, *)
(* cache or failure in sight. Each idempotency key is accepted at most     *)
(* once, with one order; an accepted order is decided at most once; a      *)
(* settled one moved its amount in a single step between two ACTIVE        *)
(* accounts of the order's currency and overdrew neither. Balances are     *)
(* stored rounded, and all that a settled order ever leaves on a third     *)
(* account is one unit of a half-way amount, on the clearing account.      *)
(***************************************************************************)
EXTENDS Postings

CONSTANTS
  Keys,         \* idempotency keys
  Accounts,     \* account ids
  Clearing,     \* the account that transfers pass through
  AccountType,  \* the type of each account
  Currency,     \* the currency of each account
  InitFunds,    \* the balances at the start
  Orders,       \* the orders a caller may place: [from, to, amount, currency]
  NoOrder       \* the order of a key nobody has used

VARIABLES
  funds,    \* the balance of each account
  active,   \* the accounts whose status is ACTIVE
  order,    \* the order accepted under each key
  outcome   \* "none", "open", "settled" or "failed", per key

vars == <<funds, active, order, outcome>>

Init ==
  /\ funds = InitFunds
  /\ active \in SUBSET Accounts
  /\ order = [k \in Keys |-> NoOrder]
  /\ outcome = [k \in Keys |-> "none"]

\* A balance when the source of o is debited and its destination credited, and what
\* is stored.
Due(o, a) ==
  funds[a] + NetDelta([dr |-> o.from, cr |-> o.to, amount |-> o.amount],
                      a, AccountType[a])

Moved(o) ==
  [a \in Accounts |->
     IF a \in {o.from, o.to} THEN Stored(Due(o, a))
     ELSE IF a = Clearing /\ HalfWay(o.amount) THEN funds[a] + Quantum
     ELSE funds[a]]

Accept(k, o) ==
  /\ outcome[k] = "none"
  /\ order' = [order EXCEPT ![k] = o]
  /\ outcome' = [outcome EXCEPT ![k] = "open"]
  /\ UNCHANGED <<funds, active>>

Settle(k) ==
  LET o == order[k]
  IN  /\ outcome[k] = "open"
      /\ {o.from, o.to} \subseteq active
      /\ Currency[o.from] = o.currency /\ Currency[o.to] = o.currency
      /\ \A a \in {o.from, o.to} : Due(o, a) >= 0
      /\ funds' = Moved(o)
      /\ outcome' = [outcome EXCEPT ![k] = "settled"]
      /\ UNCHANGED <<active, order>>

Fail(k) ==
  /\ outcome[k] = "open"
  /\ outcome' = [outcome EXCEPT ![k] = "failed"]
  /\ UNCHANGED <<funds, active, order>>

\* Accounts are frozen, closed and reopened by others.
ChangeStatus ==
  /\ active' \in SUBSET Accounts
  /\ UNCHANGED <<funds, order, outcome>>

Next ==
  \/ \E k \in Keys : Settle(k) \/ Fail(k) \/ \E o \in Orders : Accept(k, o)
  \/ ChangeStatus

Spec == Init /\ [][Next]_vars
=============================================================================
