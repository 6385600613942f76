------------------------------ MODULE Postings ------------------------------
(***************************************************************************)
(* How a journal entry line moves the stored balance of its account.       *)
(* accounts.balance is kept in the account's normal direction: a debit     *)
(* raises an ASSET or EXPENSE balance and lowers every other, a credit     *)
(* raises a LIABILITY, EQUITY or INCOME balance and lowers every other.    *)
(*                                                                         *)
(* Amounts are integers in a unit finer than the columns, which hold       *)
(* multiples of Quantum: the code computes with decimals of any precision, *)
(* and the database rounds what it stores.                                 *)
(***************************************************************************)
EXTENDS Integers

CONSTANT Quantum  \* the units in 0.0001, the smallest amount a column holds

ASSUME QuantumAssumption == Quantum \in Nat \ {0}

\* What NUMERIC(18, 4) keeps of n: it rounds half away from zero.
Stored(n) ==
  LET size == IF n < 0 THEN -n ELSE n
      kept == ((2 * size + Quantum) \div (2 * Quantum)) * Quantum
  IN  IF n < 0 THEN -kept ELSE kept

\* n is what a column can hold, or lies in the middle between two such amounts.
Whole(n)   == n % Quantum = 0
HalfWay(n) == 2 * (n % Quantum) = Quantum

DebitNormal  == {"ASSET", "EXPENSE"}
CreditNormal == {"LIABILITY", "EQUITY", "INCOME"}
AccountTypes == DebitNormal \cup CreditNormal

\* The two halves of the switch in computeNetDeltas.
DebitDelta(type, n)  == IF type \in DebitNormal  THEN n ELSE -n
CreditDelta(type, n) == IF type \in CreditNormal THEN n ELSE -n

\* Net change of account a, of the given type, by the two-line entry e that
\* debits e.dr and credits e.cr. The two lines may name the same account.
NetDelta(e, a, type) == (IF a = e.dr THEN DebitDelta(type, e.amount)  ELSE 0)
                      + (IF a = e.cr THEN CreditDelta(type, e.amount) ELSE 0)
=============================================================================
