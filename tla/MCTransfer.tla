----------------------------- MODULE MCTransfer -----------------------------
(***************************************************************************)
(* Small instances of Transfer for TLC. Account 2 is the clearing account  *)
(* unless a configuration says otherwise, so that its row comes between    *)
(* the two customers' in lock order. Amounts are in quarters of what a     *)
(* column holds, so that a fraction of it may be less than a half, a half, *)
(* and more.                                                               *)
(***************************************************************************)
EXTENDS TransferApi, TLC

Pay(k, f, t, n) == [key |-> k, from |-> f, to |-> t, amount |-> n,
                    currency |-> "GHS"]

\* Calls differ by nothing but the requests they serve.
Interchangeable == Permutations(Requests)

MCAccounts == {1, 2, 3}
MCType     == [a \in Accounts |-> "LIABILITY"]
MCCurrency == [a \in Accounts |-> "GHS"]
MCBalance  == [a \in Accounts |-> IF a = Clearing THEN 0 ELSE 8]
MCStatus   == [a \in Accounts |-> "ACTIVE"]

\* One key, so that every call is a retry of the others.
OneKey == {"k1"}
OneTransfer == {Pay("k1", 1, 3, 8)}

\* The same key with another body, of an amount that no column can hold.
OrTooSmall == OneTransfer \cup {Pay("k1", 1, 3, 1)}

\* Three calls, each with a key of its own, that compete for the same funds; the
\* amounts of the last two are rounded.
ThreeKeys == {"k1", "k2", "k3"}
Contended == {Pay("k1", 1, 3, 8), Pay("k2", 1, 3, 6), Pay("k3", 3, 1, 3)}

\* A customer who pays in amounts that are rounded.
Roundable == {Pay("k1", 1, 3, 2), Pay("k2", 1, 3, 1)}

\* Two customers who pay each other.
Opposed == {Pay("k1", 1, 3, 4), Pay("k2", 3, 1, 4)}

TwoKeys == {"k1", "k2"}

\* A chart whose clearing account comes first in lock order, with an asset, a
\* foreign-currency and an unknown account, and bodies that every check of the
\* service turns away as well as ones it lets through.
MixedAccounts == {1, 2, 3, 4, 5}
MixedType     == [a \in Accounts |-> IF a = 3 THEN "ASSET" ELSE "LIABILITY"]
MixedCurrency == [a \in Accounts |-> IF a = 4 THEN "USD" ELSE "GHS"]
MixedBalance  == [a \in Accounts |-> CASE a = 2 -> 12 [] a = 3 -> 4 [] OTHER -> 0]
MixedStatus   == [a \in Accounts |-> IF a = 5 THEN NoRow ELSE "ACTIVE"]
MixedTransfers == {Pay("k1", 2, 3, 6), Pay("k2", 2, 3, 5), Pay("k2", 3, 2, 2),
                   Pay("k1", 2, 2, 4), Pay("k1", 2, 4, 4), Pay("k1", 2, 5, 4),
                   Pay("k1", 5, 2, 4), Pay("k1", 2, 3, 0)}
=============================================================================
