------------------------------ MODULE MCNetting ------------------------------
(***************************************************************************)
(* Small instances of Netting for TLC: three transfers, two of them        *)
(* opposed on one pair of accounts, and runs that may overlap in their     *)
(* rows because one has a currency filter and the other none.              *)
(***************************************************************************)
EXTENDS Netting

Flow(f, t, n, c) == [from |-> f, to |-> t, amount |-> n, currency |-> c]

MCTransfers  == {1, 2, 3}
MCBody       == <<Flow(1, 2, 3, "GHS"), Flow(2, 1, 5, "GHS"), Flow(1, 2, 3, "USD")>>
MCAccounts   == {1, 2}
MCCurrencies == {"GHS", "USD"}

\* Two days of 24 hours, and instants in and at the border of both.
MCDays     == {1, 2}
MCMidnight == <<0, 24>>
MCInstants == {23, 24}
MCJobs     == {[day |-> 1, currency |-> AllCurrencies],
               [day |-> 1, currency |-> "GHS"],
               [day |-> 2, currency |-> AllCurrencies]}

\* The clocks go forward during the first day, which has 23 hours.
ShortMidnight == <<0, 23>>
=============================================================================
