---------------------------- MODULE AtomicNetting ----------------------------
(***************************************************************************)
(* What daily netting promises, with no clock, row lock, query or failure: *)
(* a batch takes settled transfers out of the settled ones in a single     *)
(* step, and each run makes one batch at most. So a transfer is netted     *)
(* once, and for good.                                                     *)
(***************************************************************************)
CONSTANTS
  Transfers,  \* the transfers
  Runs        \* the netting runs

VARIABLES
  stage,  \* "open", "settled" or "netted", per transfer
  batch   \* the transfers each run has netted

vars == <<stage, batch>>

Init ==
  /\ stage = [t \in Transfers |-> "open"]
  /\ batch = [r \in Runs |-> {}]

Settle(t) ==
  /\ stage[t] = "open"
  /\ stage' = [stage EXCEPT ![t] = "settled"]
  /\ UNCHANGED batch

Net(r, B) ==
  /\ batch[r] = {}
  /\ \A t \in B : stage[t] = "settled"
  /\ stage' = [t \in Transfers |-> IF t \in B THEN "netted" ELSE stage[t]]
  /\ batch' = [batch EXCEPT ![r] = B]

Next ==
  \/ \E t \in Transfers : Settle(t)
  \/ \E r \in Runs, B \in SUBSET Transfers : Net(r, B)

Spec == Init /\ [][Next]_vars
=============================================================================
