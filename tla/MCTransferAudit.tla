-------------------------- MODULE MCTransferAudit --------------------------
(***************************************************************************)
(* Small instances of TransferAudit for TLC, over the accounts and bodies  *)
(* of MCTransfer.                                                          *)
(***************************************************************************)
EXTENDS MCTransfer, TransferAudit

\* Two transfers over the same accounts, one each way.
BothWays == {Pay("k1", 1, 3, 8), Pay("k2", 3, 1, 8)}
=============================================================================
