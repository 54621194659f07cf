----------------------------- MODULE MCTxLedger -----------------------------
(***************************************************************************)
(* Small instances of the ledger for TLC: a wallet that creates a deal and *)
(* takes one deal action, and the commands that run at the same time.      *)
(***************************************************************************)
EXTENDS TxLedger, TLC

CONSTANTS create, deliver, p, q

AnyCommand == Permutations(Commands)
=============================================================================
