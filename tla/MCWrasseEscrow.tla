--------------------------- MODULE MCWrasseEscrow ---------------------------
(***************************************************************************)
(* Small instances of the escrow for TLC: a wallet and a contract that can *)
(* re-enter, each of them buyer and provider in turn.                      *)
(***************************************************************************)
EXTENDS WrasseEscrow

CONSTANTS w, k

AllAccounts == {w, k}
OnlyContract == {k}
=============================================================================
