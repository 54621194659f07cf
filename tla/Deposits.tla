------------------------------ MODULE Deposits ------------------------------
(***************************************************************************)
(* What survives a restart of the hosted service: the deals on the chain,  *)
(* the ledger rows of the transactions that create them, and the index of  *)
(* liabilities that leads back to them (wrasse/liabilities.py).            *)
(*                                                                         *)
(* A settlement opens at most one deal, so a deal, its creating            *)
(* transaction and its liability are all named by the run.  The two        *)
(* wallets are shared by every session; what the escrow has credited to a  *)
(* wallet is kept only as whether there is any.                            *)
(***************************************************************************)
EXTENDS Naturals, FiniteSets

CONSTANTS
  Runs,    \* the runs, numbered in the order they are submitted
  Nobody   \* no session, or no run

VARIABLES
  liability, \* the row of open_deals kept for a run's creation, if there is one
  creation,  \* the ledger row of the run's createDeal
  deal,      \* the state of the deal on the chain
  credit,    \* whether withdrawable is non-zero for a role's wallet
  collecting \* whether a withdrawal of that wallet is included but not yet confirmed

durable == <<liability, creation, deal, credit, collecting>>

Roles == {"buyer", "provider"}
Live == {"Offered", "Accepted", "Delivered"}
NoLiability == [known |-> "nothing", session |-> Nobody]

DurableInit ==
  /\ liability = [r \in Runs |-> NoLiability]
  /\ creation = [r \in Runs |-> "none"]
  /\ deal = [r \in Runs |-> "none"]
  /\ credit = [role \in Roles |-> FALSE]
  /\ collecting = [role \in Roles |-> FALSE]

-----------------------------------------------------------------------------
\* The operations of liabilities.py, each a transaction of its own.
\* known: "intent" before anything is signed, "hash" once there is a transaction hash,
\* "deal" once the deal id is known.
open_intent(r, session) ==
  liability' = [liability EXCEPT ![r] = [known |-> "intent", session |-> session]]

\* Updates a row that is there and never clears what is known.
attach(r, known) ==
  liability' = [liability EXCEPT ![r] = IF @ = NoLiability THEN @ ELSE [@ EXCEPT !.known = known]]

close(r) == liability' = [liability EXCEPT ![r] = NoLiability]

open_deals(session) == {r \in Runs : liability[r].known = "deal" /\ liability[r].session = session}
all_open_deals == {r \in Runs : liability[r].known = "deal"}
Unnamed == {r \in Runs : liability[r].known \in {"intent", "hash"}}

-----------------------------------------------------------------------------
\* Transactions.  A creation in flight holds the buyer's nonce until it lands.
InFlight == {r \in Runs : creation[r] = "pending"}

\* A creation that was sent is mined, and opens the deal or reverts.
Land(r) ==
  /\ creation[r] = "pending"
  /\ \/ creation' = [creation EXCEPT ![r] = "included"] /\ deal' = [deal EXCEPT ![r] = "Offered"]
     \/ creation' = [creation EXCEPT ![r] = "reverted"] /\ UNCHANGED deal
  /\ UNCHANGED <<liability, credit, collecting>>

\* An included withdrawal passes the safe head and tx-resolve confirms it.
WithdrawalConfirmed(role) ==
  /\ collecting[role]
  /\ collecting' = [collecting EXCEPT ![role] = FALSE]
  /\ UNCHANGED <<liability, creation, deal, credit>>

\* A lifecycle transaction takes effect; a terminal one credits one of the wallets.
Moves(r, to) == deal' = [deal EXCEPT ![r] = to] /\ UNCHANGED credit
Ends(r, role) ==
  /\ deal' = [deal EXCEPT ![r] = "Closed"]
  /\ credit' = [credit EXCEPT ![role] = TRUE]

\* withdraw: a row of the same wallet and recipient that is not terminal is found and
\* reported as already sent, so nothing new is signed; any other withdrawal takes all.
Withdraw(role) ==
  \/ /\ collecting[role]
     /\ UNCHANGED <<credit, collecting>>
  \/ /\ credit[role]
     /\ credit' = [credit EXCEPT ![role] = FALSE]
     /\ collecting' = [collecting EXCEPT ![role] = TRUE]
=============================================================================
