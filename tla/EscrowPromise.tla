--------------------------- MODULE EscrowPromise ---------------------------
(***************************************************************************)
(* What the escrow promises its users, transaction by transaction.  A deal *)
(* collects deposits while it is open.  It closes once, and its whole pot  *)
(* becomes the credit of one of its two parties.  An account's credit only *)
(* ever leaves as a whole, in a collection by that account.                *)
(***************************************************************************)
EXTENDS Integers

CONSTANTS Deals, Accounts

VARIABLES stage,    \* unused, open or closed, for each deal
          parties,  \* the accounts a deal may pay
          pot,      \* what a deal holds
          credit    \* what an account may collect

vars == <<stage, parties, pot, credit>>

Init ==
  /\ stage = [d \in Deals |-> "unused"]
  /\ parties = [d \in Deals |-> {}]
  /\ pot = [d \in Deals |-> 0]
  /\ credit = [a \in Accounts |-> 0]

\* Deposits open unused deals, or add to the pots of open ones, and leave every
\* deal that was open with its parties.
Deposits ==
  \A d \in Deals :
    \/ UNCHANGED <<stage[d], parties[d], pot[d]>>
    \/ /\ stage[d] = "unused"
       /\ stage'[d] = "open"
       /\ parties'[d] \subseteq Accounts
       /\ pot'[d] > 0
    \/ /\ stage[d] = "open"
       /\ stage'[d] = "open"
       /\ pot'[d] >= pot[d]
       /\ UNCHANGED parties[d]

\* Deposits alone.
Deposit == Deposits /\ UNCHANGED credit

\* Deal d pays its whole pot to its party a, and closes.
Settle(d, a) ==
  /\ stage[d] = "open"
  /\ a \in parties[d]
  /\ stage' = [stage EXCEPT ![d] = "closed"]
  /\ pot' = [pot EXCEPT ![d] = 0]
  /\ credit' = [credit EXCEPT ![a] = @ + pot[d]]
  /\ UNCHANGED parties

\* Account a collects its credit; the code it pays may make deposits meanwhile.
Collect(a) ==
  /\ credit[a] > 0
  /\ credit' = [credit EXCEPT ![a] = 0]
  /\ Deposits

Next ==
  \/ Deposit
  \/ \E d \in Deals, a \in Accounts : Settle(d, a)
  \/ \E a \in Accounts : Collect(a)

Spec == Init /\ [][Next]_vars
=============================================================================
