------------------------------ MODULE MCQuotes ------------------------------
(***************************************************************************)
(* A small instance of Quotes for TLC.  Seconds are scaled down: a margin  *)
(* of one, a clock that may be one off, observations that may be two.      *)
(***************************************************************************)
EXTENDS Quotes, TLC

\* One settlement the contract takes, and some for each rule it refuses one by.
AllTerms ==
  [price : {0, 1, 2, 5}, bond_bps : {5000}, service_window : {1}, payout_delay : {1}]
    \cup [price : {2}, bond_bps : {5000}, service_window : {0, 1, 5}, payout_delay : {1, 5}]
    \cup [price : {2}, bond_bps : {10001}, service_window : {4}, payout_delay : {4}]

\* One profile settles at each of these while the others refuse; or all settle, one of them at
\* terms whose product is too wide for the contract.
Fine == [price |-> 2, bond_bps |-> 5000, service_window |-> 1, payout_delay |-> 1]
Wide == [Fine EXCEPT !.price = 5]
SomeOffers ==
  {[agreed \in {chosen} |-> terms] : chosen \in Profiles, terms \in AllTerms}
    \cup {[agreed \in Profiles |-> IF agreed = chosen THEN terms ELSE Fine] :
            chosen \in Profiles, terms \in {Fine, Wide}}

FewSkews == {-1, 1}
AnyName == Permutations(Processes) \cup Permutations(Requests) \cup Permutations(Profiles)
=============================================================================
