------------------------------- MODULE Money -------------------------------
(***************************************************************************)
(* Sums of amounts of wei.  A total over a finite set of holders is the    *)
(* number of wei held, each wei being a pair of its holder and a serial    *)
(* number.  Counting makes a total of any finite set provable by the       *)
(* library's facts about cardinality, without recursion.                   *)
(***************************************************************************)
EXTENDS Integers, FiniteSets

\* The wei that holder i has when it holds amount[i].
Wei(amount, i) == {i} \X (1 .. amount[i])

\* All the wei the holders in S have.
Purse(amount, S) == UNION {Wei(amount, i) : i \in S}

\* The sum of amount[i] over the holders i in S.
Total(amount, S) == Cardinality(Purse(amount, S))
=============================================================================
