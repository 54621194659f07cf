--------------------------- MODULE LedgerPromise ---------------------------
(***************************************************************************)
(* What the ledger promises whoever asks it for an action.  An identity is *)
(* an attempt at an action.  Its fate is decided by the chain, once: its   *)
(* transaction succeeded, reverted, or lost its place to another.  What    *)
(* the ledger reports as final is that fate, and a further attempt begins  *)
(* only when every earlier one is reported reverted.  So an action         *)
(* succeeds at most once, and no report is ever taken back.                *)
(***************************************************************************)
EXTENDS Naturals

CONSTANT Identities   \* pairs of an action and the number of the attempt

VARIABLES fate,  \* unused, open, or how it was decided
          told   \* nothing, or the fate that was reported

vars == <<fate, told>>

Earlier(i) == {j \in Identities : j[1] = i[1] /\ j[2] < i[2]}
Open == {i \in Identities : fate[i] = "open"}

Init ==
  /\ fate = [i \in Identities |-> "unused"]
  /\ told = [i \in Identities |-> "nothing"]

\* An attempt begins.
Begin(i) ==
  /\ fate[i] = "unused"
  /\ \A j \in Earlier(i) : told[j] = "reverted"
  /\ fate' = [fate EXCEPT ![i] = "open"]
  /\ UNCHANGED told

\* A block becomes final: the attempt it carries is over, if it carries one, and so are those
\* that waited for its place.
Decide(carried, outcome, losers) ==
  /\ fate' = [i \in Identities |-> IF i \in carried THEN outcome
                                   ELSE IF i \in losers THEN "lost" ELSE fate[i]]
  /\ UNCHANGED told

\* The ledger reports how an attempt was decided.
Tell(i) ==
  /\ told[i] = "nothing" /\ fate[i] \in {"succeeded", "reverted", "lost"}
  /\ told' = [told EXCEPT ![i] = fate[i]]
  /\ UNCHANGED fate

Next ==
  \/ \E i \in Identities : Begin(i) \/ Tell(i)
  \/ \E carried \in {{}} \cup {{i} : i \in Open}, outcome \in {"succeeded", "reverted"},
        losers \in SUBSET Open : Decide(carried, outcome, losers)

Spec == Init /\ [][Next]_vars
=============================================================================
