----------------------------- MODULE MCMemories -----------------------------
(***************************************************************************)
(* Two processes, and a receipt of each of two kinds, for TLC.             *)
(***************************************************************************)
EXTENDS Memories, TLC

CONSTANTS timed_out, released

TwoTypes == (timed_out :> "timeout_claimed_without_delivery")
              @@ (released :> "delivered_and_released_by_buyer")
Symmetry == Permutations(Procs) \cup Permutations(DimensionIds)
=============================================================================
