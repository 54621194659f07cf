--------------------------- MODULE MCHostedService ---------------------------
(***************************************************************************)
(* Small instances of HostedService for TLC.                               *)
(***************************************************************************)
EXTENDS HostedService, TLC

CONSTANTS s1, s2, t1, t2

ThreeRuns == 1..3
TwoRuns == 1..2
AnyThread == Permutations(Threads)
=============================================================================
