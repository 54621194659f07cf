---------------------------- MODULE MCSimulation ----------------------------
(***************************************************************************)
(* Histories of up to six outcomes for TLC.  A prompt release comes first *)
(* and last in the order of the receipts, so that one outcome can make     *)
(* another redundant in either direction.                                  *)
(***************************************************************************)
EXTENDS Simulation, TLC

SixReceipts == 1..6
SixTypes ==
  (1 :> RELEASED) @@ (2 :> TIMEOUT) @@ (3 :> CLAIMED) @@ (4 :> TIMEOUT) @@ (5 :> RELEASED)
    @@ (6 :> CLAIMED)

Read(type, magnitude, contexts) ==
  [id |-> type, source_event_type |-> type, magnitude |-> magnitude, applies_when |-> contexts]

\* A memory that has not read claims yet, and memories that read every outcome.
FewOntologies ==
  {{Read(TIMEOUT, 9, {"deadline_sensitive"}), Read(RELEASED, 6, {"cost_sensitive"})},
   {Read(TIMEOUT, 9, {"deadline_sensitive"}), Read(RELEASED, 6, {"cost_sensitive"}),
    Read(CLAIMED, 8, {"quality_sensitive"})},
   {Read(TIMEOUT, 2, {"cost_sensitive", "quality_sensitive"}), Read(RELEASED, 3, {"cost_sensitive"}),
    Read(CLAIMED, 3, {"deadline_sensitive"})}}

\* The command's defaults with a price of 10 wei, and with no bond; a bond rate above what the
\* provider ever posts, a window near the longest; a window and a delay as short as a
\* rehearsal's; and a baseline outside its bounds.
FewBaselines ==
  {[price_wei |-> 10, provider_bond_bps |-> 500, service_window |-> 3600, payout_delay |-> 1800],
   [price_wei |-> 10, provider_bond_bps |-> 0, service_window |-> 3600, payout_delay |-> 1800],
   [price_wei |-> 100, provider_bond_bps |-> 9500, service_window |-> MAX_DURATION - 60,
    payout_delay |-> 1800],
   [price_wei |-> 100, provider_bond_bps |-> 3000, service_window |-> 60, payout_delay |-> 30],
   [price_wei |-> 100, provider_bond_bps |-> 500, service_window |-> 0, payout_delay |-> 30]}
=============================================================================
