--------------------------- MODULE MCStateTracker ---------------------------
(***************************************************************************)
(* StateTracker for TLC: three deliveries of one channel, the smallest     *)
(* instance in which a rollback is skipped, taken and followed by another. *)
(***************************************************************************)
EXTENDS StateTracker

=============================================================================
