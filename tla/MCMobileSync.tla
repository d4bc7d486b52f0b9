---------------------------- MODULE MCMobileSync ----------------------------
(* The values the TLC runs of MobileSync give its constants. *)
EXTENDS MobileSync, TLC

AnySlot == Permutations(Slots)
=============================================================================
