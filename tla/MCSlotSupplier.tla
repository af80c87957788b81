--------------------------- MODULE MCSlotSupplier ---------------------------
(***************************************************************************)
(* SlotSupplier with three threads on two slots, so that a slot can pass   *)
(* from one thread to another while a third is publishing.                 *)
(***************************************************************************)
EXTENDS SlotSupplier, TLC

Symmetry == Permutations(Threads)
=============================================================================
