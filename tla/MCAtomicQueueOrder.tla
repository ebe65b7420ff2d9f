------------------------- MODULE MCAtomicQueueOrder -------------------------
(* Small instances of AtomicQueueOrder for TLC. *)
EXTENDS AtomicQueueOrder, TLC
=============================================================================
