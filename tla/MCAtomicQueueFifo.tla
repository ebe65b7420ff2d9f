-------------------------- MODULE MCAtomicQueueFifo --------------------------
(* Small instances of AtomicQueueFifo for TLC. *)
EXTENDS AtomicQueueFifo, TLC

Symmetry == Permutations(Producers)
=============================================================================
