--------------------------- MODULE MCAtomicQueue ---------------------------
(* Small instances of AtomicQueue for TLC. *)
EXTENDS AtomicQueue
=============================================================================
