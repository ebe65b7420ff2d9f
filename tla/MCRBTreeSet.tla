----------------------------- MODULE MCRBTreeSet -----------------------------
(* Small instances of RBTreeSet for TLC: the keys are numbers. *)
EXTENDS RBTreeSet

Below(m, n) == m < n
=============================================================================
