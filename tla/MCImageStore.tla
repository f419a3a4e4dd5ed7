---------------------------- MODULE MCImageStore ----------------------------
(* A small instance of ImageStore; the runs are alike.                     *)
EXTENDS ImageStore, TLC

Runs == Permutations(Run)
=============================================================================
