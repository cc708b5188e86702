---------------------------- MODULE MCStoreDisc -----------------------------
(***************************************************************************)
(* Instances of StoreDisc for TLC.                                         *)
(***************************************************************************)
EXTENDS StoreDisc, TLC

Symmetry == Permutations(Threads) \cup Permutations(Discs)
=============================================================================
