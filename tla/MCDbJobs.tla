------------------------------ MODULE MCDbJobs ------------------------------
(***************************************************************************)
(* Instances of DbJobs for TLC: two job threads, so that jobs can overlap, *)
(* and two discs, so that the row number of a purged disc is given to      *)
(* another.                                                                *)
(***************************************************************************)
EXTENDS DbJobs, TLC

Symmetry == Permutations(Threads) \cup Permutations(Discs)
=============================================================================
