------------------------------ MODULE MCDrive ------------------------------
(***************************************************************************)
(* Instances of Drive for TLC: two extraction threads, so that a second    *)
(* can be started beside a first, and one or two discs, two being what it  *)
(* takes to swap one for another.                                          *)
(***************************************************************************)
EXTENDS Drive, TLC

ThreadSymmetry == Permutations(Workers)
DiscSymmetry   == ThreadSymmetry \cup Permutations(Discs)
=============================================================================
