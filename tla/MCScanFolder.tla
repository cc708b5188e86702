---------------------------- MODULE MCScanFolder ----------------------------
(***************************************************************************)
(* Instances of ScanFolder for TLC: an artist's folder, albums and folders *)
(* in albums, with discs of one or two tracks.                             *)
(***************************************************************************)
EXTENDS ScanFolder
=============================================================================
