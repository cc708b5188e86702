--------------------------- MODULE MCExtractAudio ---------------------------
(***************************************************************************)
(* A disc of three tracks for TLC, with sectors before the first track, a  *)
(* track of one sector at the end, and a middle track to skip over.        *)
(***************************************************************************)
EXTENDS ExtractAudio

MCToc == <<1, 3, 6, 7>>
=============================================================================
