------------------------------ MODULE RipDisc ------------------------------
(***************************************************************************)
(* What the extraction of a disc promises: the tracks are taken in order   *)
(* and each is decided once, either kept, as a file that holds exactly the *)
(* sectors of the track, or dropped; the disc is reported done only when   *)
(* every track has been decided.  The extraction may stop before that.     *)
(***************************************************************************)
EXTENDS Integers

CONSTANT NTracks    \* how many tracks the disc has

VARIABLES
    decided,    \* how many tracks have been decided
    kept,       \* the tracks whose file is kept
    phase       \* "running", "stopped" or "done"

vars == <<decided, kept, phase>>

Init == decided = 0 /\ kept = {} /\ phase = "running"

Keep == /\ phase = "running"
        /\ decided < NTracks
        /\ decided' = decided + 1
        /\ kept' = kept \cup {decided + 1}
        /\ UNCHANGED phase

\* A cancellation drops the track it interrupts, and stops.
Drop == /\ phase = "running"
        /\ decided < NTracks
        /\ decided' = decided + 1
        /\ phase' \in {"running", "stopped"}
        /\ UNCHANGED kept

Finish == /\ phase = "running"
          /\ decided = NTracks
          /\ phase' = "done"
          /\ UNCHANGED <<decided, kept>>

Stop == /\ phase = "running"
        /\ phase' = "stopped"
        /\ UNCHANGED <<decided, kept>>

Next == Keep \/ Drop \/ Finish \/ Stop

Spec == Init /\ [][Next]_vars

\* Every extraction comes to an end.
FairSpec == Spec /\ WF_vars(Next)
=============================================================================
