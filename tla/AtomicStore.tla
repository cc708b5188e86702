---------------------------- MODULE AtomicStore ----------------------------
(***************************************************************************)
(* What a store of a disc promises to the readers of the database: a disc  *)
(* comes into the library at once, with all its tracks and no second time, *)
(* at the moment its store is reported; storing it again completes it.     *)
(* Nothing that is in the library is changed otherwise, or taken away.     *)
(*                                                                         *)
(* Around an accident (sound is FALSE), discs and tracks may come in any   *)
(* other way, and none of the stores that return then is reported.  When   *)
(* it is over, the promise holds again.                                    *)
(***************************************************************************)
EXTENDS Integers, Sequences

CONSTANTS
    Discs,       \* the discs
    Tracks       \* the number of tracks of a disc

VARIABLES
    library,     \* the rows of the library, a disc and its tracks each
    reported,    \* the discs reported as stored
    sound        \* whether no accident is under way

vars == <<library, reported, sound>>

Init == library = <<>> /\ reported = {} /\ sound = TRUE

Stored(d) == \E i \in DOMAIN library : library[i].disc = d

Whole(d) == [disc |-> d, tracks |-> 1 .. Tracks]

Report(d) == sound /\ reported' = reported \cup {d} /\ UNCHANGED sound

Insert(d) == /\ ~Stored(d)
             /\ library' = Append(library, Whole(d))
             /\ Report(d)

Update(d) == /\ Stored(d)
             /\ library' = [i \in DOMAIN library |->
                              IF library[i].disc = d THEN Whole(d) ELSE library[i]]
             /\ Report(d)

\* Around an accident the library grows.
Spoil == /\ ~sound
         /\ \A i \in DOMAIN library :
              /\ i \in DOMAIN library'
              /\ library'[i].disc = library[i].disc
              /\ library[i].tracks \subseteq library'[i].tracks
         /\ sound' \in BOOLEAN
         /\ UNCHANGED reported

Accident == sound /\ sound' = FALSE /\ UNCHANGED <<library, reported>>

Next == Spoil \/ Accident \/ \E d \in Discs : Insert(d) \/ Update(d)

Spec == Init /\ [][Next]_vars
=============================================================================
