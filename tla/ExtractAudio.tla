---------------------------- MODULE ExtractAudio ----------------------------
(***************************************************************************)
(* The track and sector loops of cde_extract_audio_t (src/libcdextract.c): *)
(* one file per track, written sector by sector from what paranoia reads,  *)
(* removed again when the track is skipped, with a look at cde->status     *)
(* after every sector.  Another thread may cancel at any moment.           *)
(*                                                                         *)
(* Sectors stand for their audio data.  The contents of a file are the     *)
(* sectors written to it; the encoders are reduced to whether they fail.   *)
(* offset_buffer_used is 0 throughout the source and is left out, and so   *)
(* is the abort_on_skip test, which follows the reset of skipped_flag.     *)
(***************************************************************************)
EXTENDS Integers, Sequences

CONSTANTS
    NTracks,    \* drv->tracks
    Toc         \* the first sector of each track, and of the lead-out

Tracks == 1 .. NTracks

ASSUME NTracksAssumption == NTracks \in 1 .. 99

ASSUME TocAssumption ==
    /\ Toc \in [1 .. NTracks + 1 -> Nat]
    /\ \A t \in Tracks : Toc[t] < Toc[t + 1]

CDE_MAX_TRACKS == 100

VARIABLES
    status,     \* "extracting" or "cancel", "idle" at the end
    pc,         \* where the thread is
    cursor,     \* the sector to write next
    position,   \* the sector paranoia reads next
    current,    \* current_track
    last,       \* track_lastsector
    skip,       \* skipped_flag
    skipped,    \* t_skipped of each track
    exists,     \* the tracks that have an output file
    file,       \* the sectors in each of those files
    reported,   \* EXTRACT_CB_END_OF_DISC has been called, d_extracted set
    failed      \* a device, a file or an encoder has failed

disc == <<skipped, exists, file>>
loop == <<cursor, position, current, last, skip>>
vars == <<status, pc, cursor, position, current, last, skip,
          skipped, exists, file, reported, failed>>

----------------------------------------------------------------------------
(* cdparanoia's view of the table of contents *)

FirstSector(t) == IF t \in Tracks THEN Toc[t] ELSE -1

LastSector(t) == Toc[t + 1] - 1

DiscLastSector == LastSector(NTracks)

\* cdda_sector_gettrack: 0 before the first track, -1 past the last one
TrackOf(sector) ==
    IF sector < Toc[1] THEN 0
    ELSE IF sector > DiscLastSector THEN -1
    ELSE CHOOSE t \in Tracks : Toc[t] <= sector /\ sector < Toc[t + 1]

\* The audio data of a track
SectorsOf(t) == [i \in 1 .. Toc[t + 1] - Toc[t] |-> Toc[t] + i - 1]

----------------------------------------------------------------------------

Places == {"setup", "track", "sector", "end", "cleanup", "ended"}

TypeOK ==
    /\ status \in {"extracting", "cancel", "idle"}
    /\ pc \in Places
    /\ cursor \in -1 .. DiscLastSector + 1
    /\ position \in -1 .. DiscLastSector + 1
    /\ current \in 0 .. NTracks + 1
    /\ last \in -1 .. DiscLastSector
    /\ skip \in BOOLEAN
    /\ skipped \in [Tracks -> BOOLEAN]
    /\ exists \in SUBSET Tracks
    /\ file \in [Tracks -> Seq(0 .. DiscLastSector)]
    /\ reported \in BOOLEAN
    /\ failed \in BOOLEAN

\* Files of an earlier extraction may be there, whatever they hold.
Init ==
    /\ status = "extracting"
    /\ pc = "setup"
    /\ cursor = 0
    /\ position = 0
    /\ current = 0
    /\ last = -1
    /\ skip = FALSE
    /\ skipped \in [Tracks -> BOOLEAN]
    /\ exists \in SUBSET Tracks
    /\ file = [t \in Tracks |-> << >>]
    /\ reported = FALSE
    /\ failed = FALSE

\* cde_cancel_extract, from another thread
Cancel ==
    /\ status = "extracting"
    /\ status' = "cancel"
    /\ UNCHANGED <<pc, loop, disc, reported, failed>>

\* goto cleanup after an error
Fail == /\ failed' = TRUE
        /\ pc' = "cleanup"

\* One sector per read, a data track; otherwise every track is set to
\* skipped and paranoia to the first sector.
Setup ==
    /\ pc = "setup"
    /\ \/ /\ Fail
          /\ UNCHANGED <<loop, disc>>
       \/ /\ skipped' = [t \in Tracks |-> TRUE]
          /\ cursor' = FirstSector(1)
          /\ position' = FirstSector(1)
          /\ current' = 0
          /\ pc' = "track"
          /\ UNCHANGED <<last, skip, exists, file, failed>>
    /\ UNCHANGED <<status, reported>>

\* The test of the outer loop, and its body up to the first read
MoreToExtractShort == cursor < DiscLastSector /\ current < CDE_MAX_TRACKS
MoreToExtract == cursor <= DiscLastSector /\ current < CDE_MAX_TRACKS

StartTrack ==
    /\ pc = "track"
    /\ MoreToExtract
    /\ LET t == TrackOf(cursor)
       IN \/ /\ t < 1                           \* invalid track: res = 1
             /\ pc' = "cleanup"
             /\ UNCHANGED <<loop, disc, failed>>
          \/ /\ t >= 1
             /\ current' = t
             /\ last' = LastSector(t)
             /\ \/ /\ Fail                      \* fopen
                   /\ UNCHANGED <<skip, exists, file>>
                \/ /\ exists' = exists \cup {t}
                   /\ file' = [file EXCEPT ![t] = << >>]
                   /\ \/ /\ Fail                \* start_flac
                         /\ UNCHANGED skip
                      \/ /\ skip' = FALSE
                         /\ pc' = "sector"
                         /\ UNCHANGED failed
             /\ UNCHANGED <<cursor, position, skipped>>
    /\ UNCHANGED <<status, reported>>

\* After the write of a sector: the file is aborted when cancelled.
AbortUnnoticed == FALSE
AbortAfterSector == status = "cancel"

\* The test of the inner loop
SectorsLeftTooFar == cursor <= last + 1
SectorsLeft == cursor <= last

ReadSector ==
    /\ pc = "sector"
    /\ SectorsLeft
    /\ \/ /\ Fail                               \* drive gone
          /\ UNCHANGED <<loop, file>>
       \/ /\ skip' = TRUE                       \* unrecoverable sector
          /\ pc' = "end"
          /\ UNCHANGED <<cursor, position, current, last, file, failed>>
       \/ /\ cursor' = cursor + 1
          /\ position' = position + 1
          /\ UNCHANGED <<current, last>>
          /\ \/ /\ Fail                         \* write_flac, write_wav
                /\ UNCHANGED <<skip, file>>
             \/ /\ file' = [file EXCEPT ![current] = Append(@, position)]
                /\ skip' = AbortAfterSector
                /\ pc' = IF AbortAfterSector THEN "end" ELSE "sector"
                /\ UNCHANGED failed
    /\ UNCHANGED <<status, skipped, exists, reported>>

EndOfTrack ==
    /\ pc = "sector"
    /\ ~SectorsLeft
    /\ pc' = "end"
    /\ UNCHANGED <<status, loop, disc, reported, failed>>

\* paranoia_seek after a skipped track
SeekForgotten(sector) == position
SeekTo(sector) == sector

\* unlink of the file of a skipped track
UnlinkForgotten == exists
Unlinked == exists \ {current}

FinishTrack ==
    /\ pc = "end"
    /\ \/ /\ Fail                               \* end_flac, end_wav
          /\ UNCHANGED <<loop, disc>>
       \/ /\ skipped' = [skipped EXCEPT ![current] = skip]
          /\ UNCHANGED <<last, skip, file, failed>>
          /\ \/ /\ ~skip
                /\ pc' = "track"
                /\ UNCHANGED <<cursor, position, current, exists>>
             \/ /\ skip /\ status = "cancel"
                /\ exists' = Unlinked
                /\ pc' = "cleanup"
                /\ UNCHANGED <<cursor, position, current>>
             \/ /\ skip /\ status # "cancel"
                /\ exists' = Unlinked
                /\ current' = current + 1
                /\ cursor' = FirstSector(current + 1)
                /\ position' = SeekTo(cursor')
                /\ pc' = "track"
    /\ UNCHANGED <<status, reported>>

\* The outer loop ends: d_extracted and EXTRACT_CB_END_OF_DISC
Done ==
    /\ pc = "track"
    /\ ~MoreToExtract
    /\ reported' = TRUE
    /\ pc' = "cleanup"
    /\ UNCHANGED <<status, loop, disc, failed>>

Cleanup ==
    /\ pc = "cleanup"
    /\ status' = "idle"
    /\ pc' = "ended"
    /\ UNCHANGED <<loop, disc, reported, failed>>

Step == \/ Setup \/ StartTrack \/ ReadSector \/ EndOfTrack
        \/ FinishTrack \/ Done \/ Cleanup

Next == Cancel \/ Step

Spec == Init /\ [][Next]_vars

\* The thread runs on; nobody has to cancel.
FairSpec == Spec /\ WF_vars(Step)

----------------------------------------------------------------------------
(* Properties *)

\* A track that is not marked as skipped has a file that holds exactly its
\* sectors, in order: whatever was skipped, cancelled or left by an earlier
\* extraction before.
KeptTrackIsWhole ==
    current > 0 => \A t \in Tracks :
        ~skipped[t] => t \in exists /\ file[t] = SectorsOf(t)

\* An extraction that ends without a device, file or encoder failure leaves
\* no incomplete file among the tracks it came to.
NoPartialFile ==
    pc = "ended" /\ ~failed => \A t \in exists :
        t <= current => file[t] = SectorsOf(t) /\ ~skipped[t]

\* A cancellation that arrives while sectors are left to read is final: the
\* disc is never reported (nor stored) as extracted.  One that arrives after
\* the last look at the status is not: the extraction completes; nor need one
\* be that arrives after a skipped last track, when the cursor is -1.
CancelInTime ==
    /\ status = "cancel"
    /\ pc \in {"setup", "track", "sector"}
    /\ cursor \in 0 .. DiscLastSector

CancelInTimeIsFinal == [](CancelInTime => []~reported)

\* The extraction implements RipDisc, and comes to an end.
TracksDecided ==
    IF pc \in {"sector", "end"} THEN current - 1
    ELSE IF pc = "track"
      THEN IF TrackOf(cursor) >= 1 THEN TrackOf(cursor) - 1
           ELSE NTracks
    ELSE IF pc = "setup" \/ current = 0 THEN 0
    ELSE IF failed THEN current - 1
    ELSE IF current > NTracks THEN NTracks ELSE current

Rip == INSTANCE RipDisc WITH
    decided <- TracksDecided,
    kept    <- {t \in exists : current > 0 /\ ~skipped[t] /\ file[t] = SectorsOf(t)},
    phase   <- IF reported THEN "done"
               ELSE IF pc \in {"cleanup", "ended"} THEN "stopped"
               ELSE "running"

ImplementsRipDisc == Rip!FairSpec

\* Skipping a track is not the end of the extraction: the cursor is made
\* "correct if we have another track" (libcdextract.c:1436), so when nothing
\* has failed and nobody has cancelled, the disc is reported as done.
SkippedTracksComplete ==
    pc = "cleanup" /\ ~failed /\ status = "extracting" => reported
=============================================================================
