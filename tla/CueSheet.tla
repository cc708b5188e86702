------------------------------ MODULE CueSheet ------------------------------
(***************************************************************************)
(* Cue sheets, src/src/cue_sheet.c: the writer, the parser, and the sheet  *)
(* another ripper writes for the same disc.  A sheet is a sequence of      *)
(* lines.  The keywords that are only copied (genre, cddb and musicbrainz  *)
(* identifiers, file names, performers of tracks) are left out.            *)
(***************************************************************************)
EXTENDS DiscId, SequencesExt

Cue(k, v) == [key |-> k, nr |-> 0, val |-> v]
Index(nr, frames) == [key |-> "INDEX", nr |-> nr, val |-> frames]

(* Where track i starts in the image: the writer counts from 0. *)
Start(len, i) == SumFunctionOnSet(len, 1..(i - 1))

(* write_cue_sheet *)
WriteCue(d) ==
  <<Cue("DISCID", d.id)>>
  \o (IF d.lookup # NoLookup THEN <<Cue("LOOKUP", d.lookup)>> ELSE <<>>)
  \o <<Cue("LENGTH", d.length)>>
  \o (IF d.year > 0 THEN <<Cue("DATE", d.year)>> ELSE <<>>)
  \o <<Cue("TITLE", d.name), Cue("FILE", 1)>>
  \o FlattenSeq([i \in 1..d.n |->
       <<Cue("TRACK", i), Cue("TITLE", d.title[i]), Cue("LENGTH", d.len[i]),
         Index(1, Start(d.len, i))>>])

(* The usual sheet of another program: one file, or one file for each      *)
(* track, and neither lengths nor a lookup hash.                           *)
ForeignCue(e, style) ==
  <<Cue("DISCID", e.id), Cue("TITLE", e.name)>>
  \o (IF style = "single" THEN <<Cue("FILE", 1)>> ELSE <<>>)
  \o FlattenSeq([i \in DOMAIN e.lens |->
       (IF style = "single" THEN <<>> ELSE <<Cue("FILE", i)>>)
       \o <<Cue("TRACK", i), Cue("TITLE", e.titles[i]),
            Index(1, IF style = "single" THEN Start(e.lens, i) ELSE 0)>>])

(***************************************************************************)
(* parse_cue_sheet: the number of FILE lines, the current track, the       *)
(* previous start, and the disc information.                               *)
(***************************************************************************)
OnDiscOrTrack(s, field, v) ==
  CASE s.track < 1 /\ field = "TITLE"  -> [s EXCEPT !.d.name = v]
    [] s.track < 1 /\ field = "LENGTH" -> [s EXCEPT !.d.length = v]
    [] s.track \in 1..s.d.n /\ field = "TITLE"  -> [s EXCEPT !.d.title[s.track] = v]
    [] s.track \in 1..s.d.n /\ field = "LENGTH" -> [s EXCEPT !.d.len[s.track] = v]
    [] OTHER -> s

(* Only a number below CDE_MAX_TRACKS is taken. *)
OnTrack(s, num) ==
  IF num \notin 1..(MaxTracks - 1) THEN s
  ELSE [s EXCEPT !.track = num, !.d.n = IF num > @ THEN num ELSE @]

(* Mutant: the length a LENGTH line has given is computed again. *)
OnIndexAgain(s, nr, frames) ==
  IF nr = 1 /\ s.file = 1 /\ s.track \in 2..s.d.n
  THEN [s EXCEPT !.d.len[s.track - 1] = frames - s.prev, !.prev = frames]
  ELSE s

(* INDEX 00 is the gap before a track, INDEX 01 its start: one file gives  *)
(* the length of the track before, one file a track gives none.            *)
OnIndex(s, nr, frames) ==
  LET perTrack == s.file > 1 /\ s.file = s.track
  IN  CASE nr = 0 /\ perTrack /\ frames > 0 -> [s EXCEPT !.d.len[s.track - 1] = frames]
        [] nr = 1 /\ s.file = 1 /\ s.track = 1 -> [s EXCEPT !.d.len[1] = 0]
        [] nr = 1 /\ s.file = 1 /\ s.track \in 2..s.d.n /\ s.d.len[s.track - 1] = 0 ->
             [s EXCEPT !.d.len[s.track - 1] = frames - s.prev, !.prev = frames]
        [] nr = 1 /\ perTrack -> [s EXCEPT !.d.len[s.track] = 0]
        [] OTHER -> s

OnCueLine(s, l) ==
  CASE l.key = "FILE"   -> [s EXCEPT !.file = @ + 1]
    [] l.key = "TRACK"  -> OnTrack(s, l.val)
    [] l.key = "INDEX"  -> OnIndex(s, l.nr, l.val)
    [] l.key = "DISCID" -> [s EXCEPT !.d.id = l.val,
                                     !.d.cid = IF @ = NoId THEN l.val ELSE @]
    [] l.key = "LOOKUP" -> [s EXCEPT !.d.lookup = l.val]
    [] l.key = "DATE"   -> [s EXCEPT !.d.year = IF s.track < 1 THEN l.val ELSE @]
    [] l.key \in {"TITLE", "LENGTH"} -> OnDiscOrTrack(s, l.key, l.val)

ParseCue(doc) ==
  FoldLeft(OnCueLine, [file |-> 0, track |-> 0, prev |-> MsfOffset, d |-> AllocDisc],
           doc).d

CueOk(d) == d.id # NoId /\ d.n \in 1..MaxTracks
=============================================================================
