-------------------------------- MODULE Xmcd --------------------------------
(***************************************************************************)
(* cddb entries in xmcd format, src/src/cddb.c: the parser, the writer and *)
(* the two calls of the online service.  A document is a sequence of       *)
(* lines, a line a record with the keyword cddb_get_token finds and its    *)
(* value.  Genre, extended data and encodings are left out.                *)
(***************************************************************************)
EXTENDS DiscId, SequencesExt

MaxLength == 100 * 60 * Frames

Line(k, v) == [key |-> k, nr |-> 0, val |-> v]
TrackLine(i, v) == [key |-> "TTITLE", nr |-> i, val |-> v]

(***************************************************************************)
(* Writing.  Offsets gives the comment lines with the start of each track. *)
(***************************************************************************)
Offsets(len, n) ==
  [i \in 1..n |-> Line("Offset", MsfOffset + SumFunctionOnSet(len, 1..(i - 1)))]

(* An entry of the cddb service (or of an imported cddb dump): titles are  *)
(* numbered from 0, the disc length is where the lead-out starts.  A title *)
(* with more than one piece takes as many lines.                           *)
ServiceEntry(e) ==
  <<Line("Offsets", 0)>> \o Offsets(e.lens, Len(e.lens))
  \o <<Line("Length", (MsfOffset + SumFunctionOnSet(e.lens, DOMAIN e.lens)) \div Frames),
       Line("Revision", e.rev), Line("DISCID", e.id),
       Line("DTITLE", e.name), Line("DYEAR", e.year)>>
  \o FlattenSeq([i \in DOMAIN e.titles |->
       [j \in DOMAIN e.titles[i] |-> TrackLine(i - 1, <<e.titles[i][j]>>)]])

(* cddb_write_entry: titles are numbered from 1, and the disc length is    *)
(* the sum of the tracks.                                                  *)
WriteEntry(d) ==
  <<Line("Offsets", 0)>> \o Offsets(d.len, d.n)
  \o <<Line("Length", d.length \div Frames),
       Line("Revision", d.rev), Line("DISCID", d.id),
       Line("DTITLE", d.name), Line("DYEAR", d.year)>>
  \o [i \in 1..d.n |-> TrackLine(i, d.title[i])]

(***************************************************************************)
(* Parsing, cddb_parse_data.  The state: the frame offset mode (0 before   *)
(* the offsets, 1 within, 2 after the disc length, 3 after the revision),  *)
(* the offsets of the previous and current track, the number of offsets    *)
(* seen, the number of the last title, and the disc information.           *)
(***************************************************************************)
(* Mutant: the length is counted to the track that starts here. *)
OnOffsetLate(s, v) ==
  IF s.mode # 1 \/ v = 0 THEN s
  ELSE [s EXCEPT !.prev = v, !.cur = v, !.nr = @ + 1,
          !.d.len = IF s.nr + 1 \in 1..MaxTracks THEN [@ EXCEPT ![s.nr + 1] = v - s.prev] ELSE @]

OnOffset(s, v) ==
  IF s.mode # 1 \/ v = 0 THEN s
  ELSE [s EXCEPT !.prev = v, !.cur = v, !.nr = @ + 1,
          !.d.len = IF s.nr \in 1..MaxTracks /\ @[s.nr] = 0
                    THEN [@ EXCEPT ![s.nr] = v - s.prev] ELSE @]

OnLength(s, secs) ==
  IF s.mode # 1 THEN s
  ELSE [s EXCEPT !.mode = 2,
          !.d.length = IF @ = 0 THEN secs * Frames ELSE @,
          !.d.n = IF s.nr <= MaxTracks THEN s.nr ELSE @,
          !.d.len = IF s.nr \in 1..MaxTracks /\ @[s.nr] = 0
                    THEN [@ EXCEPT ![s.nr] = secs * Frames - s.cur] ELSE @]

OnRevision(s, v) ==
  IF s.mode # 2 THEN s
  ELSE [s EXCEPT !.mode = 3, !.d.rev = IF v < 0 THEN 0 ELSE v]

OnDiscId(s, v) ==
  LET cid == IF s.d.cid = NoId THEN v ELSE s.d.cid
  IN  [s EXCEPT !.d.cid = cid, !.d.id = IF @ = NoId THEN cid ELSE @]

(* A second line with the same number continues the title. *)
OnTitle(s, nr, v) ==
  [s EXCEPT !.old = nr,
            !.d.title[nr + 1] = IF s.old = nr THEN @ \o v ELSE v,
            !.d.n = IF @ < nr + 1 /\ nr < MaxTracks THEN nr + 1 ELSE @]

OnLine(s, l) ==
  CASE l.key = "Offsets"  -> [s EXCEPT !.mode = IF @ = 0 THEN 1 ELSE @]
    [] l.key = "Offset"   -> OnOffset(s, l.val)
    [] l.key = "Length"   -> OnLength(s, l.val)
    [] l.key = "Revision" -> OnRevision(s, l.val)
    [] l.key = "DISCID"   -> OnDiscId(s, l.val)
    [] l.key = "DTITLE"   -> [s EXCEPT !.d.name = l.val]
    [] l.key = "DYEAR"    -> [s EXCEPT !.d.year = IF l.val = 0 THEN @ ELSE l.val]
    [] l.key = "TTITLE"   -> OnTitle(s, l.nr, l.val)

ParseEntry(d, doc) ==
  FoldLeft(OnLine, [mode |-> 0, prev |-> MsfOffset, cur |-> 0, nr |-> 0,
                    old |-> -1, d |-> d], doc).d

(* "check if parsed record is really ok" *)
EntryOk(d) ==
  /\ d.n \in 1..MaxTracks
  /\ d.cid # NoId
  /\ d.length \in 1..MaxLength
  /\ d.name # Unknown

(***************************************************************************)
(* cddb_get_disc_info.  The answer of the service is an entry, none (the   *)
(* service is not reached or does not know the disc), or an entry of which *)
(* only the query succeeded: that sets the name and nothing else.  The     *)
(* result of the query is and-ed with that of the read, so that the disc   *)
(* counts as complete after every query that succeeded, whether the entry  *)
(* could be read, and was valid, or not.                                   *)
(***************************************************************************)
Query(d, answer, e) ==
  CASE answer = "none"  -> [d EXCEPT !.complete = FALSE]
    [] answer = "query" -> [d EXCEPT !.complete = TRUE, !.name = e.name]
    [] answer = "entry" ->
         [ParseEntry([d EXCEPT !.name = e.name], ServiceEntry(e)) EXCEPT !.complete = TRUE]
=============================================================================
