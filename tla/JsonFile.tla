------------------------------ MODULE JsonFile ------------------------------
(***************************************************************************)
(* The json file beside an album: what json_write_disc_info writes         *)
(* (src/json_file.c) when an extraction starts and when it ends, and what  *)
(* json_read_disc_info makes of it with the tokens, members and paths of   *)
(* src/json_utils.c, when the job thread scans the audio folder.           *)
(*                                                                         *)
(* A text is a sequence of pieces: the characters that have a meaning in   *)
(* json, a run of white space as one space, and words.  Names and query    *)
(* strings are sequences of pieces, and are written as they are.  Of the   *)
(* members, one is kept for each way of writing and reading it.            *)
(***************************************************************************)
EXTENDS Integers, SequencesExt

CONSTANTS
  Discs,      \* what a disc may hold: [id, length, artist, query, extracted, tracks]
  TokenSize,  \* JSON_UTILS_MAX_TOKEN_STR_SIZE, in pieces
  LongWord,   \* a word that alone is as long as TokenSize
  Buffer,     \* the size of the stream's buffer, in pieces
  MaxNumber,  \* bound: the numbers in a file
  MaxWrites   \* bound: extractions

ASSUME JsonAssumption == /\ TokenSize \in Nat \ {0} /\ Buffer \in Nat \ {0}
                         /\ MaxNumber \in Nat /\ MaxWrites \in Nat

Quote == "\""
Backslash == "\\"
Space == " "
Control == {"{", "}", "[", "]", ",", ":"}
Numbers == {ToString(i) : i \in 0..MaxNumber}

VARIABLES
  disc,     \* cde->disc_info
  file,     \* the text in the file, NoText when there is none
  out,      \* what the writer has still in its buffer, NoText when it is closed
  stage,    \* the extraction: "idle", "opening", "extracting" or "ending"
  written,  \* history: the disc the file was last closed with, NoDisc while it is torn
  writes    \* bound counter

vars == <<disc, file, out, stage, written, writes>>

NoText == <<"no text">>
NoDisc == [id |-> <<>>, length |-> 0, artist |-> <<>>, query |-> <<>>, extracted |-> 0,
           tracks |-> <<>>]

-----------------------------------------------------------------------------
(* json_write_disc_info: names are not escaped. *)

Quoted(name) == <<Quote>> \o name \o <<Quote>>
Member(name, value) == <<Space>> \o Quoted(<<name>>) \o <<":">> \o value
Joined(parts) == FlattenSeq([i \in DOMAIN parts |->
                               IF i = 1 THEN parts[i] ELSE <<",">> \o parts[i]])

Item(t) ==
  <<Space, "{">>
  \o Joined(<<Member("num", <<ToString(t.num)>>), Member("length", <<ToString(t.length)>>),
              Member("title", Quoted(t.title)), Member("skipped", <<ToString(t.skipped)>>)>>)
  \o <<Space, "}">>

(* Files of older versions do not have the member extracted. *)
Text(d, old) ==
  <<"{">>
  \o Joined(<<Member("disc_id", Quoted(d.id)), Member("length", <<ToString(d.length)>>),
              Member("artist", Quoted(d.artist)), Member("cddb_query", Quoted(d.query)),
              Member("mb_complete", <<ToString(1)>>)>>
            \o (IF old THEN <<>> ELSE <<Member("extracted", <<ToString(d.extracted)>>)>>)
            \o <<Member("track_count", <<ToString(Len(d.tracks))>>),
                 Member("tracks", <<Space, "[">>
                                  \o Joined([i \in DOMAIN d.tracks |-> Item(d.tracks[i])])
                                  \o <<Space, "]">>)>>)
  \o <<Space, "}", Space>>

-----------------------------------------------------------------------------
(* json_next_token.  A scan counts the characters of a token from start;   *)
(* quotes are "no", "in" or "out" of a string; it stops after the token.   *)

Type(c) == CASE c = "{" -> "object" [] c = "}" -> "object_end"
             [] c = "[" -> "array"  [] c = "]" -> "array_end"
             [] c = "," -> "separator" [] c = ":" -> "name"

Deeper(c) == IF c \in {"{", "["} THEN 1 ELSE IF c \in {"}", "]"} THEN -1 ELSE 0

(* Within a string an escaped character never ends it. *)
Inside(s, c) ==
  LET end == c = Quote /\ ~s.escaped
  IN  [s EXCEPT !.pos = @ + 1, !.cnt = IF end THEN @ ELSE @ + 1,
                !.quoted = IF end THEN "out" ELSE @,
                !.escaped = ~s.escaped /\ c = Backslash]

(* Mutant: the end of an empty string is taken for a token of its own. *)
AtControlEmpty(s, c) ==
  LET stop == [s EXCEPT !.go = FALSE]
  IN  IF s.cnt = 0
      THEN [stop EXCEPT !.type = Type(c), !.level = @ + Deeper(c), !.pos = @ + 1]
      ELSE IF c = ":" THEN [stop EXCEPT !.type = "name", !.pos = @ + 1]
      ELSE [stop EXCEPT !.pos = IF c \in {"}", "]", ","} THEN @ ELSE @ + 1]

(* A control character ends a token, or is one. *)
AtControl(s, c) ==
  LET stop == [s EXCEPT !.go = FALSE]
      after == [stop EXCEPT !.pos = @ + 1]
  IN  IF s.cnt = 0 /\ s.quoted = "out"
      THEN [IF c = ":" THEN after ELSE stop EXCEPT !.type = "string"]
      ELSE IF s.cnt = 0
      THEN [after EXCEPT !.type = Type(c), !.level = @ + Deeper(c)]
      ELSE IF c = ":" THEN [after EXCEPT !.type = "name"]
      ELSE IF c \in {"}", "]", ","} THEN stop ELSE after

Step(s, c) ==
  IF s.quoted = "in" THEN Inside(s, c)
  ELSE IF c = Space /\ s.cnt = 0
  THEN [s EXCEPT !.pos = @ + 1, !.start = @ + 1, !.type = "ws"]
  ELSE IF c = Space THEN [s EXCEPT !.pos = @ + 1, !.go = FALSE]
  ELSE IF c \in Control THEN AtControl(s, c)
  ELSE IF c = Quote
  THEN [s EXCEPT !.pos = @ + 1, !.start = @ + 1, !.type = "string", !.quoted = "in"]
  ELSE [s EXCEPT !.pos = @ + 1, !.cnt = @ + 1]

RECURSIVE Scan(_, _)
Scan(text, s) == IF s.go /\ s.pos <= Len(text) THEN Scan(text, Step(s, text[s.pos])) ELSE s

Width(str) == IF LongWord \in ToSet(str) THEN TokenSize ELSE Len(str)
IsNumber(str) == str # <<>> /\ str[1] \in Numbers

StartToken == [type |-> "unknown", status |-> "ok", pos |-> 1, level |-> 0,
               str |-> <<>>, value |-> <<>>, res |-> 0]

(* The token s, read after t.  It is kept in the token structure, where it *)
(* must fit, or given to the caller (token_str), and then the structure    *)
(* still holds the one before.                                             *)
Token(text, t, s, keep) ==
  LET value == SubSeq(text, s.start, s.start + s.cnt - 1)
      str == IF keep THEN value ELSE t.str
      next == [t EXCEPT !.pos = s.pos, !.level = s.level, !.type = s.type,
                        !.str = str, !.value = value, !.res = 0]
  IN  CASE keep /\ Width(value) >= TokenSize - 1 ->
             [next EXCEPT !.status = "error", !.str = t.str, !.res = -1]
        [] s.type \notin {"unknown", "ws"} -> next
        [] OTHER ->
             CASE str \in {<<"true">>, <<"false">>, <<"null">>} -> [next EXCEPT !.type = "literal"]
               [] s.pos > Len(text) -> [next EXCEPT !.type = "unknown", !.status = "done"]
               [] IsNumber(str) -> [next EXCEPT !.type = "number"]
               [] OTHER -> [next EXCEPT !.type = "unknown", !.status = "error"]

NextToken(text, t, keep) ==
  Token(text, t, Scan(text, [pos |-> t.pos, start |-> t.pos, cnt |-> 0, quoted |-> "no",
                             escaped |-> FALSE, type |-> "unknown", level |-> t.level,
                             go |-> TRUE]), keep)

-----------------------------------------------------------------------------
(* Members and paths.  A level is given, or any from that of the search on *)
(* (-2); res is 1 when the member has been found, -1 after an error.  The  *)
(* searches have read the token n already.                                 *)

AnyLevel == -2

RECURSIVE FindFrom(_, _, _, _, _)
FindFrom(text, n, name, level, from) ==
  IF n.res = -1 THEN n
  ELSE IF /\ n.type = "name" /\ n.str = <<name>>
          /\ level = n.level \/ (level = AnyLevel /\ from <= n.level)
  THEN [n EXCEPT !.res = 1]
  ELSE IF n.status # "ok" THEN [n EXCEPT !.res = 0]
  ELSE FindFrom(text, NextToken(text, n, TRUE), name, level, from)

(* json_find_member *)
Find(text, t, name, level) ==
  IF t.status # "ok" THEN [t EXCEPT !.res = 0]
  ELSE FindFrom(text, NextToken(text, t, TRUE), name, level, t.level)

RECURSIVE ValueFrom(_, _, _, _)
ValueFrom(text, n, from, keep) ==
  IF n.res = -1 THEN n
  ELSE IF n.type \in {"string", "number", "literal"} /\ from <= n.level
  THEN [n EXCEPT !.res = 1]
  ELSE IF n.status # "ok" THEN [n EXCEPT !.res = 0]
  ELSE ValueFrom(text, NextToken(text, n, keep), from, keep)

(* The value that follows the member that has been searched. *)
ValueOf(text, n, keep) ==
  IF n.res # 1 THEN [n EXCEPT !.res = 0, !.value = <<>>]
  ELSE IF n.status # "ok" THEN [n EXCEPT !.res = 0]
  ELSE ValueFrom(text, NextToken(text, n, keep), n.level, keep)

(* json_find_member_get_value and its restricted form *)
GetValue(text, t, name, level, keep) == ValueOf(text, Find(text, t, name, level), keep)

(* json_get_string gives the value to the caller; json_get_integer keeps   *)
(* it, and leaves its variable alone when it is no number.                 *)
String(name) == [name |-> name, keep |-> FALSE]
Integer(name) == [name |-> name, keep |-> TRUE]
NumberIn(str, default) == IF IsNumber(str)
                          THEN CHOOSE i \in 0..MaxNumber : ToString(i) = str[1]
                          ELSE default
Number(t) == IF t.res = 1 THEN NumberIn(t.str, 0) ELSE 0

(* A value after the other, from t on; the first of the result is t. *)
Values(text, t, members) ==
  FoldLeft(LAMBDA got, m : Append(got, GetValue(text, Last(got), m.name, AnyLevel, m.keep)),
           <<t>>, members)

(* json_select_member: the elements ".", "[n]" and a name of a path. *)
RECURSIVE ChildFrom(_, _, _)
ChildFrom(text, n, level) ==
  IF n.level = level + 1 \/ n.status # "ok" THEN n
  ELSE ChildFrom(text, NextToken(text, n, TRUE), level)
Child(text, t) == ChildFrom(text, t, t.level)

RECURSIVE ItemFrom(_, _, _, _)
ItemFrom(text, n, i, level) ==
  LET left == CASE n.type = "separator" /\ n.level = level -> i - 1
                [] n.level < level -> 0
                [] OTHER -> i
  IN  IF n.status # "ok" \/ left = 0 THEN n
      ELSE ItemFrom(text, NextToken(text, n, TRUE), left, level)
ItemAt(text, list, i) == ItemFrom(text, list, i, list.level)

Named(text, t, name) == Find(text, t, name, t.level)
Value(text, t, name) == GetValue(text, t, name, t.level, TRUE)

(* $.<name> *)
SelectMember(text, name) == Value(text, Child(text, StartToken), name)

(* $.tracks.[i].num, items counted from 0 *)
SelectTrack(text, i) ==
  LET list == Child(text, Named(text, Child(text, StartToken), "tracks"))
  IN  Value(text, Child(text, ItemAt(text, list, i)), "num")

-----------------------------------------------------------------------------
(* json_read_disc_info *)

NoTrack == [num |-> 0, length |-> 0, title |-> <<>>, skipped |-> 0]

(* Of the values of a track: one that cannot be selected is left out,      *)
(* without an error.                                                       *)
TrackOf(d, got) ==
  LET num == NumberIn(got[1].str, 0)
      length == Number(got[2])
  IN  IF got[1].res # 1 THEN [ok |-> TRUE, track |-> NoTrack]
      ELSE [ok |-> num \in 1..Len(d.tracks) /\ length <= d.length,
            track |-> [num |-> num, length |-> length,
                       title |-> got[3].value, skipped |-> Number(got[4])]]

ReadTrack(text, d, i) ==
  TrackOf(d, Values(text, SelectTrack(text, i - 1),
                    <<Integer("length"), String("title"), Integer("skipped")>>))

(* Files of older versions do not say extracted: that is taken for granted,*)
(* and what comes next is searched from the member before.                 *)
ReadCount(text, t) ==
  LET from == IF t.res = 0 THEN SelectMember(text, "mb_complete") ELSE t
  IN  Number(Last(Values(text, from, <<Integer("track_count")>>)))

DiscOf(got, count) ==
  [id |-> got[1].str, length |-> Number(got[2]), artist |-> got[3].value,
   query |-> got[4].value,
   extracted |-> IF got[6].res = 0 THEN 1 ELSE Number(got[6]),
   tracks |-> [i \in 1..count |-> NoTrack]]

Failed == [ok |-> FALSE, disc |-> NoDisc]

ReadTracks(d, read) ==
  IF \E i \in DOMAIN read : ~read[i].ok THEN Failed
  ELSE [ok |-> TRUE, disc |-> [d EXCEPT !.tracks = [i \in DOMAIN @ |-> read[i].track]]]

ReadDisc(text, id, d) ==
  IF id.res # 1 \/ d.id = <<>> \/ d.length <= 0 \/ d.tracks = <<>> THEN Failed
  ELSE ReadTracks(d, [i \in DOMAIN d.tracks |-> ReadTrack(text, d, i)])

ReadValues(text, got) == ReadDisc(text, got[1], DiscOf(got, ReadCount(text, got[6])))

Read(text) ==
  IF text = <<>> THEN [ok |-> TRUE, disc |-> NoDisc]
  ELSE ReadValues(text, Values(text, SelectMember(text, "disc_id"),
         <<Integer("length"), String("artist"), String("cddb_query"),
           Integer("mb_complete"), Integer("extracted")>>))

-----------------------------------------------------------------------------
Init ==
  /\ disc \in Discs
  /\ \/ file = NoText /\ written = NoDisc
     \/ file = Text(disc, TRUE) /\ written = [disc EXCEPT !.extracted = 1]
  /\ out = NoText
  /\ stage = "idle"
  /\ writes = 0

(* The writer opens the file, and so empties it; a file that is there is   *)
(* only written again when that is asked for.                              *)
Open(d, overwrite) ==
  IF file # NoText /\ ~overwrite THEN UNCHANGED <<file, out, written>>
  ELSE file' = <<>> /\ out' = Text(d, FALSE) /\ written' = NoDisc

(* POST /disc/extract *)
Extract(overwrite) ==
  /\ stage = "idle" /\ writes < MaxWrites
  /\ Open(disc, overwrite)
  /\ stage' = "opening"
  /\ writes' = writes + 1
  /\ UNCHANGED disc

(* The end of the disc: what has been extracted and skipped is recorded. *)
EndOfDisc ==
  /\ stage = "extracting"
  /\ \E skips \in [DOMAIN disc.tracks -> {0, 1}] :
       disc' = [disc EXCEPT !.extracted = 1,
                            !.tracks = [i \in DOMAIN @ |-> [@[i] EXCEPT !.skipped = skips[i]]]]
  /\ Open(disc', TRUE)
  /\ stage' = "ending"
  /\ UNCHANGED writes

(* The buffer of the stream is written when it is full. *)
Flush ==
  /\ out # NoText /\ Len(out) > Buffer
  /\ file' = file \o SubSeq(out, 1, Buffer)
  /\ out' = SubSeq(out, Buffer + 1, Len(out))
  /\ UNCHANGED <<disc, stage, written, writes>>

(* fclose; the extraction goes on. *)
Close ==
  /\ stage \in {"opening", "ending"} /\ Len(out) <= Buffer
  /\ IF out = NoText THEN UNCHANGED <<file, out, written>>
     ELSE file' = file \o out /\ out' = NoText /\ written' = disc
  /\ stage' = IF stage = "opening" THEN "extracting" ELSE "idle"
  /\ UNCHANGED <<disc, writes>>

(* The extraction is cancelled or fails. *)
Abandon ==
  /\ stage = "extracting"
  /\ stage' = "idle"
  /\ UNCHANGED <<disc, file, out, written, writes>>

(* POST /disc changes the names of the disc the drive holds. *)
Edit ==
  /\ stage \in {"idle", "extracting"}
  /\ \E d \in Discs : /\ Len(d.tracks) = Len(disc.tracks)
                      /\ disc' = [disc EXCEPT !.tracks = [i \in DOMAIN @ |->
                                    [@[i] EXCEPT !.title = d.tracks[i].title]]]
  /\ UNCHANGED <<file, out, stage, written, writes>>

(* The server is killed and started again; the drive holds a disc whose    *)
(* file has the same name.                                                 *)
Kill ==
  /\ stage # "idle"
  /\ out' = NoText /\ stage' = "idle"
  /\ disc' \in {d \in Discs : d.artist = disc.artist}
  /\ UNCHANGED <<file, written, writes>>

Next ==
  \/ \E overwrite \in BOOLEAN : Extract(overwrite)
  \/ EndOfDisc \/ Flush \/ Close \/ Abandon \/ Edit \/ Kill

Spec == Init /\ [][Next]_vars

-----------------------------------------------------------------------------
Names(d) == {d.id, d.artist, d.query} \cup {d.tracks[i].title : i \in DOMAIN d.tracks}

(* A disc whose strings need no escape and fit in a token. *)
Readable(d) == \A s \in Names(d) : /\ {Quote, Backslash} \cap ToSet(s) = {}
                                   /\ Width(s) < TokenSize - 1

(* From a file that an extraction has closed, or an older version has      *)
(* left, a scan gets every value of the disc it was closed with, whatever  *)
(* characters its names have and whatever names are empty, and whatever    *)
(* extraction has written it before, was abandoned or killed, or has kept  *)
(* it (json_utils.c:189, 694, json_file.c:173).  Names with quotes and     *)
(* strings longer than a token are not read back.                          *)
JsonReadBack ==
  written # NoDisc /\ Readable(written) => Read(file) = [ok |-> TRUE, disc |-> written]
=============================================================================
