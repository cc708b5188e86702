----------------------------- MODULE ScanFolder -----------------------------
(***************************************************************************)
(* scan_audio_folder (server/scan.c): the walk over the audio folder that  *)
(* a rescan or a rebuild makes.  fts reports each folder when it is        *)
(* entered and left, and the files and folders in it in any order.  The    *)
(* scan keeps one set of flags and discs for the album it believes to be   *)
(* in, and the level of that album's folder, disc_level.  When it leaves a *)
(* folder of that level it stores the disc from the best source it has     *)
(* found, and starts afresh.                                               *)
(*                                                                         *)
(* The tree is not fixed: each step the file system offers any folder or   *)
(* file, up to MaxEntries of them.  A folder is named by its number; names *)
(* of artists and albums are the folders they are taken from.  The level   *)
(* of a file is that of its folder plus one.                               *)
(***************************************************************************)
EXTENDS Integers, Sequences, SequencesExt

CONSTANTS
    MaxTracks,    \* the largest track number in a file name
    MaxDepth,     \* how deep folders are nested in the audio folder
    MaxEntries,   \* how many folders and files the audio folder holds
    Row,          \* the names in the cddb entry that the database finds
    None          \* NULL, an empty name

ASSUME ScanBounds == MaxTracks \in Nat /\ MaxDepth \in Nat /\ MaxEntries \in Nat

Folders == 1 .. MaxEntries

\* A disc as far as the scan knows it: the folder of the file it was read
\* from, what gave it its names, and the folder of each track's file (None:
\* the name is empty, or the one written in the json file).
Names == Folders \cup {None, Row}
Disc  == [from : Folders, artist : Names, album : Names, tracks : 0 .. MaxTracks,
          files : [1 .. MaxTracks -> Folders \cup {None}]]

ASSUME NoneIsDistinct == None \notin Folders /\ None \notin Disc /\ Row # None

DiscOrNone == Disc \cup {None}

VARIABLES
    path,           \* the folders from the audio folder to the current one
    entries,        \* how many folders and files have been read
    running,        \* FALSE when the audio folder itself has been left
    json_info, cue_sheet, audio_info,   \* 0: not found, 1: found, 2, 3: processed
    disc_level,     \* the level of the album's folder, 0 when there is none
    json_disc, cue_disc, file_disc,
    folder_artist, folder_album,
    cddb_file,      \* the folder of cddb_filename, None when cddb_files is 0
    counts,         \* the numbers the scan reports at its end
    done,           \* history: what the last folder left gave
    numbered        \* history: every audio file so far had a track number

flags == <<json_info, cue_sheet, audio_info>>
discs == <<json_disc, cue_disc, file_disc>>
names == <<folder_artist, folder_album>>
vars  == <<path, entries, running, flags, disc_level, discs, names, cddb_file,
           counts, done, numbered>>

\* A folder that has been entered and not left: whether it has folders in
\* it, and the files the scan has seen in it (a history, for the properties).
Kinds == {"badjson", "json", "badcue", "cdextract", "cue", "emptycue",
          "audio", "noise", "cddb"}
Entered == [name : Folders, sub : BOOLEAN, files : Seq(Kinds)]

\* What leaving a folder did: the source it took, the disc it put together
\* from it, the disc it gave to store_disc_in_database (None: it did not), and
\* the cddb entry it stored before.
Sources == {"json", "cdextract", "cue", "audio", "none"}
Left == [source : Sources, asked : DiscOrNone, disc : DiscOrNone,
         cddb : Folders \cup {None}]

TypeOK ==
    /\ path \in Seq(Entered) /\ Len(path) <= MaxDepth
    /\ entries \in 0 .. MaxEntries
    /\ running \in BOOLEAN
    /\ json_info \in 0 .. 2 /\ cue_sheet \in 0 .. 3 /\ audio_info \in 0 .. 1
    /\ disc_level \in 0 .. MaxDepth
    /\ json_disc \in DiscOrNone /\ cue_disc \in DiscOrNone /\ file_disc \in DiscOrNone
    /\ folder_artist \in Folders \cup {None} /\ folder_album \in Folders \cup {None}
    /\ cddb_file \in Folders \cup {None}
    /\ counts \in [stored : Nat, already : Nat, discarded : Nat, ignored : Nat,
                   folders : Nat]
    /\ done \in Left
    /\ numbered \in BOOLEAN

Nothing == [source |-> "none", asked |-> None, disc |-> None, cddb |-> None]

Init ==
    /\ path = <<>> /\ entries = 0 /\ running = TRUE
    /\ json_info = 0 /\ cue_sheet = 0 /\ audio_info = 0 /\ disc_level = 0
    /\ json_disc = None /\ cue_disc = None /\ file_disc = None
    /\ folder_artist = None /\ folder_album = None
    /\ cddb_file = None
    /\ counts = [stored |-> 0, already |-> 0, discarded |-> 0, ignored |-> 0,
                 folders |-> 0]
    /\ done = Nothing
    /\ numbered = TRUE

----------------------------------------------------------------------------
(* Reading folders and files *)

Level == Len(path)
Top   == path[Level]

Reading == running /\ entries < MaxEntries /\ entries' = entries + 1

EnterFolder ==
    /\ Reading
    /\ Level < MaxDepth
    /\ path' = Append(IF Level = 0 THEN path ELSE [path EXCEPT ![Level].sub = TRUE],
                      [name |-> entries', sub |-> FALSE, files |-> <<>>])
    /\ IF Level + 1 = 1
         THEN folder_artist' = entries' /\ UNCHANGED folder_album
         ELSE IF disc_level = 0
           THEN folder_album' = entries' /\ UNCHANGED folder_artist
           ELSE UNCHANGED names
    /\ UNCHANGED <<running, flags, disc_level, discs, cddb_file, counts, done,
                   numbered>>

\* A file counts only below an artist's folder (fts_level > 2).
File(kind) ==
    /\ Reading
    /\ Level >= 2
    /\ path' = [path EXCEPT ![Level].files = Append(@, kind)]
    /\ numbered' = (numbered /\ kind # "noise")
    /\ UNCHANGED <<running, names, counts, done>>

NoFiles == [i \in 1 .. MaxTracks |-> None]

\* The disc that a json file or a cue sheet in the current folder describes
Described(tracks) == [from |-> Top.name, artist |-> Top.name, album |-> Top.name,
                      tracks |-> tracks, files |-> NoFiles]

\* A cue sheet that names neither the artist nor the album
Untitled(tracks) == [Described(tracks) EXCEPT !.artist = None, !.album = None]

CueDiscs(kind) ==
    CASE kind = "emptycue"  -> {Described(0)}
      [] kind = "cue"       -> UNION {{Described(n), Untitled(n)} : n \in 1 .. MaxTracks}
      [] kind = "cdextract" -> {Described(n) : n \in 1 .. MaxTracks}

\* An unreadable json file clears the flag of a readable one before it.
BadJsonKeepsFlag ==
    /\ File("badjson")
    /\ json_info' = (IF json_info = 2 THEN 2 ELSE 1)
    /\ json_disc' = None
    /\ UNCHANGED <<cue_sheet, audio_info, cue_disc, file_disc, disc_level, cddb_file>>

BadJson ==
    /\ File("badjson")
    /\ json_info' = 1
    /\ json_disc' = None
    /\ UNCHANGED <<cue_sheet, audio_info, cue_disc, file_disc, disc_level, cddb_file>>

JsonKeepsLevel ==                               \* as a plain cue sheet does
    /\ File("json")
    /\ json_info' = 2
    /\ \E n \in 1 .. MaxTracks : json_disc' = Described(n)
    /\ disc_level' = IF disc_level = 0 THEN Level ELSE disc_level
    /\ UNCHANGED <<cue_sheet, audio_info, cue_disc, file_disc, cddb_file>>

Json ==
    /\ File("json")
    /\ json_info' = 2
    /\ \E n \in 1 .. MaxTracks : json_disc' = Described(n)
    /\ disc_level' = Level
    /\ UNCHANGED <<cue_sheet, audio_info, cue_disc, file_disc, cddb_file>>

\* Cue sheets are not looked at after a readable json file.  A second one
\* sets the flag back to "found", and so does one that cannot be parsed.
CueSheet(kind) ==
    /\ File(kind)
    /\ IF json_info = 2
         THEN UNCHANGED <<cue_sheet, cue_disc, disc_level>>
         ELSE IF cue_disc # None \/ kind = "badcue"
           THEN cue_sheet' = 1 /\ UNCHANGED <<cue_disc, disc_level>>
           ELSE
             /\ cue_disc' \in CueDiscs(kind)
             /\ cue_sheet' = IF kind = "cdextract" THEN 3 ELSE 2
             /\ disc_level' = IF kind = "cdextract" \/ disc_level = 0
                                THEN Level ELSE disc_level
    /\ UNCHANGED <<json_info, audio_info, json_disc, file_disc, cddb_file>>

\* The disc is named after the folders at its first audio file.
AudioDisc == IF file_disc # None THEN file_disc
             ELSE [from |-> Top.name, artist |-> folder_artist,
                   album |-> folder_album, tracks |-> 0, files |-> NoFiles]

\* n is the track number in the name of the file.
Numbered(d, n) == [d EXCEPT !.tracks = IF n > @ THEN n ELSE @, !.files[n] = Top.name]

AudioAnyNumber ==                               \* no check against CDE_MAX_TRACKS
    /\ File("audio")
    /\ audio_info' = 1
    /\ \E n \in 1 .. MaxTracks + 1 : file_disc' = Numbered(AudioDisc, n)
    /\ disc_level' = IF disc_level = 0 THEN Level ELSE disc_level
    /\ UNCHANGED <<json_info, cue_sheet, json_disc, cue_disc, cddb_file>>

Audio ==
    /\ File("audio")
    /\ audio_info' = 1
    /\ \E n \in 1 .. MaxTracks : file_disc' = Numbered(AudioDisc, n)
    /\ disc_level' = IF disc_level = 0 THEN Level ELSE disc_level
    /\ UNCHANGED <<json_info, cue_sheet, json_disc, cue_disc, cddb_file>>

\* An audio file without a track number, or with one too large
Noise ==
    /\ File("noise")
    /\ audio_info' = 1
    /\ file_disc' = AudioDisc
    /\ UNCHANGED <<json_info, cue_sheet, disc_level, json_disc, cue_disc, cddb_file>>

Cddb ==
    /\ File("cddb")
    /\ cddb_file' = Top.name
    /\ UNCHANGED <<flags, disc_level, discs>>

----------------------------------------------------------------------------
(* Leaving a folder *)

\* The audio files' names replace those in a json file or cdextract's own cue
\* sheet, when they are as many, and fewer than CDE_MAX_TRACKS.
WithFiles(d) ==
    IF file_disc = None \/ d.tracks # file_disc.tracks \/ d.tracks >= MaxTracks THEN d
    ELSE [d EXCEPT !.files = [i \in 1 .. MaxTracks |->
            IF i <= d.tracks /\ file_disc.files[i] # None THEN file_disc.files[i]
            ELSE d.files[i]]]

\* complete_disc_info first takes what is missing, and the names of the files,
\* from the disc of the audio files.  With these names it asks the database.
WithAlternative(d) ==
    IF file_disc = None THEN d
    ELSE [d EXCEPT
            !.artist = IF @ = None THEN file_disc.artist ELSE @,
            !.album  = IF @ = None THEN file_disc.album ELSE @,
            !.files  = [i \in 1 .. MaxTracks |->
              IF i <= d.tracks /\ file_disc.files[i] # None THEN file_disc.files[i]
              ELSE d.files[i]]]

\* What a disc is stored from, in the order of preference of the code
SourceCueFirst ==
    IF cue_sheet = 3 THEN "cdextract"
    ELSE IF cue_sheet = 2 /\ cue_disc # None /\ cue_disc.tracks > 0 THEN "cue"
    ELSE IF json_info = 2 THEN "json"
    ELSE IF audio_info = 1 /\ file_disc # None /\ file_disc.tracks > 0 THEN "audio"
    ELSE "none"

Source ==
    IF json_info = 2 THEN "json"
    ELSE IF cue_sheet = 3 THEN "cdextract"
    ELSE IF cue_sheet = 2 /\ cue_disc # None /\ cue_disc.tracks > 0 THEN "cue"
    ELSE IF audio_info = 1 /\ file_disc # None /\ file_disc.tracks > 0 THEN "audio"
    ELSE "none"

DiscOf(source) ==
    CASE source = "json"      -> WithFiles(json_disc)
      [] source = "cdextract" -> WithFiles(cue_disc)
      [] source = "cue"       -> WithAlternative(cue_disc)
      [] source = "audio"     -> file_disc
      [] source = "none"      -> None

\* Then the names of the cddb entry the database has found replace all others.
\* It fails without such an entry or without a MusicBrainz release.
Completed(d) == [d EXCEPT !.artist = Row, !.album = Row]
Completions(source) == IF source \in {"cue", "audio"} THEN BOOLEAN ELSE {TRUE}

\* get_coverart combines its results with &= and never reports a failure.
CoversReported(source) == IF source \in {"cue", "audio"} THEN BOOLEAN ELSE {TRUE}
Covers(source) == {TRUE}

\* store_disc_in_database without update: stored, already there, or an error
Outcomes == {"stored", "already", "discarded"}

One(b) == IF b THEN 1 ELSE 0
Counted(outcome) ==
    [stored    |-> counts.stored    + One(outcome = "stored"),
     already   |-> counts.already   + One(outcome = "already"),
     discarded |-> counts.discarded + One(outcome = "discarded"),
     ignored   |-> counts.ignored   + One(outcome = "ignored"),
     folders   |-> counts.folders   + 1]

StoreAlbum ==
    \E completed \in Completions(Source), covered \in Covers(Source),
       outcome \in Outcomes :
      /\ done' = [source |-> Source, asked |-> DiscOf(Source),
                  disc |-> IF ~completed THEN None
                           ELSE IF Source \in {"cue", "audio"}
                             THEN Completed(DiscOf(Source))
                           ELSE DiscOf(Source),
                  cddb |-> cddb_file]
      /\ counts' = Counted(IF Source = "none" THEN "ignored"
                           ELSE IF ~completed THEN "discarded"
                           ELSE IF ~covered THEN "nothing"
                           ELSE outcome)

\* The album has been dealt with: flags, discs and its name are reset.
ResetKeepsLevel ==                              \* disc_level is not reset
    /\ json_info' = 0 /\ cue_sheet' = 0 /\ audio_info' = 0
    /\ json_disc' = None /\ cue_disc' = None /\ file_disc' = None
    /\ folder_album' = None
    /\ cddb_file' = None
    /\ UNCHANGED disc_level

Reset ==
    /\ json_info' = 0 /\ cue_sheet' = 0 /\ audio_info' = 0 /\ disc_level' = 0
    /\ json_disc' = None /\ cue_disc' = None /\ file_disc' = None
    /\ folder_album' = None
    /\ cddb_file' = None

\* The audio folder itself has level 0, which is disc_level without an album.
LeaveFolder ==
    /\ running
    /\ IF Level = disc_level
         THEN StoreAlbum /\ Reset
         ELSE /\ done' = Nothing
              /\ UNCHANGED <<flags, disc_level, discs, folder_album, cddb_file, counts>>
    /\ folder_artist' = IF Level = 1 THEN None ELSE folder_artist
    /\ running' = (Level > 0)
    /\ path' = IF Level = 0 THEN path ELSE SubSeq(path, 1, Level - 1)
    /\ UNCHANGED <<entries, numbered>>

----------------------------------------------------------------------------

Next == \/ EnterFolder
        \/ BadJson \/ Json
        \/ \E kind \in {"badcue", "cdextract", "cue", "emptycue"} : CueSheet(kind)
        \/ Audio \/ Noise \/ Cddb
        \/ LeaveFolder

Spec == Init /\ [][Next]_vars

----------------------------------------------------------------------------
(* Properties *)

\* The branches that store from a json file or from cdextract's own cue sheet
\* look at the flag and not at the pointer: whatever files follow one
\* another, readable or not, the disc is there when its flag says so.
SourceIsThere ==
    /\ json_info = 2 => json_disc # None
    /\ cue_sheet \in {2, 3} => cue_disc # None
    /\ audio_info = 1 <=> file_disc # None

\* An album that has been found is still to be left: no order of files and
\* nested folders makes the scan walk past the level at which it would store
\* the disc.
AlbumIsAhead ==
    /\ disc_level # 0 => disc_level \in 2 .. Level
    /\ json_disc # None \/ cue_disc # None => disc_level # 0
    /\ file_disc # None /\ file_disc.tracks > 0 => disc_level # 0

\* The numbers reported at the end add up: each folder dealt with was stored,
\* known, discarded or ignored.
EveryFolderCounted ==
    counts.folders = counts.stored + counts.already + counts.discarded + counts.ignored

\* A json file is stored for the folder it lies in, even when the album
\* around it or a folder inside it has sources of its own.
JsonIsOwn ==
    [][LeaveFolder /\ done'.source = "json" => done'.disc.from = Top.name]_vars

\* A tidy album: at most one json file and one cue sheet, and neither albums
\* around it nor folders in it.
AtMostOne(files, kinds) ==
    \A i, j \in DOMAIN files : files[i] \in kinds /\ files[j] \in kinds => i = j
Cues == {"badcue", "cdextract", "cue", "emptycue"}
Tidy == /\ Level >= 2
        /\ ~Top.sub
        /\ \A i \in 1 .. Level - 1 : path[i].files = <<>>
        /\ AtMostOne(Top.files, {"json", "badjson"})
        /\ AtMostOne(Top.files, Cues)

\* What a tidy album should be stored from
Has(kind) == kind \in ToSet(Top.files)
Best == IF Has("json") THEN "json"
        ELSE IF Has("cdextract") THEN "cdextract"
        ELSE IF Has("cue") THEN "cue"
        ELSE IF Has("audio") THEN "audio"
        ELSE "none"

\* As long as audio files have track numbers, a tidy album is dealt with from
\* the best source in its own folder, and after its own cddb entry, whatever
\* came before it.  The disc the scan puts together, and asks the database
\* about, is named after that folder; only a cue sheet without names and
\* without audio files may leave it unnamed.  What is stored keeps that name
\* when it comes from a json file or from cdextract's own cue sheet, and has
\* the names of the entry in the database otherwise; its files are those of
\* the folder either way.
TidyAlbumIsIsolated ==
    [][LeaveFolder /\ numbered /\ Tidy =>
         /\ done'.source = Best
         /\ Best # "none" =>
              /\ done'.asked.from = Top.name
              /\ \/ done'.asked.album = Top.name
                 \/ Best = "cue" /\ ~Has("audio") /\ done'.asked.album = None
              /\ Has("cddb") => done'.cddb = Top.name
         /\ done'.disc # None =>
              /\ ToSet(done'.disc.files) \subseteq {Top.name, None}
              /\ done'.disc.album =
                   IF Best \in {"json", "cdextract"} THEN Top.name ELSE Row]_vars
=============================================================================
