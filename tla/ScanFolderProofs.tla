-------------------------- MODULE ScanFolderProofs --------------------------
(***************************************************************************)
(* Proofs about ScanFolder, for audio folders of any size and depth.       *)
(***************************************************************************)
EXTENDS ScanFolder, TLAPS, SequenceTheorems

----------------------------------------------------------------------------
(* Types *)

LEMMA DescribedType ==
  ASSUME TypeOK, Level >= 1, NEW n \in 0 .. MaxTracks
  PROVE  /\ Described(n) \in Disc
         /\ Described(n).from = Top.name
         /\ Described(n).tracks = n
<1>1. Top \in Entered
  BY DEF TypeOK, Top, Level
<1> QED
  BY <1>1 DEF Described, Disc, Names, NoFiles, Entered

LEMMA CueDiscsType ==
  ASSUME TypeOK, Level >= 1, NEW kind \in {"cdextract", "cue", "emptycue"}
  PROVE  CueDiscs(kind) \subseteq Disc
<1> SUFFICES ASSUME NEW d \in CueDiscs(kind)
             PROVE  d \in Disc
  OBVIOUS
<1>1. PICK n \in 0 .. MaxTracks : d = Described(n) \/ d = Untitled(n)
  BY ScanBounds DEF CueDiscs
<1>2. Described(n) \in Disc
  BY DescribedType
<1>3. Untitled(n) \in Disc
  BY <1>2 DEF Untitled, Disc, Names
<1> QED
  BY <1>1, <1>2, <1>3

LEMMA AudioDiscType ==
  ASSUME TypeOK, Level >= 1
  PROVE  AudioDisc \in Disc
<1>1. Top \in Entered
  BY DEF TypeOK, Top, Level
<1>2. CASE file_disc # None
  BY <1>2 DEF AudioDisc, TypeOK, DiscOrNone
<1>3. CASE file_disc = None
  BY <1>1, <1>3, ScanBounds DEF AudioDisc, TypeOK, Disc, Names, NoFiles,
     Entered
<1> QED
  BY <1>2, <1>3

LEMMA NumberedType ==
  ASSUME NEW d \in Disc, NEW n \in 1 .. MaxTracks, Top.name \in Folders
  PROVE  /\ Numbered(d, n) \in Disc
         /\ Numbered(d, n).tracks > 0
<1> DEFINE m == IF n > d.tracks THEN n ELSE d.tracks
           g == [d.files EXCEPT ![n] = Top.name]
<1>1. m \in 0 .. MaxTracks /\ m > 0
  BY ScanBounds DEF Disc
<1>2. g \in [1 .. MaxTracks -> Folders \cup {None}]
  BY DEF Disc
<1>3. Numbered(d, n) = [from |-> d.from, artist |-> d.artist, album |-> d.album,
                        tracks |-> m, files |-> g]
  <2> DEFINE d1 == [d EXCEPT !.tracks = m]
  <2>1. d1 = [from |-> d.from, artist |-> d.artist, album |-> d.album,
              tracks |-> m, files |-> d.files]
    BY DEF Disc
  <2>2. Numbered(d, n) = [d1 EXCEPT !.files = [d1.files EXCEPT ![n] = Top.name]]
    BY DEF Numbered
  <2> HIDE DEF d1, m
  <2> QED
    BY <2>1, <2>2
<1> HIDE DEF m, g
<1> QED
  BY <1>1, <1>2, <1>3 DEF Disc

LEMMA WithFilesType ==
  ASSUME NEW d \in Disc, file_disc \in DiscOrNone
  PROVE  /\ WithFiles(d) \in Disc /\ WithFiles(d).from = d.from
         /\ WithAlternative(d) \in Disc
         /\ Completed(d) \in Disc
  BY DEF WithFiles, WithAlternative, Completed, Disc, Names, DiscOrNone

\* Paths: entering, leaving and reading keep their type and the folders above.
LEMMA EnterPath ==
  ASSUME TypeOK, NEW f \in Folders,
         path' = Append(IF Level = 0 THEN path ELSE [path EXCEPT ![Level].sub = TRUE],
                        [name |-> f, sub |-> FALSE, files |-> <<>>])
  PROVE  /\ path' \in Seq(Entered)
         /\ Len(path') = Level + 1
         /\ \A i \in 1 .. Level : path'[i].name = path[i].name
         /\ \A i \in 1 .. Level : path'[i].files = path[i].files
         /\ \A i \in 1 .. Level : path'[i].sub = (i = Level \/ path[i].sub)
         /\ path'[Level + 1] = [name |-> f, sub |-> FALSE, files |-> <<>>]
<1> DEFINE p == IF Level = 0 THEN path ELSE [path EXCEPT ![Level].sub = TRUE]
           e == [name |-> f, sub |-> FALSE, files |-> <<>>]
<1>1. path \in Seq(Entered) /\ Level \in Nat
  BY DEF TypeOK, Level
<1>2. /\ p \in Seq(Entered) /\ Len(p) = Level
      /\ \A i \in 1 .. Level : p[i].name = path[i].name
      /\ \A i \in 1 .. Level : p[i].files = path[i].files
      /\ \A i \in 1 .. Level : p[i].sub = (i = Level \/ path[i].sub)
  <2>1. CASE Level = 0
    BY <1>1, <2>1 DEF Level
  <2>2. CASE Level # 0
    <3>1. path[Level] \in Entered /\ Level \in 1 .. Len(path)
      BY <1>1, <2>2 DEF Level
    <3>2. [path[Level] EXCEPT !.sub = TRUE] \in Entered
      BY <3>1 DEF Entered
    <3>3. p = [path EXCEPT ![Level] = [path[Level] EXCEPT !.sub = TRUE]]
      BY <2>2, <3>1
    <3> DEFINE q == [path[Level] EXCEPT !.sub = TRUE]
    <3>4. /\ q.name = path[Level].name /\ q.files = path[Level].files /\ q.sub
          /\ q \in Entered /\ p = [path EXCEPT ![Level] = q]
      BY <3>1, <3>2, <3>3 DEF Entered
    <3> HIDE DEF p, q
    <3>5. /\ p \in Seq(Entered) /\ Len(p) = Len(path) /\ p[Level] = q
          /\ \A i \in 1 .. Len(path) : i # Level => p[i] = path[i]
      BY ONLY <1>1, <3>1, <3>4, ExceptSeq
    <3>6. ASSUME NEW i \in 1 .. Level
          PROVE  /\ p[i].name = path[i].name /\ p[i].files = path[i].files
                 /\ p[i].sub = (i = Level \/ path[i].sub)
      <4>1. CASE i = Level
        BY <3>4, <3>5, <4>1 DEF Entered
      <4>2. CASE i # Level
        <5>1. p[i] = path[i] /\ path[i] \in Entered
          BY <1>1, <3>5, <4>2 DEF Level
        <5>2. path[i].sub \in BOOLEAN
          BY <5>1 DEF Entered
        <5> QED
          BY <4>2, <5>1, <5>2
      <4> QED
        BY <4>1, <4>2
    <3> QED
      BY <3>5, <3>6 DEF Level
  <2> QED
    BY <2>1, <2>2
<1>3. e \in Entered
  BY DEF Entered, Kinds
<1>4. path' = Append(p, e)
  OBVIOUS
<1> HIDE DEF p, e
<1>5. /\ Append(p, e) \in Seq(Entered) /\ Len(Append(p, e)) = Len(p) + 1
      /\ \A i \in 1 .. Len(p) : Append(p, e)[i] = p[i]
      /\ Append(p, e)[Len(p) + 1] = e
  BY ONLY <1>2, <1>3, AppendProperties
<1>6. /\ path' \in Seq(Entered) /\ Len(path') = Level + 1
      /\ \A i \in 1 .. Level : path'[i] = p[i]
      /\ path'[Level + 1] = e
  BY ONLY <1>2, <1>4, <1>5
<1>7. path'[Level + 1] = [name |-> f, sub |-> FALSE, files |-> <<>>]
  BY <1>6 DEF e
<1> QED
  BY ONLY <1>2, <1>6, <1>7

LEMMA FilePath ==
  ASSUME TypeOK, NEW kind \in Kinds, Level >= 2,
         path' = [path EXCEPT ![Level].files = Append(@, kind)]
  PROVE  /\ path' \in Seq(Entered)
         /\ Len(path') = Level
         /\ \A i \in 1 .. Level : path'[i].name = path[i].name
         /\ \A i \in 1 .. Level - 1 : path'[i] = path[i]
         /\ path'[Level].sub = path[Level].sub
         /\ path[Level].files \in Seq(Kinds)
         /\ path'[Level].files = Append(path[Level].files, kind)
<1>1. path \in Seq(Entered) /\ Level \in 1 .. Len(path) /\ path[Level] \in Entered
  BY DEF TypeOK, Level
<1> DEFINE e == [path[Level] EXCEPT !.files = Append(path[Level].files, kind)]
<1>2. /\ e \in Entered /\ e.name = path[Level].name /\ e.sub = path[Level].sub
      /\ e.files = Append(path[Level].files, kind) /\ path[Level].files \in Seq(Kinds)
  <2>1. path[Level].files \in Seq(Kinds)
    BY <1>1 DEF Entered
  <2>2. Append(path[Level].files, kind) \in Seq(Kinds)
    BY <2>1
  <2> QED
    BY <1>1, <2>2 DEF Entered
<1>3. path' = [path EXCEPT ![Level] = e]
  BY <1>1
<1> HIDE DEF e
<1>4. /\ path' \in Seq(Entered) /\ Len(path') = Len(path)
      /\ path'[Level] = e
      /\ \A i \in 1 .. Len(path) : i # Level => path'[i] = path[i]
  BY ONLY <1>1, <1>2, <1>3, ExceptSeq
<1>5. /\ \A i \in 1 .. Level - 1 : path'[i] = path[i]
      /\ \A i \in 1 .. Level : path'[i].name = path[i].name
  BY <1>1, <1>2, <1>4 DEF Level
<1> QED
  BY <1>2, <1>4, <1>5 DEF Level

LEMMA LeavePath ==
  ASSUME TypeOK,
         path' = IF Level = 0 THEN path ELSE SubSeq(path, 1, Level - 1)
  PROVE  /\ path' \in Seq(Entered)
         /\ Len(path') = IF Level = 0 THEN 0 ELSE Level - 1
         /\ \A i \in 1 .. Level - 1 : path'[i] = path[i]
  BY DEF TypeOK, Level

----------------------------------------------------------------------------
(* The inductive invariant *)

\* The json disc was read from a file of the folder at disc_level.
JsonIsHere == json_info = 2 => json_disc.from = path[disc_level].name

ScanInv == TypeOK /\ SourceIsThere /\ AlbumIsAhead /\ JsonIsHere

LEMMA InitScanInv == Init => ScanInv
<1> SUFFICES ASSUME Init PROVE ScanInv
  OBVIOUS
<1>1. TypeOK
  BY ScanBounds DEF Init, TypeOK, DiscOrNone, Nothing, Left, Sources
<1> QED
  BY <1>1 DEF Init, ScanInv, SourceIsThere, AlbumIsAhead, JsonIsHere

LEMMA SourceDisc ==
  ASSUME TypeOK, SourceIsThere
  PROVE  /\ Source # "none" => DiscOf(Source) \in Disc
         /\ DiscOf(Source) \in DiscOrNone
         /\ Source = "json" => json_info = 2 /\ DiscOf(Source).from = json_disc.from
<1>1. CASE Source = "json"
  <2>1. json_info = 2
    BY <1>1 DEF Source
  <2>2. json_disc \in Disc /\ file_disc \in DiscOrNone
    BY <2>1 DEF TypeOK, SourceIsThere, DiscOrNone
  <2>3. DiscOf(Source) = WithFiles(json_disc)
    BY <1>1 DEF DiscOf
  <2> QED
    BY <2>1, <2>2, <2>3, WithFilesType DEF DiscOrNone
<1>2. CASE Source \in {"cdextract", "cue"}
  <2>1. cue_sheet \in {2, 3}
    BY <1>2 DEF Source
  <2>2. cue_disc \in Disc /\ file_disc \in DiscOrNone
    BY <2>1 DEF TypeOK, SourceIsThere, DiscOrNone
  <2>3. DiscOf(Source) \in {WithFiles(cue_disc), WithAlternative(cue_disc)}
    BY <1>2 DEF DiscOf
  <2> QED
    BY <1>2, <2>2, <2>3, WithFilesType DEF DiscOrNone
<1>3. CASE Source = "audio"
  <2>1. file_disc \in Disc
    BY <1>3 DEF Source, TypeOK, DiscOrNone
  <2> QED
    BY <1>3, <2>1 DEF DiscOf, DiscOrNone
<1>4. CASE Source = "none"
  BY <1>4 DEF DiscOf, DiscOrNone
<1> QED
  BY <1>1, <1>2, <1>3, <1>4 DEF Source

LEMMA NextScanInv == ScanInv /\ [Next]_vars => ScanInv'
<1> SUFFICES ASSUME ScanInv, [Next]_vars
             PROVE  ScanInv'
  OBVIOUS
<1> USE DEF ScanInv
<1> USE NoneIsDistinct DEF flags, discs, names
<1>1. CASE EnterFolder
  <2>1. entries' \in Folders /\ entries' \in 0 .. MaxEntries
    BY <1>1, ScanBounds DEF EnterFolder, Reading, TypeOK, Folders
  <2>2. /\ path' \in Seq(Entered)
        /\ Level' = Level + 1
        /\ \A i \in 1 .. Level : path'[i].name = path[i].name
    <3>1. /\ path' \in Seq(Entered)
          /\ Len(path') = Level + 1
          /\ \A i \in 1 .. Level : path'[i].name = path[i].name
      BY <1>1, <2>1, EnterPath DEF EnterFolder
    <3> QED
      BY <3>1 DEF Level
  <2>3. /\ UNCHANGED <<running, flags, disc_level, discs, cddb_file, counts,
                        done, numbered>>
        /\ folder_artist' \in {folder_artist, entries'}
        /\ folder_album' \in {folder_album, entries'}
    BY <1>1 DEF EnterFolder
  <2>4. TypeOK'
    <3>1. Len(path') <= MaxDepth
      BY <1>1, <2>2, ScanBounds DEF EnterFolder, TypeOK, Level
    <3> QED
      BY <2>1, <2>2, <2>3, <3>1 DEF TypeOK
  <2> QED
    BY <2>2, <2>3, <2>4 DEF SourceIsThere, AlbumIsAhead, JsonIsHere, TypeOK, Level
<1>2. ASSUME NEW kind \in Kinds, File(kind)
      PROVE  /\ path' \in Seq(Entered) /\ Level' = Level /\ Level >= 2
             /\ \A i \in 1 .. Level : path'[i].name = path[i].name
             /\ entries' \in 0 .. MaxEntries /\ numbered' \in BOOLEAN
             /\ UNCHANGED <<running, names, counts, done>>
             /\ Top.name \in Folders /\ Level \in 1 .. MaxDepth
             /\ Len(path') <= MaxDepth
  <2>1. /\ path' \in Seq(Entered) /\ Len(path') = Level /\ Level >= 2
        /\ \A i \in 1 .. Level : path'[i].name = path[i].name
    BY <1>2, FilePath DEF File
  <2>2. entries' \in 0 .. MaxEntries
    BY <1>2, ScanBounds DEF File, Reading, TypeOK
  <2>3. numbered' \in BOOLEAN /\ UNCHANGED <<running, names, counts, done>>
    BY <1>2 DEF File, TypeOK
  <2>4. Level \in 1 .. MaxDepth
    BY <2>1, ScanBounds DEF TypeOK, Level
  <2>5. Top \in Entered
    BY <2>4 DEF TypeOK, Level, Top
  <2> QED
    BY <2>1, <2>2, <2>3, <2>4, <2>5 DEF Level, Entered
<1>3. CASE BadJson
  <2>1. "badjson" \in Kinds /\ File("badjson")
    BY <1>3 DEF BadJson, Kinds
  <2>2. TypeOK'
    BY <1>2, <1>3, <2>1 DEF BadJson, TypeOK, DiscOrNone
  <2> QED
    BY <1>2, <1>3, <2>1, <2>2 DEF BadJson, SourceIsThere, AlbumIsAhead, JsonIsHere
<1>4. CASE Json
  <2>1. "json" \in Kinds /\ File("json")
    BY <1>4 DEF Json, Kinds
  <2>2. PICK n \in 1 .. MaxTracks : json_disc' = Described(n)
    BY <1>4 DEF Json
  <2>3. json_disc' \in Disc /\ json_disc'.from = Top.name
    BY <1>2, <2>1, <2>2, ScanBounds, DescribedType
  <2>4. /\ json_info' = 2 /\ disc_level' = Level
        /\ UNCHANGED <<cue_sheet, audio_info, cue_disc, file_disc, cddb_file>>
    BY <1>4 DEF Json
  <2>5. TypeOK'
    BY <1>2, <2>1, <2>3, <2>4, ScanBounds DEF TypeOK, DiscOrNone
  <2> QED
    BY <1>2, <2>1, <2>3, <2>4, <2>5 DEF SourceIsThere, AlbumIsAhead, JsonIsHere, Top
<1>5. ASSUME NEW kind \in {"badcue", "cdextract", "cue", "emptycue"}, CueSheet(kind)
      PROVE  ScanInv'
  <2>1. kind \in Kinds /\ File(kind)
    BY <1>5 DEF CueSheet, Kinds
  <2>2. UNCHANGED <<json_info, audio_info, json_disc, file_disc, cddb_file>>
    BY <1>5 DEF CueSheet
  <2>3. CASE UNCHANGED <<cue_disc, disc_level>> /\ cue_sheet' \in {cue_sheet, 1}
    <3>1. TypeOK'
      BY <1>2, <2>1, <2>2, <2>3 DEF TypeOK
    <3> QED
      BY <1>2, <2>1, <2>2, <2>3, <3>1 DEF SourceIsThere, AlbumIsAhead, JsonIsHere,
         TypeOK
  <2>4. CASE /\ json_info # 2
             /\ kind # "badcue" /\ cue_disc' \in CueDiscs(kind)
             /\ cue_sheet' \in {2, 3} /\ disc_level' \in {Level, disc_level}
             /\ disc_level' # 0
    <3>1. cue_disc' \in Disc
      BY <1>2, <2>1, <2>4, CueDiscsType
    <3>2. TypeOK'
      BY <1>2, <2>1, <2>2, <2>4, <3>1 DEF TypeOK, DiscOrNone
    <3> QED
      BY <1>2, <2>1, <2>2, <2>4, <3>1, <3>2 DEF SourceIsThere, AlbumIsAhead,
         JsonIsHere, TypeOK
  <2>5. \/ UNCHANGED <<cue_disc, disc_level>> /\ cue_sheet' \in {cue_sheet, 1}
        \/ /\ json_info # 2
           /\ kind # "badcue" /\ cue_disc' \in CueDiscs(kind)
           /\ cue_sheet' \in {2, 3} /\ disc_level' \in {Level, disc_level}
           /\ disc_level' # 0
    BY <1>2, <1>5, <2>1 DEF CueSheet
  <2> QED
    BY <2>3, <2>4, <2>5
<1>6. CASE Audio
  <2>1. "audio" \in Kinds /\ File("audio")
    BY <1>6 DEF Audio, Kinds
  <2>2. PICK n \in 1 .. MaxTracks : file_disc' = Numbered(AudioDisc, n)
    BY <1>6 DEF Audio
  <2>3. file_disc' \in Disc
    BY <1>2, <2>1, <2>2, AudioDiscType, NumberedType
  <2>4. /\ audio_info' = 1 /\ disc_level' \in {Level, disc_level} /\ disc_level' # 0
        /\ UNCHANGED <<json_info, cue_sheet, json_disc, cue_disc, cddb_file>>
        /\ json_info = 2 => disc_level' = disc_level
    BY <1>2, <1>6, <2>1 DEF Audio, AlbumIsAhead, SourceIsThere
  <2>5. TypeOK'
    BY <1>2, <2>1, <2>3, <2>4 DEF TypeOK, DiscOrNone
  <2> QED
    BY <1>2, <2>1, <2>3, <2>4, <2>5 DEF SourceIsThere, AlbumIsAhead, JsonIsHere,
       TypeOK
<1>7. CASE Noise
  <2>1. "noise" \in Kinds /\ File("noise")
    BY <1>7 DEF Noise, Kinds
  <2>2. file_disc' = AudioDisc /\ file_disc' \in Disc
    BY <1>2, <1>7, <2>1, AudioDiscType DEF Noise
  <2>3. file_disc'.tracks > 0 => file_disc # None /\ file_disc.tracks > 0
    BY <2>2 DEF AudioDisc
  <2>4. /\ audio_info' = 1
        /\ UNCHANGED <<json_info, cue_sheet, disc_level, json_disc, cue_disc, cddb_file>>
    BY <1>7 DEF Noise
  <2>5. TypeOK'
    BY <1>2, <2>1, <2>2, <2>4 DEF TypeOK, DiscOrNone
  <2> QED
    BY <1>2, <2>1, <2>2, <2>3, <2>4, <2>5 DEF SourceIsThere, AlbumIsAhead,
       JsonIsHere, TypeOK
<1>8. CASE Cddb
  <2>1. "cddb" \in Kinds /\ File("cddb")
    BY <1>8 DEF Cddb, Kinds
  <2>2. TypeOK'
    BY <1>2, <1>8, <2>1 DEF Cddb, TypeOK
  <2> QED
    BY <1>2, <1>8, <2>1, <2>2 DEF Cddb, SourceIsThere, AlbumIsAhead, JsonIsHere,
       TypeOK
<1>9. CASE LeaveFolder
  <2>1. /\ path' \in Seq(Entered)
        /\ Level' = IF Level = 0 THEN 0 ELSE Level - 1
        /\ \A i \in 1 .. Level - 1 : path'[i].name = path[i].name
    BY <1>9, LeavePath DEF LeaveFolder, Level
  <2>2. Level \in Nat /\ Len(path') <= MaxDepth
    BY <2>1, ScanBounds DEF Level, TypeOK
  <2>3. /\ running' \in BOOLEAN /\ folder_artist' \in {folder_artist, None}
        /\ UNCHANGED <<entries, numbered>>
    BY <1>9 DEF LeaveFolder
  <2>4. CASE Level = disc_level
    <3>1. StoreAlbum /\ Reset
      BY <1>9, <2>4 DEF LeaveFolder
    <3>2. Source \in Sources
      BY DEF Source, Sources
    <3>3. DiscOf(Source) \in DiscOrNone
      BY SourceDisc
    <3>4. done' \in Left
      <4>1. Source \in {"cue", "audio"} => Completed(DiscOf(Source)) \in Disc
        BY SourceDisc, WithFilesType DEF TypeOK
      <4>2. /\ done'.disc \in {None, Completed(DiscOf(Source)), DiscOf(Source)}
            /\ done'.disc = Completed(DiscOf(Source)) \/ done'.disc \in DiscOrNone
            /\ done' = [source |-> Source, asked |-> DiscOf(Source),
                        disc |-> done'.disc, cddb |-> cddb_file]
            /\ done'.disc \in DiscOrNone
        BY <3>1, <3>3, <4>1 DEF StoreAlbum, DiscOrNone
      <4> QED
        BY <3>2, <3>3, <4>2 DEF TypeOK, Left
    <3>5. counts' \in [stored : Nat, already : Nat, discarded : Nat, ignored : Nat,
                       folders : Nat]
      <4>1. counts \in [stored : Nat, already : Nat, discarded : Nat, ignored : Nat,
                        folders : Nat]
        BY DEF TypeOK
      <4>2. \E outcome : counts' = Counted(outcome)
        BY <3>1 DEF StoreAlbum
      <4> QED
        BY <4>1, <4>2 DEF Counted, One
    <3>6. TypeOK'
      BY <2>1, <2>2, <2>3, <3>1, <3>4, <3>5, ScanBounds DEF Reset, TypeOK, DiscOrNone
    <3> QED
      BY <3>1, <3>6 DEF Reset, SourceIsThere, AlbumIsAhead, JsonIsHere
  <2>5. CASE Level # disc_level
    <3>1. /\ done' = Nothing
          /\ UNCHANGED <<flags, disc_level, discs, folder_album, cddb_file, counts>>
      BY <1>9, <2>5 DEF LeaveFolder
    <3>2. done' \in Left
      BY <3>1 DEF Nothing, Left, Sources, DiscOrNone
    <3>3. TypeOK'
      BY <2>1, <2>2, <2>3, <3>1, <3>2 DEF TypeOK
    <3> QED
      BY <2>1, <2>2, <2>5, <3>1, <3>3 DEF SourceIsThere, AlbumIsAhead, JsonIsHere
  <2> QED
    BY <2>4, <2>5
<1>10. CASE UNCHANGED vars
  BY <1>10 DEF vars, TypeOK, SourceIsThere, AlbumIsAhead, JsonIsHere, Level
<1> QED
  BY <1>1, <1>3, <1>4, <1>5, <1>6, <1>7, <1>8, <1>9, <1>10 DEF Next

LEMMA ScanInvariant == Spec => []ScanInv
  BY InitScanInv, NextScanInv, PTL DEF Spec

\* Whatever files and folders the audio folder holds, a flag that says a disc
\* has been read goes with the disc ...
THEOREM ScanAlwaysHasSource == Spec => []SourceIsThere
<1>1. ScanInv => SourceIsThere
  BY DEF ScanInv
<1> QED
  BY <1>1, ScanInvariant, PTL

\* ... and an album that has been found lies on the path the scan is still to
\* leave.
THEOREM ScanAlwaysKeepsAlbum == Spec => []AlbumIsAhead
<1>1. ScanInv => AlbumIsAhead
  BY DEF ScanInv
<1> QED
  BY <1>1, ScanInvariant, PTL

\* Every variable of the scan keeps its type.
THEOREM ScanTypeCorrect == Spec => []TypeOK
<1>1. ScanInv => TypeOK
  BY DEF ScanInv
<1> QED
  BY <1>1, InitScanInv, NextScanInv, PTL DEF Spec

\* A json file is stored for the folder it lies in.
THEOREM JsonIsAlwaysOwn == Spec => JsonIsOwn
<1>1. ScanInv /\ [Next]_vars =>
        [LeaveFolder /\ done'.source = "json" => done'.disc.from = Top.name]_vars
  <2> SUFFICES ASSUME ScanInv, LeaveFolder, done'.source = "json"
               PROVE  done'.disc.from = Top.name
    OBVIOUS
  <2>1. CASE Level # disc_level
    BY <2>1 DEF LeaveFolder, Nothing
  <2>2. CASE Level = disc_level
    <3>1. done'.source = Source /\ Source = "json"
      BY <2>2 DEF LeaveFolder, StoreAlbum
    <3>2. done'.disc = DiscOf(Source)
      <4>1. PICK completed \in Completions(Source) :
              done'.disc = IF ~completed THEN None
                           ELSE IF Source \in {"cue", "audio"}
                             THEN Completed(DiscOf(Source))
                           ELSE DiscOf(Source)
        BY <2>2 DEF LeaveFolder, StoreAlbum
      <4>2. Completions(Source) = {TRUE} /\ Source \notin {"cue", "audio"}
        BY <3>1 DEF Completions
      <4> QED
        BY <4>1, <4>2
    <3>3. json_info = 2 /\ done'.disc.from = json_disc.from
      BY <3>1, <3>2, SourceDisc DEF ScanInv
    <3> QED
      BY <2>2, <3>3 DEF ScanInv, JsonIsHere, Top
  <2> QED
    BY <2>1, <2>2
<1> QED
  BY <1>1, InitScanInv, NextScanInv, PTL DEF Spec, JsonIsOwn

\* The numbers the scan reports add up.
THEOREM EveryFolderIsCounted == Spec => []EveryFolderCounted
<1>1. Init => EveryFolderCounted
  BY DEF Init, EveryFolderCounted
<1>2. ScanInv /\ EveryFolderCounted /\ [Next]_vars => EveryFolderCounted'
  <2> SUFFICES ASSUME ScanInv, EveryFolderCounted, [Next]_vars
               PROVE  EveryFolderCounted'
    OBVIOUS
  <2>1. CASE UNCHANGED counts
    BY <2>1 DEF EveryFolderCounted
  <2>0. counts \in [stored : Nat, already : Nat, discarded : Nat, ignored : Nat, folders : Nat]
    BY DEF ScanInv, TypeOK
  <2>2. ASSUME NEW outcome \in Outcomes \cup {"ignored"}, counts' = Counted(outcome)
        PROVE  EveryFolderCounted'
    BY <2>0, <2>2 DEF EveryFolderCounted, Counted, One, Outcomes
  <2>3. CASE LeaveFolder
    <3>1. CASE StoreAlbum
      BY <2>2, <3>1 DEF StoreAlbum, Covers, Outcomes
    <3> QED
      BY <2>1, <2>3, <3>1 DEF LeaveFolder
  <2> QED
    BY <2>1, <2>3 DEF Next, EnterFolder, File, BadJson, Json, CueSheet, Audio,
       Noise, Cddb, vars
<1> QED
  BY <1>1, <1>2, InitScanInv, NextScanInv, PTL DEF Spec

----------------------------------------------------------------------------
(* Tidy albums *)

\* Every folder on the path but the last has a folder in it, and the album's
\* folder has a file.
PathInv ==
    /\ \A i \in 1 .. Level - 1 : path[i].sub
    /\ disc_level # 0 => path[disc_level].files # <<>>
    /\ numbered /\ file_disc # None => file_disc.tracks > 0

\* A disc read from the current folder, that names no other
Own(d) == /\ d.from = Top.name
          /\ d.album \in {Top.name, None}
          /\ \A i \in 1 .. MaxTracks : d.files[i] \in {Top.name, None}

JsonRead == /\ json_info = 2 <=> Has("json")
            /\ Has("json") => Own(json_disc) /\ json_disc.album = Top.name

CueRead == /\ cue_disc # None <=> Has("cdextract") \/ Has("cue") \/ Has("emptycue")
           /\ cue_sheet = 3 <=> Has("cdextract")
           /\ cue_sheet = 2 <=> Has("cue") \/ Has("emptycue")
           /\ cue_disc # None => Own(cue_disc)
           /\ Has("cdextract") => cue_disc.album = Top.name
           /\ Has("cue") => cue_disc.tracks > 0
           /\ Has("emptycue") => cue_disc.tracks = 0

AudioRead == /\ file_disc # None <=> Has("audio")
             /\ Has("audio") => Own(file_disc) /\ file_disc.album = Top.name

\* What the scan knows of a tidy album is what lies in its folder.
AlbumRead ==
    /\ folder_album = Top.name
    /\ JsonRead
    /\ Has("json") \/ CueRead
    /\ AudioRead
    /\ Has("cddb") => cddb_file = Top.name

TidyInv == PathInv /\ (numbered /\ Tidy => AlbumRead)

LEMMA InitTidyInv == Init => TidyInv
  BY DEF Init, TidyInv, PathInv, Tidy, Level

\* The album's folder in a tidy place is the current one.
LEMMA TidyLevel ==
  ASSUME TypeOK, AlbumIsAhead, PathInv,
         \A i \in 1 .. Level - 1 : path[i].files = <<>>
  PROVE  disc_level \in {0, Level}
  BY DEF AlbumIsAhead, PathInv, TypeOK, Level

\* A file in a tidy folder leaves a folder that was tidy before it.
LEMMA TidyFile ==
  ASSUME TypeOK, NEW kind \in Kinds, Level >= 2,
         path' = [path EXCEPT ![Level].files = Append(@, kind)], Tidy'
  PROVE  /\ Tidy
         /\ \A k \in Kinds : Has(k)' <=> Has(k) \/ k = kind
         /\ Top'.name = Top.name /\ Level' = Level
         /\ kind \in {"json", "badjson"} => ~Has("json") /\ ~Has("badjson")
         /\ kind \in Cues => \A k \in Cues : ~Has(k)
<1> DEFINE f == path[Level].files
           g == path'[Level].files
<1>0. Level \in Nat /\ Level \in 1 .. Level
  BY DEF TypeOK, Level
<1>1. /\ Len(path') = Level
      /\ \A i \in 1 .. Level : path'[i].name = path[i].name
      /\ \A i \in 1 .. Level - 1 : path'[i] = path[i]
      /\ path'[Level].sub = path[Level].sub
      /\ f \in Seq(Kinds) /\ g = Append(f, kind)
  BY FilePath
<1>l. Level' = Level
  BY <1>1 DEF Level
<1> HIDE DEF f, g
<1>2. Len(f) \in Nat /\ DOMAIN f = 1 .. Len(f)
  BY <1>1, LenProperties
<1>3. /\ DOMAIN g = DOMAIN f \cup {Len(f) + 1} /\ Len(f) + 1 \notin DOMAIN f
      /\ g[Len(f) + 1] = kind /\ \A i \in DOMAIN f : g[i] = f[i]
  BY <1>1, <1>2, AppendProperties
<1>4. Top.files = f /\ Top'.files = g
  BY <1>l DEF Top, f, g
<1>5. \A k \in Kinds : Has(k)' <=> Has(k) \/ k = kind
  BY <1>3, <1>4 DEF Has, ToSet
<1>6. AtMostOne(g, {"json", "badjson"}) /\ AtMostOne(g, Cues)
  BY <1>4 DEF Tidy
<1>7. /\ AtMostOne(f, {"json", "badjson"}) /\ AtMostOne(f, Cues)
      /\ kind \in {"json", "badjson"} => \A i \in DOMAIN f : f[i] \notin {"json", "badjson"}
      /\ kind \in Cues => \A i \in DOMAIN f : f[i] \notin Cues
  BY <1>3, <1>6 DEF AtMostOne
<1>8. /\ kind \in {"json", "badjson"} => ~Has("json") /\ ~Has("badjson")
      /\ kind \in Cues => \A k \in Cues : ~Has(k)
  BY <1>4, <1>7 DEF Has, ToSet
<1>9. Tidy
  BY <1>0, <1>1, <1>l, <1>4, <1>7 DEF Tidy, Top
<1> QED
  BY <1>0, <1>1, <1>l, <1>5, <1>8, <1>9 DEF Top

\* What a file in a tidy folder leaves as it was
LEMMA SameAlbum ==
  ASSUME Top'.name = Top.name, folder_album' = folder_album,
         AlbumRead, cddb_file' = cddb_file, ~Has("cddb") => ~Has("cddb")'
  PROVE  folder_album' = Top'.name /\ (Has("cddb")' => cddb_file' = Top'.name)
  BY DEF AlbumRead

LEMMA SameJson ==
  ASSUME Top'.name = Top.name, AlbumRead, Has("json")' <=> Has("json"),
         UNCHANGED <<json_info, json_disc>>
  PROVE  JsonRead'
  BY DEF AlbumRead, JsonRead, Own

LEMMA SameCue ==
  ASSUME Top'.name = Top.name, CueRead, \A k \in Cues : Has(k)' <=> Has(k),
         UNCHANGED <<cue_sheet, cue_disc>>
  PROVE  CueRead'
  BY DEF CueRead, Cues, Own

LEMMA SameAudio ==
  ASSUME Top'.name = Top.name, AlbumRead, Has("audio")' <=> Has("audio"),
         file_disc' = file_disc
  PROVE  AudioRead'
  BY DEF AlbumRead, AudioRead, Own

LEMMA DescribedOwn ==
  ASSUME NEW n \in 0 .. MaxTracks
  PROVE  /\ Own(Described(n)) /\ Described(n).album = Top.name
         /\ Own(Untitled(n)) /\ Untitled(n).tracks = n /\ Described(n).tracks = n
  BY DEF Own, Described, Untitled, NoFiles

LEMMA NumberedOwn ==
  ASSUME NEW d \in Disc, NEW n \in 1 .. MaxTracks, Own(d)
  PROVE  Own(Numbered(d, n)) /\ Numbered(d, n).album = d.album
<1> DEFINE g == [d.files EXCEPT ![n] = Top.name]
<1>1. /\ Numbered(d, n).from = d.from /\ Numbered(d, n).album = d.album
      /\ Numbered(d, n).files = g
  BY DEF Numbered, Disc
<1>2. \A i \in 1 .. MaxTracks : g[i] \in {Top.name, None}
  BY DEF Own, Disc
<1> HIDE DEF g
<1> QED
  BY <1>1, <1>2 DEF Own

LEMMA TopType ==
  ASSUME TypeOK, Level >= 1
  PROVE  Top \in Entered /\ Top.name \in Folders
<1>1. Top \in Entered
  BY DEF TypeOK, Top, Level
<1> QED
  BY <1>1 DEF Entered

LEMMA FilePathInv ==
  ASSUME ScanInv, PathInv, NEW kind \in Kinds, File(kind),
         disc_level' \in {disc_level, Level},
         numbered' /\ file_disc' # None => file_disc'.tracks > 0
  PROVE  PathInv'
<1>1. /\ Level >= 2 /\ Level \in Nat /\ disc_level \in 0 .. Level
      /\ path' = [path EXCEPT ![Level].files = Append(@, kind)]
  BY DEF File, ScanInv, TypeOK, AlbumIsAhead, Level
<1>2. /\ Len(path') = Level
      /\ \A i \in 1 .. Level - 1 : path'[i] = path[i]
      /\ path[Level].files \in Seq(Kinds)
      /\ path'[Level].files = Append(path[Level].files, kind)
  BY <1>1, FilePath DEF ScanInv
<1>3. Level' = Level
  BY <1>2 DEF Level
<1>4. path'[Level].files # <<>>
  BY <1>2, AppendProperties
<1> QED
  BY <1>1, <1>2, <1>3, <1>4 DEF PathInv

LEMMA NextPathInv ==
  ASSUME ScanInv, PathInv, [Next]_vars
  PROVE  PathInv'
<1>0. TypeOK /\ AlbumIsAhead /\ Level \in Nat
  BY DEF ScanInv, TypeOK, Level
<1>1. CASE EnterFolder
  <2>1. entries' \in Folders /\ UNCHANGED <<disc_level, file_disc, numbered>>
    BY <1>0, <1>1, ScanBounds DEF EnterFolder, Reading, TypeOK, Folders, discs
  <2>2. /\ Len(path') = Level + 1
        /\ \A i \in 1 .. Level : path'[i].files = path[i].files
        /\ \A i \in 1 .. Level : path'[i].sub = (i = Level \/ path[i].sub)
    BY <1>0, <1>1, <2>1, EnterPath DEF EnterFolder
  <2>3. Level' = Level + 1
    BY <2>2 DEF Level
  <2>4. ASSUME NEW i \in 1 .. Level' - 1 PROVE path'[i].sub
    <3>1. i \in 1 .. Level /\ path'[i].sub = (i = Level \/ path[i].sub)
      BY <1>0, <2>2, <2>3
    <3>2. i # Level => path[i].sub
      BY <1>0, <3>1 DEF PathInv
    <3> QED
      BY <3>1, <3>2
  <2>5. disc_level' # 0 => path'[disc_level'].files # <<>>
    BY <1>0, <2>1, <2>2 DEF PathInv, AlbumIsAhead
  <2>6. numbered' /\ file_disc' # None => file_disc'.tracks > 0
    BY <2>1 DEF PathInv
  <2> QED
    BY <2>4, <2>5, <2>6 DEF PathInv
<1>2. ASSUME NEW kind \in Kinds, File(kind), UNCHANGED file_disc,
             disc_level' \in {disc_level, Level}
      PROVE  PathInv'
  BY <1>2, FilePathInv DEF PathInv, File
<1>3. CASE BadJson \/ Json \/ Cddb
  BY <1>2, <1>3 DEF BadJson, Json, Cddb, Kinds, discs
<1>4. ASSUME NEW kind \in {"badcue", "cdextract", "cue", "emptycue"}, CueSheet(kind)
      PROVE  PathInv'
  BY <1>2, <1>4 DEF CueSheet, Kinds
<1>5. CASE Audio
  <2>1. /\ "audio" \in Kinds /\ File("audio") /\ Level >= 2
        /\ disc_level' \in {disc_level, Level}
    BY <1>5 DEF Audio, File, Kinds
  <2>2. PICK n \in 1 .. MaxTracks : file_disc' = Numbered(AudioDisc, n)
    BY <1>5 DEF Audio
  <2>3. Top.name \in Folders
    BY <1>0, <2>1, TopType
  <2>4. file_disc'.tracks > 0
    BY <1>0, <2>1, <2>2, <2>3, AudioDiscType, NumberedType
  <2> QED
    BY <2>1, <2>4, FilePathInv
<1>6. CASE Noise
  <2>1. "noise" \in Kinds /\ File("noise") /\ ~numbered' /\ disc_level' = disc_level
    BY <1>6 DEF Noise, File, Kinds
  <2> QED
    BY <2>1, FilePathInv
<1>7. CASE LeaveFolder
  <2>1. /\ Len(path') = IF Level = 0 THEN 0 ELSE Level - 1
        /\ \A i \in 1 .. Level - 1 : path'[i] = path[i]
    BY <1>0, <1>7, LeavePath DEF LeaveFolder
  <2>2. Level' = IF Level = 0 THEN 0 ELSE Level - 1
    BY <2>1 DEF Level
  <2>3. \/ disc_level' = 0 /\ file_disc' = None
        \/ disc_level' = disc_level /\ disc_level # Level /\ file_disc' = file_disc
    BY <1>7 DEF LeaveFolder, Reset, discs
  <2>4. numbered' = numbered
    BY <1>7 DEF LeaveFolder
  <2> QED
    BY <1>0, <2>1, <2>2, <2>3, <2>4 DEF PathInv, AlbumIsAhead
<1>8. CASE UNCHANGED vars
  BY <1>8 DEF vars, discs, PathInv, Level
<1> QED
  BY <1>1, <1>3, <1>4, <1>5, <1>6, <1>7, <1>8 DEF Next

LEMMA NextAlbumRead ==
  ASSUME ScanInv, TidyInv, [Next]_vars, numbered', Tidy'
  PROVE  AlbumRead'
<1>0. /\ TypeOK /\ AlbumIsAhead /\ SourceIsThere /\ PathInv /\ Level \in Nat
      /\ json_disc \in DiscOrNone /\ cue_disc \in DiscOrNone
      /\ file_disc \in DiscOrNone
  BY DEF ScanInv, TypeOK, Level, TidyInv
<1>1. CASE EnterFolder
  <2>0. UNCHANGED <<flags, disc_level, discs, numbered>>
    BY <1>1 DEF EnterFolder
  <2>r. entries' \in Folders
    <3>1. entries \in 0 .. MaxEntries /\ Reading
      BY <1>0, <1>1 DEF EnterFolder, TypeOK
    <3> QED
      BY <3>1, ScanBounds DEF Reading, Folders
  <2>1. entries' \in Folders /\ UNCHANGED <<flags, disc_level, discs, numbered>>
    BY <2>0, <2>r
  <2>2. /\ Len(path') = Level + 1
        /\ \A i \in 1 .. Level : path'[i].files = path[i].files
        /\ path'[Level + 1] = [name |-> entries', sub |-> FALSE, files |-> <<>>]
    BY <1>0, <1>1, <2>1, EnterPath DEF EnterFolder
  <2>3. Level' = Level + 1
    BY <2>2 DEF Level
  <2>4. Top' = [name |-> entries', sub |-> FALSE, files |-> <<>>] /\ Level >= 1
        /\ \A i \in 1 .. Level : path'[i].files = <<>>
    BY <1>0, <2>2, <2>3 DEF Top, Tidy
  <2>5. disc_level = 0
    BY <1>0, <2>2, <2>4 DEF PathInv, AlbumIsAhead
  <2>6. json_disc = None /\ cue_disc = None /\ file_disc = None
    BY <1>0, <2>1, <2>5 DEF PathInv, AlbumIsAhead
  <2>7. folder_album' = Top'.name
    BY <1>0, <1>1, <2>4, <2>5 DEF EnterFolder
  <2>8. \A k \in Kinds : ~Has(k)'
    BY <2>4 DEF Has, ToSet
  <2> QED
    BY <1>0, <2>1, <2>6, <2>7, <2>8
       DEF AlbumRead, JsonRead, CueRead, AudioRead, SourceIsThere, flags, discs, Kinds
<1>2. ASSUME NEW kind \in Kinds, File(kind)
      PROVE  /\ AlbumRead /\ folder_album' = folder_album /\ Level \in 1 .. Level
             /\ \A k \in Kinds : Has(k)' <=> Has(k) \/ k = kind
             /\ Top'.name = Top.name /\ Top.name \in Folders
             /\ kind \in {"json", "badjson"} => ~Has("json") /\ ~Has("badjson")
             /\ kind \in Cues => \A k \in Cues : ~Has(k)
  <2>1. /\ Level >= 2 /\ numbered /\ folder_album' = folder_album
        /\ path' = [path EXCEPT ![Level].files = Append(@, kind)]
    BY <1>2 DEF File, names
  <2>2. /\ Tidy
        /\ \A k \in Kinds : Has(k)' <=> Has(k) \/ k = kind
        /\ Top'.name = Top.name
        /\ kind \in {"json", "badjson"} => ~Has("json") /\ ~Has("badjson")
        /\ kind \in Cues => \A k \in Cues : ~Has(k)
    BY <1>0, <2>1, TidyFile
  <2>3. Level \in 1 .. Level /\ Top.name \in Folders
    BY <1>0, <2>1, TopType
  <2> QED
    BY <2>1, <2>2, <2>3 DEF TidyInv
<1>3. CASE BadJson
  <2>1. "badjson" \in Kinds /\ File("badjson")
    BY <1>3 DEF BadJson, Kinds
  <2>2. json_info' = 1 /\ UNCHANGED <<cue_sheet, cue_disc, file_disc, cddb_file>>
    BY <1>3 DEF BadJson
  <2>3. /\ AlbumRead /\ folder_album' = folder_album /\ Top'.name = Top.name
        /\ \A k \in Kinds : Has(k)' <=> Has(k) \/ k = "badjson"
        /\ ~Has("json")
    BY <1>2, <2>1
  <2>4. JsonRead'
    BY <2>2, <2>3 DEF JsonRead, Kinds
  <2>5. CueRead'
    BY <2>2, <2>3, SameCue DEF AlbumRead, Cues, Kinds
  <2>6. AudioRead'
    BY <2>2, <2>3, SameAudio DEF Kinds
  <2> QED
    BY <2>2, <2>3, <2>4, <2>5, <2>6, SameAlbum DEF AlbumRead, Kinds
<1>4. CASE Json
  <2>1. "json" \in Kinds /\ File("json")
    BY <1>4 DEF Json, Kinds
  <2>2. json_info' = 2 /\ UNCHANGED <<cue_sheet, cue_disc, file_disc, cddb_file>>
    BY <1>4 DEF Json
  <2>3. PICK n \in 1 .. MaxTracks : json_disc' = Described(n)
    BY <1>4 DEF Json
  <2>4. /\ AlbumRead /\ folder_album' = folder_album /\ Top'.name = Top.name
        /\ \A k \in Kinds : Has(k)' <=> Has(k) \/ k = "json"
    BY <1>2, <2>1
  <2>5. Own(Described(n)) /\ Described(n).album = Top.name
    BY DescribedOwn, ScanBounds
  <2>6. JsonRead' /\ Has("json")'
    BY <2>2, <2>3, <2>4, <2>5 DEF JsonRead, Own, Kinds
  <2>7. AudioRead'
    BY <2>2, <2>4, SameAudio DEF Kinds
  <2> QED
    BY <2>2, <2>4, <2>6, <2>7, SameAlbum DEF AlbumRead, Kinds
<1>5. ASSUME NEW kind \in {"badcue", "cdextract", "cue", "emptycue"}, CueSheet(kind)
      PROVE  AlbumRead'
  <2>1. kind \in Kinds /\ kind \in Cues /\ File(kind)
    BY <1>5 DEF CueSheet, Kinds, Cues
  <2>2. UNCHANGED <<json_info, json_disc, file_disc, cddb_file>>
    BY <1>5 DEF CueSheet
  <2>3. /\ AlbumRead /\ folder_album' = folder_album /\ Top'.name = Top.name
        /\ \A k \in Kinds : Has(k)' <=> Has(k) \/ k = kind
        /\ \A k \in Cues : ~Has(k)
    BY <1>2, <2>1
  <2>4. (Has("json")' <=> Has("json")) /\ (Has("audio")' <=> Has("audio"))
        /\ (Has("cddb")' <=> Has("cddb"))
    BY <2>3 DEF Kinds
  <2>5. JsonRead' /\ AudioRead'
    BY <2>2, <2>3, <2>4, SameJson, SameAudio
  <2>6. ASSUME ~Has("json") PROVE CueRead'
    <3>1. json_info # 2 /\ cue_disc = None
      BY <2>3, <2>6 DEF AlbumRead, JsonRead, CueRead, Cues
    <3>2. CASE kind = "badcue"
      <4>1. cue_sheet' = 1 /\ cue_disc' = cue_disc
        BY <1>5, <3>1, <3>2 DEF CueSheet
      <4>2. ~Has("cdextract")' /\ ~Has("cue")' /\ ~Has("emptycue")'
        BY <2>3, <3>2 DEF Kinds, Cues
      <4> QED
        BY <3>1, <4>1, <4>2 DEF CueRead
    <3>3. CASE kind # "badcue"
      <4>1. /\ cue_disc' \in CueDiscs(kind)
            /\ cue_sheet' = IF kind = "cdextract" THEN 3 ELSE 2
        BY <1>5, <3>1, <3>3 DEF CueSheet
      <4>2. PICK n \in 0 .. MaxTracks :
              /\ cue_disc' = Described(n) \/ (kind = "cue" /\ cue_disc' = Untitled(n))
              /\ kind = "cue" => n > 0
              /\ kind = "emptycue" => n = 0
        BY <3>3, <4>1, ScanBounds DEF CueDiscs
      <4>3. /\ Own(Described(n)) /\ Described(n).album = Top.name
            /\ Own(Untitled(n)) /\ Untitled(n).tracks = n /\ Described(n).tracks = n
        BY DescribedOwn
      <4>4. /\ Own(cue_disc') /\ cue_disc'.tracks = n
            /\ kind # "cue" => cue_disc'.album = Top.name
        BY <4>2, <4>3
      <4>5. cue_disc' # None
        <5>1. Level >= 1
          BY <1>2, <2>1
        <5>2. cue_disc' \in Disc
          BY <1>0, <3>3, <4>1, <5>1, CueDiscsType
        <5> QED
          BY <5>2, NoneIsDistinct
      <4>6. \A k \in Cues : Has(k)' <=> k = kind
        BY <2>3 DEF Cues, Kinds
      <4>7. Own(cue_disc)'
        BY <2>3, <4>4 DEF Own
      <4> QED
        BY <2>3, <3>3, <4>1, <4>2, <4>4, <4>5, <4>6, <4>7 DEF CueRead, Cues
    <3> QED
      BY <3>2, <3>3
  <2> QED
    BY <2>2, <2>3, <2>4, <2>5, <2>6, SameAlbum DEF AlbumRead
<1>6. CASE Audio
  <2>1. "audio" \in Kinds /\ File("audio")
    BY <1>6 DEF Audio, Kinds
  <2>2. UNCHANGED <<json_info, cue_sheet, json_disc, cue_disc, cddb_file>>
    BY <1>6 DEF Audio
  <2>3. PICK n \in 1 .. MaxTracks : file_disc' = Numbered(AudioDisc, n)
    BY <1>6 DEF Audio
  <2>4. /\ AlbumRead /\ folder_album' = folder_album /\ Top'.name = Top.name
        /\ \A k \in Kinds : Has(k)' <=> Has(k) \/ k = "audio"
        /\ Top.name \in Folders /\ Level >= 1
    BY <1>2, <2>1
  <2>5. AudioDisc \in Disc /\ Own(AudioDisc) /\ AudioDisc.album = Top.name
    BY <1>0, <2>4, AudioDiscType
       DEF AudioDisc, AlbumRead, AudioRead, Own, NoFiles
  <2>6. file_disc' \in Disc /\ Own(file_disc') /\ file_disc'.album = Top.name
    BY <2>3, <2>4, <2>5, NumberedType, NumberedOwn
  <2>7. AudioRead'
    BY <2>4, <2>6, NoneIsDistinct DEF AudioRead, Own, Kinds
  <2>8. JsonRead'
    BY <2>2, <2>4, SameJson DEF Kinds
  <2>9. ASSUME CueRead PROVE CueRead'
    BY <2>2, <2>4, <2>9, SameCue DEF Cues, Kinds
  <2> QED
    BY <2>2, <2>4, <2>7, <2>8, <2>9, SameAlbum DEF AlbumRead, Kinds
<1>7. CASE Noise
  BY <1>7 DEF Noise, File
<1>8. CASE Cddb
  <2>1. "cddb" \in Kinds /\ File("cddb")
    BY <1>8 DEF Cddb, Kinds
  <2>2. cddb_file' = Top.name /\ UNCHANGED <<flags, discs>>
    BY <1>8 DEF Cddb
  <2>3. /\ AlbumRead /\ folder_album' = folder_album /\ Top'.name = Top.name
        /\ \A k \in Kinds : Has(k)' <=> Has(k) \/ k = "cddb"
    BY <1>2, <2>1
  <2>4. JsonRead' /\ AudioRead'
    BY <2>2, <2>3, SameJson, SameAudio DEF flags, discs, Kinds
  <2>5. ASSUME CueRead PROVE CueRead'
    BY <2>2, <2>3, <2>5, SameCue DEF Cues, Kinds, flags, discs
  <2> QED
    BY <2>2, <2>3, <2>4, <2>5 DEF AlbumRead, Kinds
<1>9. CASE LeaveFolder
  <2>1. /\ Len(path') = IF Level = 0 THEN 0 ELSE Level - 1
        /\ \A i \in 1 .. Level - 1 : path'[i] = path[i]
    BY <1>0, <1>9, LeavePath DEF LeaveFolder
  <2>2. Level' = IF Level = 0 THEN 0 ELSE Level - 1
    BY <2>1 DEF Level
  <2>3. Level' \in 1 .. Level - 1 /\ ~Top'.sub
    BY <1>0, <2>2 DEF Tidy
  <2> QED
    BY <1>0, <2>1, <2>3 DEF PathInv, Top
<1>10. CASE UNCHANGED vars
  <2>1. numbered /\ Tidy
    BY <1>10 DEF vars, Tidy, Top, Level
  <2> QED
    BY <1>10, <2>1 DEF TidyInv, vars, flags, discs, names, AlbumRead, JsonRead,
       CueRead, AudioRead, Own, Has, Top, Level
<1> QED
  BY <1>1, <1>3, <1>4, <1>5, <1>6, <1>7, <1>8, <1>9, <1>10 DEF Next

LEMMA TidyInvariant == Spec => [](ScanInv /\ TidyInv)
<1>1. ScanInv /\ TidyInv /\ [Next]_vars => TidyInv'
  BY NextPathInv, NextAlbumRead DEF TidyInv
<1> QED
  BY <1>1, InitScanInv, NextScanInv, InitTidyInv, PTL DEF Spec

----------------------------------------------------------------------------
(* What a tidy album is stored from *)

\* In a tidy folder the flags lead to the best of its files ...
LEMMA TidySource ==
  ASSUME ScanInv, PathInv, numbered, AlbumRead
  PROVE  Source = Best
<1>1. CASE Has("json")
  BY <1>1 DEF AlbumRead, JsonRead, Source, Best
<1>2. CASE ~Has("json")
  <2>1. json_info # 2 /\ CueRead /\ AudioRead
    BY <1>2 DEF AlbumRead, JsonRead
  <2>2. Has("audio") => audio_info = 1 /\ file_disc # None /\ file_disc.tracks > 0
    BY <2>1 DEF ScanInv, SourceIsThere, AudioRead, PathInv
  <2>3. Has("cue") => cue_disc # None /\ cue_disc.tracks > 0
    BY <2>1 DEF CueRead
  <2>4. CASE Has("cdextract")
    BY <1>2, <2>1, <2>4 DEF CueRead, Source, Best
  <2>5. CASE ~Has("cdextract") /\ Has("cue")
    BY <1>2, <2>1, <2>3, <2>5 DEF CueRead, Source, Best
  <2>6. CASE ~Has("cdextract") /\ ~Has("cue")
    <3>1. ~(cue_sheet = 2 /\ cue_disc # None /\ cue_disc.tracks > 0) /\ cue_sheet # 3
      BY <2>1, <2>6 DEF CueRead
    <3>2. audio_info = 1 => Has("audio")
      BY <2>1 DEF ScanInv, SourceIsThere, AudioRead
    <3> QED
      BY <1>2, <2>1, <2>2, <2>6, <3>1, <3>2 DEF Source, Best
  <2> QED
    BY <2>4, <2>5, <2>6
<1> QED
  BY <1>1, <1>2

LEMMA OwnWithFiles ==
  ASSUME NEW d \in Disc, Own(d), file_disc # None => file_disc \in Disc /\ Own(file_disc)
  PROVE  /\ WithFiles(d) \in Disc /\ Own(WithFiles(d))
         /\ WithFiles(d).album = d.album
<1>1. CASE WithFiles(d) = d
  BY <1>1
<1>2. CASE WithFiles(d) # d
  <2> DEFINE g == [i \in 1 .. MaxTracks |->
                     IF i <= d.tracks /\ file_disc.files[i] # None THEN file_disc.files[i]
                     ELSE d.files[i]]
  <2>1. file_disc \in Disc /\ Own(file_disc) /\ WithFiles(d) = [d EXCEPT !.files = g]
    BY <1>2 DEF WithFiles
  <2>2. \A i \in 1 .. MaxTracks : g[i] \in {Top.name, None}
    BY <2>1 DEF Own
  <2>3. g \in [1 .. MaxTracks -> Folders \cup {None}]
    BY <2>1 DEF Disc
  <2> HIDE DEF g
  <2> QED
    BY <2>1, <2>2, <2>3 DEF Own, Disc
<1> QED
  BY <1>1, <1>2

LEMMA OwnWithAlternative ==
  ASSUME NEW d \in Disc, Own(d),
         file_disc # None => file_disc \in Disc /\ Own(file_disc)
                             /\ file_disc.album = Top.name
  PROVE  /\ WithAlternative(d) \in Disc /\ Own(WithAlternative(d))
         /\ \/ WithAlternative(d).album = Top.name
            \/ file_disc = None /\ WithAlternative(d).album = None
<1>1. CASE file_disc = None
  BY <1>1 DEF WithAlternative, Own
<1>2. CASE file_disc # None
  <2> DEFINE g == [i \in 1 .. MaxTracks |->
                     IF i <= d.tracks /\ file_disc.files[i] # None THEN file_disc.files[i]
                     ELSE d.files[i]]
             a == IF d.artist = None THEN file_disc.artist ELSE d.artist
             b == IF d.album = None THEN file_disc.album ELSE d.album
  <2>1. \A i \in 1 .. MaxTracks : g[i] \in {Top.name, None}
    BY <1>2 DEF Own
  <2>2. g \in [1 .. MaxTracks -> Folders \cup {None}]
    BY <1>2 DEF Disc
  <2>3. a \in Names /\ b \in Names /\ b = Top.name
    BY <1>2 DEF Disc, Names, Own
  <2>4. WithAlternative(d) =
          [from |-> d.from, artist |-> a, album |-> b, tracks |-> d.tracks, files |-> g]
    BY <1>2 DEF WithAlternative, Disc
  <2>5. d.from \in Folders /\ d.tracks \in 0 .. MaxTracks /\ d.from = Top.name
    BY DEF Disc, Own
  <2> HIDE DEF a, b, g
  <2> QED
    BY <2>1, <2>2, <2>3, <2>4, <2>5 DEF Own, Disc
<1> QED
  BY <1>1, <1>2

\* ... and what is read from it names no other folder.
LEMMA TidyDisc ==
  ASSUME ScanInv, AlbumRead, Best # "none"
  PROVE  /\ DiscOf(Best) \in Disc /\ Own(DiscOf(Best))
         /\ \/ DiscOf(Best).album = Top.name
            \/ Best = "cue" /\ ~Has("audio") /\ DiscOf(Best).album = None
<1>1. /\ JsonRead /\ AudioRead /\ (Has("json") \/ CueRead)
      /\ json_disc \in DiscOrNone /\ cue_disc \in DiscOrNone
      /\ file_disc \in DiscOrNone
  BY DEF AlbumRead, ScanInv, TypeOK
<1>2. file_disc # None => /\ file_disc \in Disc /\ Own(file_disc)
                          /\ file_disc.album = Top.name /\ Has("audio")
  BY <1>1 DEF AudioRead, DiscOrNone
<1>3. CASE Has("json")
  <2>1. json_disc \in Disc /\ Own(json_disc) /\ json_disc.album = Top.name
    BY <1>1, <1>3 DEF JsonRead, ScanInv, SourceIsThere, DiscOrNone
  <2>2. Best = "json" /\ DiscOf(Best) = WithFiles(json_disc)
    BY <1>3 DEF Best, DiscOf
  <2> QED
    BY <1>2, <2>1, <2>2, OwnWithFiles
<1>4. CASE ~Has("json") /\ Has("cdextract")
  <2>1. cue_disc \in Disc /\ Own(cue_disc) /\ cue_disc.album = Top.name
    BY <1>1, <1>4 DEF CueRead, DiscOrNone
  <2>2. Best = "cdextract" /\ DiscOf(Best) = WithFiles(cue_disc)
    BY <1>4 DEF Best, DiscOf
  <2> QED
    BY <1>2, <2>1, <2>2, OwnWithFiles
<1>5. CASE ~Has("json") /\ ~Has("cdextract") /\ Has("cue")
  <2>1. cue_disc \in Disc /\ Own(cue_disc)
    BY <1>1, <1>5 DEF CueRead, DiscOrNone
  <2>2. Best = "cue" /\ DiscOf(Best) = WithAlternative(cue_disc)
    BY <1>5 DEF Best, DiscOf
  <2>3. file_disc = None => ~Has("audio")
    BY <1>1 DEF AudioRead
  <2> QED
    BY <1>2, <2>1, <2>2, <2>3, OwnWithAlternative
<1>6. CASE ~Has("json") /\ ~Has("cdextract") /\ ~Has("cue")
  <2>1. Has("audio") /\ Best = "audio" /\ DiscOf(Best) = file_disc
    BY <1>6 DEF Best, DiscOf
  <2> QED
    BY <1>1, <1>2, <2>1 DEF AudioRead
<1> QED
  BY <1>3, <1>4, <1>5, <1>6

\* Whatever order the audio folder is walked in and whatever was seen before,
\* an album that is alone in its folder is dealt with from the best source
\* there: the database is asked about its own name, and what is stored has its
\* own files and that name, or the names of the entry that was found.
THEOREM TidyAlbumAlwaysIsolated == Spec => TidyAlbumIsIsolated
<1>1. ScanInv /\ TidyInv =>
        [LeaveFolder /\ numbered /\ Tidy =>
           /\ done'.source = Best
           /\ Best # "none" =>
                /\ done'.asked.from = Top.name
                /\ \/ done'.asked.album = Top.name
                   \/ Best = "cue" /\ ~Has("audio") /\ done'.asked.album = None
                /\ Has("cddb") => done'.cddb = Top.name
           /\ done'.disc # None =>
                /\ ToSet(done'.disc.files) \subseteq {Top.name, None}
                /\ done'.disc.album =
                     IF Best \in {"json", "cdextract"} THEN Top.name ELSE Row]_vars
  <2> SUFFICES ASSUME ScanInv, TidyInv, LeaveFolder, numbered, Tidy
               PROVE  /\ done'.source = Best
                      /\ Best # "none" =>
                           /\ done'.asked.from = Top.name
                           /\ \/ done'.asked.album = Top.name
                              \/ /\ Best = "cue" /\ ~Has("audio")
                                 /\ done'.asked.album = None
                           /\ Has("cddb") => done'.cddb = Top.name
                      /\ done'.disc # None =>
                           /\ ToSet(done'.disc.files) \subseteq {Top.name, None}
                           /\ done'.disc.album =
                                IF Best \in {"json", "cdextract"} THEN Top.name
                                ELSE Row
    OBVIOUS
  <2>1. PathInv /\ AlbumRead /\ TypeOK /\ AlbumIsAhead
    BY DEF TidyInv, ScanInv
  <2>2. Source = Best
    BY <2>1, TidySource
  <2>3. CASE Level = disc_level
    <3> DEFINE d == DiscOf(Best)
    <3>1. /\ done'.source = Best /\ done'.asked = d /\ done'.cddb = cddb_file
          /\ done'.disc \in {None, IF Best \in {"cue", "audio"} THEN Completed(d) ELSE d}
      BY <2>2, <2>3 DEF LeaveFolder, StoreAlbum
    <3>2. Has("cddb") => cddb_file = Top.name
      BY <2>1 DEF AlbumRead
    <3>3. CASE Best = "none"
      BY <3>1, <3>3 DEF DiscOf
    <3>4. CASE Best # "none"
      <4>1. /\ d \in Disc /\ Own(d)
            /\ \/ d.album = Top.name
               \/ Best = "cue" /\ ~Has("audio") /\ d.album = None
        <5> HIDE DEF Best, Has
        <5> QED
          BY <2>1, <3>4, TidyDisc
      <4>2. Completed(d).files = d.files /\ Completed(d).album = Row
        BY <4>1 DEF Completed, Disc
      <4>3. ToSet(d.files) \subseteq {Top.name, None}
        BY <4>1 DEF Disc, Own, ToSet
      <4>4. Best \in {"json", "cdextract", "cue", "audio"}
        BY <3>4 DEF Best
      <4> HIDE DEF d
      <4>5. CASE Best \in {"cue", "audio"}
        BY <3>1, <3>2, <4>1, <4>2, <4>3, <4>5 DEF Own
      <4>6. CASE Best \in {"json", "cdextract"}
        BY <3>1, <3>2, <4>1, <4>3, <4>6 DEF Own
      <4> QED
        BY <4>4, <4>5, <4>6
    <3> QED
      BY <3>3, <3>4
  <2>4. CASE Level # disc_level
    <3>1. disc_level = 0
      BY <2>1, <2>4, TidyLevel DEF Tidy
    <3>2. json_disc = None /\ cue_disc = None /\ file_disc = None
      BY <2>1, <3>1 DEF AlbumIsAhead, PathInv
    <3>3. Best = "none"
      BY <2>2, <3>2 DEF Source, ScanInv, SourceIsThere
    <3> QED
      BY <2>4, <3>3 DEF LeaveFolder, Nothing
  <2> QED
    BY <2>3, <2>4
<1> QED
  BY <1>1, TidyInvariant, PTL DEF TidyAlbumIsIsolated
=============================================================================
