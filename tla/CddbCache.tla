----------------------------- MODULE CddbCache -----------------------------
(***************************************************************************)
(* The local cddb cache: the tables cddb, cddb_track and cddb_lookup of    *)
(* src/server/db.c and db_schema.h, and the paths that fill and read them: *)
(* GET /disc and POST /disc (api.c) in the HTTP thread, the rebuild from a *)
(* cddb folder and the scan of the audio folder (scan.c) in a job thread.  *)
(*                                                                         *)
(* A thread looks its entry up and decides, and then writes: each is one   *)
(* step, and the other thread may come between.  A write is one            *)
(* transaction, which succeeds or leaves nothing.                          *)
(***************************************************************************)
EXTENDS DiscId, SequencesExt, FiniteSets

CONSTANTS
  Discs,        \* tables of contents: [id, lens]
  Entries,      \* what the online service may answer: [id, lens, titles, name, year, rev]
  Files,        \* the entries of the cddb folder, of the same form
  Foreign,      \* albums another program has ripped: [entry, style]
  Names,        \* the names a user may give a disc
  WriteCddb,    \* the configuration writes a cddb entry beside the tracks
  MaxRows,      \* bound: rows of the table cddb
  MaxRequests,  \* bound: GET /disc and POST /disc requests
  MaxJobs       \* bound: rebuilds and scans

ASSUME CacheAssumption == /\ WriteCddb \in BOOLEAN
                          /\ MaxRows \in Nat /\ MaxRequests \in Nat /\ MaxJobs \in Nat

X == INSTANCE Xmcd
C == INSTANCE CueSheet

(* A table of contents: 99 tracks at most (the structure has room for one  *)
(* more), none of them empty, each shorter than the 100 minutes that two   *)
(* digits can count.  All are audio tracks: discs with a data track, which *)
(* has no length of its own in the structure, are not considered.          *)
IsToc(lens) == /\ lens \in Seq(Nat) /\ Len(lens) \in 1 .. MaxTracks - 1
               /\ \A i \in DOMAIN lens : lens[i] \in 1 .. X!MaxLength

IsEntry(e) == /\ IsToc(e.lens) /\ e.id # NoId /\ e.year \in Nat /\ e.rev \in Nat
              /\ e.titles \in Seq(Seq(STRING) \ {<<>>})
              /\ Len(e.titles) = Len(e.lens)

(* The low byte of a cddb id is the number of tracks, so the service       *)
(* answers with an entry of as many tracks as the disc has.                *)
ASSUME DocumentAssumption ==
  /\ \A d \in Discs : d.id # NoId /\ IsToc(d.lens)
  /\ \A e \in Entries \cup Files : IsEntry(e)
  /\ \A d \in Discs, e \in Entries : e.id = d.id => Len(e.lens) = Len(d.lens)

(* A track lasts four seconds at least. *)
ASSUME ShortestTrack ==
  /\ \A d \in Discs : \A i \in DOMAIN d.lens : d.lens[i] >= 4 * Frames
  /\ \A e \in Files : \A i \in DOMAIN e.lens : e.lens[i] >= 4 * Frames

Threads == {"http", "job"}
SearchDeviationSecond == Frames    \* mutant: one second
SearchDeviation == 4 * Frames      \* MAX_LENGTH_DEVIATION in frames
NoDisc == [n |-> 0, complete |-> FALSE]   \* no structure: disc_info is NULL
NoTable == <<>>
NoRow == 0

VARIABLES
  cddb,      \* the table, in the order of c_id, with the tracks of each row
  temp,      \* cddb_lookup: a set of [lookup, id], lookup being its key
  toc,       \* the disc in the drive
  info,      \* cde->disc_info, NoDisc before the first GET /disc
  room,      \* the tracks it was allocated for
  mb,        \* its mb_complete
  found,     \* of the GET /disc in progress: the row it has read, and its number
  pc, arg,   \* of each thread: what it does next, and the store it has in hand
  todo,      \* files the rebuild has not read yet
  album,     \* the folders of the audio folder: what an extraction wrote there
  hit,       \* the row the last scan of an album has completed it from
  base,      \* history: number of rows when the rebuild started
  kept,      \* history: files of this rebuild whose store did not fail
  reported,  \* history: the last store of each disc that succeeded, [lookup, name]
  requests, jobs \* bound counters

vars == <<cddb, temp, toc, info, room, mb, found, pc, arg, todo, album, hit, base, kept,
          reported, requests, jobs>>

Row(d, secs) == [lookup |-> d.lookup, name |-> d.name, year |-> d.year, rev |-> d.rev,
                 secs |-> secs, n |-> d.n,
                 title |-> [i \in 1..d.n |-> d.title[i]],
                 len |-> [i \in 1..d.n |-> d.len[i]]]

DriveDisc == [d \in Discs |-> Prepare(AllocDisc, d)]

NoFound == [id |-> NoRow, row |-> NoDisc]
NoArg == [d |-> NoDisc, method |-> "none", target |-> NoRow, file |-> NoDisc]

Largest(S) == CHOOSE x \in S : \A y \in S : y <= x

-----------------------------------------------------------------------------
(* Queries. *)

(* The rows of a candidate are read in the order of the tracks: every      *)
(* track of the disc must be there, as long as the disc's, or the disc     *)
(* does not know its length.                                               *)
Fits(r, d, tolerance) ==
  /\ d.n \in 1..r.n
  /\ \A i \in 1..d.n : d.len[i] = 0 \/ Abs(d.len[i] - r.len[i]) <= tolerance

RowsOf(lookup) == {i \in DOMAIN cddb : cddb[i].lookup = lookup}

(* Mutant: without the descending order of the rows. *)
ByTocFirst(d) ==
  LET S == {i \in RowsOf(d.lookup) : Fits(cddb[i], d, MsfOffset)}
      first == CHOOSE i \in S : \A j \in S : i <= j
  IN  IF S = {} THEN NoFound ELSE [id |-> first, row |-> cddb[first]]

(* get_cddb_entry_from_database_by_toc *)
ByToc(d) ==
  LET S == {i \in RowsOf(d.lookup) : Fits(cddb[i], d, MsfOffset)}
  IN  IF S = {} THEN NoFound ELSE [id |-> Largest(S), row |-> cddb[Largest(S)]]

(* search_cddb_entry_in_database: the three heaviest rows with the lookup  *)
(* hash, or, without a hash, with the name; the first that fits.           *)
Points(p, condition) == IF condition THEN p ELSE 0
Weight(r, d) ==
  LET secs == d.length \div Frames
  IN  Points(512, r.lookup = d.lookup) + Points(256, r.n = d.n)
      + Points(128 + 64 + 32 + 16, r.name = d.name) + Points(8, r.secs = secs)
      + Points(4, Abs(r.secs - secs) < 5) + Points(2, r.year = d.year)

Heavier(d, i, j) == LET wi == Weight(cddb[i], d)
                        wj == Weight(cddb[j], d)
                    IN  wi > wj \/ (wi = wj /\ i > j)

SearchRow(d) ==
  LET S == {i \in DOMAIN cddb : /\ cddb[i].n = d.n
                                /\ IF d.lookup # NoLookup
                                   THEN cddb[i].lookup = d.lookup
                                   ELSE cddb[i].name = d.name}
      best == {i \in S : Cardinality({j \in S : Heavier(d, j, i)}) < 3}
      fit == {i \in best : Fits(cddb[i], d, SearchDeviation)}
  IN  IF fit = {} THEN NoRow
      ELSE CHOOSE i \in fit : \A j \in fit \ {i} : Heavier(d, i, j)

(* match_cddb_disc_info *)
Match(d, r) == /\ d.name = r.name /\ d.year = r.year
               /\ d.rev = r.rev /\ d.n = r.n

-----------------------------------------------------------------------------
TypeOK ==
  /\ \A i \in DOMAIN cddb :
       /\ cddb[i].n \in 1..MaxTracks /\ cddb[i].rev \in Nat /\ cddb[i].year \in Nat
       /\ cddb[i].lookup # NoLookup
       /\ \A k \in 1..cddb[i].n : cddb[i].len[k] \in Nat /\ cddb[i].title[k] # <<>>
  /\ \A e \in temp : e.id \in DOMAIN cddb
  /\ toc \in Discs /\ base \in 0..MaxRows /\ requests \in 0..MaxRequests /\ jobs \in 0..MaxJobs
  /\ found.id \in 0..Len(cddb) /\ hit \in {-1} \cup 0..Len(cddb)
  /\ \A t \in Threads : arg[t].target \in 0..Len(cddb)
  /\ pc \in [Threads -> {"idle", "get", "query", "store", "write", "musicbrainz", "lost",
                         "rebuild", "complete"}]
  /\ room \in 0..MaxTracks /\ mb \in BOOLEAN
  /\ todo \subseteq Files /\ kept \subseteq Files \ todo

Init ==
  /\ cddb = <<>> /\ temp = {} /\ toc \in Discs /\ info = NoDisc /\ room = 0 /\ mb = FALSE /\ found = NoFound
  /\ pc = [t \in Threads |-> "idle"] /\ arg = [t \in Threads |-> NoArg]
  /\ todo = {} /\ album = {} /\ hit = -1
  /\ base = 0 /\ kept = {} /\ reported = {} /\ requests = 0 /\ jobs = 0

Goto(t, l) == pc' = [pc EXCEPT ![t] = l]
Hand(t, d, method, target, f) ==
  arg' = [arg EXCEPT ![t] = [d |-> d, method |-> method, target |-> target, file |-> f]]

-----------------------------------------------------------------------------
(* store_cddb_entry_in_database: look up, compare, decide.                 *)

(* The row is read back with the length of its tracks and the offset of    *)
(* the first.                                                              *)
ReadLength(r) == MsfOffset + SumFunctionOnSet(r.len, DOMAIN r.len)

Same(d, r) == /\ d.n = r.n
              /\ d.length \div Frames = ReadLength(r) \div Frames
              /\ d.name = r.name

Duplicate(d, r) == Same(d, r) /\ d.year = r.year /\ d.rev <= r.rev

Target(a) ==
  IF a.method = "temp"
  THEN LET S == {e \in temp : e.lookup = a.d.lookup}
       IN  IF S = {} THEN NoRow ELSE (CHOOSE e \in S : TRUE).id
  ELSE IF RowsOf(a.d.lookup) = {} THEN NoRow ELSE Largest(RowsOf(a.d.lookup))

(* What the thread does after a store; the history of what was reported.   *)
AfterStore(t, ok) ==
  LET a == arg[t]
  IN  /\ Goto(t, CASE a.method = "post" -> "get"
                   [] t = "http" /\ ok -> "musicbrainz"
                   [] t = "http" -> "idle"
                   [] a.method = "temp" -> "rebuild"
                   [] OTHER -> "complete")
      /\ arg' = [arg EXCEPT ![t] = NoArg]
      /\ kept' = IF ok /\ a.method = "temp" THEN kept \cup {a.file} ELSE kept
      /\ reported' = IF ok /\ t = "http"
                     THEN {r \in reported : r.lookup # a.d.lookup}
                          \cup {[lookup |-> a.d.lookup, name |-> a.d.name]}
                     ELSE reported

Decide(t) ==
  LET a == arg[t]
      i == Target(a)
  IN  /\ pc[t] = "store"
      /\ IF i # NoRow /\ Duplicate(a.d, cddb[i])
         THEN AfterStore(t, TRUE) /\ UNCHANGED info
         ELSE /\ Goto(t, "write")
              /\ LET update == i # NoRow /\ Same(a.d, cddb[i])
                     d == IF update /\ a.d.year = 0 THEN [a.d EXCEPT !.year = cddb[i].year]
                          ELSE a.d
                 IN  Hand(t, d, a.method, IF update THEN i ELSE NoRow, a.file)
                     /\ info' = IF t = "http" THEN d ELSE info
              /\ UNCHANGED <<kept, reported>>
      /\ UNCHANGED <<cddb, temp, toc, room, mb, found, todo, album, hit, base, requests, jobs>>

(* Mutant: every row of a rebuild goes into the temporary table. *)
InsertEvery(t) ==
  LET a == arg[t]
  IN  /\ pc[t] = "write" /\ a.target = NoRow /\ a.d.name # Unknown
      /\ Len(cddb) < MaxRows
      /\ cddb' = Append(cddb, Row(a.d, a.d.length \div Frames))
      /\ temp' = IF a.method = "temp" THEN temp \cup {[lookup |-> a.d.lookup, id |-> Len(cddb) + 1]}
                 ELSE temp
      /\ AfterStore(t, TRUE)
      /\ UNCHANGED <<toc, info, room, mb, found, todo, album, hit, base, requests, jobs>>

(* insert_cddb_entry_in_database: names must be known; a rebuild notes the *)
(* first row of a lookup hash.                                             *)
Insert(t) ==
  LET a == arg[t]
  IN  /\ pc[t] = "write" /\ a.target = NoRow /\ a.d.name # Unknown
      /\ Len(cddb) < MaxRows
      /\ cddb' = Append(cddb, Row(a.d, a.d.length \div Frames))
      /\ temp' = IF a.method = "temp" /\ ~\E e \in temp : e.lookup = a.d.lookup
                 THEN temp \cup {[lookup |-> a.d.lookup, id |-> Len(cddb) + 1]}
                 ELSE temp
      /\ AfterStore(t, TRUE)
      /\ UNCHANGED <<toc, info, room, mb, found, todo, album, hit, base, requests, jobs>>

(* update_cddb_entry_in_database: the header only, for the statement that  *)
(* looks up a track names a column that does not exist.                    *)
Header(r, d) == [r EXCEPT !.name = d.name, !.year = d.year, !.rev = d.rev,
                          !.secs = d.length \div Frames, !.n = d.n]

Update(t) ==
  LET a == arg[t]
  IN  /\ pc[t] = "write" /\ a.target # NoRow
      /\ cddb' = [cddb EXCEPT ![a.target] = Header(@, a.d)]
      /\ AfterStore(t, TRUE)
      /\ UNCHANGED <<temp, toc, info, room, mb, found, todo, album, hit, base, requests, jobs>>

(* Any statement of a write may fail, and unknown names always do. *)
WriteFails(t) ==
  /\ pc[t] = "write"
  /\ AfterStore(t, FALSE)
  /\ UNCHANGED <<cddb, temp, toc, info, room, mb, found, todo, album, hit, base, requests, jobs>>

-----------------------------------------------------------------------------
(* The HTTP thread. *)

(* Another disc.  POST /drive/eject forgets the old information; when the  *)
(* drive is only closed and opened again, it is kept.                      *)
ChangeDisc ==
  /\ pc["http"] = "idle"
  /\ toc' \in Discs
  /\ \/ info' = NoDisc /\ room' = 0 /\ mb' = FALSE
     \/ UNCHANGED <<info, room, mb>>
  /\ UNCHANGED <<cddb, temp, found, pc, arg, todo, album, hit, base, kept, reported, requests, jobs>>

(* GET /disc, or the end of POST /disc, asks the services again until both *)
(* have answered in full.                                                  *)
Complete == info.complete /\ mb

Asked == /\ ~Complete
         /\ \/ pc["http"] = "idle" /\ requests < MaxRequests /\ requests' = requests + 1
            \/ pc["http"] = "get" /\ UNCHANGED requests

HasRoom == info = NoDisc \/ Len(toc.lens) <= room

(* api_get_disc_info up to the look-up in the cache. *)
GetDisc ==
  /\ Asked /\ HasRoom
  /\ info' = Prepare(IF info = NoDisc THEN AllocDisc ELSE info, toc)
  /\ room' = IF info = NoDisc THEN Len(toc.lens) ELSE room
  /\ found' = ByToc(info')
  /\ Goto("http", "query")
  /\ UNCHANGED <<cddb, temp, toc, mb, arg, todo, album, hit, base, kept, reported, jobs>>

(* A disc with more tracks than the structure that was kept has room for   *)
(* is written behind its end (libcdextract.c:807).  What the thread does   *)
(* then is undefined, and not followed.                                    *)
Overrun ==
  /\ Asked /\ ~HasRoom
  /\ Goto("http", "lost")
  /\ UNCHANGED <<cddb, temp, toc, info, room, mb, found, arg, todo, album, hit, base, kept,
                 reported, jobs>>

AnswerPost ==
  /\ pc["http"] = "get" /\ Complete
  /\ Goto("http", "idle")
  /\ UNCHANGED <<cddb, temp, toc, info, room, mb, found, arg, todo, album, hit, base, kept, reported,
                 requests, jobs>>

(* The online query and what follows from its answer.  The result of the   *)
(* query itself is not looked at.                                          *)
QueryService(answer, e) ==
  /\ pc["http"] = "query" /\ e.id = toc.id
  /\ info' = X!Query(info, answer, e)
  /\ mb' = FALSE
  /\ CASE found.id = NoRow /\ info'.name # Unknown ->
            /\ Goto("http", "store")
            /\ Hand("http", info', "lookup", NoRow, NoDisc)
       [] found.id # NoRow /\ ~Match(info', found.row) ->
            /\ Goto("http", "write")
            /\ Hand("http", info', "lookup", found.id, NoDisc)
       [] OTHER -> Goto("http", "musicbrainz") /\ UNCHANGED arg
  /\ found' = NoFound
  /\ UNCHANGED <<cddb, temp, toc, room, todo, album, hit, base, kept, reported, requests, jobs>>

(* The end of GET /disc, mb_get_disc_info and what follows: MusicBrainz    *)
(* fills in the name, the year and the titles that are not known yet, and  *)
(* the covers, when they are asked for, decide whether its answer counts   *)
(* as complete.                                                            *)
Filled(d, e) ==
  [d EXCEPT !.name = IF @ = Unknown THEN e.name ELSE @,
            !.year = IF @ = 0 THEN e.year ELSE @,
            !.title = [i \in DOMAIN @ |-> IF i <= Len(e.titles) /\ @[i] = DefaultTitle
                                          THEN e.titles[i] ELSE @[i]]]

MusicBrainz(e) ==
  /\ pc["http"] = "musicbrainz" /\ e.id = toc.id
  /\ info' \in {info, Filled(info, e)}
  /\ mb' \in BOOLEAN
  /\ Goto("http", "idle")
  /\ UNCHANGED <<cddb, temp, toc, room, found, arg, todo, album, hit, base, kept, reported,
                 requests, jobs>>

(* api_update_disc_info: the user names the disc, both databases get it,   *)
(* and the reply is that of GET /disc.                                     *)
PostDisc(name) ==
  /\ pc["http"] = "idle" /\ info # NoDisc /\ requests < MaxRequests
  /\ info' = [info EXCEPT !.name = name]
  /\ Goto("http", "store")
  /\ Hand("http", info', "post", NoRow, NoDisc)
  /\ requests' = requests + 1
  /\ UNCHANGED <<cddb, temp, toc, room, mb, found, todo, album, hit, base, kept, reported, jobs>>

(* An extraction ends with the sheets of the disc beside its tracks. *)
WriteSheets ==
  /\ pc["http"] = "idle" /\ info # NoDisc /\ album = {}
  /\ album' = {[disc |-> info, cue |-> C!WriteCue(info),
                entry |-> IF WriteCddb THEN X!WriteEntry(info) ELSE <<>>]}
  /\ UNCHANGED <<cddb, temp, toc, info, room, mb, found, pc, arg, todo, hit, base, kept, reported, requests, jobs>>

(* An album that another program has ripped is copied into the folder. *)
CopyAlbum(f) ==
  /\ album = {}
  /\ album' = {[disc |-> NoDisc, cue |-> C!ForeignCue(f.entry, f.style), entry |-> <<>>]}
  /\ UNCHANGED <<cddb, temp, toc, info, room, mb, found, pc, arg, todo, hit, base, kept, reported, requests, jobs>>

-----------------------------------------------------------------------------
(* The job thread. *)

(* rebuild_cddb_pre, scan_cddb_folder, rebuild_cddb_post. *)
StartRebuild ==
  /\ pc["job"] = "idle" /\ jobs < MaxJobs
  /\ jobs' = jobs + 1
  /\ Goto("job", "rebuild")
  /\ temp' = {} /\ todo' = Files /\ base' = Len(cddb) /\ kept' = {}
  /\ UNCHANGED <<cddb, toc, info, room, mb, found, arg, album, hit, reported, requests>>

(* Mutant: the lookup hash of an imported entry is not set. *)
FileDiscUnhashed ==
  [f \in Files |-> X!ParseEntry([AllocDisc EXCEPT !.id = f.id], X!ServiceEntry(f))]

(* A file of the cddb folder, its name being its id. *)
FileDisc ==
  [f \in Files |-> SetHash(X!ParseEntry([AllocDisc EXCEPT !.id = f.id], X!ServiceEntry(f)))]

ReadFile(f) ==
  LET d == FileDisc[f]
  IN  /\ pc["job"] = "rebuild" /\ f \in todo
      /\ todo' = todo \ {f}
      /\ IF X!EntryOk(d)
         THEN /\ Goto("job", "store")
              /\ Hand("job", d, "temp", NoRow, f)
         ELSE UNCHANGED <<pc, arg>>
      /\ UNCHANGED <<cddb, temp, toc, info, room, mb, found, album, hit, base, kept, reported, requests, jobs>>

EndRebuild ==
  /\ pc["job"] = "rebuild" /\ todo = {}
  /\ Goto("job", "idle")
  /\ temp' = {} /\ kept' = {} /\ base' = 0
  /\ UNCHANGED <<cddb, toc, info, room, mb, found, arg, todo, album, hit, reported, requests, jobs>>

(* process_cddb_file: the entry beside an album is stored before the album *)
(* is completed from the cache.                                            *)
ScanAlbum ==
  /\ pc["job"] = "idle" /\ album # {} /\ jobs < MaxJobs
  /\ jobs' = jobs + 1
  /\ LET a == CHOOSE x \in album : TRUE
         d == X!ParseEntry(AllocDisc, a.entry)
     IN  IF a.entry # <<>> /\ X!EntryOk(d)
         THEN /\ Goto("job", "store")
              /\ Hand("job", SetHash(d), "lookup", NoRow, NoDisc)
         ELSE Goto("job", "complete") /\ UNCHANGED arg
  /\ UNCHANGED <<cddb, temp, toc, info, room, mb, found, todo, album, hit, base, kept, reported, requests>>

(* The search of complete_disc_info, with the disc of the cue sheet. *)
CompleteAlbum ==
  /\ pc["job"] = "complete"
  /\ Goto("job", "idle")
  /\ hit' = LET d == C!ParseCue((CHOOSE x \in album : TRUE).cue)
            IN  IF C!CueOk(d) THEN SearchRow(d) ELSE NoRow
  /\ UNCHANGED <<cddb, temp, toc, info, room, mb, found, arg, todo, album, base, kept, reported, requests, jobs>>

Next ==
  \/ ChangeDisc \/ GetDisc \/ Overrun \/ AnswerPost \/ WriteSheets
  \/ \E e \in Entries : MusicBrainz(e)
  \/ \E e \in Entries, answer \in {"none", "query", "entry"} : QueryService(answer, e)
  \/ \E name \in Names : PostDisc(name)
  \/ \E f \in Foreign : CopyAlbum(f)
  \/ StartRebuild \/ EndRebuild \/ ScanAlbum \/ CompleteAlbum
  \/ \E f \in Files : ReadFile(f)
  \/ \E t \in Threads : Decide(t) \/ Insert(t) \/ Update(t) \/ WriteFails(t)

Spec == Init /\ [][Next]_vars

-----------------------------------------------------------------------------
(* The temporary table of a rebuild is an index of what this rebuild has   *)
(* stored: its key is unique, an entry points to a row with its hash that  *)
(* the rebuild itself has inserted, whatever GET /disc and POST /disc      *)
(* insert and update meanwhile (db.c:2700, 2658).                          *)
TempIsIndex ==
  /\ \A e \in temp : /\ e.id \in base + 1 .. Len(cddb)
                     /\ cddb[e.id].lookup = e.lookup
  /\ \A e1, e2 \in temp : e1.lookup = e2.lookup => e1 = e2

(* A file whose store was counted as stored or duplicate is in the cache:  *)
(* a row of this rebuild has its hash, its name and its tracks, each as    *)
(* long to a second, under titles that a file with this hash gives them    *)
(* (scan.c:1127-1133; which of them, the order of the files decides).      *)
KeptIsThere ==
  \A f \in kept : \E i \in base + 1 .. Len(cddb) :
    LET r == cddb[i]
    IN  /\ r.lookup = FileDisc[f].lookup /\ r.name = f.name /\ r.n = Len(f.lens)
        /\ \A k \in 1..r.n : Abs(r.len[k] - f.lens[k]) < Frames
        /\ \E g \in Files : /\ FileDisc[g].lookup = r.lookup
                            /\ \A k \in 1..r.n : r.title[k] = g.titles[k]

(* Once a store by GET /disc or POST /disc has been reported done, the     *)
(* cache answers for that disc, with the name stored last: the look-up by  *)
(* its contents and the decision which row to write agree, also while a    *)
(* rebuild or a scan writes (api.c:702-714, 1081, db.c:2047).              *)
ReportedIsServed ==
  \A d \in Discs, r \in reported :
    LET disc == DriveDisc[d]
    IN  r.lookup = disc.lookup => /\ ByToc(disc).id # NoRow
                                  /\ ByToc(disc).row.name = r.name

(* A cue sheet the program has written reads back as its disc: identity,   *)
(* name, titles and lengths.  Only the first track may come back unknown   *)
(* or shorter by the offset of the first sector, for the sheet counts from *)
(* 0 and the parser from 150 (cue_sheet.c:604-615, 166, 257-266).          *)
CueReadBack ==
  [][\A a \in album' \ album : a.disc # NoDisc =>
       LET r == C!ParseCue(a.cue)
       IN  /\ C!CueOk(r)
           /\ r.id = a.disc.id /\ r.lookup = a.disc.lookup /\ r.n = a.disc.n
           /\ r.name = a.disc.name /\ r.year = a.disc.year /\ r.length = a.disc.length
           /\ \A i \in 1..r.n : r.title[i] = a.disc.title[i]
           /\ \A i \in 2..r.n : r.len[i] = a.disc.len[i]
           /\ r.len[1] \in {0, a.disc.len[1] - MsfOffset}]_vars

(* An album the program has extracted and stored is completed from the     *)
(* cache by every later scan: the hash and lengths its cue sheet brings    *)
(* back find a row, the entry stored from beside it notwithstanding        *)
(* (scan.c:159, db.c:2241).                                                *)
AlbumIsFound ==
  [][\A a \in album :
       (/\ pc["job"] = "complete" /\ pc'["job"] = "idle" /\ a.disc # NoDisc
        /\ \E r \in reported : r.lookup = a.disc.lookup)
       => hit' # NoRow]_vars
=============================================================================
