# cdextract: a TLA+ verification project

cdextract is a library (`src/src/`) that reads audio CDs with cdparanoia and
writes FLAC or WAV files, and a server (`src/server/`) that offers the library
and a SQLite database of discs over HTTP.  This directory models the parts of
it in which threads, long jobs and failures meet, checks the models with TLC,
and proves the main invariants with TLAPS for every value of the constants.

Paths below are relative to the repository (`src/`): `api.c` is `server/api.c`,
`db.c` is `server/db.c`, `libcdextract.c` is `src/libcdextract.c`.

## 1. Inventory

| part | state | operations | what makes it correct |
|---|---|---|---|
| drive and extraction control (`libcdextract.c`, `/drive`, `/disc`, `/disc/eject`, `/disc/extract` in `api.c`) | `cde_state`: `status`, `drv`, `disc_info`, `thread`; the tray | open, close, get disc, eject, extract, cancel; the life of an extraction thread | `status` is the only lock: a busy drive has somebody who unlocks it, nobody frees what a thread uses, at most one extraction, a cancellation comes back, `disc_info` belongs to the disc |
| audio extraction loop (`cde_extract_audio_t`) | cursor, paranoia's position, track, skip flags, files | set up, start a track, read a sector, finish a track, done, clean up | kept files hold exactly their track, aborted ones are removed, the disc is reported only when each track is decided |
| database modes and jobs (`api.c`, `db.c`) | `db->mode`, `db->thread`, pragmas and indexes | rescan, rebuild, backup, purge | a mode has a job behind it, jobs give back a complete and consistent library |
| disc store and queries (`db.c`, `db_schema.h`) | tables disc, track, artist, album, genre, cover; one connection | store, look up by toc, list, search, covers | rows refer to each other, no torn store |
| audio folder scanner (`scan.c`) | flags of the folder being walked, discs read from JSON, cue sheet and audio files | `scan_audio_folder`, `complete_disc_info`, `get_coverart` | each album folder is stored once, from its best source, with nothing of its neighbour |
| local cddb cache (`db.c`, `cddb.c`, `scan.c`) | tables cddb, cddb_track, cddb_lookup | insert, update, look-up by contents, search, rebuild from a folder | what a request has stored is served, an imported file is there, a rebuild's index is its own, an album is found again |
| extraction progress and streams (`api.c`) | `progress` with `last_update` and `last_request`; the context of a content callback | set by the extraction thread; read by GET and by the stream callbacks | a stream ends, and what it sends is the track |
| disc editing (`api.c`) | `disc_info`, covers | POST /disc, POST /discs/&lt;id&gt;, covers | both databases get what the user says |
| HTTP server (`server.c`, `handler.c`, `request.c`, `response.c`) | the daemon, one `http_request` per connection | first call, body, handler, content callback, completion, stop | what is opened for a request is closed with it, every request ends |
| clients (`cddb.c`, `mb_api.c`, `http_client.c`) | none between calls | query, read, covers | an answer in two steps, each of which may fail |
| disc identification (`hash.h`, `sha1.c`, `base64.c`, `cde_prepare_disc_info`) | none | lookup hash, cddb id, MusicBrainz id | the same disc has the same hash on every path |
| file formats (`cue_sheet.c`, `json_file.c`, `json_utils.c`, `flac_*.c`, `wav_*.c`) | the text position of a parser; decoder and encoder with their buffers | parse, write, decode, encode | what is written is read back, also from a file that has been torn or rewritten; audio is whole in pieces of any size |
| utilities (`string_utils.c`, `file_utils.c`, `report.c`, `log.c`, `timer.c`), C++ wrapper, command line | none of interest | | |

**How they interact.**  libmicrohttpd runs all handlers in one thread
(`MHD_USE_EPOLL_INTERNAL_THREAD`, `server.c:65`).  POST `/disc/extract` starts
an extraction thread that shares `cde_state` with the handlers; it calls back
into `api.c` for its progress, and at its end stores the disc.  POST
`/discs/rescan`, `/rebuild` and `/backup` start job threads that share the
`sql_db`, and one SQLite connection, with the handlers and the extraction
thread.  `state_mutex` protects single reads and writes of `cde->status` in the
library; `api.c` reads and writes it without, and nothing protects `db->mode`.

**What is hard.**  Tests and sets of `status` and `mode` are in different
threads; pointers (`drv`, `disc_info`, the request) are freed by one thread and
used by another; DELETE `/disc/extract` joins a thread inside the only HTTP
thread; a cancellation can arrive at any point of an extraction; a disc can be
changed between two requests; a purge is several statements; a job may fail
after any of its steps; a content callback waits or loops in the thread that
serves everybody; a file is streamed, scanned or left behind by a crash while it
is being written; three writers share the cddb tables, two of them deciding on a
row they have read before.  `PROJECT.json` lists each hazard at its line.

## 2. Modules

### Drive (with MCDrive, DriveProofs)

The drive as the handlers and the extraction threads share it.

| variable | code |
|---|---|
| `status`, `drv`, `info`, `thread` | `cde->status`, `->drv`, `->disc_info`, `->thread` (and whether it has been joined) |
| `library`, `media` | what the database says of each disc; the disc in the tray |
| `http`, `reply` | where the HTTP thread is; the last status code |
| `pc`, `rip` | where each extraction thread is; the drive its paranoia handle reads |
| `server` | `"crashed"` once a freed or NULL pointer has been used |

A handler that neither waits nor blocks is one action (`OpenDrive`,
`CloseDrive`, `EjectDisc`, `ExtractDisc`), since no other handler can run in
between; `GET /disc` is three (`GetDisc`, `LookupDisc`, `QueryDisc`) and
`DELETE /disc/extract` three (`CancelDisc`, `CancelRequest`, `CancelJoined`).
The thread is the chain `WorkerStart ... WorkerFinish`; each action ends where
the next read or write of shared state follows.  Results of the network, the
database and the device are choices.  Undefined behaviour is modelled as a
crash where the code dereferences NULL, and as a crash or going on where it
uses freed or uninitialised memory.

The constant `PromptStart` restricts requests to moments in which no thread is
between its creation and its first report of EXTRACTING.  It is `FALSE` for
what holds in general, and `TRUE` for what holds only if the status were set
before the handler returns: together the runs say that the late assignment in
`cde_extract_audio_t` is the one reason for the races.

### ExtractAudio and RipDisc (with MCExtractAudio, ExtractAudioProofs)

`RipDisc` is the promise: tracks are decided in order, each is kept whole or
dropped, and only then is the disc reported.  `ExtractAudio` is the code's two
loops, its cursor and paranoia's position being two counters, with files as
sequences of sectors, and a cancellation from outside at any moment.  The
refinement mapping (`Rip` in `ExtractAudio`) counts the tracks before the
cursor as decided and the whole files of unskipped tracks as kept.  cdparanoia's
view of the table of contents is external.

### DbJobs (with MCDbJobs, DbJobsProofs)

The mode, up to a given number of job threads, and the disc tables as far as
the jobs empty and refill them.  `disc` is a sequence because SQLite numbers the
rows of an emptied table from 1 again; `track[i]` says whose track rows carry
the number i, so that stale rows are adopted as in `get_track_id`.  What a job
reads of its request, which may have been freed, is a choice.  `failed` and
`disturbed` are history variables in which the properties state their premises:
which of the backup, the indexes, the purge and the scan has failed, and whether two
jobs have run at once or a disc was stored between two statements of a purge
(`Purging`).  Each property excludes only the failures that break it.

### ScanFolder (with MCScanFolder, ScanFolderProofs)

`scan_audio_folder`'s loop over `fts_read`.  The tree is not a constant: each
step the file system offers any folder or file, or the current folder ends, so
that every tree and every order of reading it is explored.  `path` is the way
from the audio folder to the current one; folders are named by their number.

| variable | code |
|---|---|
| `json_info`, `cue_sheet`, `audio_info`, `disc_level` | the flags of that name |
| `json_disc`, `cue_disc`, `file_disc` | the discs, as far as which folder gave them their names, tracks and files |
| `folder_artist`, `folder_album`, `cddb_file` | the names taken from folders; the folder of `cddb_filename` |
| `counts` | the numbers reported at the end |
| `done` | history of the folder just left: the source, the disc put together from it (`asked`), what was stored (`disc`), the cddb entry before it |
| `numbered` | history: each audio file so far had a track number |

Each kind of file is an action: a JSON file that can be read (`Json`) or not
(`BadJson`), the four fates of a cue sheet (`CueSheet`), an audio file with or
without a track number (`Audio`, `Noise`), a cddb entry (`Cddb`).
`LeaveFolder` stores from the best source, counts, and resets.
`complete_disc_info`, which is called for plain cue sheets and for audio files,
first takes what is missing from the audio files (`WithAlternative`), asks the
database for a cddb entry, and lets the names of that entry replace all others
(`Completed`; `Row` stands for them).  Whether it succeeds, and `get_coverart`,
are choices; without an entry, or without a MusicBrainz release, the album is
discarded.

### StoreDisc and AtomicStore (with MCStoreDisc, StoreDiscProofs)

`store_disc_in_database` as several threads run it on the one connection and the
one `sql_db`.  It looks below the step `Store` of `DbJobs`.  `AtomicStore` is the
promise to the readers of the database: a disc comes into the library once and
whole (`Insert`), or what a torn one lacks is added (`Update`), in the step in
which its store is reported, and nothing is changed otherwise.  Around an accident
(`sound` is `FALSE`) the library only grows, and no store is reported; when
the accident is over, the promise holds again.  The mapping (`Atomic` in
`StoreDisc`) takes the committed rows with their tracks (`Rows(disk)`) as the
library, and `astray = {}` as `sound`.

| variable | code |
|---|---|
| `mem`, `disk` | the tables as every thread sees them, and as they have been committed |
| `tx`, `active` | the connection's transaction; the threads whose `INSERT ... RETURNING` has given its row and not ended |
| `status` | `db->status` |
| `pc`, `disc`, `id`, `num` | a thread's place, its disc, `disc_id`, the next track |
| `row` | the row number that a thread's statement has at hand |
| `stores` | how many stores have begun (the bound's counter) |
| `got` | history: what the last call of a thread has itself returned |
| `astray` | history: the accidents since nothing was under way |
| `reported` | history: discs for which `DB_OK` was returned when no accident had happened |

The code sets `db->status` from a call and reads the field again for the test
that follows (`db.c:1636-1637`), unprotected, in memory that all threads share.
Each call and each test is therefore a step of its own: a call writes `status`,
a test reads it (`Reads`), and between them any other thread may write, also one
that is not in a store (`Elsewhere`).  A compiler that optimises may keep the
result in a register, so that a test sees the result of its own call; that is the
behaviour of the model in which nobody has written in between, and the model has
it as well.  `astray` notes the four accidents: a test that took another thread's
result for its own and went on (`"hidden"`), a transaction whose BEGIN was taken
for failed (`"left"`), a COMMIT that failed (`"commit"`), and a ROLLBACK while
others were in their stores (`"rollback"`).  It is empty again when no store and
no transaction is under way.

SQLite is external: BEGIN fails in a transaction, COMMIT fails without one or
while an INSERT of another thread has not ended, ROLLBACK takes back what any
thread has written, and outside a transaction the last statement to end
commits.

### CddbCache, with DiscId, Xmcd and CueSheet (and MCCddbCache, ParserProofs, CddbCacheProofs)

The tables `cddb`, `cddb_track` and `cddb_lookup` and everything that fills and
reads them.  `DiscId` is the structure of a disc and its lookup hash (the bits
that are packed are packed; the 40 bits over the lengths are idealised to a hash
without collisions).  `Xmcd` and `CueSheet` are the writers and parsers as folds
over the lines of a document: the frame offset mode, the previous offset, the
length that is only computed when nobody has given one, titles that go on in a
second line.  They are constants-level operators that the actions call where the
code calls the functions.

| variable | code |
|---|---|
| `cddb`, `temp` | the rows in the order of `c_id`; the temporary table `cddb_lookup` |
| `toc`, `info` | the disc in the drive; `cde->disc_info` |
| `room`, `mb` | the number of tracks `disc_info` was allocated for; its `mb_complete` |
| `found` | in GET /disc: the row it has read and its number, kept over the online query |
| `pc`, `arg` | of the HTTP thread and the job thread: the place, and the entry being stored with the duplicate check it asks for |
| `todo`, `album`, `hit` | the files a rebuild has still to read; what is in the album's folder; what the scan completed the album from |
| `base`, `kept`, `reported` | histories: rows before the rebuild, files it counted, what GET and POST have reported as stored |

`store_cddb_entry_in_database` is two steps, since another thread may come
between the look-up with its decision (`Decide`) and the transaction (`Insert`,
`Update`, `WriteFails`).  GET /disc is `GetDisc`, `QueryService`, then a store
or an update of the row it has read, and `MusicBrainz`, which fills in what is still
unknown; POST /disc (`PostDisc`) stores and then is a GET.  A GET asks again as long
as one of the services has not answered in full (`Complete`), so that a disc which
cddb knows and MusicBrainz does not is prepared, queried and stored by every GET;
cddb counts as complete after every query that succeeded, also when the entry could not
be read (`Query` in `Xmcd`).  Another disc comes with the information of the last one
forgotten (POST /disc/eject) or kept (the drive closed and opened again): then
names, titles and completeness are those of the earlier disc (`ChangeDisc`).  If the
next disc has more tracks than the structure was allocated for, the program writes
behind its end (`Overrun`); what comes of that is undefined and not followed.  A rebuild is `StartRebuild`, `ReadFile` with a store for each file, and
`EndRebuild`; a scan is `ScanAlbum` (the entry beside the album is stored) and
`CompleteAlbum` (the search with what its cue sheet says).

`DocumentAssumption` and `ShortestTrack` say which discs, answers and files there are
(see 5); TLC evaluates them for the instance of the run.

### Server (with MCServer, ServerAudioProofs)

The one HTTP thread: the life of each connection's request, and the content
callbacks it calls in turn; and the extraction thread that reports progress and
writes the files the streams read.

| variable | code |
|---|---|
| `phase`, `req`, `body` | where a connection's request is; what it asks; how much of its body is stored |
| `heap` | what is allocated or open on its behalf: request, body, stream context, file, decoder or encoder |
| `callback`, `stream` | the content callback of its response and what its context knows |
| `sent` | what the client has got, in blocks |
| `call` | the callback that holds the HTTP thread in a wait, a loop or a join |
| `file` | the audio files: kind, whether the header can be read, blocks announced and there |
| `worker`, `ripping`, `status` | the extraction thread, its track, `cde->status` |
| `pending` | `last_request` differs from `last_update` |
| `overlap`, `lost` | histories: a track was written while it was streamed; conversions that left their file open |

A handler is an action (`FirstCall`, `StoreData`, and `Answer` by the request's
kind); so is each call of a content callback (`ReadFile`, `Decode`,
`EncodeCall` with `EncodeLoop`, `ProgressCall` with `ProgressFormat` and
`ProgressMark`).  While `call` is not `Free` nobody else is served.  `Complete`
and `Leave` run the cleanup callback and `request_completed_handler`; `Stop` is
the daemon's end.  The promised size of a response ends it, unless the callback
does so.  `bytes_left` of the encoder wraps at `Wrap`.

### JsonFile (with MCJsonFile)

The json file beside an album: the writer, the tokenizer and paths of
`json_utils.c`, the reader, and the file itself through extractions, kills and
files of older versions.  A text is a sequence of pieces: characters with a meaning,
a run of white space as one, and words.  `Scan` is the loop of `json_next_token`
over them with its counters; `Find`, `GetValue`, `SelectMember` and
`SelectTrack` are the searches, and `Values` reads one member after the other from
where the last search ended.

| variable | code |
|---|---|
| `disc` | `cde->disc_info` |
| `file`, `out` | the text in the file; what is in the stream's buffer |
| `stage` | the extraction, as far as the file is concerned |
| `written` | history: what the file was last closed with |

## 3. Runs

| run | instance | shows |
|---|---|---|
| `DriveRaces` | 1 disc, 2 threads, requests at any time, fairness | `TypeOK`; `BusyHasOwner`: a locked drive has an owner; `NeverLockedForever`, `CancelReturns` |
| `DrivePrompt` | 2 discs, 2 threads, `PromptStart` | `NoCrash`, `ExtractionHoldsLock`, `CancelLeavesNone` |
| `ExtractAudio` | 3 tracks of 2, 3 and 1 sectors | `KeptTrackIsWhole`, `NoPartialFile`, `CancelInTimeIsFinal`, `ImplementsRipDisc` |
| `DbJobs` | 2 discs, 2 jobs | `BusyModeHasJob`, `IndexIsBack`, `LibraryIsConsistent`, `ScanIsComplete` |
| `StoreDisc` | 2 threads, 2 discs of 2 tracks, 3 stores, one shared `db->status` | `OneTransaction`, `DiscIsWhole`, `ReportedIsStored`, `NamesExist`, `ImplementsAtomicStore` |
| `ScanFolder` | up to 7 folders and files, 3 deep, up to 2 tracks | `SourceIsThere`, `AlbumIsAhead`, `EveryFolderCounted`, `JsonIsOwn`, `TidyAlbumIsIsolated` |
| `CddbCache` | 2 discs, 2 files, an album of another program, 3 rows, 2 requests, 1 rebuild or scan | `TempIsIndex`, `KeptIsThere`, `ReportedIsServed`, `CueReadBack`, `AlbumIsFound` |
| `Server` | 2 connections, 3 tracks of 2 blocks, 1 extraction, strong fairness | `SentIsContent`, `NothingLeftOpen`, `RequestsEnd` |
| `JsonFile` | 31 discs with awkward names, 2 extractions | `JsonReadBack` |
| `DriveTwoExtractions` | as DriveRaces | violates `OneExtraction` |
| `DriveStaleDisc` | as DrivePrompt | violates `DiscInfoIsCurrent` |
| `ExtractLastSkipped` | as ExtractAudio | violates `SkippedTracksComplete` |

**Why the bounds are enough.**  Two threads are what it takes for a race
between an extraction or job and another; a third adds no new pair, and the
invariants that have been proved hold for any number.  Two discs are what it
takes to change one for another or to give one's row number to the other; the
run with fairness has one, since no disc differs from another there.  Three
tracks give a track before, at and after a skipped one, and tracks of one and
of several sectors; in `StoreDisc` two tracks give a store that stops after
none, one or all of them; the disc starts at sector 1, so that a sector before the
first track exists.  Seven entries are an artist, an album and five more:
enough for an album after another, in another, or with a folder in it, with
two sources and the files that disturb them (`MaxEntries`, `MaxDepth` and
`MaxTracks` are the bounds of `ScanFolder`; its theorems hold for any).  Three
stores (`MaxStores`) are two that meet and one that comes before, between or after
them: it finds what an accident has left behind, and the promise holding again.

`CddbCache`: two discs of one and two tracks, the longer beginning like the
shorter, so that each part of the hash and of the comparison matters; two files
with one hash and different names, so that the second finds the first in the
index and is inserted beside it, while updates come from the answers of the
service; three rows (`MaxRows`), two requests (`MaxRequests`) and one job
(`MaxJobs`), a rebuild or a scan, enough for a GET or POST at any point of it, and for
a second one after it that finds the first one's row and the information it has left,
of the same disc or of another.  A rebuild and a scan never run at once.  A title in two pieces shows that a continued line is not a new
one.  `Server`: one connection controls the extraction and sends bodies below
and at the limit, the other plays each kind of track in each format, one of them a
FLAC file that cannot be read, or follows the progress; tracks of two blocks have a
first, a last and a header; the library asks for one or two blocks at a time
(`MaxBlock`), so that a frame with its header is delivered in pieces; one
extraction (`MaxRips`) can meet every state of a stream.  `Wrap` is 16 blocks, more
than any file has, so that a counter that has wrapped is told from a small one.
`JsonFile`: names that are empty, look like members, literals, numbers or
structure, or hold quotes and escapes; a query longer than a token (`TokenSize`);
a buffer (`Buffer`) smaller than any text, so that a kill leaves an empty and a
torn file; a second extraction (`MaxWrites`) with and without overwrite.
`MaxNumber` only bounds the numbers in a file.

All other variables are finite without further bounds.  Symmetry is used in the runs that
check no liveness.

**Deadlock.**  In `DrivePrompt`, `StoreDisc` and `CddbCache` it is checked.
Elsewhere the system may stop: the process has died (`DriveRaces`), the
extraction has ended (`ExtractAudio`), the database could not be opened
(`DbJobs`), the scan has ended (`ScanFolder`), the server has been stopped
(`Server`), or the last extraction of the bound has been killed or has ended
(`JsonFile`).

**Fairness.**  `Drive`: a handler that has begun, and each thread, go on (weak
fairness): they are operating system threads, network calls have time limits
and paranoia gives up a sector after `max_retries`.  Nobody has to send
requests or to insert a disc.  `ExtractAudio`: the same for its one thread; a
cancellation need not come.  `Server`: strong fairness for what the HTTP thread
does for each connection (`Handle(c)`): the library's epoll loop serves every
connection that is ready in each round, and a connection is not ready only while
another one's callback holds the thread; clients that go on reading are assumed,
for the server sets no time limit.  Weak fairness for the extraction thread.
Clients need not send requests, bodies or leave, and the server need not stop.
The other modules have no liveness property.

## 4. Findings

Three runs find a disagreement between the code and what it says of itself.

1. Two requests start two extractions (`OneExtraction`), since the status is
   set by the thread and not by the handler that tests it.
2. `GET /disc` returns the disc that was in the drive before
   (`DiscInfoIsCurrent`): closing the drive keeps `disc_info`.
3. A skipped last track turns a finished extraction into an error
   (`SkippedTracksComplete`): the cursor is set to the first sector of a track
   that does not exist.

**Known limits of the code.**  The properties below hold only with a premise, or
for a part of the inputs, because of what was met while modelling; each premise
is in the property or in the model.

- *Scanner.*  `TidyAlbumIsIsolated` leaves out folders with a second cue sheet
  (it switches the first one off, though a comment, `scan.c:730`, calls that the
  only one that is processed), audio files without a track number (their disc
  goes to the next album), and folders inside an album (visited before its files
  they can give it their name; the order is the directory's, `scan.c:519`).
- *Store.*  One thread's call can hide from another that its own call has failed,
  for both test the same `db->status`.  Without the premise `"hidden"` both
  properties that have it are refuted.  `OneTransaction`: BEGIN fails inside another
  thread's transaction, the other's next call sets `DB_OK`, and two stores hold the
  transaction (a trace of 18 states).  `DiscIsWhole`: the SELECT of a track finds
  none, the test reads the other thread's `ROW`, the track is taken for stored, and
  a torn disc is committed and reported (19 states).  With the premise the
  properties say how far the damage goes: what is committed stays, a disc that was
  reported when nothing had gone wrong keeps its tracks and names, and stores that
  begin after everything has ended are atomic again.  The result of COMMIT is not
  tested: it fails while another thread's INSERT has not ended, the disc is reported
  as stored, and the connection stays in a transaction for good, in which every later
  store fails.  A ROLLBACK takes back the artists of another thread's disc, which is
  then stored with names that do not exist.  Discs reported around such an accident
  are not in `reported`, so that `ReportedIsStored` and `NamesExist` say nothing of
  them.  A mutex around the store is needed, not only a local variable.
- *Jobs.*  A backup whose first step fails returns without resetting the mode
  (`db.c:283`), and no later job is accepted: `BusyModeHasJob` names
  that as the only way a mode is left behind.  A purge that fails between two
  statements leaves discs without tracks (`LibraryIsConsistent` excludes a failed
  purge), and a rebuild that fails leaves what it has emptied (`ScanIsComplete`
  excludes it for a rebuild, not for a rescan, which scans all the same).  The purge
  has no transaction and foreign keys are off (`db.c:1835`): a store between its
  statements leaves rows of a disc that is gone, which `disturbed` excludes.  Stores
  at any other moment of a job are included.  A job reads the purge flag from
  a request that may have been freed (`api.c:398`).
- *cddb cache.*  `disc_info` is kept when the drive is closed and opened again
  (finding 2), and so a disc with more tracks than the last one is written behind the
  end of the structure (`libcdextract.c:807`), which `Overrun` marks.  A data track
  has length 0 until an entry fills it in from its offsets; the next GET then computes
  another hash for the same disc, so that a name stored under the first hash is not
  found under the second.  Discs with a data track are therefore left out
  (`IsToc`), and nothing is claimed about them.  The hash of an imported file never agrees with that of the disc in
  the drive (the file's length includes the lead-in of 150 frames, the drive's
  does not, and is in seconds), so that GET /disc does not find imported entries:
  README.md:68 speaks of importing and querying a local database.  GET /disc with the
  service not reachable and a row in the cache overwrites the row's header with the
  unknown names (`db.c:2567`); it is a store like others, and `ReportedIsServed`
  asks for those names then.
  Updates never change tracks (`db_schema.h:687` names a column that does not
  exist), and may lower the revision; a second rebuild stores every entry again.
  A row is read back with a length that includes the lead-in, so that the disc in
  the drive never has the length of its own row and is inserted again by each store,
  though a comment (`db.c:2715`) takes the lengths to be equal.  Written entries
  number titles from 1 and give the length without the lead-in.
- *Streams.*  A FLAC file of more than 16 bits a sample is promised in its own width
  (`flac_reader.c:182`) and decoded to 16 bits (`flac_reader.c:144`), so that its
  conversion never ends either; the program writes no such file, and the model has
  none.  A response with raw audio never ends: its promised size includes the
  header that is skipped, and the callback returns 0.  A damaged FLAC file, or one
  the decoder does not support, gives 0 for ever.  `SentIsContent` and
  `RequestsEnd` say so (`Ends`, `overlap`).  An encoder whose WAV file has become
  shorter never comes to the end of `bytes_left`, and loops inside the only HTTP
  thread; a FLAC file that cannot be opened leaks its file (`flac_close(NULL)`,
  `api.c:2778`), which is the exception in `NothingLeftOpen`.  A progress update
  between formatting and marking (`api.c:1309`) is not told, and two progress streams
  share the one mark; neither keeps a stream from ending.
- *JSON.*  Names are written without escapes: a quote or backslash shifts the
  quoting for the rest of the file.  A string of 127 characters or more, such as
  the query of a disc with many tracks, makes every track unreadable
  (`json_utils.c:313`), and the reader returns 0 with empty tracks
  (`json_file.c:345`), which a scan stores.  An empty file, such as one that is
  being written or was left by a crash, is read as valid; without overwrite it
  stays until an extraction ends.  These are `Readable` and `written # NoDisc`
  in `JsonReadBack`.
- *Editing.*  After a refused body POST /disc goes on (`api.c:872`), which may use
  a NULL `disc_info`; the year of a track is checked against that of the disc
  (`api.c:1052`).  The model has POST /disc with a disc and a valid body.

## 5. Proofs

`DriveProofs`, `DbJobsProofs`, `StoreDiscProofs`, `ScanFolderProofs`,
`ParserProofs`, `CddbCacheProofs`, `ServerAudioProofs` and `ExtractAudioProofs` are
checked by TLAPS for any `Discs`, `Workers`, `Threads`, `Tracks`, table of contents,
connections, requests, files and bounds.  What is assumed of the constants:

- the model values differ (`DistinctPointers`, `NoneIsDistinct`, `ThreadsAssumption`,
  parts of `StoreAssumption`, `DiscsAssumption` and `ServerAssumption`), bounds are
  natural numbers and switches are Booleans (`PromptStartIsBoolean`, `ScanBounds`,
  `CacheAssumption`, `MaxTracksAssumption`, `StoreAssumption`), and `DbJobs` has
  finitely many discs (`DiscsAssumption`);
- a library and a request have the form of the model's records (`ServerAssumption`;
  there `"free"`, the holder of the HTTP thread when nobody has it, is no connection);
- a track has at least one block of audio, fewer than `Wrap`, and its file has no more
  than its header announces (`LibraryAssumption`): the length of a WAV file is a
  field of the same 32 bits as `bytes_left`, and the extraction writes the header
  before the audio, which it then fills up.  A file may be shorter, unreadable or
  gone;
- each of a disc's 1 to 99 tracks starts before the next (`NTracksAssumption`,
  `TocAssumption`);
- a disc, an answer of the service and a file of the cddb folder have 1 to 99 tracks,
  none of 100 minutes or more (`MM:SS:FF` has two digits for the minutes), an id, and
  as many titles as tracks; and an answer has as many tracks as the disc that was
  asked for, since the count is the low byte of the id (`libcdextract.c:813`)
  (`DocumentAssumption`).  All tracks of a disc are audio: this excludes discs with a
  data track (section 4);
- a track lasts four seconds at least, as the standard of the audio CD has it
  (`ShortestTrack`): a length of 0 means that it is not known, and a file's last
  track loses up to a second by rounding, and must not become unknown by that.

- `TypeCorrect`: `TypeOK` alone is not inductive: `GET /disc` reads
  `library[info.toc]` two steps after it has prepared `info`.  `TypeInv` adds
  that `info` exists while a lookup or query is on, which holds as eject cannot
  run in between.  Extended with what a thread may find, it carries
  `BusyAlwaysHasOwner`: each action that makes the status busy puts its actor at
  a place it leaves only by resetting the status, and a cancellation keeps the
  owner it has found.
- `PromptNoCrash`, `PromptHoldsLock`, `PromptCancelLeavesNone` (assuming
  `PromptStart`) follow from `PromptInv`: there is at most one thread, it is
  the one in `cde->thread`, it has not been joined, it owns the status, and
  `drv`, `info` and its paranoia handle agree.  The three properties are not
  inductive separately: that nobody ejects needs the status, the status needs
  that no second thread resets it, and that needs the guard of the extraction.
- `BusyModeAlwaysHasJob` is proved without the type invariant: the interesting
  case is the second of two jobs, whose mode survives only if no job that ends
  leaves another's mode without an owner; both write `normal`.
- `IndexAlwaysIsBack` rests on one more fact per job: the indexes are dropped
  only on the way into `cddb`, and a job leaves `post` only by creating them or
  by failing.
- `JobsTypeCorrect` needs that no disc has two rows (`DiscOnce`): only then is there
  room for one more row when a disc is missing, which is proved by counting
  (`FS_Injection`).
- `LibraryAlwaysConsistent` and `ScanAlwaysComplete` follow from `QuietInv`, which says,
  as long as no two jobs have met and nothing was stored amid a purge, that there is
  one job at most (`Sole`), that, unless a purge has failed, no tracks are left without
  a disc (`NoOrphans`) and the library is consistent but for a purge between its first
  two statements, and how far each job has come (`Halfway`): which tables it has
  emptied, and that a disc is stored or still in its list, or the scan has failed.
  Consistency alone is not inductive: the purge empties the tracks first, and a disc
  stored again takes up whatever tracks have its number.
- The theorems about `StoreDisc` assume nothing of the threads, nor of what they read
  of one another's results.  `BaseInv` holds whatever happens: the tables are
  sequences without a disc twice, what is seen extends what is committed, and an
  unended INSERT belongs to a thread that will end or finalize it (`AtWork`); each
  step is one of six kinds for the engine (`StepEngine`).
- `BeginIsLock` and `StoredDiscIsWhole` add `LockInv`, which speaks of the time in
  which no failure is hidden: at most one store holds the transaction (`Alone`), it
  is open (`Open`) and has an owner or comes of an accident (`Owned`), outside a
  transaction what is seen and what is committed differ in names at most
  (`Settled`), and how far the owner has come (`Progress`: at most its own disc has
  been added, as the last row, with the tracks below `num`).  `DiscIsWhole` alone
  says nothing of `mem`, which a commit makes permanent, and the lock is what makes
  that commit the store's own.  The part of `DiscIsWhole` about what is already
  committed needs `BaseInv` only, and holds with failures hidden.
- `ReportedDiscIsStored` and `StoredNamesExist` follow from `KeptInv`: while there is
  no accident, what a thread has read or written so far is still there (`Known`): its
  names from its look-up on, and the row of its disc.  What has been reported is
  committed, and what is committed grows (`DiskGrows`), so that the accidents that
  come later need no argument of their own.
- `StoresAreAtomic` maps each step to one of `AtomicStore` or a stutter: a COMMIT
  without accident to `Insert` or `Update` (`CommitIsAtomic`), the first accident to
  `Accident`, and all that happens around one to `Spoil` (`GrowsAtomic`).  That the
  promise holds again rests on `astray` being emptied only when no store and no
  transaction is under way, where `Settled` and `Owned` hold anew.
- `ScanAlwaysHasSource` and `ScanAlwaysKeepsAlbum` are about `ScanInv`: types,
  `SourceIsThere`, `AlbumIsAhead`, and `JsonIsHere` (a JSON disc's folder is the one at
  `disc_level` on the path), of which `JsonIsAlwaysOwn` is a consequence.  The
  parts need each other: a level is kept only as long as a disc is, and a
  folder keeps its place on the path only while the level is ahead.
- `TidyAlbumAlwaysIsolated` adds `TidyInv`: in a tidy folder, what the scan knows is
  what lies in that folder, source by source (`JsonRead`, `CueRead`, `AudioRead`), and
  it names no other (`Own`).  The interesting case is the first file of a folder:
  nothing may be known then of the albums before it, which follows from `AlbumIsAhead`
  (a disc keeps its level on the path) and from `PathInv` (the album's folder has a file,
  so that a tidy place has no other album on the path).  The names under which it is
  stored are the folder's or, after `Completed`, those of the database's entry.
- `ServiceParsed`, `WrittenParsed` and `CueParsed` say what the parsers return for every
  document, of any number of tracks and lines.  The parsers fold a handler over the
  lines; that the recursive function behind a fold over 1..n exists and goes on by one
  step (`FoldExists`, `FoldSteps`) is proved by induction over the set of numbers for
  which it does, with the well-founded order of the numbers in place of the induction
  theorems.  Then each place of a document is shown to hold its line, each kind of line
  to take the parser from one state to the next, and the state after i tracks is
  written out.  `CueAlwaysReadsBack` is `CueParsed` for the disc an extraction has.
- `TempIsIndexAlways` is about `IndexInv`: `CacheInv` (the cache is a sequence of
  rows with a hash, the rebuild's first row is not beyond its end, and
  `TempIsIndex`) and `TargetInv` (the row a thread is about to update, or has
  read to update later, exists).  `TempIsIndex` alone is not inductive: an update
  could change the hash of a row the index points to, or write a row that is not
  there.  The first cannot be, since `Header` keeps the hash; the second is what
  `TargetInv` carries through the gap between `Decide` and `Update`, during which
  the cache only grows.
- The other theorems about the cache rest on `BaseInv`, which adds to `IndexInv` what
  each thread has in hand (`ThreadOk`: the HTTP thread the disc in the drive, the job
  a file or the entry beside an album), that the row to be written has the hash of what
  is written (`TargetRow`), and what the rows and the album folder hold (`RowsInv`,
  `AlbumInv`).  Two facts about the hash carry the rest.  Discs with one hash have one
  number of tracks, each as long to a second (`SameDrive`), so that every row with
  the hash of a disc fits it (`RowsFit`).  And neither a file of the cddb folder
  (`FileNotDrive`) nor an entry beside an album (`WrittenDiscIs`) has the hash of any
  disc, so that the two threads write different rows.  The second is the known limit of
  section 4 turned into a lemma: were it mended, the theorems below would need another
  argument, and may be false.
- `CacheTypeCorrect` adds `TallyInv`: the counters, and that files counted or being
  stored are no longer among those to be read.
- `ReportedIsAlwaysServed` adds `ServedInv`.  What was reported must be in the last row of
  its hash, which is the one the look-up returns (`ByTocIsLatest`), and the row GET
  /disc has read before its query, or the HTTP thread has chosen to write, must be that
  row still when it is written, although another thread may have stored meanwhile.
- `AlbumIsAlwaysFound` combines `CueAlwaysReadsBack` with the search: of the rows with
  the hash the three heaviest are examined, and whichever these are, they fit
  (`SearchFinds`); `ReportedInv` says that there is one.
- `KeptIsAlwaysThere` adds `KeptInv`: the rows of a rebuild are the HTTP thread's or
  have the tracks of a file, each file counted has a row with its hash and name, and the row
  the job is about to update has the name of the file already, so that an update takes
  no other file's row away (`SameFile`: files with one hash have the same tracks).
- `NothingLeftOpenAlways` follows from `ServerInv`, in three parts: `ShapeInv`
  (which values phases and requests have), `HeapInv` (what a connection holds is
  among what its callback's cleanup and the completion release, at every moment,
  since a client may leave at any), and `FileInv` (a file keeps its kind, and a
  header that could be read, so that `lost` only has unreadable FLAC files of the
  library).  `CallInv`, an invariant of its own, is needed for one step: the
  encoder's loop ends a response only of a connection that streams.
- `ServerTypeCorrect` and `AudioAlwaysInOrder` follow from `StreamInv`.  What a client
  has got says nothing of what it gets next, so that the invariant follows a block
  from the file to the client: what was sent, what the call has gathered, what the
  buffer holds and what libFLAC holds count on from one another (`InOrder`), up to the
  block the callback reads next (`Positioned`), which is not beyond what the header
  announces and, without an overlapping extraction, not beyond what the file had
  when it was opened (`Bounded`).  `Promised` says what size was announced, `Opened`
  for which request, and `Lengths` that no file outgrows its header, although the
  extraction empties, writes and removes the files being streamed.  `bytes_left`
  plays no part: an encoder's response has no promised size, and its blocks are in
  order however the counter wraps.
- The theorems of `ExtractAudioProofs` follow from `RipInv`.  `KeptTrackIsWhole`
  alone is not inductive: starting a track empties its file, so one must know that
  the track is still marked as skipped (`Undecided`), and that needs the tracks to
  be taken in order.  `Before(n)` says where the loop stands between two tracks,
  with `current` at `n` or, after a kept track, at `n - 1`; within a track the file
  is the sectors up to the cursor, and paranoia's position is the cursor.  That the
  toc increases over more than one track is proved by the least counterexample.
  `CancelInTimeIsFinal` adds `OnTheWay`, stable from the cancellation on: the cursor
  is on the disc, so that the loop does not end, or the track is skipped, and then
  the status is looked at.  `RipsDisc` maps each step to one of `RipDisc` or a
  stutter, from what `RipView` says the mapping yields at each place.  The proof
  showed that a cancellation after a skipped last track must be left out: the
  cursor is -1 then, and with 99 tracks the loop's bound of 100 ends it as done.

**Only model-checked**: the liveness properties (`NeverLockedForever`,
`CancelReturns`, `RequestsEnd`) and the fairness in `ImplementsRipDisc`, which are out
of the prover's reach; and `JsonReadBack`, whose tokenizer and paths are recursive
operators.  The three refuted properties have no theorem either.  `PromptStart` is
assumed as said above where a theorem names it.

## 6. Abstractions

- Network, file and encoder results are choices; texts, paths and formats are
  left out.  A disc is a model value; two discs have different tables of
  contents.
- `Drive` has the physical drive only (the server switches the virtual one
  off).  All discs have as many tracks: what a larger disc does to the structure of a
  smaller one is in `CddbCache` (`Overrun`).  In `Drive`, the tray-closing handlers are left out.  POST /disc is in `CddbCache`.
- `DbJobs` stores a disc in one step; `StoreDisc` takes that step apart.
- `StoreDisc` has one table of names for artist, album and genre, and each disc
  its own name in it; the names of single tracks are part of adding the track.  A cover is only something that can fail; the rollback
  that SQLite does by itself on a full disk, `update_cover`, the purge and the
  readers on the same connection are left out.
- `ScanFolder` takes names as the folders they come from; tags inside audio
  files, cover images, playlists (`process_m3u_file` does nothing) and written
  JSON files are left out, as is what `process_cddb_file` stores.
- `scan_cddb_folder` is one step of `ScanFolder` and `DbJobs`; `CddbCache` takes it
  apart.
- `CddbCache`: artist and title are one name, genre, category, extended data and
  names of single tracks are left out, and two names that differ in case are one
  value.  A row's tracks are a function in the row.  MusicBrainz gives the names of an
  entry or none.  The early return of GET /disc for a disc of the library is left out:
  it stores nothing in the cache.  A failed
  statement takes the whole store back, as the code's ROLLBACK does; that another
  thread's transaction may be hit is the subject of `StoreDisc`.
- `Server`: audio is counted in blocks and the header is one; samples, tags and
  pictures are left out.  That a second extraction starts, or the drive closes,
  before the new thread has reported is excluded (`Drive` has it), and so is a body
  without announced length.  The wait of the progress callback is a step
  that ends: it is limited, though in processor time of the process.
- `JsonFile`: the four characters after `\u` are not skipped (`json_utils.c:298`), for
  names with a backslash are outside `Readable` anyway.  Of the members of a form (numbers, strings) one is kept; covers, name
  filters and the file's path are left out, as is the json file a scan writes
  itself for an album with a cue sheet.  After a kill the drive holds any
  disc whose file has the same name.
- A crash of the process ends the `Drive` model: nothing of `cde_state` is
  persistent, and the database's own recovery is SQLite's.

## 7. Not modelled

- The MusicBrainz and cover art client (`mb_api.c`, `http_client.c`): the parsing
  of remote answers, with no state between calls; what they change in `disc_info`
  is of the same form as what the cddb service changes.
- The digits of the cddb and MusicBrainz identifiers, SHA-1 and base64:
  arithmetic that is compared with published values by tests.
- Look-up, search, lists and cover updates of discs (`db.c`): single SQL
  statements whose meaning is SQLite's.
- Validation of the fields of POST /disc, routing, JSON replies, options,
  reports, log and string utilities: no state, or plain text.
- The end of the process: in daemon mode it is killed without cleanup, in
  console mode the cleanup frees `cde` and `db` under running threads
  (`server.c:88`), with no property that could hold.  `Server` has what the
  library does for connections at a stop.
- cdparanoia, libFLAC, libmicrohttpd, libcurl and SQLite: external; modelled as far
  as the code's use of them needs.

## 8. What comes next

1. A composition of `Server` and `Drive`, so that the races before the first report
   meet the streams.
2. A composition of `StoreDisc` with the purge of `DbJobs`, statement by statement.
