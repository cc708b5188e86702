------------------------------- MODULE DbJobs -------------------------------
(***************************************************************************)
(* The operation mode of the database and the jobs that change it: POST    *)
(* /discs/rescan, /discs/rebuild and /discs/backup start a thread each     *)
(* (server/api.c), the thread sets the mode when it runs, deletes and      *)
(* refills the disc tables (db.c, scan.c) and sets the mode back.  Nothing *)
(* but the mode keeps them apart, and it is read and written without a     *)
(* lock.                                                                   *)
(*                                                                         *)
(* A job gets a pointer to the HTTP request, which the server frees as     *)
(* soon as the response is sent (request_completed_handler, handler.c):    *)
(* what the job reads through it later is any value.                       *)
(*                                                                         *)
(* A disc stands for its row, its track rows and its artist and album.     *)
(* SQLite numbers the rows of an emptied table from 1 again, so that the   *)
(* disc table is a sequence, and the tracks are found by that number.      *)
(* Foreign keys are off until a rebuild has turned them on (the pragmas of *)
(* open_database do not).                                                  *)
(***************************************************************************)
EXTENDS Integers, Sequences, FiniteSets

CONSTANTS
    Discs,      \* the disc folders below the audio folder
    Threads,    \* slots for job threads
    None

ASSUME DiscsAssumption == IsFiniteSet(Discs) /\ None \notin Discs
ASSUME ThreadsAssumption == None \notin Threads

VARIABLES
    mode,       \* db->mode
    kind,       \* what each thread has been started for, None in a free slot
    pc,         \* where each thread is
    todo,       \* the folders scan_audio_folder has yet to visit
    disc,       \* disc_id -> the disc stored in that row
    track,      \* t_disc_id -> the disc those track rows describe
    artist,     \* the discs whose artist and album rows are there
    fkeys,      \* PRAGMA foreign_keys
    index,      \* idx_cddb_lookup exists
    failed,     \* history: what has failed
    disturbed   \* history: two jobs at once, or a store in the middle of a purge

tables  == <<disc, track, artist>>
schema  == <<fkeys, index>>
history == <<failed, disturbed>>
vars    == <<mode, kind, pc, todo, disc, track, artist,
             fkeys, index, failed, disturbed>>

Modes  == {"closed", "normal", "rescan", "rebuild", "backup"}
Kinds  == {"rescan", "rebuild", "backup"}
Places == {"ended", "created", "claim", "pre", "cddb", "post", "purge",
           "tracks", "discs", "artists", "scan", "vacuum", "finish"}
Rows   == 1 .. Cardinality(Discs)

\* What can fail: a statement of the backup, one that drops or creates the
\* indexes, one that purges, or the scan of a folder
Failures == {"backup", "index", "purge", "scan"}

TypeOK ==
    /\ mode \in Modes
    /\ kind \in [Threads -> Kinds \cup {None}]
    /\ pc \in [Threads -> Places]
    /\ todo \in [Threads -> SUBSET Discs]
    /\ disc \in Seq(Discs) /\ DOMAIN disc \subseteq Rows
    /\ track \in [Rows -> Discs \cup {None}]
    /\ artist \subseteq Discs
    /\ fkeys \in BOOLEAN /\ index \in BOOLEAN
    /\ failed \subseteq Failures /\ disturbed \in BOOLEAN

\* The database may not open; a backup may be started with the server.
Init ==
    /\ mode \in {"normal", "closed"}
    /\ \E b \in Threads \cup {None} :
         /\ mode = "closed" => b = None
         /\ kind = [t \in Threads |-> IF t = b THEN "backup" ELSE None]
         /\ pc = [t \in Threads |-> IF t = b THEN "created" ELSE "ended"]
    /\ todo = [t \in Threads |-> {}]
    /\ disc = << >>
    /\ track = [i \in Rows |-> None]
    /\ artist = {}
    /\ fkeys = FALSE
    /\ index = TRUE
    /\ failed = {}
    /\ disturbed = FALSE

----------------------------------------------------------------------------
(* Helpers *)

Running(t) == pc[t] # "ended"

At(t, place) == pc[t] = place

Goto(t, place) == pc' = [pc EXCEPT ![t] = place]

Exit(t) == /\ Goto(t, "ended")
           /\ kind' = [kind EXCEPT ![t] = None]

Fail(what) == failed' = failed \cup {what}

IsStored(d) == \E i \in DOMAIN disc : disc[i] = d

RowOf(d) == IF IsStored(d) THEN CHOOSE i \in DOMAIN disc : disc[i] = d
            ELSE Len(disc) + 1

\* store_disc_in_database: a stored disc is left alone without update; a new
\* disc finds the track rows that already have its number, and leaves those
\* alone without update.
Store(d, update) ==
    IF IsStored(d) /\ ~update
      THEN UNCHANGED tables
      ELSE LET i == RowOf(d)
           IN /\ disc' = IF IsStored(d) THEN disc ELSE Append(disc, d)
              /\ track' = IF track[i] = None \/ update
                            THEN [track EXCEPT ![i] = d] ELSE track
              /\ artist' = artist \cup {d}

\* DELETE FROM track, and forms of it that do not do the work
TracksKept == track
TracksOfRows == [i \in DOMAIN disc |-> None]
TracksDeleted == [i \in Rows |-> None]

\* DELETE FROM disc, which cascades to track when foreign keys are on
TracksAfterDiscs ==
    IF fkeys THEN [i \in Rows |-> IF i \in DOMAIN disc THEN None ELSE track[i]]
    ELSE track

\* DELETE FROM album and artist is refused while a disc refers to them.
Restricted == fkeys /\ disc # << >>

----------------------------------------------------------------------------
(* The HTTP thread, and whoever stores a disc *)

\* api_rescan_discs, api_rebuild_discs and api_backup_discs start a thread
\* only in normal mode, and leave it to the thread to change the mode.
MayStart == mode = "normal"

StartJob(k) ==
    /\ MayStart
    /\ \E t \in Threads :
         /\ ~Running(t)
         /\ Goto(t, "created")
         /\ kind' = [kind EXCEPT ![t] = k]
    /\ disturbed' = (disturbed \/ \E t \in Threads : Running(t))
    /\ UNCHANGED <<mode, todo, tables, schema, failed>>

\* The tables have been purged in part.
Purging(t) == pc[t] \in {"discs", "artists"}

\* GET /disc, POST /disc, POST /discs/<id> and the end of an extraction
StoreDisc ==
    /\ mode # "closed"
    /\ \E d \in Discs, update \in BOOLEAN : Store(d, update)
    /\ disturbed' = (disturbed \/ \E t \in Threads : Purging(t))
    /\ UNCHANGED <<mode, kind, pc, todo, schema, failed>>

----------------------------------------------------------------------------
(* A job thread *)

\* The check of the mode, and the assignment that follows it
JobCheck(t) ==
    /\ At(t, "created")
    /\ \/ mode = "normal" /\ Goto(t, "claim") /\ UNCHANGED kind
       \/ mode # "normal" /\ Exit(t)
    /\ UNCHANGED <<mode, todo, tables, schema, history>>

JobClaim(t) ==
    /\ At(t, "claim")
    /\ mode' = kind[t]
    /\ Goto(t, CASE kind[t] = "rescan"  -> "purge"
                 [] kind[t] = "rebuild" -> "pre"
                 [] kind[t] = "backup"  -> "vacuum")
    /\ UNCHANGED <<kind, todo, tables, schema, history>>

\* rebuild_cddb_pre: foreign keys off, then the indexes dropped
RebuildPre(t) ==
    /\ At(t, "pre")
    /\ \/ /\ Goto(t, "cddb")
          /\ fkeys' = FALSE /\ index' = FALSE
          /\ UNCHANGED failed
       \/ /\ Goto(t, "finish")
          /\ Fail("index")
          /\ \/ UNCHANGED schema
             \/ fkeys' = FALSE /\ index' \in {index, FALSE}
    /\ UNCHANGED <<mode, kind, todo, tables, disturbed>>

\* scan_cddb_folder fills the cddb tables, which are not modelled here.
RebuildCddb(t) ==
    /\ At(t, "cddb")
    /\ Goto(t, "post")
    /\ UNCHANGED <<mode, kind, todo, tables, schema, history>>

\* rebuild_cddb_post: the indexes created, then foreign keys on
IndexForgotten == index
IndexRestored == TRUE

RebuildPost(t) ==
    /\ At(t, "post")
    /\ \/ /\ Goto(t, "purge")
          /\ fkeys' = TRUE /\ index' = IndexRestored
          /\ UNCHANGED failed
       \/ /\ Goto(t, "finish")
          /\ Fail("index")
          /\ index' \in {index, TRUE}
          /\ UNCHANGED fkeys
    /\ UNCHANGED <<mode, kind, todo, tables, disturbed>>

\* if (request->purge == 1): asked or not; the request may have been freed,
\* and then either way
JobPurge(t) ==
    /\ At(t, "purge")
    /\ \/ /\ Goto(t, "tracks")
          /\ UNCHANGED todo
       \/ /\ Goto(t, "scan")
          /\ todo' = [todo EXCEPT ![t] = Discs]
    /\ UNCHANGED <<mode, kind, tables, schema, history>>

\* A rescan goes on after a failed purge, a rebuild does not.
PurgeFailed(t) ==
    IF kind[t] = "rebuild" THEN Goto(t, "finish") /\ UNCHANGED todo
    ELSE Goto(t, "scan") /\ todo' = [todo EXCEPT ![t] = Discs]

PurgeTracks(t) ==
    /\ At(t, "tracks")
    /\ \/ /\ Goto(t, "discs")
          /\ track' = TracksDeleted
          /\ UNCHANGED <<todo, failed>>
       \/ PurgeFailed(t) /\ Fail("purge") /\ UNCHANGED track
    /\ UNCHANGED <<mode, kind, disc, artist, schema, disturbed>>

PurgeDiscs(t) ==
    /\ At(t, "discs")
    /\ \/ /\ Goto(t, "artists")
          /\ disc' = << >>
          /\ track' = TracksAfterDiscs
          /\ UNCHANGED <<todo, failed>>
       \/ PurgeFailed(t) /\ Fail("purge") /\ UNCHANGED <<disc, track>>
    /\ UNCHANGED <<mode, kind, artist, schema, disturbed>>

PurgeArtists(t) ==
    /\ At(t, "artists")
    /\ \/ /\ ~Restricted
          /\ Goto(t, "scan")
          /\ todo' = [todo EXCEPT ![t] = Discs]
          /\ artist' = {}
          /\ UNCHANGED failed
       \/ /\ Restricted
          /\ PurgeFailed(t)
          /\ UNCHANGED <<artist, failed>>
       \/ PurgeFailed(t) /\ Fail("purge") /\ UNCHANGED artist
    /\ UNCHANGED <<mode, kind, disc, track, schema, disturbed>>

\* scan_audio_folder on one disc folder; stores without update
ScanFolder(t) ==
    /\ At(t, "scan")
    /\ \E d \in todo[t] :
         /\ todo' = [todo EXCEPT ![t] = @ \ {d}]
         /\ \/ Store(d, FALSE) /\ UNCHANGED failed
            \/ UNCHANGED tables /\ Fail("scan")
    /\ UNCHANGED <<mode, kind, pc, schema, disturbed>>

\* fts_read has returned every folder.
TraversalEndsEarly(t) == TRUE
TraversalEnds(t) == todo[t] = {}

\* The folder has been traversed, or could not be read.
ScanDone(t) ==
    /\ At(t, "scan")
    /\ \/ /\ TraversalEnds(t)
          /\ todo' = [todo EXCEPT ![t] = {}]
          /\ UNCHANGED failed
       \/ todo[t] # {} /\ todo' = [todo EXCEPT ![t] = {}] /\ Fail("scan")
    /\ Goto(t, "finish")
    /\ UNCHANGED <<mode, kind, tables, schema, disturbed>>

\* backup_database_t does not set the mode back after an error.
Backup(t) ==
    /\ At(t, "vacuum")
    /\ \/ Goto(t, "finish") /\ UNCHANGED <<kind, failed>>
       \/ Exit(t) /\ Fail("backup")
    /\ UNCHANGED <<mode, todo, tables, schema, disturbed>>

JobFinishInMode(t) ==                           \* the mode not set back
    /\ At(t, "finish")
    /\ Exit(t)
    /\ UNCHANGED <<mode, todo, tables, schema, history>>

JobFinish(t) ==
    /\ At(t, "finish")
    /\ mode' = "normal"
    /\ Exit(t)
    /\ UNCHANGED <<todo, tables, schema, history>>

Job(t) == \/ JobCheck(t) \/ JobClaim(t) \/ RebuildPre(t) \/ RebuildCddb(t)
          \/ RebuildPost(t) \/ JobPurge(t) \/ PurgeTracks(t) \/ PurgeDiscs(t)
          \/ PurgeArtists(t) \/ ScanFolder(t) \/ ScanDone(t) \/ Backup(t)
          \/ JobFinish(t)

----------------------------------------------------------------------------

Next == \/ \E k \in Kinds : StartJob(k)
        \/ StoreDisc
        \/ \E t \in Threads : Job(t)

Spec == Init /\ [][Next]_vars

----------------------------------------------------------------------------
(* Properties *)

\* The places of a job that has set the mode and will set it back
OwnerPlaces == {"pre", "cddb", "post", "purge", "tracks", "discs", "artists",
                "scan", "vacuum", "finish"}

Owner(t) == pc[t] \in OwnerPlaces

\* The API refuses requests with 423 in any other than normal mode: whatever
\* the interleaving of jobs, some job of that kind is then still at work and
\* will set the mode back.  Only a backup that has failed leaves its mode behind
\* (db.c:282-303).
BusyModeHasJob ==
    /\ mode \in {"rescan", "rebuild"} =>
         \E t \in Threads : Owner(t) /\ kind[t] = mode
    /\ mode = "backup" =>
         "backup" \in failed \/ \E t \in Threads : Owner(t) /\ kind[t] = mode

\* A rebuild drops the cddb indexes: unless one has failed to drop or to create
\* them, they are there again once no rebuild is between rebuild_cddb_pre and
\* rebuild_cddb_post, even when two rebuilds have overlapped.
IndexIsBack ==
    \/ index \/ "index" \in failed
    \/ \E t \in Threads : pc[t] \in {"cddb", "post"}

\* What GET /discs serves in normal mode: every disc has its own tracks and
\* its artist, however often the tables have been purged and refilled, whatever
\* is stored before, between and after the purges, and whatever fails but a
\* statement of the purge itself.
Consistent == \A i \in DOMAIN disc : track[i] = disc[i] /\ disc[i] \in artist

LibraryIsConsistent == mode = "normal" /\ ~disturbed /\ "purge" \notin failed => Consistent

\* A rescan or a rebuild, with or without purge, gives back normal mode with
\* every disc folder stored: no purged disc is missing when requests are
\* served again.  A rescan makes up for a purge that fails half way; a rebuild
\* gives up after any failure.
ScanIsComplete ==
    [][\A t \in Threads :
         /\ pc[t] = "finish" /\ mode' = "normal" /\ pc'[t] = "ended"
         /\ kind[t] \in {"rescan", "rebuild"} /\ ~disturbed /\ "scan" \notin failed
         /\ kind[t] = "rebuild" => failed \cap {"index", "purge"} = {}
         => Discs \subseteq {disc[i] : i \in DOMAIN disc}]_vars
=============================================================================
