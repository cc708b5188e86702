------------------------------- MODULE Drive -------------------------------
(***************************************************************************)
(* The cd drive as the server shares it: the cde_state structure, the one  *)
(* HTTP thread that runs every handler of the /drive, /disc and            *)
(* /disc/extract resources (server/api.c), and the extraction threads that *)
(* cde_extract_audio starts (src/libcdextract.c).                          *)
(*                                                                         *)
(* libmicrohttpd runs with MHD_USE_EPOLL_INTERNAL_THREAD (server.c:65), so *)
(* handlers never interleave with one another, only with the extraction    *)
(* threads.  A handler that neither blocks nor waits is one action; GET    *)
(* /disc, which queries the database and the network, and DELETE           *)
(* /disc/extract, which joins a thread, are several.                       *)
(*                                                                         *)
(* An access through a pointer another thread has freed or set to NULL is  *)
(* a crash of the process, or, where the memory may still be readable, a   *)
(* choice between a crash and going on.                                    *)
(*                                                                         *)
(* The server always sets CDE_EJECT_WHEN_DONE_OFF (server.c:320), so the   *)
(* eject at the end of an extraction is not part of this module.           *)
(***************************************************************************)
EXTENDS Integers

CONSTANTS
    Discs,        \* the audio cds a user may put in the tray
    Workers,      \* slots for extraction threads
    None,         \* the NULL pointer; an empty tray
    Unopened,     \* a cdrom_drive that cdda_open refused
    Freed,        \* a paranoia handle whose cdrom_drive has been freed
    PromptStart   \* no request arrives before a new thread reports EXTRACTING

\* cde->disc_info: the toc it was made from, whether its metadata is
\* complete, and d_extracted
DiscInfo == [toc : Discs, complete : BOOLEAN, extracted : BOOLEAN]

ASSUME DistinctPointers ==
    /\ None \notin DiscInfo
    /\ None \notin Discs /\ Unopened \notin Discs /\ Freed \notin Discs
    /\ None # Unopened /\ None # Freed /\ Unopened # Freed

ASSUME PromptStartIsBoolean == PromptStart \in BOOLEAN

CDE_STATUS_INITIALIZED == 1
CDE_STATUS_IDLE        == 2
CDE_STATUS_PREPARING   == 3
CDE_STATUS_EXTRACTING  == 4
CDE_STATUS_CANCEL      == 5

VARIABLES
    status,     \* cde->status
    drv,        \* cde->drv: None, Unopened, or the disc whose toc it holds
    info,       \* cde->disc_info: None or a record
    library,    \* what the database says of each disc
    media,      \* the disc in the tray
    http,       \* where the HTTP thread is
    reply,      \* the status code of the last response
    thread,     \* cde->thread, and whether it has been joined
    pc,         \* where each extraction thread is
    rip,        \* the drive each thread's paranoia handle reads
    server      \* "up", or "crashed": the process has died

cde   == <<status, drv, info>>
world == <<library, media>>
front == <<http, reply, thread>>
vars  == <<status, drv, info, library, media, http, reply, thread, pc, rip, server>>

ThreadRef == [id : Workers \cup {None}, joined : BOOLEAN]

Codes == {200, 204, 404, 423, 500, 503}

HttpPlaces   == {"ready", "lookup", "query", "request", "cancelled", "refused"}
WorkerPlaces == {"ended", "created", "download", "prepare", "fetch", "fetched",
                 "armed", "go", "setup", "ripping", "ripped", "finish"}

TypeOK ==
    /\ status \in CDE_STATUS_INITIALIZED .. CDE_STATUS_CANCEL
    /\ drv \in Discs \cup {None, Unopened}
    /\ info = None \/ info \in DiscInfo
    /\ library \in [Discs -> {"absent", "known", "extracted"}]
    /\ media \in Discs \cup {None}
    /\ http \in HttpPlaces
    /\ reply \in Codes
    /\ thread \in ThreadRef
    /\ pc \in [Workers -> WorkerPlaces]
    /\ rip \in [Workers -> Discs \cup {None, Freed}]
    /\ server \in {"up", "crashed"}

Init ==
    /\ status = CDE_STATUS_INITIALIZED
    /\ drv = None
    /\ info = None
    /\ library = [d \in Discs |-> "absent"]
    /\ media = None
    /\ http = "ready"
    /\ reply = 200
    /\ thread = [id |-> None, joined |-> FALSE]
    /\ pc = [t \in Workers |-> "ended"]
    /\ rip = [t \in Workers |-> None]
    /\ server = "up"

----------------------------------------------------------------------------
(* Helpers *)

Reply(code) == reply' = code

Crash == /\ server' = "crashed"
         /\ UNCHANGED <<cde, world, front, pc, rip>>

Goto(t, place) == pc' = [pc EXCEPT ![t] = place]

Opened == drv \in Discs

\* What cde->drv may be after cde_get_drive: an opened drive is kept, any
\* other is looked for again and may be missing, unreadable or opened.
DriveFound == IF Opened THEN {drv}
              ELSE {None, Unopened} \cup ({media} \ {None})

\* cde_close_drive on a non-NULL drive: every paranoia handle on it dangles.
CloseDrv ==
    /\ drv' = None
    /\ status' = CDE_STATUS_INITIALIZED
    /\ rip' = [t \in Workers |-> IF rip[t] \in Discs THEN Freed ELSE rip[t]]

\* cde_prepare_disc_info on an opened drive: the toc is written into the
\* disc_info that exists, or into a new one.
Prepared == IF info = None
              THEN [toc |-> drv, complete |-> FALSE, extracted |-> FALSE]
              ELSE [info EXCEPT !.toc = drv]

\* The other ways in which a disc_info is filled in
Fetched(i, complete) == [i EXCEPT !.complete = complete]
ReadBack(i, complete) ==
    [i EXCEPT !.complete = complete, !.extracted = (library[i.toc] = "extracted")]
Extracted(i) == [i EXCEPT !.extracted = TRUE]

\* The guards of the operations that share the drive.  Each is preceded by a
\* faulty form, which shows that the properties below depend on it.

\* api_get_disc_info looks the disc up only when idle and incomplete.
CompleteInfo == info # None /\ info.complete
NeedsInfoAnyStatus == ~CompleteInfo
NeedsInfo == status = CDE_STATUS_IDLE /\ ~CompleteInfo

\* cde_prepare_disc_info needs a drive with tracks.
PreparableUnchecked == TRUE
Preparable == Opened

\* cde_eject
EjectableWhileBusy == status >= CDE_STATUS_IDLE
Ejectable == status = CDE_STATUS_IDLE

\* cde_cancel_extract, and api_cancel_disc before it
CancellableAnyStatus == TRUE
Cancellable == status \in {CDE_STATUS_PREPARING, CDE_STATUS_EXTRACTING}

\* pthread_join in cde_cancel_extract
JoinDoesNotWait == TRUE
JoinReturns == pc[thread.id] = "ended"

\* store_disc_in_database: an existing row is left alone without overwrite.
Stored(i, overwrite) ==
    IF library[i.toc] # "absent" /\ ~overwrite
      THEN library
      ELSE [library EXCEPT ![i.toc] = IF i.extracted THEN "extracted" ELSE "known"]

----------------------------------------------------------------------------
(* The user and the tray; the kernel locks the door of an opened device *)

UserLoadsDisc ==
    /\ server = "up"
    /\ ~Opened
    /\ \E d \in (Discs \cup {None}) \ {media} : media' = d
    /\ UNCHANGED <<cde, library, front, pc, rip, server>>

----------------------------------------------------------------------------
(* The HTTP thread *)

Ready == /\ server = "up"
         /\ http = "ready"
         /\ PromptStart => \A t \in Workers : pc[t] \notin {"created", "armed", "go"}

OpenDrive ==
    /\ Ready
    /\ \/ /\ status = CDE_STATUS_INITIALIZED
          /\ \E d \in DriveFound :
               /\ drv' = d
               /\ status' = IF d \in Discs THEN CDE_STATUS_IDLE ELSE status
       \/ /\ status # CDE_STATUS_INITIALIZED
          /\ UNCHANGED <<drv, status>>
    /\ Reply(200)
    /\ UNCHANGED <<info, world, http, thread, pc, rip, server>>

CloseDrive ==
    /\ Ready
    /\ \/ /\ status <= CDE_STATUS_IDLE
          /\ drv # None
          /\ CloseDrv
          /\ Reply(204)
       \/ /\ status <= CDE_STATUS_IDLE
          /\ drv = None
          /\ Reply(404)
          /\ UNCHANGED <<drv, status, rip>>
       \/ /\ status > CDE_STATUS_IDLE
          /\ Reply(423)
          /\ UNCHANGED <<drv, status, rip>>
    /\ UNCHANGED <<info, world, http, thread, pc, server>>

\* The tail of api_get_disc_info, which status s reaches: 404 is set, but
\* control falls into get_disc_info_error, which forces IDLE and answers 500.
AnswerGetDisc(s) ==
    IF s >= CDE_STATUS_IDLE /\ info # None
      THEN Reply(200) /\ status' = s
      ELSE Reply(500) /\ status' = CDE_STATUS_IDLE

GetDisc ==
    /\ Ready
    /\ \/ /\ NeedsInfo /\ Preparable
          /\ status' = CDE_STATUS_PREPARING
          /\ info' = Prepared
          /\ http' = "lookup"
          /\ UNCHANGED reply
       \/ /\ NeedsInfo /\ ~Preparable
          /\ AnswerGetDisc(CDE_STATUS_IDLE)
          /\ UNCHANGED <<info, http>>
       \/ /\ ~NeedsInfo
          /\ AnswerGetDisc(status)
          /\ UNCHANGED <<info, http>>
    /\ UNCHANGED <<drv, world, thread, pc, rip, server>>

\* get_disc_from_database_by_toc, and the search for a local cddb entry
LookupDisc ==
    /\ server = "up"
    /\ http = "lookup"
    /\ \/ /\ library[info.toc] # "absent"
          /\ \E c \in BOOLEAN :
               /\ c \/ library[info.toc] = "extracted"
               /\ info' = ReadBack(info, c)
          /\ status' = CDE_STATUS_IDLE
          /\ Reply(200)
          /\ http' = "ready"
       \/ /\ http' = "query"                    \* not found, or not readable
          /\ UNCHANGED <<status, info, reply>>
       \/ /\ status' = CDE_STATUS_IDLE          \* the cddb lookup failed
          /\ Reply(500)
          /\ http' = "ready"
          /\ UNCHANGED info
    /\ UNCHANGED <<drv, world, thread, pc, rip, server>>

\* the cddb, musicbrainz and cover queries and store_disc_in_database
QueryDisc ==
    /\ server = "up"
    /\ http = "query"
    /\ status' = CDE_STATUS_IDLE
    /\ http' = "ready"
    /\ \/ /\ Reply(500)             \* a query or a store failed
          /\ UNCHANGED <<info, library>>
       \/ /\ \E c, overwrite, ok \in BOOLEAN :
               /\ info' = Fetched(info, c)
               /\ library' = IF ok THEN Stored(info', overwrite) ELSE library
          /\ Reply(200)
    /\ UNCHANGED <<drv, media, thread, pc, rip, server>>

\* cde_eject: whether the device obeys or not, disc_info is gone.
EjectDisc ==
    /\ Ready
    /\ \/ /\ ~Ejectable
          /\ Reply(423)
          /\ UNCHANGED <<cde, media, rip>>
       \/ /\ Ejectable
          /\ IF drv # None THEN CloseDrv ELSE UNCHANGED <<drv, status, rip>>
          /\ info' = None
          /\ \/ Reply(204) /\ media' = None
             \/ Reply(503) /\ UNCHANGED media
    /\ UNCHANGED <<library, http, thread, pc, server>>

\* api_extract_disc and cde_extract_audio: the status stays IDLE until the
\* new thread changes it.
ExtractDisc ==
    /\ Ready
    /\ \/ /\ status < CDE_STATUS_IDLE \/ ~Opened
          /\ Reply(404)
          /\ UNCHANGED <<thread, pc>>
       \/ /\ status > CDE_STATUS_IDLE /\ Opened
          /\ Reply(423)
          /\ UNCHANGED <<thread, pc>>
       \/ /\ status = CDE_STATUS_IDLE /\ Opened \* no disc_info, or no folder
          /\ Reply(503)
          /\ UNCHANGED <<thread, pc>>
       \/ /\ status = CDE_STATUS_IDLE /\ Opened
          /\ info # None
          /\ \E t \in Workers :
               /\ pc[t] = "ended"
               /\ Goto(t, "created")
               /\ thread' = [id |-> t, joined |-> FALSE]
          /\ Reply(200)
    /\ UNCHANGED <<cde, world, http, rip, server>>

CancelDisc ==
    /\ Ready
    /\ \/ /\ status < CDE_STATUS_IDLE \/ ~Opened
          /\ Reply(404)
          /\ UNCHANGED http
       \/ /\ status >= CDE_STATUS_IDLE /\ Opened
          /\ ~Cancellable
          /\ Reply(423)
          /\ UNCHANGED http
       \/ /\ Cancellable /\ Opened
          /\ http' = "request"
          /\ UNCHANGED reply
    /\ UNCHANGED <<cde, world, thread, pc, rip, server>>

\* cde_cancel_extract under state_mutex; the thread is joined in any case.
CancelRequest ==
    /\ server = "up"
    /\ http = "request"
    /\ \/ /\ Cancellable
          /\ status' = CDE_STATUS_CANCEL
          /\ http' = "cancelled"
       \/ /\ ~Cancellable
          /\ http' = "refused"
          /\ UNCHANGED status
    /\ UNCHANGED <<drv, info, world, reply, thread, pc, rip, server>>

\* pthread_join returns; joining the same thread twice is undefined.
CancelJoined ==
    /\ server = "up"
    /\ http \in {"cancelled", "refused"}
    /\ JoinReturns
    /\ \/ /\ http' = "ready"
          /\ thread' = [thread EXCEPT !.joined = TRUE]
          /\ Reply(IF http = "cancelled" THEN 204 ELSE 503)
          /\ UNCHANGED <<cde, world, pc, rip, server>>
       \/ thread.joined /\ Crash

Handler == \/ OpenDrive \/ CloseDrive \/ GetDisc \/ EjectDisc
           \/ ExtractDisc \/ CancelDisc

HttpStep == LookupDisc \/ QueryDisc \/ CancelRequest \/ CancelJoined

----------------------------------------------------------------------------
(* An extraction thread: cde_extract_audio_t *)

At(t, place) == server = "up" /\ pc[t] = place

\* The exit of cde_extract_audio_t before file_suffix is set: an
\* uninitialised pointer is freed.
FreeGarbage(t) == Crash \/ (Goto(t, "finish") /\ UNCHANGED <<front, rip, server>>)

WorkerStart(t) ==
    /\ At(t, "created")
    /\ \/ /\ drv # None /\ info # None
          /\ Goto(t, "armed")
          /\ UNCHANGED <<cde, world, front, rip, server>>
       \/ /\ drv = None \/ info = None          \* cde_download_disc_info
          /\ status = CDE_STATUS_IDLE
          /\ status' = CDE_STATUS_PREPARING
          /\ Goto(t, "download")
          /\ UNCHANGED <<drv, info, world, front, rip, server>>
       \/ /\ drv = None \/ info = None
          /\ status # CDE_STATUS_IDLE
          /\ FreeGarbage(t)
          /\ UNCHANGED <<cde, world>>

\* cde_open_drive sets IDLE in the middle of the preparation.
WorkerOpenDrive(t) ==
    /\ At(t, "download")
    /\ \/ /\ drv # None
          /\ Goto(t, "prepare")
          /\ UNCHANGED <<cde, world, front, rip, server>>
       \/ /\ drv = None
          /\ drv' \in DriveFound \cap Discs
          /\ status' = CDE_STATUS_IDLE
          /\ Goto(t, "prepare")
          /\ UNCHANGED <<info, world, front, rip, server>>
       \/ /\ drv = None
          /\ \/ /\ drv' \in DriveFound \ Discs
                /\ status' = CDE_STATUS_IDLE
                /\ Goto(t, "finish")
                /\ UNCHANGED <<info, world, front, rip, server>>
             \/ Crash

WorkerPrepare(t) ==
    /\ At(t, "prepare")
    /\ \/ /\ Preparable
          /\ info' = Prepared
          /\ Goto(t, "fetch")
          /\ UNCHANGED status
       \/ /\ ~Preparable                        \* reported as success
          /\ status' = CDE_STATUS_IDLE
          /\ Goto(t, "armed")
          /\ UNCHANGED info
    /\ UNCHANGED <<drv, world, front, rip, server>>

\* The first cancellation check of cde_download_disc_info ends the thread,
\* by the exit that frees an uninitialised file_suffix.
WorkerFetch(t) ==
    /\ At(t, "fetch")
    /\ \/ /\ status = CDE_STATUS_CANCEL
          /\ status' = CDE_STATUS_IDLE
          /\ Goto(t, "finish")
          /\ UNCHANGED <<drv, info, world, front, rip, server>>
       \/ status = CDE_STATUS_CANCEL /\ Crash
       \/ /\ status # CDE_STATUS_CANCEL
          /\ Goto(t, "fetched")
          /\ UNCHANGED <<cde, world, front, rip, server>>

\* The later checks assign to a shadowed res, so a cancellation stops the
\* queries and the extraction goes on; strcpy into "flac" crashes with wav.
WorkerFetched(t) ==
    /\ At(t, "fetched")
    /\ \/ /\ info # None
          /\ \E c \in BOOLEAN : info' = Fetched(info, c)
          /\ status' = CDE_STATUS_IDLE
          /\ Goto(t, "armed")
          /\ UNCHANGED <<drv, world, front, rip, server>>
       \/ Crash

WorkerCheckCancel(t) ==
    /\ At(t, "armed")
    /\ Goto(t, IF status = CDE_STATUS_CANCEL THEN "finish" ELSE "go")
    /\ UNCHANGED <<cde, world, front, rip, server>>

WorkerGo(t) ==
    /\ At(t, "go")
    /\ status' = CDE_STATUS_EXTRACTING
    /\ Goto(t, "setup")
    /\ UNCHANGED <<drv, info, world, front, rip, server>>

WorkerSetup(t) ==
    /\ At(t, "setup")
    /\ \/ /\ drv = None \/ info = None
          /\ Crash
       \/ /\ drv # None                         \* a data track, no usable toc
          /\ Goto(t, "finish")
          /\ UNCHANGED <<cde, world, front, rip, server>>
       \/ /\ Opened /\ info # None
          /\ rip' = [rip EXCEPT ![t] = drv]
          /\ Goto(t, "ripping")
          /\ UNCHANGED <<cde, world, front, server>>

\* The sector loop, which ExtractAudio models: it stops on a cancellation,
\* on a failure or after the last sector of the last track.
WorkerRipDeaf(t) ==                             \* no check for a cancellation
    /\ At(t, "ripping")
    /\ status # CDE_STATUS_CANCEL
    /\ Goto(t, "finish") \/ Goto(t, "ripped")
    /\ UNCHANGED <<cde, world, front, rip, server>>

WorkerRip(t) ==
    /\ At(t, "ripping")
    /\ \/ /\ drv = None \/ info = None \/ rip[t] = Freed
          /\ Crash
       \/ /\ drv # None /\ info # None
          /\ \/ Goto(t, "finish")
             \/ status # CDE_STATUS_CANCEL /\ Goto(t, "ripped")
          /\ UNCHANGED <<cde, world, front, rip, server>>

\* d_extracted = 1 and the END_OF_DISC callback, which stores the disc
WorkerDone(t) ==
    /\ At(t, "ripped")
    /\ \/ /\ info = None
          /\ Crash
       \/ /\ info # None
          /\ info' = Extracted(info)
          /\ \E ok \in BOOLEAN :
               library' = IF ok THEN Stored(info', TRUE) ELSE library
          /\ Goto(t, "finish")
          /\ UNCHANGED <<status, drv, media, front, rip, server>>

WorkerFinishLocked(t) ==                        \* IDLE not restored
    /\ At(t, "finish")
    /\ rip' = [rip EXCEPT ![t] = None]
    /\ Goto(t, "ended")
    /\ UNCHANGED <<cde, world, front, server>>

WorkerFinish(t) ==
    /\ At(t, "finish")
    /\ status' = CDE_STATUS_IDLE
    /\ rip' = [rip EXCEPT ![t] = None]
    /\ Goto(t, "ended")
    /\ UNCHANGED <<drv, info, world, front, server>>

Worker(t) == \/ WorkerStart(t) \/ WorkerOpenDrive(t) \/ WorkerPrepare(t)
             \/ WorkerFetch(t) \/ WorkerFetched(t) \/ WorkerCheckCancel(t)
             \/ WorkerGo(t) \/ WorkerSetup(t) \/ WorkerRip(t)
             \/ WorkerDone(t) \/ WorkerFinish(t)

----------------------------------------------------------------------------

Next == UserLoadsDisc \/ Handler \/ HttpStep \/ \E t \in Workers : Worker(t)

Spec == Init /\ [][Next]_vars

\* Threads and handlers that have work to do are scheduled, and every call
\* they make returns: network queries time out, and paranoia gives up on a
\* sector after max_retries.  Nobody has to send a request or insert a disc.
Fairness == WF_vars(HttpStep) /\ \A t \in Workers : WF_vars(Worker(t))

FairSpec == Spec /\ Fairness

----------------------------------------------------------------------------
(* Properties *)

Busy == status > CDE_STATUS_IDLE

\* The places from which a thread will still reset the status to IDLE
OwnerPlaces == {"download", "prepare", "fetch", "fetched",
                "setup", "ripping", "ripped", "finish"}

Owned == http \in {"lookup", "query"} \/ \E t \in Workers : pc[t] \in OwnerPlaces

\* Whatever the interleaving of requests and extraction threads, a status
\* that locks the drive (PREPARING, EXTRACTING, CANCEL) has somebody behind
\* it who is still going to reset it: the 423 the handlers answer is never
\* the trace of a thread that is gone.
BusyHasOwner == Busy => Owned

\* The drive is never locked for ever: every PREPARING, EXTRACTING or CANCEL
\* status goes back to IDLE or below, unless the process dies.
NeverLockedForever == Busy ~> (~Busy \/ server = "crashed")

\* DELETE /disc/extract joins the extraction thread inside the one HTTP
\* thread: the join always returns, so the server cannot hang on it.
CancelReturns == (http # "ready") ~> (http = "ready" \/ server = "crashed")

\* Places between the creation of a thread and its exit
Running(t) == pc[t] # "ended"

\* No interleaving makes a thread use a drive or a disc_info that a handler
\* has freed (cde_close_drive and cde_eject free both without a join).
NoCrash == server = "up"

\* A thread that reads the disc holds the lock the handlers look at, reads
\* the drive cde->drv points to, and is the only one.
ExtractionHoldsLock ==
    \A t \in Workers : pc[t] \in {"setup", "ripping", "ripped", "finish"} =>
        /\ status \in {CDE_STATUS_EXTRACTING, CDE_STATUS_CANCEL}
        /\ pc[t] \in {"ripping", "ripped"} => rip[t] = drv
        /\ \A u \in Workers \ {t} : ~Running(u)

\* When DELETE /disc/extract is answered, 204 or 503, no extraction thread is
\* left and the drive is not locked.
CancelLeavesNone == [][CancelJoined => ~Busy /\ \A t \in Workers : ~Running(t)]_vars

\* Two threads never extract at the same time: api_extract_disc checks "for
\* not downloading or extracting data" (api.c:1457) before it starts one.
OneExtraction == \A t, u \in Workers : Running(t) /\ Running(u) => t = u

\* GET /disc answers 200 with "the information of the disc in the cdrom
\* drive" (doc/cdextract_server_api.md:234), not with that of a disc that was
\* in it when the drive was last open.
DiscInfoIsCurrent ==
    [][(GetDisc \/ LookupDisc \/ QueryDisc) /\ reply' = 200 /\ Opened =>
            info'.toc = drv]_vars
=============================================================================
