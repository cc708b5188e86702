----------------------------- MODULE StoreDisc ------------------------------
(***************************************************************************)
(* store_disc_in_database (server/db.c) as the HTTP thread, the extraction *)
(* thread and a job run it at the same time, on the one SQLite connection  *)
(* and the one sql_db that they share.                                     *)
(*                                                                         *)
(* A transaction belongs to the connection and not to a thread: BEGIN in   *)
(* another thread's transaction fails, and statements of one thread become *)
(* part of the transaction of another.  The engine keeps what every thread *)
(* sees (mem) and what has been committed (disk).                          *)
(*                                                                         *)
(* The result of a call is written to db->status, and the test that        *)
(* follows reads the field again, which another thread may have written    *)
(* in between: each call and each test is a step of its own.               *)
(*                                                                         *)
(* One table of names stands for artist, album and genre; each disc has    *)
(* names of its own.  A statement is prepared, stepped and finalized; that *)
(* sqlite3_prepare fails looks like a first step that fails.               *)
(***************************************************************************)
EXTENDS Integers, Sequences, FiniteSets

CONSTANTS
    Threads,       \* the threads that store discs
    Discs,         \* the discs they store
    Tracks,        \* the number of tracks of a disc
    None,          \* no disc
    MaxStores      \* the bound on the stores that begin

ASSUME StoreAssumption == Tracks \in Nat /\ MaxStores \in Nat /\ None \notin Discs

VARIABLES
    mem, disk,     \* the tables as seen and as committed: the names, the discs
                   \* by their row number, the tracks by disc row and number
    tx,            \* whether the connection is in a transaction
    active,        \* threads whose INSERT has returned its row and not ended
    status,        \* db->status
    pc, disc, id, num,   \* a thread's place, arguments and variables
    row,           \* the row that a thread's statement has at hand, or 0
    stores,        \* how many stores have begun
    got,           \* history: what the last call of a thread has returned
    astray,        \* history: the accidents since nothing was under way
    reported       \* history: the discs for which a store has returned DB_OK
                   \* when no accident had happened

engine == <<mem, disk, tx, active>>
vars   == <<mem, disk, tx, active, status, pc, disc, id, num, row, stores, got, astray, reported>>

Tables  == [names : SUBSET Discs, disc : Seq(Discs), track : SUBSET (Nat \X (1 .. Tracks))]
Results == {"OK", "ROW", "DONE", "ERROR"}

\* What can go wrong for longer than one call: a test read another thread's
\* result and hid a failure, or left a transaction open; a COMMIT failed; a
\* ROLLBACK met other threads in their stores.
Accidents == {"hidden", "left", "commit", "rollback"}

Outside == {"idle", "look", "name", "named", "found", "ended", "begin", "begun"}
Inside  == {"insert", "row", "update", "updated", "seek", "sought", "added"}

TypeOK ==
    /\ mem \in Tables /\ disk \in Tables
    /\ tx \in {"none", "open"} /\ active \subseteq Threads
    /\ status \in Results /\ got \in [Threads -> Results]
    /\ pc \in [Threads -> Outside \cup Inside]
    /\ disc \in [Threads -> Discs \cup {None}]
    /\ id \in [Threads -> Nat \cup {-1}] /\ row \in [Threads -> Nat]
    /\ num \in [Threads -> 1 .. Tracks + 1]
    /\ astray \subseteq Accidents
    /\ reported \subseteq Discs /\ stores \in 0 .. MaxStores

Init ==
    /\ mem = [names |-> {}, disc |-> <<>>, track |-> {}] /\ disk = mem
    /\ tx = "none" /\ active = {}
    /\ status = "OK" /\ got = [t \in Threads |-> "OK"]
    /\ pc = [t \in Threads |-> "idle"]
    /\ disc = [t \in Threads |-> None]
    /\ id = [t \in Threads |-> -1] /\ row = [t \in Threads |-> 0]
    /\ num = [t \in Threads |-> 1]
    /\ astray = {} /\ reported = {} /\ stores = 0

----------------------------------------------------------------------------
(* SQLite *)

\* A statement changes the tables to new, and the INSERTs that have not ended
\* to those of act.  Outside a transaction, the last to end commits.
Write(new, act) ==
    /\ mem' = new /\ active' = act
    /\ disk' = IF tx = "none" /\ act = {} THEN new ELSE disk
    /\ UNCHANGED tx

\* A statement that is at its end, or finalized, is not under way any more.
Finish(t) == Write(mem, active \ {t})

\* The row number of a disc, 0 when it is not stored
Row(d) == IF \E i \in DOMAIN mem.disc : mem.disc[i] = d
            THEN CHOOSE i \in DOMAIN mem.disc : mem.disc[i] = d
            ELSE 0

----------------------------------------------------------------------------
(* Calls and tests *)

\* db->status is set with the result of a call; what it leaves at hand is n.
Found(t, r, n) == /\ status' = r /\ got' = [got EXCEPT ![t] = r]
                  /\ row' = [row EXCEPT ![t] = n]
Returned(t, r) == Found(t, r, 0)

\* The test of thread t reads r: it is an accident when its own call returned
\* something else and the store goes on.
Reads(t, r) ==
    /\ status = r
    /\ astray' = IF got[t] = r THEN astray ELSE astray \cup {"hidden"}

Goto(t, p) == pc' = [pc EXCEPT ![t] = p]

\* A store returns, and its variables are gone.  Accidents are over when no
\* store and no transaction is under way.
AtRest(t) == tx' = "none" /\ \A u \in Threads \ {t} : pc[u] = "idle"
Return(t, more) ==
    /\ Goto(t, "idle")
    /\ disc' = [disc EXCEPT ![t] = None]
    /\ id' = [id EXCEPT ![t] = -1] /\ num' = [num EXCEPT ![t] = 1]
    /\ row' = [row EXCEPT ![t] = 0] /\ got' = [got EXCEPT ![t] = "OK"]
    /\ astray' = IF AtRest(t) THEN {} ELSE astray \cup more

----------------------------------------------------------------------------
(* get_disc_id, and the early return for a disc that is stored *)

\* A step of the SELECT: its row, or its end
SelectDisc(t, d) ==
    \/ Row(d) # 0 /\ Found(t, "ROW", Row(d))
    \/ Row(d) = 0 /\ Returned(t, "DONE")
    \/ Returned(t, "ERROR")

Call(t) ==
    /\ pc[t] = "idle"
    /\ stores < MaxStores /\ stores' = stores + 1
    /\ \E d \in Discs :
         /\ disc' = [disc EXCEPT ![t] = d]
         /\ SelectDisc(t, d)
    /\ Goto(t, "look")
    /\ UNCHANGED <<engine, id, num, astray, reported>>

\* After a row the SELECT ends, or fails, which is tested alike; one that had
\* ended already starts anew.
LookRow(t) ==
    /\ pc[t] = "look" /\ Reads(t, "ROW")
    /\ id' = [id EXCEPT ![t] = row[t]]
    /\ \/ got[t] = "ROW" /\ Returned(t, "DONE")
       \/ got[t] # "ROW" /\ SelectDisc(t, disc[t])
    /\ UNCHANGED <<engine, pc, disc, num, reported, stores>>

LookEnd(t) ==
    /\ pc[t] = "look" /\ status # "ROW"
    /\ status' = "OK" /\ UNCHANGED <<engine, reported, stores>>
    /\ \/ id[t] # -1 /\ Return(t, {})             \* stored, and not to update
       \/ Goto(t, "name") /\ Returned(t, "OK") /\ UNCHANGED <<disc, id, num, astray>>

----------------------------------------------------------------------------
(* get_artist_id and its like *)

\* INSERT ... ON CONFLICT DO NOTHING RETURNING gives the row of a new name at
\* its first step, and ends at the second.
InsertName(t) ==
    \/ /\ disc[t] \notin mem.names
       /\ Write([mem EXCEPT !.names = @ \cup {disc[t]}], active \cup {t})
       /\ Returned(t, "ROW")
    \/ disc[t] \in mem.names /\ Returned(t, "DONE") /\ UNCHANGED engine
    \/ Returned(t, "ERROR") /\ UNCHANGED engine

SelectName(t) ==
    \/ Returned(t, IF disc[t] \in mem.names THEN "ROW" ELSE "DONE")
    \/ Returned(t, "ERROR")

GetName(t) ==
    /\ pc[t] = "name"
    /\ InsertName(t) /\ Goto(t, "named")
    /\ UNCHANGED <<disc, id, num, astray, reported, stores>>

\* No row: the name is looked up.
NameDone(t) ==
    /\ pc[t] = "named" /\ status = "DONE"
    /\ Finish(t) /\ SelectName(t)
    /\ Goto(t, "found")
    /\ UNCHANGED <<disc, id, num, astray, reported, stores>>

\* The row's number is kept, and the statement stepped on; one that had ended
\* already, the INSERT or the SELECT, starts anew.
NameRow(t) ==
    /\ pc[t] \in {"named", "found", "ended"} /\ Reads(t, "ROW")
    /\ \/ Finish(t) /\ Returned(t, "DONE")
       \/ got[t] # "ROW" /\ pc[t] # "found" /\ InsertName(t)
       \/ got[t] # "ROW" /\ pc[t] # "named" /\ SelectName(t) /\ UNCHANGED engine
    /\ Goto(t, "ended")
    /\ UNCHANGED <<disc, id, num, reported, stores>>

\* That there is no id is not tested.
NameEndUnchecked(t) ==
    /\ pc[t] \in {"found", "ended"} /\ status # "ROW"
    /\ Finish(t) /\ Returned(t, "OK")
    /\ Goto(t, "begin")
    /\ UNCHANGED <<disc, id, num, astray, reported, stores>>

NameEnd(t) ==
    /\ pc[t] = "ended" /\ status # "ROW"
    /\ Finish(t) /\ Returned(t, "OK")
    /\ Goto(t, "begin")
    /\ UNCHANGED <<disc, id, num, astray, reported, stores>>

\* An empty name, or one that was neither inserted nor found, has no id.
NameFailed(t) ==
    /\ \/ pc[t] = "name"
       \/ pc[t] = "named" /\ status \notin {"ROW", "DONE"}
       \/ pc[t] = "found" /\ status # "ROW"
    /\ Finish(t) /\ Return(t, {})
    /\ UNCHANGED <<status, reported, stores>>

----------------------------------------------------------------------------
(* The transaction *)

Begin(t) ==
    /\ pc[t] = "begin"
    /\ tx' = "open"
    /\ Returned(t, IF tx = "open" THEN "ERROR" ELSE "OK")
    /\ Goto(t, "begun")
    /\ UNCHANGED <<mem, disk, active, disc, id, num, astray, reported, stores>>

\* The result of BEGIN is not tested.
BegunUnchecked(t) ==
    /\ pc[t] = "begun"
    /\ Goto(t, IF id[t] = -1 THEN "insert" ELSE "update")
    /\ UNCHANGED <<engine, status, got, row, disc, id, num, astray, reported, stores>>

Begun(t) ==
    /\ pc[t] = "begun" /\ Reads(t, "OK")
    /\ Goto(t, IF id[t] = -1 THEN "insert" ELSE "update")
    /\ UNCHANGED <<engine, status, got, row, disc, id, num, reported, stores>>

\* The store returns without a ROLLBACK, its own BEGIN successful or not.
BeginFailed(t) ==
    /\ pc[t] = "begun" /\ status # "OK"
    /\ UNCHANGED <<engine, status, reported, stores>>
    /\ Return(t, IF got[t] = "OK" THEN {"left"} ELSE {})

\* The wrong statement
RollbackCommits(t) ==
    /\ mem' = mem /\ disk' = mem /\ tx' = "none" /\ active' = active \ {t}

\* ROLLBACK takes back what any thread has written since the last commit.
Rollback(t) ==
    /\ tx' = "none" /\ active' = active \ {t}
    /\ IF tx = "open"
         THEN mem' = disk /\ disk' = disk
         ELSE mem' = mem /\ disk' = IF active' = {} THEN mem ELSE disk

GiveUp(t) ==
    /\ Rollback(t)
    /\ Return(t, IF \E u \in Threads \ {t} : pc[u] # "idle" THEN {"rollback"} ELSE {})
    /\ UNCHANGED <<status, reported, stores>>

\* A cover without an id
CoverFailed(t) == pc[t] = "insert" /\ GiveUp(t)

\* The INSERT does nothing when another thread has stored the disc meanwhile.
\* Any statement may fail, and is then without effect.
InsertRow(t) ==
    \/ /\ Row(disc[t]) = 0
       /\ Write([mem EXCEPT !.disc = Append(@, disc[t])], active \cup {t})
       /\ Found(t, "ROW", Len(mem.disc) + 1)
    \/ Row(disc[t]) # 0 /\ Returned(t, "DONE") /\ UNCHANGED engine
    \/ Returned(t, "ERROR") /\ UNCHANGED engine

InsertDisc(t) ==
    /\ pc[t] = "insert"
    /\ InsertRow(t) /\ Goto(t, "row")
    /\ UNCHANGED <<disc, id, num, astray, reported, stores>>

DiscRow(t) ==
    /\ pc[t] = "row" /\ Reads(t, "ROW")
    /\ id' = [id EXCEPT ![t] = row[t]]
    /\ \/ Finish(t) /\ \E r \in {"DONE", "ERROR"} : Returned(t, r)
       \/ got[t] # "ROW" /\ InsertRow(t)
    /\ UNCHANGED <<pc, disc, num, reported, stores>>

DiscDone(t) ==
    /\ pc[t] = "row" /\ id[t] # -1 /\ Reads(t, "DONE")
    /\ Finish(t) /\ Returned(t, "OK")
    /\ Goto(t, "seek")
    /\ UNCHANGED <<disc, id, num, reported, stores>>

UpdateDisc(t) ==
    /\ pc[t] = "update"
    /\ \E r \in {"DONE", "ERROR"} : Returned(t, r)
    /\ Goto(t, "updated")
    /\ UNCHANGED <<engine, disc, id, num, astray, reported, stores>>

DiscUpdated(t) ==
    /\ pc[t] = "updated" /\ Reads(t, "DONE")
    /\ Returned(t, "OK") /\ Goto(t, "seek")
    /\ UNCHANGED <<engine, disc, id, num, reported, stores>>

DiscFailed(t) ==
    /\ \/ pc[t] = "row" /\ status # "ROW" /\ (status = "DONE" => id[t] = -1)
       \/ pc[t] = "updated" /\ status # "DONE"
    /\ GiveUp(t)

----------------------------------------------------------------------------
(* The tracks *)

TracksLeftShort(t)  == num[t] < Tracks          \* the last track is left out
TracksLeftTooFar(t) == num[t] <= Tracks + 1     \* a track too many
TracksLeft(t)       == num[t] <= Tracks

\* get_track_id
SeekTrack(t) ==
    /\ pc[t] = "seek" /\ TracksLeft(t)
    /\ \/ Returned(t, IF <<id[t], num[t]>> \in mem.track THEN "ROW" ELSE "DONE")
       \/ Returned(t, "ERROR")
    /\ Goto(t, "sought")
    /\ UNCHANGED <<engine, disc, id, num, astray, reported, stores>>

\* A track that is there is left, or updated, which may fail.
TrackThere(t) ==
    /\ pc[t] = "sought" /\ Reads(t, "ROW")
    /\ \/ /\ num' = [num EXCEPT ![t] = @ + 1]
          /\ Returned(t, "OK") /\ Goto(t, "seek")
       \/ /\ \E r \in {"DONE", "ERROR"} : Returned(t, r)
          /\ Goto(t, "added") /\ UNCHANGED num
    /\ UNCHANGED <<engine, disc, id, reported, stores>>

AddTrack(t) ==
    /\ pc[t] = "sought" /\ status # "ROW"
    /\ \/ /\ Write([mem EXCEPT !.track = @ \cup {<<id[t], num[t]>>}], active)
          /\ Returned(t, "DONE")
       \/ Returned(t, "ERROR") /\ UNCHANGED engine
    /\ Goto(t, "added")
    /\ UNCHANGED <<disc, id, num, astray, reported, stores>>

TrackAdded(t) ==
    /\ pc[t] = "added" /\ Reads(t, "DONE")
    /\ num' = [num EXCEPT ![t] = @ + 1]
    /\ Returned(t, "OK") /\ Goto(t, "seek")
    /\ UNCHANGED <<engine, disc, id, reported, stores>>

TrackFailed(t) == pc[t] = "added" /\ status # "DONE" /\ GiveUp(t)

\* COMMIT fails while an INSERT of another thread has not ended, and without
\* a transaction.  Its result is not tested.
CanCommit == tx = "open" /\ active = {}

CommitForgotten == UNCHANGED engine
DoCommit ==
    IF CanCommit
      THEN disk' = mem /\ tx' = "none" /\ UNCHANGED <<mem, active>>
      ELSE UNCHANGED engine

Commit(t) ==
    /\ pc[t] = "seek" /\ ~TracksLeft(t)
    /\ DoCommit
    /\ status' = IF CanCommit THEN "OK" ELSE "ERROR"
    /\ Return(t, IF CanCommit THEN {} ELSE {"commit"})
    /\ reported' = IF astray = {} /\ CanCommit THEN reported \cup {disc[t]} ELSE reported
    /\ UNCHANGED stores

----------------------------------------------------------------------------

\* Everything else the server asks of the database sets db->status too.
Elsewhere(t) ==
    /\ pc[t] = "idle"
    /\ status' \in Results \ {status}
    /\ UNCHANGED <<engine, pc, disc, id, num, row, got, astray, reported, stores>>

Next == \E t \in Threads :
    \/ Elsewhere(t)
    \/ Call(t) \/ LookRow(t) \/ LookEnd(t)
    \/ GetName(t) \/ NameDone(t) \/ NameRow(t) \/ NameEnd(t) \/ NameFailed(t)
    \/ Begin(t) \/ Begun(t) \/ BeginFailed(t) \/ CoverFailed(t)
    \/ InsertDisc(t) \/ DiscRow(t) \/ DiscDone(t)
    \/ UpdateDisc(t) \/ DiscUpdated(t) \/ DiscFailed(t)
    \/ SeekTrack(t) \/ TrackThere(t) \/ AddTrack(t)
    \/ TrackAdded(t) \/ TrackFailed(t) \/ Commit(t)

Spec == Init /\ [][Next]_vars

----------------------------------------------------------------------------
(* Properties *)

Holds(t) == pc[t] \in Inside \/ (pc[t] = "begun" /\ got[t] = "OK")

\* BEGIN works as a lock as long as no test has hidden a failure: no two threads
\* are between a BEGIN that succeeded and its end; and a transaction that nobody
\* will end comes of an accident only, a COMMIT that failed or a BEGIN that was
\* taken for failed.
OneTransaction ==
    "hidden" \notin astray =>
      /\ \A t, u \in Threads : Holds(t) /\ Holds(u) => t = u
      /\ (\E t \in Threads : Holds(t)) => tx = "open"
      /\ tx = "open" => astray # {} \/ \E t \in Threads : Holds(t)

Stored(d) == \E i \in DOMAIN disk.disc : disk.disc[i] = d
Whole(i)  == \A n \in 1 .. Tracks : <<i, n>> \in disk.track

\* Whatever is interrupted, rolled back or taken for failed, a disc comes to the
\* database with all its tracks, as long as no failure is hidden from a store
\* that is under way; and what is committed stays.
DiscIsWhole ==
    [][ /\ \A i \in DOMAIN disk.disc :
             disk'.disc[i] = disk.disc[i] /\ (Whole(i) => Whole(i)')
        /\ "hidden" \notin astray =>
             \A i \in DOMAIN disk'.disc \ DOMAIN disk.disc : Whole(i)' ]_vars

\* A store that returns DB_OK when no accident has happened has its disc in the
\* database, with all its tracks, also the ones that a torn disc had lacked; and
\* no later accident takes them away.
ReportedIsStored ==
    \A d \in reported : \E i \in DOMAIN disk.disc : disk.disc[i] = d /\ Whole(i)

\* Such a disc's artist, album and genre are there as well.
NamesExist == reported \subseteq disk.names

\* Stores look atomic (AtomicStore).
Rows(tables) ==
    [i \in DOMAIN tables.disc |->
        [disc |-> tables.disc[i], tracks |-> {n \in 1 .. Tracks : <<i, n>> \in tables.track}]]

Atomic == INSTANCE AtomicStore WITH library <- Rows(disk), sound <- astray = {}

ImplementsAtomicStore == Atomic!Spec
=============================================================================
