---------------------------- MODULE DbJobsProofs ----------------------------
(***************************************************************************)
(* Proofs about DbJobs, for any number of job threads and discs.           *)
(***************************************************************************)
EXTENDS DbJobs, TLAPS, FiniteSetTheorems, SequenceTheorems

\* The part of TypeOK that the mode and the threads need
JobTypes ==
    /\ mode \in Modes
    /\ kind \in [Threads -> Kinds \cup {None}]
    /\ pc \in [Threads -> Places]

\* A running thread has a kind, and only a backup runs the VACUUM: a failed
\* backup leaves its own mode behind, never that of a rescan or a rebuild.
SlotInUse ==
    \A t \in Threads : /\ pc[t] # "ended" => kind[t] \in Kinds
                       /\ pc[t] = "vacuum" => kind[t] = "backup"

JobInv == JobTypes /\ SlotInUse /\ BusyModeHasJob

LEMMA InitJobInv == Init => JobInv
  BY DEF Init, JobInv, JobTypes, SlotInUse, BusyModeHasJob, Modes, Kinds, Places

LEMMA NextJobInv == JobInv /\ [Next]_vars => JobInv'
<1> SUFFICES ASSUME JobInv, [Next]_vars
             PROVE  JobInv'
  OBVIOUS
<1> USE DEF JobInv, JobTypes, SlotInUse, BusyModeHasJob, Owner, OwnerPlaces,
        Goto, Running, At, Modes, Kinds, Places, history
<1>1. ASSUME UNCHANGED <<mode, kind, pc>>, failed \subseteq failed'
      PROVE  JobInv'
  BY <1>1
<1>2. CASE \E k \in Kinds : StartJob(k)
  BY <1>2 DEF StartJob
<1>3. CASE StoreDisc
  BY <1>1, <1>3 DEF StoreDisc
<1>4. ASSUME NEW t \in Threads, Job(t)
      PROVE  JobInv'
  <2>1. CASE JobCheck(t)
    BY <2>1 DEF JobCheck, Exit
  <2>2. CASE JobClaim(t)
    BY <2>2 DEF JobClaim
  <2>3. CASE RebuildPre(t)
    BY <2>3 DEF RebuildPre, Fail
  <2>4. CASE RebuildCddb(t)
    BY <2>4 DEF RebuildCddb
  <2>5. CASE RebuildPost(t)
    BY <2>5 DEF RebuildPost, Fail
  <2>6. CASE JobPurge(t)
    BY <2>6 DEF JobPurge
  <2>7. CASE PurgeTracks(t)
    BY <2>7 DEF PurgeTracks, PurgeFailed, Fail
  <2>8. CASE PurgeDiscs(t)
    BY <2>8 DEF PurgeDiscs, PurgeFailed, Fail
  <2>9. CASE PurgeArtists(t)
    BY <2>9 DEF PurgeArtists, PurgeFailed, Fail
  <2>10. CASE ScanFolder(t)
    <3>1. failed \subseteq failed'
      BY <2>10, Zenon DEF ScanFolder, Fail
    <3>2. UNCHANGED <<mode, kind, pc>>
      BY <2>10 DEF ScanFolder
    <3> QED
      BY <1>1, <3>1, <3>2
  <2>11. CASE ScanDone(t)
    BY <2>11 DEF ScanDone, Fail
  <2>12. CASE Backup(t)
    <3>1. CASE Goto(t, "finish") /\ UNCHANGED <<mode, kind, failed>>
      BY <2>12, <3>1 DEF Backup
    <3>2. CASE Exit(t) /\ "backup" \in failed' /\ UNCHANGED mode
      BY <2>12, <3>2 DEF Backup, Exit
    <3> QED
      BY <2>12, <3>1, <3>2, Zenon DEF Backup, Fail
  <2>13. CASE JobFinish(t)
    BY <2>13 DEF JobFinish, Exit
  <2> QED
    BY <1>4, <2>1, <2>2, <2>3, <2>4, <2>5, <2>6, <2>7, <2>8, <2>9, <2>10,
       <2>11, <2>12, <2>13 DEF Job
<1>5. CASE UNCHANGED vars
  BY <1>1, <1>5 DEF vars
<1> QED
  BY <1>2, <1>3, <1>4, <1>5 DEF Next

\* Whatever jobs overlap, RESCAN, REBUILD and BACKUP have a thread of that
\* kind behind them that will set the mode back; a backup that has failed leaves
\* its mode behind.
THEOREM BusyModeAlwaysHasJob == Spec => []BusyModeHasJob
<1>1. JobInv => BusyModeHasJob
  BY DEF JobInv
<1> QED
  BY <1>1, InitJobInv, NextJobInv, PTL DEF Spec

LEMMA NextIndexIsBack ==
  JobTypes /\ IndexIsBack /\ [Next]_vars => IndexIsBack'
<1> SUFFICES ASSUME JobTypes, IndexIsBack, [Next]_vars
             PROVE  IndexIsBack'
  OBVIOUS
<1> DEFINE Between == {t \in Threads : pc[t] \in {"cddb", "post"}}
<1>0. pc \in [Threads -> Places]
  BY DEF JobTypes
<1> USE DEF Goto, At, schema, history
<1>1. ASSUME Between \subseteq Between', index => index', failed \subseteq failed'
      PROVE  IndexIsBack'
  BY <1>1, Zenon DEF IndexIsBack
<1>2. ASSUME index' \/ "index" \in failed' \/ \E t \in Threads : pc'[t] = "cddb"
      PROVE  IndexIsBack'
  BY <1>2, Zenon DEF IndexIsBack
<1>3. CASE \E k \in Kinds : StartJob(k)
  <2>1. Between \subseteq Between'
    BY <1>0, <1>3 DEF StartJob, Running
  <2>2. UNCHANGED <<index, failed>>
    BY <1>3 DEF StartJob
  <2> QED
    BY <1>1, <2>1, <2>2
<1>4. CASE StoreDisc
  BY <1>1, <1>4 DEF StoreDisc
<1>5. ASSUME NEW t \in Threads, Job(t)
      PROVE  IndexIsBack'
  <2>1. CASE RebuildPre(t)
    <3>1. "index" \in failed' \/ pc'[t] = "cddb"
      BY <1>0, <2>1 DEF RebuildPre, Fail
    <3> QED
      BY <1>2, <3>1
  <2>2. CASE RebuildPost(t)
    <3>1. "index" \in failed' \/ index'
      BY <2>2, Zenon DEF RebuildPost, IndexRestored, Fail
    <3> QED
      BY <1>2, <3>1
  <2>3. CASE ~RebuildPre(t) /\ ~RebuildPost(t)
    <3>1. Between \subseteq Between'
      BY <1>0, <1>5, <2>3 DEF Job, JobCheck, JobClaim, RebuildCddb, JobPurge,
         PurgeTracks, PurgeDiscs, PurgeArtists, PurgeFailed, ScanFolder,
         ScanDone, Backup, JobFinish, Exit
    <3>2. UNCHANGED index
      BY <1>5, <2>3, Zenon DEF Job, JobCheck, JobClaim, RebuildCddb, JobPurge,
         PurgeTracks, PurgeDiscs, PurgeArtists, ScanFolder, ScanDone, Backup,
         JobFinish
    <3>3. failed \subseteq failed'
      BY <1>5, <2>3, Zenon DEF Job, JobCheck, JobClaim, RebuildCddb, JobPurge,
         PurgeTracks, PurgeDiscs, PurgeArtists, ScanFolder, ScanDone, Backup,
         JobFinish, Fail
    <3> QED
      BY <1>1, <3>1, <3>2, <3>3
  <2> QED
    BY <2>1, <2>2, <2>3
<1>6. CASE UNCHANGED vars
  BY <1>1, <1>6 DEF vars
<1> QED
  BY <1>3, <1>4, <1>5, <1>6 DEF Next

\* Unless a rebuild fails, the cddb indexes it has dropped are there again
\* once no rebuild is between its two halves, however many overlap.
THEOREM IndexAlwaysIsBack == Spec => []IndexIsBack
<1>1. Init => IndexIsBack
  BY DEF Init, IndexIsBack
<1>2. JobInv => JobTypes
  BY DEF JobInv
<1> QED
  BY <1>1, <1>2, InitJobInv, NextJobInv, NextIndexIsBack, PTL DEF Spec

----------------------------------------------------------------------------
(* The tables *)

\* No disc has two rows.
DiscOnce == \A i, j \in DOMAIN disc : disc[i] = disc[j] => i = j

TableTypes ==
    /\ disc \in Seq(Discs) /\ DOMAIN disc \subseteq Rows
    /\ track \in [Rows -> Discs \cup {None}]
    /\ artist \subseteq Discs

TableInv == TableTypes /\ DiscOnce

\* A disc that has no row yet finds room for one.
LEMMA RoomForDisc ==
  ASSUME TableInv, NEW d \in Discs, ~IsStored(d)
  PROVE  Len(disc) + 1 \in Rows
<1> DEFINE n == Len(disc)
           f == [i \in 1 .. n |-> disc[i]]
<1>1. n \in Nat /\ DOMAIN disc = 1 .. n /\ \A i \in 1 .. n : disc[i] \in Discs
  BY LenProperties, ElementOfSeq DEF TableInv, TableTypes
<1>2. f \in Injection(1 .. n, Discs)
  BY <1>1 DEF TableInv, DiscOnce, Injection, IsInjective
<1>3. f \notin Surjection(1 .. n, Discs)
  BY <1>1 DEF Surjection, IsStored
<1>4. Cardinality(1 .. n) = n
  <2>1. 1 \in Int /\ n \in Int
    BY <1>1
  <2>2. Cardinality(1 .. n) = IF 1 > n THEN 0 ELSE n - 1 + 1
    BY <2>1, FS_Interval, Zenon
  <2> QED
    BY <1>1, <2>2
<1>5. Cardinality(Discs) \in Nat
  BY DiscsAssumption, FS_CardinalityType
<1> HIDE DEF f, n
<1>6. n <= Cardinality(Discs) /\ n # Cardinality(Discs)
  BY <1>2, <1>3, <1>4, DiscsAssumption, FS_Injection
<1> QED
  BY <1>1, <1>5, <1>6 DEF Rows, n

LEMMA RowOfDisc ==
  ASSUME TableInv, NEW d \in Discs
  PROVE  /\ RowOf(d) \in Rows
         /\ IsStored(d) => RowOf(d) \in DOMAIN disc /\ disc[RowOf(d)] = d
         /\ ~IsStored(d) => RowOf(d) = Len(disc) + 1
<1>1. CASE IsStored(d)
  BY <1>1 DEF RowOf, IsStored, TableInv, TableTypes
<1>2. CASE ~IsStored(d)
  BY <1>2, RoomForDisc DEF RowOf
<1> QED
  BY <1>1, <1>2

\* No track rows wait for a disc row that is not there yet.
NoOrphans == \A i \in Rows \ DOMAIN disc : track[i] = None

\* A store adds the disc at most, with its own tracks and its artist, as long
\* as no track rows of another have been left behind.
LEMMA StoreAddsDisc ==
  ASSUME TableInv, NEW d \in Discs, NEW update \in BOOLEAN, Store(d, update)
  PROVE  /\ TableInv'
         /\ \A e : IsStored(e) => IsStored(e)'
         /\ IsStored(d)'
         /\ Consistent /\ NoOrphans => Consistent' /\ NoOrphans'
<1> DEFINE i == RowOf(d)
<1>t. /\ disc \in Seq(Discs) /\ DOMAIN disc \subseteq Rows /\ DiscOnce
      /\ track \in [Rows -> Discs \cup {None}] /\ artist \subseteq Discs
  BY DEF TableInv, TableTypes
<1>1. CASE UNCHANGED tables /\ IsStored(d)
  BY <1>1 DEF tables, TableInv, TableTypes, DiscOnce, IsStored, Consistent, NoOrphans
<1>2. CASE /\ disc' = IF IsStored(d) THEN disc ELSE Append(disc, d)
           /\ track' = IF track[i] = None \/ update
                         THEN [track EXCEPT ![i] = d] ELSE track
           /\ artist' = artist \cup {d}
           /\ IsStored(d) => update
  <2>1. /\ i \in Rows
        /\ IsStored(d) => i \in DOMAIN disc /\ disc[i] = d
        /\ ~IsStored(d) => i = Len(disc) + 1
    BY RowOfDisc
  <2> HIDE DEF i
  <2>2. track' \in [Rows -> Discs \cup {None}] /\ artist' \subseteq Discs
    BY <1>t, <1>2, <2>1
  <2>3. /\ disc' \in Seq(Discs) /\ DOMAIN disc' = DOMAIN disc \cup {i}
        /\ disc'[i] = d /\ \A j \in DOMAIN disc : disc'[j] = disc[j]
    <3>1. CASE IsStored(d)
      BY <1>t, <1>2, <2>1, <3>1
    <3>2. CASE ~IsStored(d)
      <4>1. Len(disc) \in Nat /\ DOMAIN disc = 1 .. Len(disc)
        BY <1>t, LenProperties
      <4>2. disc' = Append(disc, d) /\ i = Len(disc) + 1
        BY <1>2, <2>1, <3>2
      <4> QED
        BY <1>t, <4>1, <4>2, AppendProperties
    <3> QED
      BY <3>1, <3>2
  <2>4. \A j \in DOMAIN disc : disc[j] = d => j = i
    BY <1>t, <2>1 DEF IsStored, DiscOnce
  <2>5. DiscOnce'
    BY <1>t, <2>3, <2>4 DEF DiscOnce
  <2>6. TableInv'
    BY <1>t, <2>1, <2>2, <2>3, <2>5 DEF TableInv, TableTypes
  <2>7. (\A e : IsStored(e) => IsStored(e)') /\ IsStored(d)'
    BY <2>3 DEF IsStored
  <2>8. ASSUME Consistent, NoOrphans PROVE Consistent' /\ NoOrphans'
    <3>1. track'[i] = d
      <4>1. CASE IsStored(d)
        BY <1>t, <1>2, <2>1, <4>1
      <4>2. CASE ~IsStored(d)
        <5>1. i \notin DOMAIN disc
          BY <1>t, <2>1, <4>2, LenProperties
        <5> QED
          BY <1>t, <1>2, <2>1, <2>8, <5>1 DEF NoOrphans
      <4> QED
        BY <4>1, <4>2
    <3>2. \A j \in Rows \ {i} : track'[j] = track[j]
      BY <1>t, <1>2, <2>1
    <3> QED
      BY <1>t, <1>2, <2>1, <2>3, <2>8, <3>1, <3>2 DEF Consistent, NoOrphans
  <2> QED
    BY <2>6, <2>7, <2>8
<1> QED
  BY <1>1, <1>2 DEF Store, IsStored

\* What any step may do to the tables: a purge empties one of them, anything
\* else stores a disc at most.
TablesStep ==
    \/ UNCHANGED tables
    \/ \E d \in Discs, update \in BOOLEAN : Store(d, update)
    \/ track' = TracksDeleted /\ UNCHANGED <<disc, artist>>
    \/ disc' = << >> /\ track' = TracksAfterDiscs /\ UNCHANGED artist
    \/ artist' = {} /\ UNCHANGED <<disc, track>>

LEMMA NextTables ==
  ASSUME TypeOK, [Next]_vars
  PROVE  TablesStep
<1>1. CASE StoreDisc
  BY <1>1 DEF StoreDisc, TablesStep
<1>2. ASSUME NEW t \in Threads, Job(t) PROVE TablesStep
  <2>1. CASE ScanFolder(t)
    <3>1. PICK d \in todo[t] : Store(d, FALSE) \/ UNCHANGED tables
      BY <2>1 DEF ScanFolder
    <3>2. d \in Discs
      BY <3>1 DEF TypeOK
    <3> QED
      BY <3>1, <3>2 DEF TablesStep
  <2>2. CASE PurgeTracks(t) \/ PurgeDiscs(t) \/ PurgeArtists(t)
    BY <2>2 DEF PurgeTracks, PurgeDiscs, PurgeArtists, tables, TablesStep
  <2>3. CASE ~ScanFolder(t) /\ ~PurgeTracks(t) /\ ~PurgeDiscs(t) /\ ~PurgeArtists(t)
    BY <1>2, <2>3 DEF Job, JobCheck, JobClaim, RebuildPre, RebuildCddb,
       RebuildPost, JobPurge, ScanDone, Backup, JobFinish, TablesStep
  <2> QED
    BY <2>1, <2>2, <2>3
<1>3. CASE UNCHANGED vars \/ \E k \in Kinds : StartJob(k)
  BY <1>3 DEF vars, tables, StartJob, TablesStep
<1> QED
  BY <1>1, <1>2, <1>3 DEF Next

LEMMA TablesStepInv ==
  ASSUME TableInv, TablesStep
  PROVE  TableInv'
<1>1. CASE \E d \in Discs, update \in BOOLEAN : Store(d, update)
  BY <1>1, StoreAddsDisc
<1>2. CASE UNCHANGED tables
  BY <1>2 DEF tables, TableInv, TableTypes, DiscOnce
<1>3. CASE track' = TracksDeleted /\ UNCHANGED <<disc, artist>>
  BY <1>3 DEF TracksDeleted, TableInv, TableTypes, DiscOnce
<1>4. CASE disc' = << >> /\ track' = TracksAfterDiscs /\ UNCHANGED artist
  BY <1>4 DEF TracksAfterDiscs, TableInv, TableTypes, DiscOnce
<1>5. CASE artist' = {} /\ UNCHANGED <<disc, track>>
  BY <1>5 DEF TableInv, TableTypes, DiscOnce
<1> QED
  BY <1>1, <1>2, <1>3, <1>4, <1>5 DEF TablesStep

----------------------------------------------------------------------------
(* Types *)

TypeInv == TypeOK /\ DiscOnce

\* The part of TypeOK that concerns neither the jobs nor the tables
RestTypes ==
    /\ todo \in [Threads -> SUBSET Discs]
    /\ fkeys \in BOOLEAN /\ index \in BOOLEAN
    /\ failed \subseteq Failures /\ disturbed \in BOOLEAN

LEMMA TypeParts == TypeInv <=> JobTypes /\ TableInv /\ RestTypes
  BY DEF TypeInv, TypeOK, JobTypes, TableInv, TableTypes, RestTypes

LEMMA InitTypeInv == Init => TypeInv
<1> SUFFICES ASSUME Init PROVE TypeInv
  OBVIOUS
<1>1. JobTypes
  BY DEF Init, JobTypes, Modes, Kinds, Places
<1>2. TableInv
  BY DEF Init, TableInv, TableTypes, DiscOnce
<1>3. RestTypes
  BY DEF Init, RestTypes
<1> QED
  BY <1>1, <1>2, <1>3, TypeParts

LEMMA NextRestTypes ==
  ASSUME RestTypes, [Next]_vars
  PROVE  RestTypes'
<1> USE DEF RestTypes
<1>1. todo' \in [Threads -> SUBSET Discs]
  <2>1. ASSUME NEW t \in Threads, Job(t) PROVE todo' \in [Threads -> SUBSET Discs]
    BY <2>1 DEF Job, JobCheck, JobClaim, RebuildPre, RebuildCddb, RebuildPost,
       JobPurge, PurgeTracks, PurgeDiscs, PurgeArtists, PurgeFailed, ScanFolder,
       ScanDone, Backup, JobFinish
  <2> QED
    BY <2>1 DEF Next, StartJob, StoreDisc, vars
<1>2. fkeys' \in BOOLEAN /\ index' \in BOOLEAN
  <2>1. ASSUME NEW t \in Threads, Job(t)
        PROVE  fkeys' \in BOOLEAN /\ index' \in BOOLEAN
    BY <2>1, Zenon DEF Job, JobCheck, JobClaim, RebuildPre, RebuildCddb,
       RebuildPost, IndexRestored, JobPurge, PurgeTracks, PurgeDiscs,
       PurgeArtists, ScanFolder, ScanDone, Backup, JobFinish, schema
  <2> QED
    BY <2>1 DEF Next, StartJob, StoreDisc, vars, schema
<1>4. failed' \subseteq Failures
  <2>1. ASSUME NEW t \in Threads, Job(t)
        PROVE  \/ UNCHANGED failed
               \/ \E what \in Failures : failed' = failed \cup {what}
    BY <2>1, Zenon DEF Failures, Job, JobCheck, JobClaim, RebuildPre,
       RebuildCddb, RebuildPost, JobPurge, PurgeTracks, PurgeDiscs,
       PurgeArtists, ScanFolder, ScanDone, Backup, JobFinish, history, Fail
  <2> QED
    BY <2>1 DEF Next, StartJob, StoreDisc, vars
<1>3. disturbed' \in BOOLEAN
  <2>1. ASSUME NEW t \in Threads, Job(t) PROVE disturbed' = disturbed
    BY <2>1 DEF Job, JobCheck, JobClaim, RebuildPre, RebuildCddb, RebuildPost,
       JobPurge, PurgeTracks, PurgeDiscs, PurgeArtists, ScanFolder, ScanDone,
       Backup, JobFinish, history
  <2> QED
    BY <2>1 DEF Next, StartJob, StoreDisc, vars
<1> QED
  BY <1>1, <1>2, <1>3, <1>4

LEMMA TypeInvariant == Spec => [](TypeInv /\ JobInv)
<1>1. TypeInv /\ JobInv /\ [Next]_vars => TypeInv'
  <2> SUFFICES ASSUME TypeInv, JobInv, [Next]_vars PROVE TypeInv'
    OBVIOUS
  <2>1. JobTypes'
    BY NextJobInv DEF JobInv
  <2>2. TableInv'
    BY NextTables, TablesStepInv, TypeParts DEF TypeInv
  <2>3. RestTypes'
    BY NextRestTypes, TypeParts
  <2> QED
    BY <2>1, <2>2, <2>3, TypeParts, PTL
<1> QED
  BY <1>1, InitTypeInv, InitJobInv, NextJobInv, PTL DEF Spec

\* The state of the jobs and the tables is well typed: above all, no disc has
\* two rows, so that the tables have room for all of them.
THEOREM JobsTypeCorrect == Spec => []TypeOK
<1>1. TypeInv => TypeOK
  BY DEF TypeInv
<1> QED
  BY <1>1, TypeInvariant, PTL

----------------------------------------------------------------------------
(* The library, when no two jobs overlap and no store comes amid a purge *)

Sole == \A t, u \in Threads : Running(t) /\ Running(u) => t = u

AllStored == \A d \in Discs : IsStored(d)

\* What a job has left of the library so far, and has yet to put back
Halfway(t) ==
    /\ Owner(t) => mode = kind[t]
    /\ pc[t] \in {"pre", "cddb", "post"} => kind[t] = "rebuild"
    /\ At(t, "discs") => \A i \in Rows : track[i] = None
    /\ At(t, "artists") => disc = << >>
    /\ At(t, "scan") => "scan" \in failed \/ \A d \in Discs : d \in todo[t] \/ IsStored(d)
    /\ At(t, "finish") /\ kind[t] = "rescan" => "scan" \in failed \/ AllStored
    /\ At(t, "finish") /\ kind[t] = "rebuild" =>
         failed \cap {"index", "purge", "scan"} # {} \/ AllStored

QuietInv ==
    ~disturbed =>
        /\ Sole
        /\ "purge" \notin failed =>
             NoOrphans /\ (Consistent \/ \E t \in Threads : At(t, "discs"))
        /\ \A t \in Threads : Halfway(t)

LEMMA InitQuietInv == Init => QuietInv
  BY DEF Init, QuietInv, Sole, Running, NoOrphans, Consistent, Halfway, Owner,
     OwnerPlaces, At

\* A step of the only job that runs.
LEMMA SoleJob ==
  ASSUME JobTypes, Sole, NEW t \in Threads, Running(t),
         \A u \in Threads \ {t} : pc'[u] = pc[u],
         "purge" \notin failed' => NoOrphans' /\ (Consistent' \/ At(t, "discs")'),
         Halfway(t)'
  PROVE  QuietInv'
<1>1. \A u \in Threads \ {t} : pc'[u] = "ended"
  BY DEF Sole, Running
<1>2. Sole'
  BY <1>1 DEF Sole, Running
<1>3. \A u \in Threads \ {t} : Halfway(u)'
  BY <1>1 DEF Halfway, Owner, OwnerPlaces, At
<1> QED
  BY <1>2, <1>3 DEF QuietInv

\* A job that leaves the tables alone, or ends.
LEMMA SoleJobMoves ==
  ASSUME JobTypes, QuietInv, ~disturbed, NEW t \in Threads, Running(t),
         ~At(t, "discs"), \A u \in Threads \ {t} : pc'[u] = pc[u],
         UNCHANGED tables, failed \subseteq failed', Halfway(t)'
  PROVE  QuietInv'
<1>1. Sole /\ ("purge" \notin failed => Consistent /\ NoOrphans)
  BY DEF QuietInv, Sole, Running, At
<1>2. "purge" \notin failed' => Consistent' /\ NoOrphans'
  BY <1>1 DEF tables, Consistent, NoOrphans
<1> QED
  BY <1>1, <1>2, SoleJob

LEMMA NextQuietInv ==
  ASSUME TypeInv, JobInv, QuietInv, [Next]_vars
  PROVE  QuietInv'
<1> SUFFICES ASSUME ~disturbed' PROVE QuietInv'
  BY DEF QuietInv
<1>t. /\ JobTypes /\ SlotInUse /\ TableInv /\ RestTypes
      /\ pc \in [Threads -> Places] /\ kind \in [Threads -> Kinds \cup {None}]
      /\ todo \in [Threads -> SUBSET Discs]
  BY TypeParts DEF JobInv, JobTypes, RestTypes
<1>1. CASE UNCHANGED vars
  BY <1>1 DEF vars, QuietInv, Sole, Running, NoOrphans, Consistent, Halfway,
     Owner, At, IsStored, AllStored
<1>2. CASE \E k \in Kinds : StartJob(k)
  <2>1. PICK k \in Kinds, t \in Threads :
          /\ pc' = [pc EXCEPT ![t] = "created"]
          /\ UNCHANGED <<mode, todo, disc, track, artist, failed>>
    BY <1>2 DEF StartJob, Goto, tables
  <2>2. ~disturbed /\ \A u \in Threads : ~Running(u)
    BY <1>2, <2>1 DEF StartJob
  <2>3. \A u \in Threads : pc'[u] \in {"created", "ended"} /\ (pc'[u] = "created" => u = t)
    BY <1>t, <2>1, <2>2 DEF Running
  <2>4. Sole' /\ \A u \in Threads : Halfway(u)'
    BY <2>3 DEF Sole, Running, Halfway, Owner, OwnerPlaces, At
  <2>5. "purge" \notin failed' => Consistent' /\ NoOrphans'
    BY <2>1, <2>2 DEF QuietInv, Running, At, Consistent, NoOrphans
  <2> QED
    BY <2>4, <2>5 DEF QuietInv
<1>3. CASE StoreDisc
  <2>1. PICK d \in Discs, update \in BOOLEAN : Store(d, update)
    BY <1>3 DEF StoreDisc
  <2>2. /\ ~disturbed /\ UNCHANGED <<mode, kind, pc, todo, failed>>
        /\ \A u \in Threads : ~Purging(u)
    BY <1>3 DEF StoreDisc
  <2>3. "purge" \notin failed => Consistent /\ NoOrphans
    BY <2>2 DEF QuietInv, Purging, At
  <2>4. /\ "purge" \notin failed' => Consistent' /\ NoOrphans'
        /\ \A e : IsStored(e) => IsStored(e)'
    BY <1>t, <2>1, <2>2, <2>3, StoreAddsDisc
  <2>5. ASSUME NEW u \in Threads PROVE Halfway(u)'
    <3>1. Halfway(u) /\ ~At(u, "discs")' /\ ~At(u, "artists")'
      BY <2>2 DEF QuietInv, Purging, At
    <3> QED
      BY <2>2, <2>4, <3>1 DEF Halfway, Owner, At, AllStored
  <2>6. Sole'
    BY <2>2 DEF QuietInv, Sole, Running
  <2> QED
    BY <2>4, <2>5, <2>6 DEF QuietInv
<1>4. ASSUME NEW t \in Threads, Job(t)
      PROVE  QuietInv'
  <2>1. ~disturbed /\ failed \subseteq failed'
    <3>1. disturbed' = disturbed
      BY <1>4 DEF Job, JobCheck, JobClaim, RebuildPre, RebuildCddb, RebuildPost,
         JobPurge, PurgeTracks, PurgeDiscs, PurgeArtists, ScanFolder, ScanDone,
         Backup, JobFinish, history
    <3>2. failed \subseteq failed'
      BY <1>4, Zenon DEF Job, JobCheck, JobClaim, RebuildPre, RebuildCddb,
         RebuildPost, JobPurge, PurgeTracks, PurgeDiscs, PurgeArtists, ScanFolder,
         ScanDone, Backup, JobFinish, history, Fail
    <3> QED
      BY <3>1, <3>2
  <2>2. /\ Running(t) /\ Sole /\ Halfway(t)
        /\ "purge" \notin failed => NoOrphans /\ (Consistent \/ At(t, "discs"))
        /\ \A u \in Threads \ {t} : pc'[u] = pc[u]
    <3>1. Running(t)
      BY <1>4 DEF Job, JobCheck, JobClaim, RebuildPre, RebuildCddb, RebuildPost,
         JobPurge, PurgeTracks, PurgeDiscs, PurgeArtists, ScanFolder, ScanDone,
         Backup, JobFinish, Running, At
    <3>2. \A u \in Threads \ {t} : pc'[u] = pc[u]
      BY <1>t, <1>4 DEF Job, JobCheck, JobClaim, RebuildPre, RebuildCddb,
         RebuildPost, JobPurge, PurgeTracks, PurgeDiscs, PurgeArtists, PurgeFailed,
         ScanFolder, ScanDone, Backup, JobFinish, Goto, Exit
    <3> QED
      BY <2>1, <3>1, <3>2 DEF QuietInv, Sole, Running, At
  <2>3. CASE JobCheck(t) \/ JobClaim(t) \/ JobPurge(t)
    <3>1. UNCHANGED tables /\ ~At(t, "discs")
      BY <2>3 DEF JobCheck, JobClaim, JobPurge, At
    <3>2. Halfway(t)'
      BY <1>t, <2>2, <2>3 DEF JobCheck, JobClaim, JobPurge, Exit, Goto, At, Halfway,
         Owner, OwnerPlaces, SlotInUse, Kinds
    <3> QED
      BY <1>t, <2>1, <2>2, <3>1, <3>2, SoleJobMoves
  <2>4. CASE RebuildPre(t) \/ RebuildCddb(t) \/ RebuildPost(t) \/ Backup(t)
    <3>1. UNCHANGED tables /\ ~At(t, "discs")
      BY <2>4 DEF RebuildPre, RebuildCddb, RebuildPost, Backup, At
    <3>2. /\ UNCHANGED mode /\ Owner(t)
          /\ \/ /\ UNCHANGED kind /\ kind[t] = "rebuild"
                /\ \/ Goto(t, "cddb") \/ Goto(t, "post") \/ Goto(t, "purge")
                   \/ Goto(t, "finish") /\ "index" \in failed'
             \/ UNCHANGED kind /\ Goto(t, "finish") /\ kind[t] = "backup"
             \/ Goto(t, "ended")
      <4>1. CASE RebuildPre(t) \/ RebuildCddb(t) \/ RebuildPost(t)
        <5>1. kind[t] = "rebuild" /\ Owner(t)
          BY <2>2, <4>1 DEF RebuildPre, RebuildCddb, RebuildPost, At, Halfway,
             Owner, OwnerPlaces
        <5> QED
          BY <4>1, <5>1, Zenon DEF RebuildPre, RebuildCddb, RebuildPost, Fail
      <4>2. CASE Backup(t)
        BY <1>t, <4>2 DEF Backup, At, SlotInUse, Owner, OwnerPlaces, Exit
      <4> QED
        BY <2>4, <4>1, <4>2
    <3>3. Halfway(t)'
      BY <1>t, <2>2, <3>2 DEF Goto, At, Halfway, Owner, OwnerPlaces
    <3> QED
      BY <1>t, <2>1, <2>2, <3>1, <3>3, SoleJobMoves
  \* A statement of the purge fails
  <2>5. ASSUME Owner(t), PurgeFailed(t), "purge" \in failed', UNCHANGED <<mode, kind>>
        PROVE  QuietInv'
    <3>1. Halfway(t)'
      BY <1>t, <2>2, <2>5 DEF PurgeFailed, Goto, At, Halfway, Owner, OwnerPlaces
    <3> QED
      BY <1>t, <2>2, <2>5, <3>1, SoleJob
  <2>6. CASE PurgeTracks(t)
    <3>1. CASE Goto(t, "discs") /\ track' = TracksDeleted
      <4>1. At(t, "tracks") /\ UNCHANGED <<mode, kind, disc, artist>>
        BY <2>6 DEF PurgeTracks
      <4>2. NoOrphans' /\ At(t, "discs")' /\ \A i \in Rows : track'[i] = None
        BY <1>t, <3>1, <4>1 DEF NoOrphans, TracksDeleted, Goto, At
      <4>3. Halfway(t)'
        BY <2>2, <4>1, <4>2 DEF Halfway, At, Owner, OwnerPlaces
      <4> QED
        BY <1>t, <2>2, <4>2, <4>3, SoleJob
    <3>2. CASE PurgeFailed(t) /\ Fail("purge")
      BY <2>5, <2>6, <3>2 DEF PurgeTracks, Fail, Owner, OwnerPlaces, At
    <3> QED
      BY <2>6, <3>1, <3>2 DEF PurgeTracks
  <2>7. CASE PurgeDiscs(t)
    <3>1. CASE Goto(t, "artists") /\ disc' = << >> /\ track' = TracksAfterDiscs
      <4>1. At(t, "discs") /\ UNCHANGED <<mode, kind, artist>>
        BY <2>7 DEF PurgeDiscs
      <4>2. \A i \in Rows : track'[i] = None
        BY <2>2, <3>1, <4>1 DEF TracksAfterDiscs, Halfway
      <4>3. NoOrphans' /\ Consistent'
        BY <3>1, <4>2 DEF NoOrphans, Consistent
      <4>4. Halfway(t)'
        BY <1>t, <2>2, <3>1, <4>1 DEF Halfway, At, Owner, OwnerPlaces, Goto
      <4> QED
        BY <1>t, <2>2, <4>3, <4>4, SoleJob
    <3>2. CASE PurgeFailed(t) /\ Fail("purge")
      BY <2>5, <2>7, <3>2 DEF PurgeDiscs, Fail, Owner, OwnerPlaces, At
    <3> QED
      BY <2>7, <3>1, <3>2 DEF PurgeDiscs
  <2>8. CASE PurgeArtists(t)
    <3>1. At(t, "artists") /\ disc = << >> /\ ~Restricted
          /\ UNCHANGED <<mode, kind, disc, track>>
      BY <2>2, <2>8 DEF PurgeArtists, Halfway, Restricted
    <3>2. CASE Goto(t, "scan") /\ todo' = [todo EXCEPT ![t] = Discs] /\ UNCHANGED failed
      <4>1. NoOrphans /\ Consistent => NoOrphans' /\ Consistent'
        BY <3>1 DEF NoOrphans, Consistent
      <4>2. ~At(t, "discs")
        BY <3>1 DEF At
      <4>3. Halfway(t)'
        BY <1>t, <2>2, <3>1, <3>2 DEF Halfway, At, Owner, OwnerPlaces, Goto
      <4> QED
        BY <1>t, <2>2, <3>2, <4>1, <4>2, <4>3, SoleJob
    <3>3. CASE PurgeFailed(t) /\ Fail("purge")
      BY <2>5, <3>1, <3>3 DEF Fail, Owner, OwnerPlaces, At
    <3> QED
      BY <2>8, <3>1, <3>2, <3>3 DEF PurgeArtists
  <2>9. CASE ScanFolder(t)
    <3>1. At(t, "scan") /\ ~At(t, "discs") /\ UNCHANGED <<mode, kind, pc>>
      BY <2>9 DEF ScanFolder, At
    <3>2. ASSUME NEW d \in todo[t], todo' = [todo EXCEPT ![t] = @ \ {d}],
                 Store(d, FALSE), UNCHANGED failed
          PROVE  QuietInv'
      <4>1. d \in Discs
        BY <1>t, <3>2
      <4>2. /\ Consistent /\ NoOrphans => Consistent' /\ NoOrphans'
            /\ IsStored(d)' /\ \A e : IsStored(e) => IsStored(e)'
        BY <1>t, <3>2, <4>1, StoreAddsDisc
      <4>3. Halfway(t)'
        BY <1>t, <2>2, <3>1, <3>2, <4>2 DEF Halfway, At, Owner, OwnerPlaces
      <4> QED
        BY <1>t, <2>2, <3>1, <3>2, <4>2, <4>3, SoleJob
    <3>3. ASSUME UNCHANGED tables, "scan" \in failed'
          PROVE  QuietInv'
      <4>1. Halfway(t)'
        BY <1>t, <2>2, <3>1, <3>3 DEF Halfway, At, Owner, OwnerPlaces
      <4> QED
        BY <1>t, <2>1, <2>2, <3>1, <3>3, <4>1, SoleJobMoves
    <3> QED
      BY <2>9, <3>2, <3>3 DEF ScanFolder, Fail
  <2>10. CASE ScanDone(t)
    <3>1. /\ At(t, "scan") /\ Goto(t, "finish") /\ UNCHANGED <<mode, kind, tables>>
          /\ todo[t] = {} \/ "scan" \in failed'
      BY <2>10 DEF ScanDone, TraversalEnds, Fail
    <3>2. \A d : IsStored(d) => IsStored(d)'
      BY <3>1 DEF IsStored, tables
    <3>3. Halfway(t)'
      BY <1>t, <2>1, <2>2, <3>1, <3>2 DEF Halfway, At, Owner, OwnerPlaces, Goto, AllStored
    <3> QED
      BY <1>t, <2>1, <2>2, <3>1, <3>3, SoleJobMoves DEF At
  <2>11. CASE JobFinish(t)
    <3>1. ~At(t, "discs") /\ UNCHANGED tables /\ pc'[t] = "ended"
      BY <1>t, <2>11 DEF JobFinish, Exit, Goto, At
    <3>2. Halfway(t)'
      BY <3>1 DEF Halfway, At, Owner, OwnerPlaces
    <3> QED
      BY <1>t, <2>1, <2>2, <3>1, <3>2, SoleJobMoves
  <2> QED
    BY <1>4, <2>3, <2>4, <2>6, <2>7, <2>8, <2>9, <2>10, <2>11 DEF Job
<1> QED
  BY <1>1, <1>2, <1>3, <1>4 DEF Next

LEMMA QuietInvariant == Spec => [](TypeInv /\ JobInv /\ QuietInv)
<1>1. TypeInv /\ JobInv /\ QuietInv /\ [Next]_vars => QuietInv'
  BY NextQuietInv
<1> QED
  BY <1>1, InitQuietInv, TypeInvariant, PTL DEF Spec

\* In normal mode every disc that is served has its own tracks and its artist,
\* for any number of folders, of jobs that have come and gone and of stores in
\* between, whatever has failed but a statement of a purge, unless two jobs have
\* overlapped or a store has come in the middle of a purge.
THEOREM LibraryAlwaysConsistent == Spec => []LibraryIsConsistent
<1>1. TypeInv /\ JobInv /\ QuietInv => LibraryIsConsistent
  <2> SUFFICES ASSUME TypeInv, JobInv, QuietInv, mode = "normal", ~disturbed,
                      "purge" \notin failed
               PROVE  Consistent
    BY DEF LibraryIsConsistent
  <2>1. ASSUME NEW t \in Threads, At(t, "discs") PROVE FALSE
    <3>1. kind[t] \in Kinds /\ kind[t] = mode
      BY <2>1 DEF JobInv, SlotInUse, QuietInv, Halfway, At, Owner, OwnerPlaces
    <3> QED
      BY <3>1 DEF Kinds
  <2> QED
    BY <2>1 DEF QuietInv
<1> QED
  BY <1>1, QuietInvariant, PTL

\* A rescan or a rebuild gives normal mode back with every folder stored, even
\* when discs are stored while it runs; a rescan, even when its purge fails half
\* way or a rebuild before it has failed.
THEOREM ScanAlwaysComplete == Spec => ScanIsComplete
<1>1. QuietInv =>
        [\A t \in Threads :
          /\ pc[t] = "finish" /\ mode' = "normal" /\ pc'[t] = "ended"
          /\ kind[t] \in {"rescan", "rebuild"} /\ ~disturbed /\ "scan" \notin failed
          /\ kind[t] = "rebuild" => failed \cap {"index", "purge"} = {}
          => Discs \subseteq {disc[i] : i \in DOMAIN disc}]_vars
  <2> SUFFICES ASSUME QuietInv, NEW t \in Threads, pc[t] = "finish", ~disturbed,
                      kind[t] \in {"rescan", "rebuild"}, "scan" \notin failed,
                      kind[t] = "rebuild" => failed \cap {"index", "purge"} = {}
               PROVE  Discs \subseteq {disc[i] : i \in DOMAIN disc}
    OBVIOUS
  <2>1. AllStored
    BY DEF QuietInv, Halfway, At
  <2> QED
    BY <2>1 DEF AllStored, IsStored
<1> QED
  BY <1>1, QuietInvariant, PTL DEF ScanIsComplete
=============================================================================
