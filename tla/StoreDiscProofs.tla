-------------------------- MODULE StoreDiscProofs ---------------------------
(***************************************************************************)
(* Proofs about StoreDisc, for any number of threads, discs, tracks and    *)
(* stores.                                                                 *)
(***************************************************************************)
EXTENDS StoreDisc, TLAPS, SequenceTheorems

\* The steps of a thread
Step(t) ==
    \/ Elsewhere(t)
    \/ Call(t) \/ LookRow(t) \/ LookEnd(t)
    \/ GetName(t) \/ NameDone(t) \/ NameRow(t) \/ NameEnd(t) \/ NameFailed(t)
    \/ Begin(t) \/ Begun(t) \/ BeginFailed(t) \/ CoverFailed(t)
    \/ InsertDisc(t) \/ DiscRow(t) \/ DiscDone(t)
    \/ UpdateDisc(t) \/ DiscUpdated(t) \/ DiscFailed(t)
    \/ SeekTrack(t) \/ TrackThere(t) \/ AddTrack(t)
    \/ TrackAdded(t) \/ TrackFailed(t) \/ Commit(t)

LEMMA NextIsStep == Next <=> \E t \in Threads : Step(t)
  BY DEF Next, Step

----------------------------------------------------------------------------
(* The types, part by part: the engine, the threads, the histories         *)

EngineOK == /\ mem \in Tables /\ disk \in Tables
            /\ tx \in {"none", "open"} /\ active \subseteq Threads

ThreadsOK == /\ got \in [Threads -> Results]
             /\ pc \in [Threads -> Outside \cup Inside]
             /\ disc \in [Threads -> Discs \cup {None}]
             /\ id \in [Threads -> Nat \cup {-1}] /\ row \in [Threads -> Nat]
             /\ num \in [Threads -> 1 .. Tracks + 1]

\* The arguments of a store that is under way
Called(t) == /\ pc[t] # "idle" => disc[t] \in Discs
             /\ pc[t] \notin {"seek", "sought", "added"} => num[t] = 1
             /\ pc[t] \in {"sought", "added"} => num[t] <= Tracks
             /\ pc[t] = "idle" => id[t] = -1
             /\ pc[t] \in {"update", "updated", "seek", "sought", "added"} => id[t] # -1

CallsOK == ThreadsOK /\ \A t \in Threads : Called(t)

\* Only thread t has moved.
OnlyMoved(t) ==
    \A u \in Threads \ {t} :
        /\ pc'[u] = pc[u] /\ got'[u] = got[u] /\ disc'[u] = disc[u] /\ id'[u] = id[u]
        /\ num'[u] = num[u] /\ row'[u] = row[u]

LEMMA RowType ==
  ASSUME EngineOK, NEW d
  PROVE  /\ Row(d) \in Nat
         /\ Row(d) # 0 => Row(d) \in DOMAIN mem.disc /\ mem.disc[Row(d)] = d
         /\ Row(d) = 0 => \A i \in DOMAIN mem.disc : mem.disc[i] # d
<1>1. DOMAIN mem.disc \subseteq Nat /\ 0 \notin DOMAIN mem.disc
  BY DEF EngineOK, Tables
<1> QED
  BY <1>1 DEF Row

\* A step moves its own thread only, and leaves it well typed.
LEMMA StepMoves ==
  ASSUME EngineOK, CallsOK, NEW t \in Threads, Step(t)
  PROVE  OnlyMoved(t) /\ CallsOK'
<1>0. Len(mem.disc) \in Nat
  BY LenProperties DEF EngineOK, Tables
<1>1. CASE Elsewhere(t)
  BY <1>1 DEF Elsewhere, OnlyMoved, CallsOK, ThreadsOK, Called
<1>2. CASE Call(t)
  BY <1>2, RowType DEF Call, SelectDisc, Found, Returned, Goto, OnlyMoved, CallsOK, ThreadsOK, Called, Results, Outside, Inside
<1>3. CASE LookRow(t)
  BY <1>3, RowType DEF LookRow, SelectDisc, Found, Returned, Goto, OnlyMoved, CallsOK, ThreadsOK, Called, Results, Outside, Inside
<1>4. CASE LookEnd(t)
  BY <1>4, StoreAssumption DEF LookEnd, Found, Returned, Goto, Return, OnlyMoved, CallsOK, ThreadsOK, Called, Results, Outside, Inside
<1>5. CASE GetName(t)
  BY <1>5 DEF GetName, InsertName, Found, Returned, Goto, OnlyMoved, CallsOK, ThreadsOK, Called, Results, Outside, Inside
<1>6. CASE NameDone(t)
  BY <1>6 DEF NameDone, SelectName, Found, Returned, Goto, OnlyMoved, CallsOK, ThreadsOK, Called, Results, Outside, Inside
<1>7. CASE NameRow(t)
  BY <1>7 DEF NameRow, InsertName, SelectName, Found, Returned, Goto, OnlyMoved, CallsOK, ThreadsOK, Called, Results, Outside, Inside
<1>8. CASE NameEnd(t)
  BY <1>8 DEF NameEnd, Found, Returned, Goto, OnlyMoved, CallsOK, ThreadsOK, Called, Results, Outside, Inside
<1>9. CASE NameFailed(t) \/ BeginFailed(t)
  BY <1>9, StoreAssumption DEF NameFailed, BeginFailed, Goto, Return, OnlyMoved, CallsOK, ThreadsOK, Called, Results, Outside, Inside
<1>10. CASE Begin(t)
  BY <1>10 DEF Begin, Found, Returned, Goto, OnlyMoved, CallsOK, ThreadsOK, Called, Results, Outside, Inside
<1>11. CASE Begun(t)
  BY <1>11 DEF Begun, Goto, OnlyMoved, CallsOK, ThreadsOK, Called, Results, Outside, Inside
<1>12. CASE CoverFailed(t) \/ DiscFailed(t) \/ TrackFailed(t)
  BY <1>12, StoreAssumption DEF CoverFailed, DiscFailed, TrackFailed, GiveUp, Goto, Return, OnlyMoved, CallsOK, ThreadsOK, Called, Results, Outside, Inside
<1>r. ASSUME InsertRow(t)
      PROVE  \E n \in Nat, r \in Results : Found(t, r, n)
  <2>1. Len(mem.disc) + 1 \in Nat /\ 0 \in Nat
    BY <1>0
  <2> QED
    BY <1>r, <2>1 DEF InsertRow, Returned, Results
<1>13. CASE InsertDisc(t)
  BY <1>r, <1>13 DEF InsertDisc, Found, Goto, OnlyMoved, CallsOK, ThreadsOK, Called, Outside, Inside
<1>14. CASE DiscRow(t)
  <2>1. \E n \in Nat, r \in Results : Found(t, r, n)
    BY <1>r, <1>14 DEF DiscRow, Returned, Results
  <2> QED
    BY <2>1, <1>14 DEF DiscRow, Found, OnlyMoved, CallsOK, ThreadsOK, Called
<1>15. CASE DiscDone(t) \/ UpdateDisc(t) \/ DiscUpdated(t)
  BY <1>15 DEF DiscDone, UpdateDisc, DiscUpdated, Found, Returned, Goto, OnlyMoved, CallsOK, ThreadsOK, Called, Results, Outside, Inside
<1>16. CASE SeekTrack(t)
  BY <1>16 DEF SeekTrack, TracksLeft, Found, Returned, Goto, OnlyMoved, CallsOK, ThreadsOK, Called, Results, Outside, Inside
<1>17. CASE TrackThere(t)
  BY <1>17, StoreAssumption DEF TrackThere, Found, Returned, Goto, OnlyMoved, CallsOK, ThreadsOK, Called, Results, Outside, Inside
<1>18. CASE AddTrack(t)
  BY <1>18 DEF AddTrack, Found, Returned, Goto, OnlyMoved, CallsOK, ThreadsOK, Called, Results, Outside, Inside
<1>19. CASE TrackAdded(t)
  BY <1>19, StoreAssumption DEF TrackAdded, Found, Returned, Goto, OnlyMoved, CallsOK, ThreadsOK, Called, Results, Outside, Inside
<1>20. CASE Commit(t)
  BY <1>20, StoreAssumption DEF Commit, Goto, Return, OnlyMoved, CallsOK, ThreadsOK, Called, Results, Outside, Inside
<1> QED
  BY <1>1, <1>2, <1>3, <1>4, <1>5, <1>6, <1>7, <1>8, <1>9, <1>10, <1>11, <1>12,
     <1>13, <1>14, <1>15, <1>16, <1>17, <1>18, <1>19, <1>20 DEF Step

----------------------------------------------------------------------------
(* The engine *)

\* What is committed is what is seen, when nothing is under way.
Quiet == tx = "none" /\ active = {} => mem = disk

\* What is committed stays among what is seen.
Extends ==
    /\ disk.names \subseteq mem.names /\ disk.track \subseteq mem.track
    /\ \A i \in DOMAIN disk.disc : i \in DOMAIN mem.disc /\ mem.disc[i] = disk.disc[i]

\* No disc is stored twice.
Unique == \A i, j \in DOMAIN mem.disc : mem.disc[i] = mem.disc[j] => i = j

\* An INSERT has not ended only while its thread is at it.
AtWork == \A t \in active : pc[t] \in {"named", "ended", "row"}

EngineInv == EngineOK /\ Quiet /\ Extends /\ Unique

\* What a step may do to the engine
NamesStep ==
    \E new \in Tables, act \in SUBSET Threads :
        /\ new.disc = mem.disc /\ new.track = mem.track /\ mem.names \subseteq new.names
        /\ Write(new, act)
DiscStep(t) ==
    /\ Row(disc[t]) = 0
    /\ Write([mem EXCEPT !.disc = Append(@, disc[t])], active \cup {t})
TrackStep(t) ==
    Write([mem EXCEPT !.track = @ \cup {<<id[t], num[t]>>}], active)
BeginStep  == tx' = "open" /\ UNCHANGED <<mem, disk, active>>
CommitStep == CanCommit /\ disk' = mem /\ tx' = "none" /\ UNCHANGED <<mem, active>>

EngineStep(t) ==
    \/ UNCHANGED engine
    \/ NamesStep /\ pc[t] # "idle"
    \/ DiscStep(t) /\ pc[t] \in {"insert", "row"}
    \/ TrackStep(t) /\ pc[t] = "sought" /\ status # "ROW" /\ Returned(t, "DONE")
    \/ BeginStep /\ pc[t] = "begin"
    \/ CommitStep /\ Commit(t)
    \/ Rollback(t) /\ GiveUp(t) /\ pc[t] \in Inside

LEMMA StepEngine ==
  ASSUME EngineOK, CallsOK, NEW t \in Threads, Step(t)
  PROVE  EngineStep(t)
<1>1. ASSUME Finish(t) PROVE NamesStep
  <2>1. active \ {t} \in SUBSET Threads
    BY DEF EngineOK
  <2> QED
    BY <1>1, <2>1 DEF Finish, NamesStep, EngineOK
<1>2. ASSUME InsertName(t), pc[t] # "idle" PROVE UNCHANGED engine \/ NamesStep
  <2> DEFINE new == [mem EXCEPT !.names = @ \cup {disc[t]}]
  <2>1. disc[t] \in Discs
    BY <1>2 DEF CallsOK, Called
  <2>2. /\ new \in Tables /\ new.disc = mem.disc /\ new.track = mem.track
        /\ mem.names \subseteq new.names
    BY <2>1 DEF EngineOK, Tables
  <2>3. active \cup {t} \in SUBSET Threads
    BY DEF EngineOK
  <2>4. UNCHANGED engine \/ Write(new, active \cup {t})
    BY <1>2 DEF InsertName
  <2> HIDE DEF new
  <2> QED
    BY <2>2, <2>3, <2>4 DEF NamesStep
<1>3. CASE \/ Elsewhere(t) \/ Call(t) \/ LookRow(t) \/ LookEnd(t) \/ BeginFailed(t)
           \/ Begun(t) \/ UpdateDisc(t) \/ DiscUpdated(t) \/ SeekTrack(t)
           \/ TrackThere(t) \/ TrackAdded(t)
  BY <1>3 DEF EngineStep, Elsewhere, Call, LookRow, LookEnd, BeginFailed, Begun,
     UpdateDisc, DiscUpdated, SeekTrack, TrackThere, TrackAdded
<1>4. CASE GetName(t) \/ NameRow(t)
  BY <1>1, <1>2, <1>4 DEF EngineStep, GetName, NameRow
<1>5. CASE NameDone(t) \/ NameEnd(t) \/ NameFailed(t) \/ DiscDone(t)
  BY <1>1, <1>5 DEF EngineStep, NameDone, NameEnd, NameFailed, DiscDone
<1>6. CASE Begin(t)
  BY <1>6 DEF EngineStep, Begin, BeginStep
<1>7. CASE CoverFailed(t) \/ DiscFailed(t) \/ TrackFailed(t)
  BY <1>7 DEF EngineStep, CoverFailed, DiscFailed, TrackFailed, GiveUp, Inside
<1>8. CASE InsertDisc(t) \/ DiscRow(t)
  <2>1. pc[t] \in {"insert", "row"}
    BY <1>8 DEF InsertDisc, DiscRow
  <2>2. UNCHANGED engine \/ NamesStep \/ DiscStep(t)
    BY <1>1, <1>8 DEF InsertDisc, DiscRow, InsertRow, DiscStep
  <2> QED
    BY <2>1, <2>2 DEF EngineStep
<1>9. CASE AddTrack(t)
  BY <1>9 DEF EngineStep, AddTrack, TrackStep
<1>10. CASE Commit(t)
  <2>1. UNCHANGED engine \/ CommitStep
    BY <1>10 DEF Commit, DoCommit, CommitStep
  <2> QED
    BY <1>10, <2>1 DEF EngineStep
<1> QED
  BY <1>3, <1>4, <1>5, <1>6, <1>7, <1>8, <1>9, <1>10 DEF Step

\* An INSERT of a disc appends it, one of a track adds it.
LEMMA DiscTables ==
  ASSUME EngineOK, NEW d \in Discs
  PROVE  LET new == [mem EXCEPT !.disc = Append(@, d)]
             n   == Len(mem.disc) + 1
         IN  /\ new \in Tables /\ new.names = mem.names /\ new.track = mem.track
             /\ new.disc = Append(mem.disc, d)
             /\ n \in Nat /\ n \notin DOMAIN mem.disc
             /\ DOMAIN new.disc = DOMAIN mem.disc \cup {n} /\ new.disc[n] = d
             /\ \A i \in DOMAIN mem.disc : new.disc[i] = mem.disc[i]
<1>1. mem.disc \in Seq(Discs) /\ Len(mem.disc) \in Nat
      /\ DOMAIN mem.disc = 1 .. Len(mem.disc)
  BY LenProperties DEF EngineOK, Tables
<1> DEFINE longer == Append(mem.disc, d)
<1>2. /\ longer \in Seq(Discs) /\ Len(longer) = Len(mem.disc) + 1
      /\ \A i \in 1 .. Len(mem.disc) : longer[i] = mem.disc[i]
      /\ longer[Len(mem.disc) + 1] = d
  BY <1>1, AppendProperties
<1>3. DOMAIN longer = 1 .. Len(mem.disc) + 1
  BY <1>1, <1>2, LenProperties
<1> HIDE DEF longer
<1>4. [mem EXCEPT !.disc = longer] \in Tables
  BY <1>2 DEF EngineOK, Tables
<1>5. /\ [mem EXCEPT !.disc = longer].names = mem.names
      /\ [mem EXCEPT !.disc = longer].track = mem.track
      /\ [mem EXCEPT !.disc = longer].disc = longer
  BY DEF EngineOK, Tables
<1> QED
  BY <1>1, <1>2, <1>3, <1>4, <1>5 DEF longer

LEMMA TrackTables ==
  ASSUME EngineOK, NEW i \in Nat, NEW n \in 1 .. Tracks
  PROVE  LET new == [mem EXCEPT !.track = @ \cup {<<i, n>>}]
         IN  /\ new \in Tables /\ new.names = mem.names /\ new.disc = mem.disc
             /\ new.track = mem.track \cup {<<i, n>>}
<1>1. mem.track \cup {<<i, n>>} \in SUBSET (Nat \X (1 .. Tracks))
  BY DEF EngineOK, Tables
<1> QED
  BY <1>1 DEF EngineOK, Tables

\* The committed tables only grow.
DiskGrows ==
    /\ disk.names \subseteq disk'.names /\ disk.track \subseteq disk'.track
    /\ \A i \in DOMAIN disk.disc : i \in DOMAIN disk'.disc /\ disk'.disc[i] = disk.disc[i]

LEMMA WriteInv ==
  ASSUME EngineInv, NEW new \in Tables, NEW act \in SUBSET Threads, Write(new, act),
         mem.names \subseteq new.names, mem.track \subseteq new.track,
         \A i \in DOMAIN mem.disc : i \in DOMAIN new.disc /\ new.disc[i] = mem.disc[i],
         \A i, j \in DOMAIN new.disc : new.disc[i] = new.disc[j] => i = j
  PROVE  EngineInv' /\ DiskGrows
<1>1. mem' = new /\ active' = act /\ tx' = tx
      /\ (disk' = disk \/ disk' = new)
      /\ (tx = "none" /\ act = {} => disk' = new)
  BY DEF Write
<1>2. EngineOK' /\ Quiet' /\ Unique'
  BY <1>1 DEF EngineInv, EngineOK, Quiet, Unique
<1>3. Extends' /\ DiskGrows
  BY <1>1 DEF EngineInv, Extends, DiskGrows
<1> QED
  BY <1>2, <1>3 DEF EngineInv

LEMMA EngineStepInv ==
  ASSUME EngineInv, CallsOK, NEW t \in Threads, EngineStep(t)
  PROVE  EngineInv' /\ DiskGrows
<1>1. CASE UNCHANGED engine
  BY <1>1 DEF engine, EngineInv, EngineOK, Quiet, Extends, Unique, DiskGrows
<1>2. CASE NamesStep
  <2>1. PICK new \in Tables, act \in SUBSET Threads :
          /\ new.disc = mem.disc /\ new.track = mem.track /\ mem.names \subseteq new.names
          /\ Write(new, act)
    BY <1>2 DEF NamesStep
  <2>2. \A i, j \in DOMAIN new.disc : new.disc[i] = new.disc[j] => i = j
    BY <2>1 DEF EngineInv, Unique
  <2> QED
    BY <2>1, <2>2, WriteInv
<1>3. CASE DiscStep(t) /\ pc[t] \in {"insert", "row"}
  <2> DEFINE new == [mem EXCEPT !.disc = Append(@, disc[t])]
             n == Len(mem.disc) + 1
  <2>1. disc[t] \in Discs /\ EngineOK
    BY <1>3 DEF CallsOK, Called, EngineInv
  <2>2. /\ new \in Tables /\ new.names = mem.names /\ new.track = mem.track
        /\ n \notin DOMAIN mem.disc
        /\ DOMAIN new.disc = DOMAIN mem.disc \cup {n} /\ new.disc[n] = disc[t]
        /\ \A i \in DOMAIN mem.disc : new.disc[i] = mem.disc[i]
    BY <2>1, DiscTables
  <2>3. Write(new, active \cup {t}) /\ active \cup {t} \in SUBSET Threads
    BY <1>3, <2>1 DEF DiscStep, EngineOK
  <2>4. \A i \in DOMAIN mem.disc : mem.disc[i] # disc[t]
    BY <1>3, <2>1, RowType DEF DiscStep
  <2> HIDE DEF new, n
  <2>5. \A i, j \in DOMAIN new.disc : new.disc[i] = new.disc[j] => i = j
    BY <2>2, <2>4 DEF EngineInv, Unique
  <2> QED
    BY <2>2, <2>3, <2>5, WriteInv
<1>4. CASE TrackStep(t) /\ pc[t] = "sought"
  <2> DEFINE new == [mem EXCEPT !.track = @ \cup {<<id[t], num[t]>>}]
  <2>1. id[t] \in Nat /\ num[t] \in 1 .. Tracks
    BY <1>4, StoreAssumption DEF CallsOK, ThreadsOK, Called
  <2>2. /\ new \in Tables /\ new.names = mem.names /\ new.disc = mem.disc
        /\ mem.track \subseteq new.track
    BY <2>1, TrackTables DEF EngineInv
  <2>3. Write(new, active) /\ active \in SUBSET Threads
    BY <1>4 DEF TrackStep, EngineInv, EngineOK
  <2> HIDE DEF new
  <2>4. \A i, j \in DOMAIN new.disc : new.disc[i] = new.disc[j] => i = j
    BY <2>2 DEF EngineInv, Unique
  <2> QED
    BY <2>2, <2>3, <2>4, WriteInv
<1>5. CASE BeginStep
  BY <1>5 DEF BeginStep, EngineInv, EngineOK, Quiet, Extends, Unique, DiskGrows
<1>6. CASE CommitStep
  BY <1>6 DEF CommitStep, EngineInv, EngineOK, Quiet, Extends, Unique, DiskGrows
<1>7. CASE Rollback(t)
  <2>1. CASE tx = "open"
    BY <1>7, <2>1 DEF Rollback, EngineInv, EngineOK, Quiet, Extends, Unique, DiskGrows
  <2>2. CASE tx # "open"
    BY <1>7, <2>2 DEF Rollback, EngineInv, EngineOK, Quiet, Extends, Unique, DiskGrows
  <2> QED
    BY <2>1, <2>2
<1> QED
  BY <1>1, <1>2, <1>3, <1>4, <1>5, <1>6, <1>7 DEF EngineStep

LEMMA StepAtWork ==
  ASSUME EngineOK, CallsOK, AtWork, NEW t \in Threads, Step(t)
  PROVE  AtWork'
<1>1. OnlyMoved(t)
  BY StepMoves
<1>2. /\ active' \subseteq active \cup {t}
      /\ t \in active' => pc'[t] \in {"named", "ended", "row"}
  <2>1. t \in active => pc[t] \in {"named", "ended", "row"}
    BY DEF AtWork
  <2>2. CASE \/ Elsewhere(t) \/ Call(t) \/ LookRow(t) \/ LookEnd(t) \/ BeginFailed(t)
             \/ Begun(t) \/ Begin(t) \/ UpdateDisc(t) \/ DiscUpdated(t) \/ SeekTrack(t)
             \/ TrackThere(t) \/ TrackAdded(t) \/ AddTrack(t) \/ Commit(t)
    <3>1. active' = active
      BY <2>2 DEF Elsewhere, Call, LookRow, LookEnd, BeginFailed, Begun, Begin,
         UpdateDisc, DiscUpdated, SeekTrack, TrackThere, TrackAdded, AddTrack,
         Commit, DoCommit, Write, engine
    <3>2. pc[t] \notin {"named", "ended", "row"}
      BY <2>2 DEF Elsewhere, Call, LookRow, LookEnd, BeginFailed, Begun, Begin,
         UpdateDisc, DiscUpdated, SeekTrack, TrackThere, TrackAdded, AddTrack, Commit
    <3> QED
      BY <2>1, <3>1, <3>2
  <2>3. CASE GetName(t) \/ NameRow(t)
    <3>1. pc'[t] \in {"named", "ended"}
      BY <2>3 DEF GetName, NameRow, Goto, CallsOK, ThreadsOK
    <3> QED
      BY <2>3, <3>1 DEF GetName, NameRow, InsertName, Finish, Write, engine
  <2>4. CASE NameDone(t) \/ NameEnd(t) \/ NameFailed(t) \/ DiscDone(t)
    BY <2>4 DEF NameDone, NameEnd, NameFailed, DiscDone, Finish, Write
  <2>5. CASE CoverFailed(t) \/ DiscFailed(t) \/ TrackFailed(t)
    BY <2>5 DEF CoverFailed, DiscFailed, TrackFailed, GiveUp, Rollback
  <2>6. CASE InsertDisc(t) \/ DiscRow(t)
    <3>1. pc'[t] = "row"
      BY <2>6 DEF InsertDisc, DiscRow, Goto, CallsOK, ThreadsOK
    <3> QED
      BY <2>6, <3>1 DEF InsertDisc, DiscRow, InsertRow, Finish, Write, engine
  <2> QED
    BY <2>2, <2>3, <2>4, <2>5, <2>6 DEF Step
<1> QED
  BY <1>1, <1>2 DEF AtWork, OnlyMoved, EngineOK

----------------------------------------------------------------------------
(* The histories                                                           *)

HistoryOK == /\ status \in Results
             /\ astray \subseteq Accidents
             /\ reported \subseteq Discs /\ stores \in 0 .. MaxStores

\* Nothing is under way.
Rest == tx = "none" /\ \A t \in Threads : pc[t] = "idle"

LEMMA StepHistory ==
  ASSUME EngineOK, CallsOK, HistoryOK, NEW t \in Threads, Step(t)
  PROVE  /\ HistoryOK'
         /\ astray \subseteq astray' \/ (Rest' /\ astray' = {})
<1>1. CASE \/ Elsewhere(t) \/ Call(t) \/ GetName(t) \/ NameDone(t) \/ NameEnd(t)
           \/ Begin(t) \/ InsertDisc(t) \/ UpdateDisc(t) \/ SeekTrack(t) \/ AddTrack(t)
  <2>1. astray' = astray /\ reported' = reported
    BY <1>1 DEF Elsewhere, Call, GetName, NameDone, NameEnd, Begin, InsertDisc,
       UpdateDisc, SeekTrack, AddTrack
  <2>2. stores' \in 0 .. MaxStores
    BY <1>1, StoreAssumption
       DEF HistoryOK, Elsewhere, Call, GetName, NameDone, NameEnd, Begin,
       InsertDisc, UpdateDisc, SeekTrack, AddTrack
  <2>3. status' \in Results
    BY <1>1 DEF HistoryOK, Elsewhere, Call, GetName, NameDone, NameEnd, Begin,
       InsertDisc, UpdateDisc, SeekTrack, AddTrack, SelectDisc, InsertName, SelectName,
       InsertRow, Returned, Found, Results
  <2> QED
    BY <2>1, <2>2, <2>3 DEF HistoryOK
<1>2. CASE \/ LookRow(t) \/ NameRow(t) \/ Begun(t) \/ DiscRow(t) \/ DiscDone(t)
           \/ DiscUpdated(t) \/ TrackThere(t) \/ TrackAdded(t)
  <2>1. \E r : Reads(t, r)
    BY <1>2 DEF LookRow, NameRow, Begun, DiscRow, DiscDone, DiscUpdated, TrackThere,
       TrackAdded
  <2>2. astray' = astray \/ astray' = astray \cup {"hidden"}
    BY <2>1 DEF Reads
  <2>3. reported' = reported /\ stores' = stores
    BY <1>2 DEF LookRow, NameRow, Begun, DiscRow, DiscDone, DiscUpdated, TrackThere,
       TrackAdded
  <2>4. status' \in Results
    BY <1>2 DEF HistoryOK, LookRow, NameRow, Begun, DiscRow, DiscDone, DiscUpdated,
       TrackThere, TrackAdded, SelectDisc, InsertName, SelectName, InsertRow, Returned, Found,
       Results
  <2> QED
    BY <2>2, <2>3, <2>4 DEF HistoryOK, Accidents
<1>3. ASSUME NEW more \in SUBSET Accidents, Return(t, more)
      PROVE  /\ astray' \subseteq Accidents
             /\ astray \subseteq astray' \/ (Rest' /\ astray' = {})
  <2>1. pc' = [pc EXCEPT ![t] = "idle"]
    BY <1>3 DEF Return, Goto
  <2>2. AtRest(t) => Rest'
    BY <2>1 DEF AtRest, Rest, CallsOK, ThreadsOK
  <2> QED
    BY <1>3, <2>2 DEF Return, HistoryOK
<1>4. CASE \/ NameFailed(t) \/ BeginFailed(t) \/ CoverFailed(t) \/ DiscFailed(t)
           \/ TrackFailed(t)
  <2>1. \E more \in SUBSET Accidents : Return(t, more)
    BY <1>4 DEF NameFailed, BeginFailed, CoverFailed, DiscFailed, TrackFailed,
       GiveUp, Accidents
  <2>2. reported' = reported /\ stores' = stores /\ status' = status
    BY <1>4 DEF NameFailed, BeginFailed, CoverFailed, DiscFailed, TrackFailed, GiveUp
  <2> QED
    BY <1>3, <2>1, <2>2 DEF HistoryOK
<1>5. CASE LookEnd(t)
  <2>1. Return(t, {}) \/ astray' = astray
    BY <1>5 DEF LookEnd
  <2>2. reported' = reported /\ stores' = stores /\ status' = "OK"
    BY <1>5 DEF LookEnd
  <2> QED
    BY <1>3, <2>1, <2>2 DEF HistoryOK, Results
<1>6. CASE Commit(t)
  <2>1. Return(t, IF CanCommit THEN {} ELSE {"commit"}) /\ stores' = stores
        /\ status' \in {"OK", "ERROR"} /\ reported' \subseteq reported \cup {disc[t]}
    BY <1>6 DEF Commit
  <2>2. disc[t] \in Discs
    BY <1>6 DEF Commit, CallsOK, Called
  <2>3. (IF CanCommit THEN {} ELSE {"commit"}) \in SUBSET Accidents
    BY DEF Accidents
  <2> QED
    BY <1>3, <2>1, <2>2, <2>3 DEF HistoryOK, Results
<1> QED
  BY <1>1, <1>2, <1>4, <1>5, <1>6 DEF Step

----------------------------------------------------------------------------
(* The types                                                               *)

BaseInv == EngineInv /\ CallsOK /\ AtWork /\ HistoryOK

LEMMA InitBase ==
  ASSUME Init
  PROVE  BaseInv
<1>1. mem \in Tables /\ mem.disc = <<>> /\ DOMAIN mem.disc = {}
  BY DEF Init, Tables
<1>2. EngineInv
  BY <1>1 DEF Init, EngineInv, EngineOK, Quiet, Extends, Unique
<1>3. CallsOK
  BY StoreAssumption DEF Init, CallsOK, ThreadsOK, Called, Results, Outside
<1> QED
  BY <1>2, <1>3, StoreAssumption DEF Init, BaseInv, AtWork, HistoryOK, Results, Accidents

LEMMA BaseStep ==
  ASSUME BaseInv, NEW t \in Threads, Step(t)
  PROVE  /\ BaseInv' /\ DiskGrows /\ EngineStep(t) /\ OnlyMoved(t)
         /\ astray \subseteq astray' \/ (Rest' /\ astray' = {} /\ mem' = disk')
<1>1. EngineInv /\ EngineOK /\ CallsOK /\ AtWork /\ HistoryOK
  BY DEF BaseInv, EngineInv
<1>2. EngineStep(t)
  BY <1>1, StepEngine
<1>3. EngineInv' /\ DiskGrows
  BY <1>1, <1>2, EngineStepInv
<1>4. OnlyMoved(t) /\ CallsOK'
  BY <1>1, StepMoves
<1>5. AtWork'
  BY <1>1, StepAtWork
<1>6. HistoryOK' /\ (astray \subseteq astray' \/ (Rest' /\ astray' = {}))
  BY <1>1, StepHistory
<1>7. Rest' => mem' = disk'
  BY <1>3, <1>5 DEF Rest, AtWork, EngineInv, EngineOK, Quiet
<1> QED
  BY <1>2, <1>3, <1>4, <1>5, <1>6, <1>7 DEF BaseInv

LEMMA BaseStutter ==
  ASSUME BaseInv, UNCHANGED vars
  PROVE  BaseInv' /\ DiskGrows
<1> USE DEF vars, engine
<1>1. EngineInv' /\ DiskGrows
  BY DEF BaseInv, EngineInv, EngineOK, Quiet, Extends, Unique, DiskGrows
<1>2. CallsOK'
  BY DEF BaseInv, CallsOK, ThreadsOK, Called
<1> QED
  BY <1>1, <1>2 DEF BaseInv, AtWork, HistoryOK

LEMMA BaseIsInvariant == Spec => []BaseInv
<1>1. BaseInv /\ [Next]_vars => BaseInv'
  BY BaseStep, BaseStutter, NextIsStep
<1> QED
  BY <1>1, InitBase, PTL DEF Spec

\* The variables stay in their types, whatever the threads read of each
\* other's results: rows and numbers of tracks are never out of range.
THEOREM StoreTypeCorrect == Spec => []TypeOK
<1>1. BaseInv => TypeOK
  BY DEF BaseInv, EngineInv, EngineOK, CallsOK, ThreadsOK, HistoryOK, TypeOK
<1> QED
  BY <1>1, BaseIsInvariant, PTL

----------------------------------------------------------------------------
(* The transaction as a lock                                               *)

\* Outside a transaction, discs and tracks are committed.
Settled == tx = "none" => mem.disc = disk.disc /\ mem.track = disk.track

Same     == mem.disc = disk.disc
Fresh(t) == mem.disc = Append(disk.disc, disc[t])
Last     == Len(disk.disc) + 1

\* How far the store that holds the transaction has come
Progress(t) ==
    /\ pc[t] \in {"begun", "insert", "update", "updated"} => Same
    /\ pc[t] = "insert" => id[t] = -1
    /\ pc[t] = "row" => \/ Same /\ got[t] # "ROW" /\ id[t] = -1
                        \/ Fresh(t) /\ got[t] = "ROW" /\ row[t] = Last
                        \/ Fresh(t) /\ got[t] # "ROW" /\ id[t] = Last
    /\ pc[t] \in {"seek", "sought", "added"} => Same \/ (Fresh(t) /\ id[t] = Last)
    /\ \A n \in 1 .. Tracks : n < num[t] => <<id[t], n>> \in mem.track
    /\ pc[t] = "sought" /\ got[t] = "ROW"  => <<id[t], num[t]>> \in mem.track
    /\ pc[t] = "added"  /\ got[t] = "DONE" => <<id[t], num[t]>> \in mem.track
    /\ \A x \in mem.track : x \in disk.track \/ x[1] = id[t]
    /\ pc[t] \in {"begun", "insert", "row", "update", "updated"} => mem.track = disk.track

Alone == \A t, u \in Threads : Holds(t) /\ Holds(u) => t = u
Open  == \A t \in Threads : Holds(t) => tx = "open"
Owned == tx = "open" => astray # {} \/ \E t \in Threads : Holds(t)

LockInv ==
    "hidden" \notin astray =>
        /\ Alone /\ Open /\ Owned /\ Settled
        /\ \A t \in Threads : Holds(t) => Progress(t)

\* While a store holds the transaction, the others change names only.
LEMMA OthersWait ==
  ASSUME BaseInv, LockInv, "hidden" \notin astray,
         NEW t \in Threads, NEW u \in Threads, t # u, Holds(u), Step(t)
  PROVE  /\ ~Holds(t) /\ tx = "open" /\ tx' = "open" /\ disk' = disk
         /\ mem'.disc = mem.disc /\ mem'.track = mem.track
         /\ Holds(u)' /\ Progress(u)'
<1>1. ~Holds(t) /\ tx = "open" /\ Progress(u)
  BY DEF LockInv, Alone, Open
<1>2. EngineStep(t) /\ OnlyMoved(t)
  BY BaseStep
<1>3. pc[t] \notin Inside
  BY <1>1 DEF Holds
<1>4. UNCHANGED engine \/ NamesStep \/ BeginStep
  <2>1. ~Commit(t)
    BY <1>3 DEF Commit, Inside
  <2> QED
    BY <1>2, <1>3, <2>1 DEF EngineStep, Inside
<1>5. tx' = "open" /\ disk' = disk /\ mem'.disc = mem.disc /\ mem'.track = mem.track
  BY <1>1, <1>4 DEF engine, NamesStep, Write, BeginStep
<1>6. /\ pc'[u] = pc[u] /\ got'[u] = got[u] /\ disc'[u] = disc[u] /\ id'[u] = id[u]
      /\ num'[u] = num[u] /\ row'[u] = row[u]
  BY <1>2 DEF OnlyMoved
<1>7. Holds(u)'
  BY <1>6 DEF Holds
<1>8. Progress(u)'
  BY <1>1, <1>5, <1>6 DEF Progress, Same, Fresh, Last
<1> QED
  BY <1>1, <1>5, <1>7, <1>8

\* A store that holds the transaction afterwards has held it before, or has
\* begun it.
LEMMA HoldsFromBegin ==
  ASSUME BaseInv, LockInv, "hidden" \notin astray', "hidden" \notin astray,
         NEW t \in Threads, Step(t), Holds(t)'
  PROVE  \/ Holds(t) /\ ~Begin(t)
         \/ Begin(t) /\ tx = "none"
<1>1. pc \in [Threads -> Outside \cup Inside] /\ got \in [Threads -> Results]
  BY DEF BaseInv, CallsOK, ThreadsOK
<1>2. CASE \/ Elsewhere(t) \/ Call(t) \/ LookRow(t) \/ LookEnd(t) \/ GetName(t) \/ NameDone(t)
           \/ NameRow(t) \/ NameEnd(t)
  BY <1>1, <1>2 DEF Elsewhere, Call, LookRow, LookEnd, GetName, NameDone, NameRow, NameEnd,
     Goto, Return, Holds, Inside
<1>3. CASE NameFailed(t) \/ BeginFailed(t) \/ Commit(t) \/ CoverFailed(t) \/ DiscFailed(t) \/ TrackFailed(t)
  BY <1>1, <1>3 DEF NameFailed, BeginFailed, Commit, CoverFailed, DiscFailed, TrackFailed, GiveUp,
     Goto, Return, Holds, Inside
<1>4. CASE Begin(t)
  <2>1. tx # "open"
    BY <1>1, <1>4 DEF Begin, Returned, Found, Goto, Holds, Inside
  <2> QED
    BY <1>4, <2>1 DEF BaseInv, EngineInv, EngineOK
<1>5. CASE Begun(t)
  BY <1>5 DEF Begun, Reads, Holds, Begin
<1>6. CASE \/ InsertDisc(t) \/ DiscRow(t) \/ DiscDone(t)
           \/ UpdateDisc(t) \/ DiscUpdated(t)
           \/ SeekTrack(t) \/ TrackThere(t) \/ AddTrack(t) \/ TrackAdded(t)
  BY <1>6 DEF InsertDisc, DiscRow, DiscDone, UpdateDisc, DiscUpdated, SeekTrack,
     TrackThere, AddTrack, TrackAdded, Holds, Inside, Begin
<1> QED
  BY <1>2, <1>3, <1>4, <1>5, <1>6 DEF Step

LEMMA OwnProgress ==
  ASSUME BaseInv, LockInv, "hidden" \notin astray', "hidden" \notin astray,
         NEW t \in Threads, Step(t), Holds(t)'
  PROVE  Progress(t)' /\ tx' = "open"
<1>1. /\ EngineOK /\ ThreadsOK /\ Called(t)
      /\ Holds(t) => Progress(t) /\ tx = "open"
      /\ Settled
  BY DEF BaseInv, EngineInv, CallsOK, LockInv, Open
<1>h. (Holds(t) /\ ~Begin(t)) \/ (Begin(t) /\ tx = "none")
  BY HoldsFromBegin
<1>r. ASSUME NEW r, Reads(t, r) PROVE got[t] = r
  BY <1>r DEF Reads
<1>f. ASSUME Finish(t), tx = "open"
      PROVE  mem' = mem /\ disk' = disk /\ tx' = "open"
  BY <1>f DEF Finish, Write
<1>2. CASE Begin(t)
  <2>1. /\ Same /\ mem.track = disk.track /\ mem' = mem /\ disk' = disk /\ tx' = "open"
        /\ pc'[t] = "begun" /\ num'[t] = 1
    BY <1>1, <1>2, <1>h DEF Begin, Settled, Same, Goto, Called, ThreadsOK, Holds, Inside
  <2> QED
    BY <2>1, StoreAssumption DEF Progress, Same
<1>3. CASE Holds(t) /\ ~Begin(t)
  <2>1. Progress(t) /\ tx = "open"
    BY <1>1, <1>3
  <2> USE <2>1, <1>1
  <2>2. CASE Begun(t)
    <3>1. /\ pc'[t] = (IF id[t] = -1 THEN "insert" ELSE "update") /\ pc[t] = "begun"
          /\ UNCHANGED <<mem, disk, tx, got, row, disc, id, num>>
      BY <2>2 DEF Begun, Goto, ThreadsOK, engine
    <3> QED
      BY <3>1 DEF Progress, Same, Fresh, Last
  <2>3. CASE InsertDisc(t)
    <3>1. /\ pc[t] = "insert" /\ pc'[t] = "row" /\ UNCHANGED <<disc, id, num>>
          /\ Same /\ id[t] = -1 /\ mem.track = disk.track
          /\ num[t] = 1 /\ disc[t] \in Discs
      BY <2>3 DEF InsertDisc, Goto, ThreadsOK, Progress, Called
    <3>2. /\ \A n \in 1 .. Tracks : ~(n < num'[t])
          /\ id'[t] = -1
      BY <3>1, StoreAssumption
    <3>3. CASE /\ Row(disc[t]) = 0
               /\ Write([mem EXCEPT !.disc = Append(@, disc[t])], active \cup {t})
               /\ Found(t, "ROW", Len(mem.disc) + 1)
      <4>1. /\ mem'.disc = Append(mem.disc, disc[t]) /\ mem'.track = mem.track
            /\ disk' = disk /\ tx' = "open"
        <5> DEFINE new == [mem EXCEPT !.disc = Append(@, disc[t])]
        <5>1. new.disc = Append(mem.disc, disc[t]) /\ new.track = mem.track
          BY <3>1, DiscTables
        <5>2. Write(new, active \cup {t})
          BY <3>3
        <5> HIDE DEF new
        <5> QED
          BY <5>1, <5>2 DEF Write
      <4>2. got'[t] = "ROW" /\ row'[t] = Len(mem.disc) + 1
        BY <3>3 DEF Found, ThreadsOK
      <4> QED
        BY <3>1, <3>2, <4>1, <4>2 DEF Progress, Same, Fresh, Last
    <3>4. CASE UNCHANGED engine /\ \E r \in {"DONE", "ERROR"} : Returned(t, r)
      <4>1. got'[t] # "ROW" /\ mem' = mem /\ disk' = disk /\ tx' = "open"
        BY <3>4 DEF Returned, Found, ThreadsOK, engine
      <4> QED
        BY <3>1, <3>2, <4>1 DEF Progress, Same, Fresh, Last
    <3> QED
      BY <2>3, <3>3, <3>4 DEF InsertDisc, InsertRow
  <2>4. CASE DiscRow(t)
    <3>1. got[t] = "ROW" /\ pc[t] = "row" /\ pc' = pc /\ UNCHANGED <<disc, num>>
          /\ id' = [id EXCEPT ![t] = row[t]]
      BY <2>4, <1>r DEF DiscRow
    <3>2. Finish(t) /\ \E r \in {"DONE", "ERROR"} : Returned(t, r)
      BY <2>4, <3>1 DEF DiscRow
    <3>3. mem' = mem /\ disk' = disk /\ tx' = "open" /\ got'[t] # "ROW"
      BY <3>2, <1>f DEF Returned, Found, ThreadsOK
    <3>4. /\ Fresh(t) /\ row[t] = Last /\ mem.track = disk.track /\ num[t] = 1
          /\ id'[t] = Last
      BY <3>1 DEF Progress, Called, ThreadsOK
    <3>5. \A n \in 1 .. Tracks : ~(n < num'[t])
      BY <3>1, <3>4, StoreAssumption
    <3> QED
      BY <3>1, <3>3, <3>4, <3>5 DEF Progress, Same, Fresh, Last
  <2>5. CASE DiscDone(t)
    <3>1. /\ got[t] = "DONE" /\ pc[t] = "row" /\ id[t] # -1 /\ pc'[t] = "seek"
          /\ UNCHANGED <<disc, id, num>> /\ Finish(t)
      BY <2>5, <1>r DEF DiscDone, Goto, ThreadsOK
    <3>2. mem' = mem /\ disk' = disk /\ tx' = "open"
      BY <3>1, <1>f
    <3> QED
      BY <3>1, <3>2 DEF Progress, Same, Fresh, Last
  <2>6. CASE UpdateDisc(t) \/ DiscUpdated(t)
    <3>1. /\ UNCHANGED <<mem, disk, tx, disc, id, num>>
          /\ pc[t] \in {"update", "updated"} /\ pc'[t] \in {"updated", "seek"}
      BY <2>6 DEF UpdateDisc, DiscUpdated, Goto, ThreadsOK, engine
    <3> QED
      BY <3>1 DEF Progress, Same, Fresh, Last
  <2>7. CASE SeekTrack(t)
    <3>1. /\ UNCHANGED <<mem, disk, tx, disc, id, num>>
          /\ pc[t] = "seek" /\ pc'[t] = "sought"
          /\ got'[t] = "ROW" => <<id[t], num[t]>> \in mem.track
      BY <2>7 DEF SeekTrack, Goto, ThreadsOK, engine, Returned, Found
    <3> QED
      BY <3>1 DEF Progress, Same, Fresh, Last
  <2>8. CASE TrackThere(t)
    <3>1. /\ UNCHANGED <<mem, disk, tx, disc, id>>
          /\ pc[t] = "sought" /\ <<id[t], num[t]>> \in mem.track /\ num[t] \in Nat
          /\ \/ pc'[t] = "seek" /\ num'[t] = num[t] + 1
             \/ pc'[t] = "added" /\ num'[t] = num[t]
      BY <2>8, <1>r, StoreAssumption DEF TrackThere, Goto, ThreadsOK, engine, Progress
    <3>2. \A n \in 1 .. Tracks : n < num'[t] => <<id[t], n>> \in mem.track
      BY <3>1, StoreAssumption DEF Progress
    <3> QED
      BY <3>1, <3>2 DEF Progress, Same, Fresh, Last
  <2>9. CASE AddTrack(t)
    <3>1. /\ UNCHANGED <<disc, id, num>> /\ pc[t] = "sought" /\ pc'[t] = "added"
          /\ id[t] \in Nat /\ num[t] \in 1 .. Tracks
      BY <2>9, StoreAssumption DEF AddTrack, Goto, ThreadsOK, Called
    <3>2. /\ mem'.disc = mem.disc /\ disk' = disk /\ tx' = "open"
          /\ \/ mem'.track = mem.track \cup {<<id[t], num[t]>>}
             \/ mem'.track = mem.track /\ got'[t] # "DONE"
      <4>1. CASE Write([mem EXCEPT !.track = @ \cup {<<id[t], num[t]>>}], active)
        <5> DEFINE new == [mem EXCEPT !.track = @ \cup {<<id[t], num[t]>>}]
        <5>1. new.disc = mem.disc /\ new.track = mem.track \cup {<<id[t], num[t]>>}
          BY <3>1, TrackTables
        <5>2. Write(new, active)
          BY <4>1
        <5> HIDE DEF new
        <5> QED
          BY <5>1, <5>2 DEF Write
      <4>2. CASE Returned(t, "ERROR") /\ UNCHANGED engine
        BY <4>2 DEF Returned, Found, ThreadsOK, engine
      <4> QED
        BY <2>9, <4>1, <4>2 DEF AddTrack
    <3> QED
      BY <3>1, <3>2 DEF Progress, Same, Fresh, Last
  <2>10. CASE TrackAdded(t)
    <3>1. /\ UNCHANGED <<mem, disk, tx, disc, id>>
          /\ pc[t] = "added" /\ <<id[t], num[t]>> \in mem.track /\ num[t] \in Nat
          /\ pc'[t] = "seek" /\ num'[t] = num[t] + 1
      BY <2>10, <1>r, StoreAssumption DEF TrackAdded, Goto, ThreadsOK, engine, Progress
    <3>2. \A n \in 1 .. Tracks : n < num'[t] => <<id[t], n>> \in mem.track
      BY <3>1, StoreAssumption DEF Progress
    <3> QED
      BY <3>1, <3>2 DEF Progress, Same, Fresh, Last
  <2>11. CASE NameFailed(t) \/ BeginFailed(t) \/ Commit(t) \/ CoverFailed(t) \/ DiscFailed(t) \/ TrackFailed(t)
    BY <2>11 DEF NameFailed, BeginFailed, Commit, CoverFailed, DiscFailed, TrackFailed, GiveUp,
       Goto, Return, Holds, Inside, ThreadsOK
  <2>12. CASE \/ Elsewhere(t) \/ Call(t) \/ LookRow(t) \/ LookEnd(t) \/ GetName(t) \/ NameDone(t)
              \/ NameRow(t) \/ NameEnd(t)
    BY <1>3, <2>12 DEF Elsewhere, Call, LookRow, LookEnd, GetName, NameDone, NameRow, NameEnd,
       Holds, Inside
  <2> QED
    BY <1>3, <2>2, <2>3, <2>4, <2>5, <2>6, <2>7, <2>8, <2>9, <2>10, <2>11, <2>12 DEF Step
<1> QED
  BY <1>h, <1>2, <1>3

\* A transaction that stays open without an owner is an accident, and what is
\* written outside a transaction is committed.
LEMMA OwnerOrAccident ==
  ASSUME BaseInv, LockInv, "hidden" \notin astray', "hidden" \notin astray,
         NEW t \in Threads, Step(t)
  PROVE  Owned' /\ Settled'
<1>1. /\ EngineOK /\ ThreadsOK /\ Settled /\ Owned /\ Open /\ EngineStep(t)
      /\ astray \subseteq astray' \/ tx' = "none"
  BY BaseStep DEF BaseInv, EngineInv, CallsOK, LockInv, Rest
<1>2. pc[t] \in Inside => tx = "open"
  BY <1>1 DEF Open, Holds
<1>3. Settled'
  <2> SUFFICES ASSUME tx' = "none" PROVE mem'.disc = disk'.disc /\ mem'.track = disk'.track
    BY DEF Settled
  <2>1. CASE UNCHANGED engine \/ BeginStep \/ CommitStep
    BY <1>1, <2>1 DEF engine, Settled, BeginStep, CommitStep
  <2>2. CASE NamesStep
    BY <1>1, <2>2 DEF NamesStep, Write, Settled
  <2>3. CASE (DiscStep(t) \/ TrackStep(t)) /\ pc[t] \in Inside
    BY <1>2, <2>3 DEF DiscStep, TrackStep, Write
  <2>4. CASE Rollback(t) /\ pc[t] \in Inside
    BY <1>2, <2>4 DEF Rollback
  <2> QED
    BY <1>1, <2>1, <2>2, <2>3, <2>4 DEF EngineStep, Inside
<1>4. ASSUME astray' = {}, tx' = "open"
      PROVE  \E u \in Threads : Holds(u)'
  <2>1. astray = {}
    BY <1>1, <1>4
  <2>2. CASE tx # "open"
    <3>1. pc[t] = "begin"
      BY <1>1, <1>2, <1>4, <2>2
         DEF EngineStep, engine, NamesStep, DiscStep, TrackStep, CommitStep, Rollback, Write, Inside
    <3>2. Begin(t) \/ Elsewhere(t) \/ Call(t)
      BY <3>1 DEF Step, LookRow, LookEnd, GetName, NameDone, NameRow, NameEnd, NameFailed,
         Begun, BeginFailed, CoverFailed, InsertDisc, DiscRow, DiscDone, UpdateDisc,
         DiscUpdated, DiscFailed, SeekTrack, TrackThere, AddTrack, TrackAdded,
         TrackFailed, Commit
    <3>3. Begin(t)
      BY <3>1, <3>2 DEF Elsewhere, Call
    <3>4. pc'[t] = "begun" /\ got'[t] = "OK"
      BY <1>1, <2>2, <3>3 DEF Begin, Goto, Returned, Found, ThreadsOK
    <3> QED
      BY <3>4 DEF Holds
  <2>3. CASE tx = "open"
    <3>1. PICK u \in Threads : Holds(u)
      BY <1>1, <2>1, <2>3 DEF Owned
    <3>2. CASE u # t
      BY <3>1, <3>2, OthersWait
    <3>3. CASE u = t
      <4>1. CASE \/ Elsewhere(t) \/ Call(t) \/ LookRow(t) \/ LookEnd(t) \/ GetName(t)
                 \/ NameDone(t) \/ NameRow(t) \/ NameEnd(t) \/ NameFailed(t) \/ Begin(t)
        BY <3>1, <3>3, <4>1 DEF Elsewhere, Call, LookRow, LookEnd, GetName, NameDone,
           NameRow, NameEnd, NameFailed, Begin, Holds, Inside
      <4>2. CASE CoverFailed(t) \/ DiscFailed(t) \/ TrackFailed(t)
        BY <1>4, <4>2 DEF CoverFailed, DiscFailed, TrackFailed, GiveUp, Rollback
      <4>3. CASE BeginFailed(t)
        <5>1. got[t] = "OK"
          BY <3>1, <3>3, <4>3 DEF BeginFailed, Holds, Inside
        <5>2. Return(t, {"left"})
          BY <4>3, <5>1 DEF BeginFailed
        <5> QED
          BY <1>4, <5>2 DEF Return, AtRest
      <4>4. CASE Commit(t)
        <5>1. CASE CanCommit
          BY <1>4, <4>4, <5>1 DEF Commit, DoCommit
        <5>2. CASE ~CanCommit
          BY <1>4, <4>4, <5>2 DEF Commit, Return, AtRest
        <5> QED
          BY <5>1, <5>2
      <4>5. CASE Begun(t) \/ InsertDisc(t) \/ UpdateDisc(t) \/ DiscDone(t) \/ DiscUpdated(t)
        BY <1>1, <4>5 DEF Begun, InsertDisc, UpdateDisc, DiscDone, DiscUpdated, Goto,
           ThreadsOK, Holds, Inside
      <4>6. CASE DiscRow(t)
        BY <4>6 DEF DiscRow, Holds, Inside
      <4>7. CASE SeekTrack(t) \/ TrackThere(t) \/ AddTrack(t) \/ TrackAdded(t)
        BY <1>1, <4>7 DEF SeekTrack, TrackThere, AddTrack, TrackAdded, Goto, ThreadsOK,
           Holds, Inside
      <4> QED
        BY <4>1, <4>2, <4>3, <4>4, <4>5, <4>6, <4>7 DEF Step
    <3> QED
      BY <3>2, <3>3
  <2> QED
    BY <2>2, <2>3
<1> QED
  BY <1>3, <1>4 DEF Owned

LEMMA LockStep ==
  ASSUME BaseInv, LockInv, NEW t \in Threads, Step(t)
  PROVE  LockInv'
<1> SUFFICES ASSUME "hidden" \notin astray'
             PROVE  (/\ Alone /\ Open /\ Owned /\ Settled
                     /\ \A u \in Threads : Holds(u) => Progress(u))'
  BY DEF LockInv
<1>1. astray \subseteq astray' \/ (Rest' /\ mem' = disk')
  BY BaseStep
<1>2. CASE Rest' /\ mem' = disk'
  <2>1. \A u \in Threads : ~Holds(u)'
    BY <1>2 DEF Rest, Holds, Inside
  <2> QED
    BY <1>2, <2>1 DEF Rest, Alone, Open, Owned, Settled
<1>3. CASE "hidden" \notin astray
  <2>1. Owned' /\ Settled'
    BY <1>3, OwnerOrAccident
  <2>2. Alone /\ OnlyMoved(t)
    BY <1>3, BaseStep DEF LockInv
  <2>3. ASSUME NEW u \in Threads, u # t, Holds(u)'
        PROVE  Holds(u) /\ Progress(u)' /\ tx' = "open" /\ ~Holds(t)'
    <3>1. Holds(u)
      BY <2>2, <2>3 DEF OnlyMoved, Holds
    <3>2. Progress(u)' /\ tx' = "open" /\ ~Holds(t) /\ tx = "open"
      BY <1>3, <2>3, <3>1, OthersWait
    <3>3. ~Holds(t)'
      BY <1>3, <3>2, HoldsFromBegin
    <3> QED
      BY <3>1, <3>2, <3>3
  <2>4. Holds(t)' => Progress(t)' /\ tx' = "open"
    BY <1>3, OwnProgress
  <2>5. Open' /\ \A u \in Threads : Holds(u)' => Progress(u)'
    BY <2>3, <2>4 DEF Open
  <2>6. Alone'
    BY <2>2, <2>3 DEF Alone
  <2> QED
    BY <2>1, <2>5, <2>6
<1> QED
  BY <1>1, <1>2, <1>3

LEMMA LockIsInvariant == Spec => [](BaseInv /\ LockInv)
<1>1. Init => LockInv
  BY DEF Init, LockInv, Alone, Open, Owned, Settled, Holds, Inside
<1>2. LockInv /\ UNCHANGED vars => LockInv'
  BY DEF vars, engine, LockInv, Alone, Open, Owned, Settled, Holds, Progress, Same, Fresh, Last
<1>3. BaseInv /\ LockInv /\ [Next]_vars => (BaseInv /\ LockInv)'
  BY <1>2, BaseStep, BaseStutter, LockStep, NextIsStep
<1> QED
  BY <1>1, <1>3, InitBase, PTL DEF Spec

\* BEGIN is a lock for as long as no test hides a failure: it fails for every
\* thread but one, and a transaction is left open after an accident only.
THEOREM BeginIsLock == Spec => []OneTransaction
<1>1. LockInv => OneTransaction
  BY DEF LockInv, Alone, Open, Owned, OneTransaction
<1> QED
  BY <1>1, LockIsInvariant, PTL

----------------------------------------------------------------------------
(* Discs are committed whole                                               *)

\* What the COMMIT of a store that holds the transaction adds
LEMMA CommitAdds ==
  ASSUME BaseInv, LockInv, "hidden" \notin astray, NEW t \in Threads, Commit(t), CommitStep
  PROVE  /\ \A n \in 1 .. Tracks : <<id[t], n>> \in disk'.track
         /\ \A x \in disk'.track : x \in disk.track \/ x[1] = id[t]
         /\ disk'.disc = disk.disc \/ (disk'.disc = Append(disk.disc, disc[t]) /\ id[t] = Last)
<1>1. pc[t] = "seek" /\ ~(num[t] <= Tracks) /\ disk' = mem /\ num[t] \in 1 .. Tracks + 1
  BY DEF Commit, CommitStep, TracksLeft, BaseInv, CallsOK, ThreadsOK
<1>2. Progress(t)
  BY <1>1 DEF LockInv, Holds, Inside
<1>3. \A n \in 1 .. Tracks : n < num[t]
  BY <1>1, StoreAssumption
<1> QED
  BY <1>1, <1>2, <1>3 DEF Progress, Same, Fresh

LEMMA WholeStep ==
  ASSUME BaseInv, LockInv, "hidden" \notin astray, NEW t \in Threads, Step(t)
  PROVE  /\ \A i \in DOMAIN disk'.disc \ DOMAIN disk.disc : Whole(i)'
         /\ ~CommitStep \/ ~Commit(t) =>
              disk'.disc = disk.disc /\ disk'.track = disk.track
<1>1. Settled /\ EngineOK /\ EngineStep(t) /\ (pc[t] \in Inside => tx = "open")
  BY BaseStep DEF LockInv, Open, Holds, BaseInv, EngineInv
<1>2. CASE CommitStep /\ Commit(t)
  <2>1. DOMAIN disk'.disc \ DOMAIN disk.disc \subseteq {id[t]}
    <3>1. CASE disk'.disc = disk.disc
      BY <3>1
    <3>2. CASE disk'.disc = Append(disk.disc, disc[t]) /\ id[t] = Last
      <4>1. disk.disc \in Seq(Discs) /\ disc[t] \in Discs
        BY <1>1, <1>2 DEF EngineOK, Tables, Commit, BaseInv, CallsOK, Called
      <4>2. DOMAIN disk'.disc = 1 .. Len(disk.disc) + 1 /\ DOMAIN disk.disc = 1 .. Len(disk.disc)
            /\ Len(disk.disc) \in Nat
        BY <3>2, <4>1, AppendProperties, LenProperties
      <4> QED
        BY <3>2, <4>2 DEF Last
    <3> QED
      BY <1>2, <3>1, <3>2, CommitAdds
  <2>2. \A n \in 1 .. Tracks : <<id[t], n>> \in disk'.track
    BY <1>2, CommitAdds
  <2> QED
    BY <1>2, <2>1, <2>2 DEF Whole
<1>3. CASE ~(CommitStep /\ Commit(t))
  <2>1. disk'.disc = disk.disc /\ disk'.track = disk.track
    <3>1. CASE UNCHANGED engine \/ BeginStep
      BY <3>1 DEF engine, BeginStep
    <3>2. CASE NamesStep
      BY <1>1, <3>2 DEF NamesStep, Write, Settled
    <3>3. CASE (DiscStep(t) \/ TrackStep(t)) /\ pc[t] \in Inside
      BY <1>1, <3>3 DEF DiscStep, TrackStep, Write
    <3>4. CASE Rollback(t) /\ pc[t] \in Inside
      BY <1>1, <3>4 DEF Rollback
    <3> QED
      BY <1>1, <1>3, <3>1, <3>2, <3>3, <3>4 DEF EngineStep, Inside
  <2> QED
    BY <2>1
<1> QED
  BY <1>2, <1>3

\* Whatever fails or meets another store: what is committed stays, and as long
\* as no failure is hidden from a store under way, what is new has all its tracks.
THEOREM StoredDiscIsWhole == Spec => DiscIsWhole
<1>1. DiskGrows => \A i \in DOMAIN disk.disc :
                     disk'.disc[i] = disk.disc[i] /\ (Whole(i) => Whole(i)')
  BY DEF DiskGrows, Whole
<1>2. BaseInv /\ LockInv /\ [Next]_vars =>
        [/\ \A i \in DOMAIN disk.disc :
               disk'.disc[i] = disk.disc[i] /\ (Whole(i) => Whole(i)')
         /\ "hidden" \notin astray =>
               \A i \in DOMAIN disk'.disc \ DOMAIN disk.disc : Whole(i)' ]_vars
  <2> SUFFICES ASSUME BaseInv, LockInv, [Next]_vars, ~UNCHANGED vars
               PROVE  /\ \A i \in DOMAIN disk.disc :
                            disk'.disc[i] = disk.disc[i] /\ (Whole(i) => Whole(i)')
                      /\ "hidden" \notin astray =>
                            \A i \in DOMAIN disk'.disc \ DOMAIN disk.disc : Whole(i)'
    OBVIOUS
  <2>1. PICK t \in Threads : Step(t)
    BY NextIsStep
  <2>2. DiskGrows
    BY <2>1, BaseStep
  <2> QED
    BY <1>1, <2>1, <2>2, WholeStep
<1> QED
  BY <1>2, LockIsInvariant, PTL DEF Spec, DiscIsWhole

----------------------------------------------------------------------------
(* Reported discs                                                          *)

\* What a store knows while there has been no accident: that its names are
\* there, and that its row is one of its disc.
IsRow(i, d) == i \in DOMAIN mem.disc /\ mem.disc[i] = d

Known(t) ==
    /\ pc[t] \in {"ended", "begin", "begun"} \cup Inside => disc[t] \in mem.names
    /\ pc[t] \in {"named", "found"} /\ got[t] = "ROW" => disc[t] \in mem.names
    /\ pc[t] \in {"look", "row"} /\ got[t] = "ROW" => IsRow(row[t], disc[t])
    /\ id[t] # -1 => IsRow(id[t], disc[t])

KeptInv == /\ ReportedIsStored /\ NamesExist
           /\ astray = {} => \A t \in Threads : Known(t)

\* Until a ROLLBACK, what is seen grows.
MemGrows == /\ mem.names \subseteq mem'.names
            /\ \A i, d : IsRow(i, d) => IsRow(i, d)'

LEMMA StepGrows ==
  ASSUME BaseInv, NEW t \in Threads, Step(t), ~GiveUp(t)
  PROVE  MemGrows
<1>1. EngineOK /\ CallsOK /\ EngineStep(t)
  BY BaseStep DEF BaseInv, EngineInv
<1>2. CASE UNCHANGED engine \/ BeginStep \/ CommitStep
  BY <1>2 DEF engine, BeginStep, CommitStep, MemGrows, IsRow
<1>3. CASE NamesStep
  BY <1>3 DEF NamesStep, Write, MemGrows, IsRow
<1>4. CASE DiscStep(t) /\ pc[t] \in {"insert", "row"}
  <2> DEFINE new == [mem EXCEPT !.disc = Append(@, disc[t])]
  <2>1. disc[t] \in Discs
    BY <1>1, <1>4 DEF CallsOK, Called
  <2>2. /\ new.names = mem.names
        /\ \A i \in DOMAIN mem.disc : i \in DOMAIN new.disc /\ new.disc[i] = mem.disc[i]
    BY <1>1, <2>1, DiscTables
  <2>3. mem' = new
    BY <1>4 DEF DiscStep, Write
  <2> HIDE DEF new
  <2> QED
    BY <2>2, <2>3 DEF MemGrows, IsRow
<1>5. CASE TrackStep(t) /\ pc[t] = "sought"
  <2>1. id[t] \in Nat /\ num[t] \in 1 .. Tracks
    BY <1>1, <1>5, StoreAssumption DEF CallsOK, ThreadsOK, Called
  <2> DEFINE new == [mem EXCEPT !.track = @ \cup {<<id[t], num[t]>>}]
  <2>2. new.names = mem.names /\ new.disc = mem.disc
    BY <1>1, <2>1, TrackTables
  <2>3. mem' = new
    BY <1>5 DEF TrackStep, Write
  <2> HIDE DEF new
  <2> QED
    BY <2>2, <2>3 DEF MemGrows, IsRow
<1> QED
  BY <1>1, <1>2, <1>3, <1>4, <1>5 DEF EngineStep

\* What a step finds out for its own thread
LEMMA StepKnows ==
  ASSUME BaseInv, NEW t \in Threads, Step(t), Known(t), MemGrows, astray' = {}, astray = {},
         CallsOK'
  PROVE  Known(t)'
<1>1. EngineOK /\ ThreadsOK /\ Called(t) /\ Called(t)'
  BY DEF BaseInv, EngineInv, CallsOK
<1>r. ASSUME NEW r, Reads(t, r) PROVE got[t] = r
  BY <1>r DEF Reads
<1> USE <1>1
<1>2. CASE pc'[t] = "idle"
  BY <1>2 DEF Known, Called, Inside
<1>s. ASSUME NEW d, SelectDisc(t, d), got'[t] = "ROW"
      PROVE  IsRow(row'[t], d)
  <2>1. row'[t] = Row(d) /\ Row(d) # 0
    BY <1>s DEF SelectDisc, Found, Returned, ThreadsOK
  <2> QED
    BY <2>1, RowType DEF IsRow
<1>3. CASE Call(t)
  <2>1. PICK d \in Discs : disc' = [disc EXCEPT ![t] = d] /\ SelectDisc(t, d)
    BY <1>3 DEF Call
  <2>2. pc'[t] = "look" /\ disc'[t] = d /\ id'[t] = -1 /\ mem' = mem
    BY <1>3, <2>1 DEF Call, Goto, ThreadsOK, Called, engine
  <2>3. got'[t] = "ROW" => IsRow(row'[t], d)
    BY <1>s, <2>1
  <2> QED
    BY <2>2, <2>3 DEF Known, IsRow, Inside
<1>4. CASE LookRow(t)
  <2>1. /\ got[t] = "ROW" /\ pc[t] = "look" /\ pc'[t] = "look" /\ id'[t] = row[t]
        /\ disc' = disc /\ mem' = mem
    BY <1>4, <1>r DEF LookRow, ThreadsOK, engine
  <2>2. got'[t] = "DONE"
    BY <1>4, <2>1 DEF LookRow, Returned, Found, ThreadsOK
  <2> QED
    BY <2>1, <2>2 DEF Known, IsRow, Inside
<1>5. CASE LookEnd(t) /\ pc'[t] # "idle"
  BY <1>5 DEF LookEnd, Return, Goto, Returned, Found, ThreadsOK, Known, IsRow, engine, Inside
<1>i. ASSUME InsertName(t), disc' = disc, got'[t] = "ROW"
      PROVE  disc'[t] \in mem'.names
  <2>1. /\ disc[t] \notin mem.names
        /\ Write([mem EXCEPT !.names = @ \cup {disc[t]}], active \cup {t})
    BY <1>i DEF InsertName, Returned, Found, ThreadsOK
  <2> QED
    BY <1>i, <2>1 DEF Write, EngineOK, Tables
<1>6. CASE GetName(t)
  <2>1. pc[t] = "name" /\ pc'[t] = "named" /\ disc' = disc /\ id' = id
    BY <1>6 DEF GetName, Goto, ThreadsOK
  <2>2. got'[t] = "ROW" => disc'[t] \in mem'.names
    BY <1>6, <1>i, <2>1 DEF GetName
  <2> QED
    BY <2>1, <2>2 DEF Known, MemGrows, Inside
<1>7. CASE NameDone(t)
  BY <1>7 DEF NameDone, SelectName, Finish, Write, Goto, Returned, Found, ThreadsOK, Known, IsRow, Inside
<1>8. CASE NameRow(t)
  <2>1. /\ got[t] = "ROW" /\ pc'[t] = "ended" /\ disc' = disc /\ id' = id
        /\ pc[t] \in {"named", "found", "ended"}
    BY <1>8, <1>r DEF NameRow, Goto, ThreadsOK
  <2> QED
    BY <2>1 DEF Known, MemGrows, Inside
<1>9. CASE NameEnd(t)
  BY <1>9 DEF NameEnd, Goto, ThreadsOK, Known, MemGrows, Inside
<1>10. CASE Begin(t)
  BY <1>10 DEF Begin, Goto, ThreadsOK, Known, MemGrows, Inside
<1>11. CASE Begun(t)
  BY <1>11 DEF Begun, Goto, ThreadsOK, Known, MemGrows, Inside
<1>12. CASE InsertDisc(t)
  <2>1. pc[t] = "insert" /\ pc'[t] = "row" /\ disc' = disc /\ id' = id /\ disc[t] \in Discs
    BY <1>12 DEF InsertDisc, Goto, ThreadsOK, Called
  <2>2. got'[t] = "ROW" => IsRow(row[t], disc[t])'
    <3> SUFFICES ASSUME got'[t] = "ROW" PROVE IsRow(row[t], disc[t])'
      OBVIOUS
    <3>1. /\ Write([mem EXCEPT !.disc = Append(@, disc[t])], active \cup {t})
          /\ row'[t] = Len(mem.disc) + 1
      BY <1>12 DEF InsertDisc, InsertRow, Returned, Found, ThreadsOK
    <3> DEFINE new == [mem EXCEPT !.disc = Append(@, disc[t])]
               n == Len(mem.disc) + 1
    <3>2. n \in DOMAIN new.disc /\ new.disc[n] = disc[t]
      BY <2>1, DiscTables
    <3>3. mem' = new
      BY <3>1 DEF Write
    <3> HIDE DEF new
    <3> QED
      BY <2>1, <3>1, <3>2, <3>3 DEF IsRow
  <2> QED
    BY <2>1, <2>2 DEF Known, MemGrows, Inside
<1>13. CASE DiscRow(t)
  <2>1. /\ got[t] = "ROW" /\ pc[t] = "row" /\ pc' = pc /\ disc' = disc
        /\ id'[t] = row[t]
    BY <1>13, <1>r DEF DiscRow, ThreadsOK
  <2>2. got'[t] # "ROW"
    BY <1>13, <2>1 DEF DiscRow, Returned, Found, ThreadsOK
  <2> QED
    BY <2>1, <2>2 DEF Known, MemGrows, Inside
<1>14. CASE DiscDone(t) \/ UpdateDisc(t) \/ DiscUpdated(t)
  BY <1>14 DEF DiscDone, UpdateDisc, DiscUpdated, Goto, ThreadsOK, Known, MemGrows, Inside
<1>15. CASE SeekTrack(t) \/ TrackThere(t) \/ AddTrack(t) \/ TrackAdded(t)
  BY <1>15 DEF SeekTrack, TrackThere, AddTrack, TrackAdded, Goto, ThreadsOK, Known, MemGrows, Inside
<1>16. CASE NameFailed(t) \/ BeginFailed(t) \/ Commit(t) \/ CoverFailed(t) \/ DiscFailed(t) \/ TrackFailed(t)
  BY <1>2, <1>16 DEF NameFailed, BeginFailed, Commit, CoverFailed, DiscFailed, TrackFailed, GiveUp,
     Goto, Return, ThreadsOK
<1>17. CASE Elsewhere(t)
  BY <1>17 DEF Elsewhere, engine, Known, IsRow
<1> QED
  BY <1>2, <1>3, <1>4, <1>5, <1>6, <1>7, <1>8, <1>9, <1>10, <1>11, <1>12, <1>13, <1>14,
     <1>15, <1>16, <1>17 DEF Step

LEMMA KeptStep ==
  ASSUME BaseInv, LockInv, KeptInv, NEW t \in Threads, Step(t)
  PROVE  KeptInv'
<1>1. /\ BaseInv' /\ DiskGrows /\ OnlyMoved(t) /\ EngineStep(t) /\ CallsOK /\ CallsOK'
      /\ astray \subseteq astray' \/ Rest'
  BY BaseStep DEF BaseInv
<1>2. ASSUME NEW d \in reported
      PROVE  d \in disk'.names /\ \E i \in DOMAIN disk'.disc : disk'.disc[i] = d /\ Whole(i)'
  <2>1. d \in disk.names /\ \E i \in DOMAIN disk.disc : disk.disc[i] = d /\ Whole(i)
    BY <1>2 DEF KeptInv, ReportedIsStored, NamesExist
  <2> QED
    BY <1>1, <2>1 DEF DiskGrows, Whole
<1>3. ASSUME NEW d \in reported', d \notin reported
      PROVE  d \in disk'.names /\ \E i \in DOMAIN disk'.disc : disk'.disc[i] = d /\ Whole(i)'
  <2>1. Commit(t) /\ CanCommit /\ astray = {} /\ d = disc[t]
    <3>1. Commit(t)
      BY <1>3 DEF Step, Elsewhere, Call, LookRow, LookEnd, GetName, NameDone, NameRow, NameEnd,
         NameFailed, Begin, Begun, BeginFailed, CoverFailed, InsertDisc, DiscRow, DiscDone,
         UpdateDisc, DiscUpdated, DiscFailed, SeekTrack, TrackThere, AddTrack, TrackAdded,
         TrackFailed, GiveUp
    <3> QED
      BY <1>3, <3>1 DEF Commit
  <2>2. CommitStep /\ disk' = mem
    BY <2>1 DEF Commit, DoCommit, CommitStep
  <2>3. pc[t] = "seek" /\ id[t] # -1
    BY <1>1, <2>1 DEF Commit, CallsOK, Called
  <2>4. d \in mem.names /\ IsRow(id[t], d)
    BY <2>1, <2>3 DEF KeptInv, Known, Inside
  <2>5. \A n \in 1 .. Tracks : <<id[t], n>> \in disk'.track
    BY <2>1, <2>2, CommitAdds
  <2> QED
    BY <2>2, <2>4, <2>5 DEF IsRow, Whole
<1>4. ASSUME astray' = {}, NEW u \in Threads
      PROVE  Known(u)'
  <2>1. CASE pc'[u] = "idle"
    BY <1>1, <2>1 DEF CallsOK, Called, Known, Inside
  <2>2. CASE pc'[u] # "idle"
    <3>1. astray = {}
      BY <1>1, <1>4, <2>2 DEF Rest
    <3>2. ~GiveUp(t)
      <4> SUFFICES ASSUME GiveUp(t) PROVE FALSE
        OBVIOUS
      <4>1. pc'[t] = "idle"
        BY <1>1 DEF GiveUp, Return, Goto, CallsOK, ThreadsOK
      <4>2. u # t /\ pc[u] # "idle"
        BY <1>1, <2>2, <4>1 DEF OnlyMoved
      <4>3. Return(t, {"rollback"}) /\ ~AtRest(t)
        BY <4>2 DEF GiveUp, AtRest
      <4> QED
        BY <1>4, <4>3 DEF Return
    <3>3. MemGrows
      BY <3>2, StepGrows
    <3>4. Known(u)
      BY <3>1 DEF KeptInv
    <3>5. CASE u = t
      BY <1>1, <1>4, <3>1, <3>3, <3>4, <3>5, StepKnows
    <3>6. CASE u # t
      <4>1. pc'[u] = pc[u] /\ got'[u] = got[u] /\ disc'[u] = disc[u] /\ id'[u] = id[u]
            /\ row'[u] = row[u]
        BY <1>1, <3>6 DEF OnlyMoved
      <4>2. mem.names \subseteq mem'.names
        BY <3>3 DEF MemGrows
      <4>3. \A i, d : IsRow(i, d) => IsRow(i, d)'
        BY <3>3 DEF MemGrows
      <4>4. IsRow(row[u], disc[u]) => IsRow(row[u], disc[u])'
        BY <4>1, <4>3 DEF IsRow
      <4>5. IsRow(id[u], disc[u]) => IsRow(id[u], disc[u])'
        BY <4>1, <4>3 DEF IsRow
      <4> QED
        BY <3>4, <4>1, <4>2, <4>4, <4>5 DEF Known
    <3> QED
      BY <3>5, <3>6
  <2> QED
    BY <2>1, <2>2
<1> QED
  BY <1>2, <1>3, <1>4 DEF KeptInv, ReportedIsStored, NamesExist

AllInv == BaseInv /\ LockInv /\ KeptInv

LEMMA AllIsInvariant == Spec => []AllInv
<1>1. Init => KeptInv
  BY DEF Init, KeptInv, ReportedIsStored, NamesExist, Known, Inside
<1>2. KeptInv /\ UNCHANGED vars => KeptInv'
  BY DEF vars, engine, KeptInv, ReportedIsStored, NamesExist, Known, IsRow, Whole
<1>3. BaseInv /\ LockInv /\ KeptInv /\ [Next]_vars => KeptInv'
  BY <1>2, KeptStep, NextIsStep
<1> QED
  BY <1>1, <1>3, LockIsInvariant, PTL DEF Spec, AllInv

\* A disc that a store has reported is committed with all its tracks, whatever
\* happens to the stores that follow.
THEOREM ReportedDiscIsStored == Spec => []ReportedIsStored
<1>1. AllInv => ReportedIsStored
  BY DEF AllInv, KeptInv
<1> QED
  BY <1>1, AllIsInvariant, PTL

\* And so are the names it refers to, which are committed before its
\* transaction, after it, or in it.
THEOREM StoredNamesExist == Spec => []NamesExist
<1>1. AllInv => NamesExist
  BY DEF AllInv, KeptInv
<1> QED
  BY <1>1, AllIsInvariant, PTL

----------------------------------------------------------------------------
(* Stores look atomic                                                      *)

TracksOf(tables, i) == {n \in 1 .. Tracks : <<i, n>> \in tables.track}

LEMMA RowsAre ==
  ASSUME NEW tables \in Tables
  PROVE  /\ DOMAIN Rows(tables) = DOMAIN tables.disc
         /\ \A i \in DOMAIN tables.disc :
              /\ Rows(tables)[i] = [disc |-> tables.disc[i], tracks |-> TracksOf(tables, i)]
              /\ Rows(tables)[i].disc = tables.disc[i]
              /\ Rows(tables)[i].tracks = TracksOf(tables, i)
  BY DEF Rows, TracksOf

LEMMA RowsSeq ==
  ASSUME NEW tables \in Tables
  PROVE  /\ Rows(tables) \in Seq([disc : Discs, tracks : SUBSET (1 .. Tracks)])
         /\ Len(Rows(tables)) = Len(tables.disc)
<1> DEFINE S == [disc : Discs, tracks : SUBSET (1 .. Tracks)]
           rows == Rows(tables)
           len == Len(tables.disc)
<1>1. DOMAIN tables.disc = 1 .. len /\ len \in Nat
      /\ \A i \in DOMAIN tables.disc : tables.disc[i] \in Discs
  BY LenProperties DEF Tables
<1>2. ASSUME NEW i \in DOMAIN tables.disc PROVE rows[i] \in S
  <2>1. rows[i] = [disc |-> tables.disc[i], tracks |-> TracksOf(tables, i)]
    BY RowsAre
  <2>2. tables.disc[i] \in Discs /\ TracksOf(tables, i) \in SUBSET (1 .. Tracks)
    BY <1>1 DEF TracksOf
  <2> HIDE DEF rows
  <2> QED
    BY <2>1, <2>2
<1>3. rows = [i \in 1 .. len |-> rows[i]]
  BY <1>1 DEF Rows
<1> HIDE DEF S, len, rows
<1>4. rows \in [1 .. len -> S] /\ DOMAIN rows = 1 .. len
  BY <1>1, <1>2, <1>3
<1>5. rows \in Seq(S)
  BY <1>1, <1>4, SeqDef
<1>6. Len(rows) = len
  BY <1>1, <1>4, <1>5, LenProperties
<1> QED
  BY <1>5, <1>6 DEF S, len, rows

\* A COMMIT with no accident makes the store's own disc appear, or completes it.
LEMMA CommitIsAtomic ==
  ASSUME AllInv, NEW t \in Threads, Commit(t), CommitStep, astray = {}
  PROVE  Atomic!Insert(disc[t]) \/ Atomic!Update(disc[t])
<1> DEFINE d == disc[t]
           whole == Atomic!Whole(d)
<1>1. /\ EngineOK /\ Extends /\ Unique /\ d \in Discs /\ Progress(t) /\ Known(t)
      /\ pc[t] = "seek" /\ id[t] # -1
  <2>1. pc[t] = "seek" /\ Holds(t)
    BY DEF Commit, Holds, Inside
  <2> QED
    BY <2>1 DEF AllInv, BaseInv, EngineInv, CallsOK, Called, LockInv, KeptInv
<1>2. disk' = mem /\ mem \in Tables /\ disk \in Tables
  BY <1>1 DEF CommitStep, EngineOK
<1>3. Rows(disk)' = Rows(mem)
  BY <1>2
<1>4. Atomic!Report(d)
  <2>1. CanCommit /\ Return(t, {}) /\ reported' = reported \cup {d}
    BY DEF Commit, CommitStep
  <2>2. astray' = {}
    BY <2>1 DEF Return
  <2> QED
    BY <2>1, <2>2 DEF Atomic!Report
<1>5. IsRow(id[t], d) /\ TracksOf(mem, id[t]) = 1 .. Tracks
  <2>1. \A n \in 1 .. Tracks : <<id[t], n>> \in mem.track
    BY <1>2, CommitAdds DEF AllInv
  <2> QED
    BY <1>1, <2>1 DEF Known, TracksOf
<1>6. ASSUME NEW i, i # id[t] PROVE TracksOf(mem, i) = TracksOf(disk, i)
  <2>1. ASSUME NEW n \in 1 .. Tracks PROVE <<i, n>> \in mem.track <=> <<i, n>> \in disk.track
    BY <1>1, <1>6 DEF Progress, Extends
  <2> QED
    BY <2>1 DEF TracksOf
<1>7. whole = [disc |-> d, tracks |-> 1 .. Tracks]
  BY DEF Atomic!Whole
<1>r. /\ \A i \in DOMAIN mem.disc :
            Rows(mem)[i] = [disc |-> mem.disc[i], tracks |-> TracksOf(mem, i)]
      /\ \A i \in DOMAIN disk.disc :
            /\ Rows(disk)[i] = [disc |-> disk.disc[i], tracks |-> TracksOf(disk, i)]
            /\ Rows(disk)[i].disc = disk.disc[i]
  BY <1>2, RowsAre
<1> HIDE DEF d, whole
<1>8. CASE mem.disc = disk.disc
  <2>1. id[t] \in DOMAIN disk.disc /\ disk.disc[id[t]] = d
    BY <1>5, <1>8 DEF IsRow
  <2>2. Atomic!Stored(d)
    BY <1>2, <2>1, RowsAre DEF Atomic!Stored
  <2>3. ASSUME NEW i \in DOMAIN mem.disc
        PROVE  Rows(mem)[i] = IF Rows(disk)[i].disc = d THEN whole ELSE Rows(disk)[i]
    <3>1. i \in DOMAIN disk.disc /\ mem.disc[i] = disk.disc[i]
      BY <1>8, <2>3
    <3>2. CASE i = id[t]
      BY <1>r, <1>5, <1>7, <2>1, <3>1, <3>2
    <3>3. CASE i # id[t]
      <4>1. disk.disc[i] # d
        BY <1>1, <1>5, <3>1, <3>3 DEF Unique, IsRow
      <4>2. TracksOf(mem, i) = TracksOf(disk, i)
        BY <1>6, <3>3
      <4> QED
        BY <1>r, <2>3, <3>1, <4>1, <4>2
    <3> QED
      BY <3>2, <3>3
  <2>4. Rows(mem) = [i \in DOMAIN mem.disc |-> Rows(mem)[i]]
    BY DEF Rows
  <2>5. Rows(mem) = [i \in DOMAIN Rows(disk) |->
                       IF Rows(disk)[i].disc = d THEN whole ELSE Rows(disk)[i]]
    <3>1. DOMAIN Rows(disk) = DOMAIN mem.disc
      BY <1>2, <1>8, RowsAre
    <3> QED
      BY <2>3, <2>4, <3>1
  <2> QED
    BY <1>3, <1>4, <2>2, <2>5 DEF Atomic!Update, d, whole
<1>9. CASE mem.disc = Append(disk.disc, d) /\ id[t] = Last
  <2> DEFINE S == [disc : Discs, tracks : SUBSET (1 .. Tracks)]
             longer == Append(Rows(disk), whole)
  <2>1. d \in Discs /\ disk.disc \in Seq(Discs)
    BY <1>1, <1>2 DEF d, Tables
  <2>2. /\ Len(disk.disc) \in Nat /\ DOMAIN disk.disc = 1 .. Len(disk.disc)
        /\ Len(mem.disc) = Len(disk.disc) + 1
        /\ DOMAIN mem.disc = 1 .. Len(disk.disc) + 1
        /\ \A i \in 1 .. Len(disk.disc) : mem.disc[i] = disk.disc[i]
        /\ mem.disc[Len(disk.disc) + 1] = d
    BY <1>9, <2>1, AppendProperties, LenProperties
  <2>3. ~Atomic!Stored(d)
    <3>1. ASSUME NEW i \in DOMAIN disk.disc PROVE Rows(disk)[i].disc # d
      <4>1. i # Last /\ i \in DOMAIN mem.disc /\ Last \in DOMAIN mem.disc
        BY <2>2 DEF Last
      <4>2. mem.disc[Last] = d /\ mem.disc[i] = disk.disc[i]
        BY <2>2 DEF Last
      <4>3. disk.disc[i] # d
        BY <1>1, <4>1, <4>2 DEF Unique
      <4> QED
        BY <1>2, <4>3, RowsAre
    <3>2. DOMAIN Rows(disk) = DOMAIN disk.disc
      BY <1>2, RowsAre
    <3> QED
      BY <3>1, <3>2 DEF Atomic!Stored
  <2>4. Rows(disk) \in Seq(S) /\ Len(Rows(disk)) = Len(disk.disc)
    BY <1>2, RowsSeq
  <2>5. Rows(mem) \in Seq(S) /\ Len(Rows(mem)) = Len(mem.disc)
    BY <1>2, RowsSeq
  <2>6. whole \in S
    BY <1>7, <2>1
  <2> HIDE DEF S
  <2>7. /\ longer \in Seq(S) /\ Len(longer) = Len(disk.disc) + 1
        /\ \A i \in 1 .. Len(disk.disc) : longer[i] = Rows(disk)[i]
        /\ longer[Len(disk.disc) + 1] = whole
    BY <2>4, <2>6, AppendProperties
  <2> HIDE DEF longer
  <2>8. ASSUME NEW i \in 1 .. Len(disk.disc) PROVE Rows(mem)[i] = longer[i]
    <3>1. i # id[t] /\ i \in DOMAIN disk.disc /\ i \in DOMAIN mem.disc
          /\ mem.disc[i] = disk.disc[i]
      BY <1>9, <2>2 DEF Last
    <3>2. TracksOf(mem, i) = TracksOf(disk, i)
      BY <1>6, <3>1
    <3>3. Rows(mem)[i] = Rows(disk)[i]
      BY <1>r, <3>1, <3>2
    <3> QED
      BY <2>7, <3>3
  <2>9. Rows(mem)[Len(disk.disc) + 1] = longer[Len(disk.disc) + 1]
    <3>1. id[t] = Len(disk.disc) + 1 /\ id[t] \in DOMAIN mem.disc /\ mem.disc[id[t]] = d
      BY <1>9, <2>2 DEF Last
    <3>2. Rows(mem)[id[t]] = whole
      BY <1>2, <1>5, <1>7, <3>1, RowsAre
    <3> QED
      BY <2>7, <3>1, <3>2
  <2>10. \A i \in 1 .. Len(Rows(mem)) : Rows(mem)[i] = longer[i]
    BY <2>2, <2>5, <2>8, <2>9
  <2>11. Rows(mem) = longer
    BY <2>2, <2>5, <2>7, <2>10, SeqEqual
  <2> QED
    BY <1>3, <1>4, <2>3, <2>11 DEF Atomic!Insert, longer, whole, d
<1> QED
  BY <1>1, <1>8, <1>9 DEF Progress, Same, Fresh, d

\* Around an accident the library only grows.
LEMMA GrowsAtomic ==
  ASSUME EngineOK, EngineOK', DiskGrows, astray # {}, reported' = reported
  PROVE  Atomic!Spoil
<1>1. ASSUME NEW i \in DOMAIN Rows(disk)
      PROVE  /\ i \in DOMAIN Rows(disk)' /\ Rows(disk)'[i].disc = Rows(disk)[i].disc
             /\ Rows(disk)[i].tracks \subseteq Rows(disk)'[i].tracks
  <2>1. disk \in Tables /\ disk' \in Tables
    BY DEF EngineOK
  <2>2. Rows(disk)' = Rows(disk')
    BY DEF Rows
  <2>3. i \in DOMAIN disk.disc /\ i \in DOMAIN disk'.disc /\ disk'.disc[i] = disk.disc[i]
    BY <2>1, <1>1, RowsAre DEF DiskGrows
  <2>4. TracksOf(disk, i) \subseteq TracksOf(disk', i)
    BY DEF DiskGrows, TracksOf
  <2> QED
    BY <2>1, <2>2, <2>3, <2>4, RowsAre
<1> QED
  BY <1>1 DEF Atomic!Spoil

LEMMA StepIsAtomic ==
  ASSUME AllInv, AllInv', NEW t \in Threads, Step(t)
  PROVE  [Atomic!Next]_(Atomic!vars)
<1>1. BaseInv /\ LockInv /\ EngineOK /\ EngineOK' /\ CallsOK /\ DiskGrows
  BY BaseStep DEF AllInv, BaseInv, EngineInv
<1>2. reported' = reported \/ (Commit(t) /\ CanCommit /\ astray = {})
  <2>1. CASE Commit(t)
    BY <2>1 DEF Commit
  <2>2. CASE ~Commit(t)
    BY <2>2 DEF Step, Elsewhere, Call, LookRow, LookEnd, GetName, NameDone, NameRow, NameEnd,
       NameFailed, Begin, Begun, BeginFailed, CoverFailed, InsertDisc, DiscRow, DiscDone,
       UpdateDisc, DiscUpdated, DiscFailed, SeekTrack, TrackThere, AddTrack, TrackAdded,
       TrackFailed, GiveUp
  <2> QED
    BY <2>1, <2>2
<1>3. CASE astray # {}
  <2>1. Atomic!Spoil
    BY <1>1, <1>2, <1>3, GrowsAtomic
  <2> QED
    BY <2>1 DEF Atomic!Next
<1>4. CASE astray = {} /\ Commit(t) /\ CommitStep
  <2>1. disc[t] \in Discs
    BY <1>1, <1>4 DEF Commit, CallsOK, Called
  <2>2. Atomic!Insert(disc[t]) \/ Atomic!Update(disc[t])
    BY <1>4, CommitIsAtomic
  <2> QED
    BY <2>1, <2>2 DEF Atomic!Next
<1>5. CASE astray = {} /\ ~(Commit(t) /\ CommitStep)
  <2>1. disk'.disc = disk.disc /\ disk'.track = disk.track
    BY <1>1, <1>5, WholeStep
  <2>2. Rows(disk)' = Rows(disk)
    BY <2>1 DEF Rows
  <2>3. reported' = reported
    BY <1>2, <1>5 DEF Commit, DoCommit, CommitStep
  <2>4. CASE astray' = {}
    BY <1>5, <2>2, <2>3, <2>4 DEF Atomic!vars
  <2>5. CASE astray' # {}
    BY <1>5, <2>2, <2>3, <2>5 DEF Atomic!Accident, Atomic!Next
  <2> QED
    BY <2>4, <2>5
<1> QED
  BY <1>3, <1>4, <1>5

\* For any number of threads, discs and tracks, stores look atomic: until an
\* accident the library grows by one whole disc that was not in it, or a torn
\* disc is completed, in the step that reports it; around an accident it grows
\* otherwise and nothing is reported; and then the promise holds again.
THEOREM StoresAreAtomic == Spec => ImplementsAtomicStore
<1>1. Init => Atomic!Init
  <2>1. ASSUME Init PROVE Rows(disk) = <<>> /\ reported = {} /\ (astray = {}) = TRUE
    BY <2>1 DEF Init, Rows
  <2> QED
    BY <2>1 DEF Atomic!Init
<1>2. AllInv /\ AllInv' /\ [Next]_vars => [Atomic!Next]_(Atomic!vars)
  <2>1. ASSUME UNCHANGED vars PROVE UNCHANGED Atomic!vars
    BY <2>1 DEF vars, engine, Atomic!vars, Rows
  <2> QED
    BY <2>1, StepIsAtomic, NextIsStep
<1> QED
  BY <1>1, <1>2, AllIsInvariant, PTL DEF Spec, ImplementsAtomicStore, Atomic!Spec
=============================================================================
