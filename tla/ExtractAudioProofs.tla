------------------------- MODULE ExtractAudioProofs -------------------------
(***************************************************************************)
(* Proofs about ExtractAudio for any table of contents of up to 99 tracks: *)
(* types, whole files, no partial files, cancellations in time, and that   *)
(* the loops implement RipDisc (all but its fairness).                     *)
(*                                                                         *)
(* The invariant follows the two loops.  The tracks are taken in order:    *)
(* those before the current one are decided (a file that exists is kept),  *)
(* those from it on are still marked as skipped (Undecided), so that       *)
(* emptying a file never touches a kept one.  Within a track the file is   *)
(* the sectors up to the cursor, since the cursor and paranoia's position  *)
(* agree; between tracks the cursor is where the next track starts, or -1  *)
(* when the last one has been skipped.                                     *)
(***************************************************************************)
EXTENDS ExtractAudio, WellFoundedInduction, TLAPS

\* The first n sectors of a track
FirstOf(t, n) == [i \in 1 .. n |-> Toc[t] + i - 1]

Kept == \A t \in Tracks : ~skipped[t] => t \in exists /\ file[t] = SectorsOf(t)
Undecided(n) == \A t \in Tracks : t >= n => skipped[t]
Decided(n) == \A t \in exists : t < n => ~skipped[t]

Ended == pc \in {"cleanup", "ended"}

\* Between two tracks: n is the next one.
Before(n) ==
    /\ n \in 1 .. NTracks + 1
    /\ current \in {n - 1, n}
    /\ cursor = IF current > NTracks THEN -1 ELSE Toc[n]
    /\ Undecided(n) /\ Decided(n) /\ Kept

TrackInv == pc = "track" => \E n \in 1 .. NTracks + 1 : Before(n)

SectorInv ==
    pc \in {"sector", "end"} =>
      /\ current \in Tracks /\ last = LastSector(current)
      /\ cursor \in Toc[current] .. Toc[current + 1]
      /\ Undecided(current) /\ Decided(current) /\ Kept
      /\ current \in exists
      /\ pc = "sector" => ~skip /\ file[current] = FirstOf(current, cursor - Toc[current])
      /\ pc = "end" /\ ~skip => /\ cursor = Toc[current + 1]
                                /\ file[current] = SectorsOf(current)

EndInv ==
    Ended => /\ current > 0 => Kept
             /\ ~failed => current > 0 /\ Decided(current + 1)

FlagInv ==
    /\ position = cursor
    /\ pc = "setup" => current = 0
    /\ failed \/ reported => Ended

RipInv == TypeOK /\ TrackInv /\ SectorInv /\ EndInv /\ FlagInv

-----------------------------------------------------------------------------
(* The table of contents *)

\* Tracks start one after the other, by the least counterexample.
LEMMA TocIncreases ==
  ASSUME NEW i \in 1 .. NTracks + 1, NEW j \in 1 .. NTracks + 1, i < j
  PROVE  Toc[i] < Toc[j]
<1> DEFINE S == {k \in Nat : k \in i + 1 .. NTracks + 1 /\ Toc[k] <= Toc[i]}
<1>1. S = {}
  <2> SUFFICES ASSUME S # {}
               PROVE  FALSE
    OBVIOUS
  <2>1. PICK m \in S : \A k \in S : ~(<<k, m>> \in OpToRel(<, Nat))
    <3>1. S \subseteq Nat
      OBVIOUS
    <3> HIDE DEF S
    <3> QED BY <3>1, NatLessThanWellFounded, WFMin
  <2>2. \A k \in S : ~(k < m)
    BY <2>1 DEF OpToRel
  <2>3. /\ NTracks \in Nat /\ m \in Nat /\ m \in i + 1 .. NTracks + 1 /\ Toc[m] <= Toc[i]
        /\ Toc \in [1 .. NTracks + 1 -> Nat]
    BY NTracksAssumption, TocAssumption
  <2>4. m - 1 \in Tracks /\ Toc[m - 1] < Toc[m]
    BY <2>3, TocAssumption DEF Tracks
  <2>5. CASE m = i + 1
    BY <2>3, <2>4, <2>5
  <2>6. CASE m > i + 1
    <3>1. m - 1 \in i + 1 .. NTracks + 1 /\ m - 1 \in Nat
      BY <2>3, <2>6
    <3>2. Toc[m - 1] <= Toc[i]
      BY <2>3, <2>4
    <3>3. m - 1 \in S
      BY <3>1, <3>2
    <3> QED BY <2>2, <2>3, <3>3
  <2> QED BY <2>3, <2>5, <2>6
<1>2. j \in Nat /\ j \in i + 1 .. NTracks + 1 /\ j \notin S
  BY <1>1, NTracksAssumption
<1> QED BY <1>2, TocAssumption

LEMMA TocFacts ==
  /\ NTracks \in Nat /\ NTracks >= 1 /\ NTracks <= 99
  /\ \A t \in 1 .. NTracks + 1 : /\ Toc[t] \in Nat
                                 /\ Toc[1] <= Toc[t] /\ Toc[t] <= DiscLastSector + 1
  /\ \A t \in Tracks : /\ t \in 1 .. NTracks + 1 /\ t + 1 \in 1 .. NTracks + 1
                       /\ Toc[t] < Toc[t + 1] /\ Toc[t] <= DiscLastSector
  /\ DiscLastSector \in Nat /\ Toc[NTracks + 1] = DiscLastSector + 1
<1>1. NTracks \in Nat /\ NTracks >= 1 /\ NTracks <= 99
  BY NTracksAssumption
<1>2. \A t \in 1 .. NTracks + 1 : Toc[t] \in Nat
  BY TocAssumption
<1>3. \A t \in 1 .. NTracks + 1 : /\ t = 1 \/ Toc[1] < Toc[t]
                                  /\ t = NTracks + 1 \/ Toc[t] < Toc[NTracks + 1]
  BY <1>1, TocIncreases
<1>4. \A t \in Tracks : Toc[t] < Toc[t + 1]
  BY TocAssumption
<1>5. Toc[NTracks + 1] \in Nat /\ Toc[1] \in Nat /\ DiscLastSector = Toc[NTracks + 1] - 1
      /\ Toc[1] < Toc[NTracks + 1]
  BY <1>1, <1>2, <1>3 DEF DiscLastSector, LastSector
<1>6. DiscLastSector \in Nat /\ Toc[NTracks + 1] = DiscLastSector + 1
  BY <1>5
<1>7. \A t \in 1 .. NTracks + 1 : Toc[1] <= Toc[t] /\ Toc[t] <= DiscLastSector + 1
  BY <1>2, <1>3, <1>5, <1>6
<1>8. \A t \in Tracks : /\ t \in 1 .. NTracks + 1 /\ t + 1 \in 1 .. NTracks + 1
                        /\ t # NTracks + 1
  BY <1>1 DEF Tracks
<1>9. \A t \in Tracks : Toc[t] <= DiscLastSector
  BY <1>2, <1>3, <1>5, <1>6, <1>8
<1> QED BY <1>1, <1>2, <1>4, <1>6, <1>7, <1>8, <1>9

\* A sector where a track starts belongs to that track alone.
LEMMA TrackAtStart ==
  ASSUME NEW n \in Tracks
  PROVE  TrackOf(Toc[n]) = n
<1>1. /\ Toc[n] <= Toc[n] /\ Toc[n] < Toc[n + 1]
      /\ ~(Toc[n] < Toc[1]) /\ ~(Toc[n] > DiscLastSector)
  BY TocFacts
<1>2. ASSUME NEW t \in Tracks, Toc[t] <= Toc[n], Toc[n] < Toc[t + 1]
      PROVE  t = n
  <2>1. /\ t \in Nat /\ n \in Nat /\ t + 1 \in 1 .. NTracks + 1 /\ n + 1 \in 1 .. NTracks + 1
        /\ t \in 1 .. NTracks + 1 /\ n \in 1 .. NTracks + 1
        /\ Toc[t] \in Nat /\ Toc[n] \in Nat /\ Toc[t + 1] \in Nat
    BY TocFacts DEF Tracks
  <2>2. ~(n < t)
    BY <1>2, <2>1, TocIncreases
  <2>3. ~(t < n)
    <3> SUFFICES ASSUME t < n
                 PROVE  FALSE
      OBVIOUS
    <3>1. t + 1 = n \/ t + 1 < n
      BY <2>1
    <3> QED BY <1>2, <2>1, <3>1, TocIncreases
  <2> QED BY <2>1, <2>2, <2>3
<1>3. (CHOOSE t \in Tracks : Toc[t] <= Toc[n] /\ Toc[n] < Toc[t + 1]) = n
  BY <1>1, <1>2
<1> QED BY <1>1, <1>3 DEF TrackOf

LEMMA TrackOffDisc == TrackOf(-1) = 0 /\ TrackOf(Toc[NTracks + 1]) = -1
<1>1. /\ Toc[1] \in Nat /\ Toc[NTracks + 1] \in Nat /\ Toc[1] <= Toc[NTracks + 1]
      /\ DiscLastSector \in Nat /\ Toc[NTracks + 1] > DiscLastSector
  BY TocFacts
<1> QED BY <1>1 DEF TrackOf

\* The next sector makes the prefix of a track one longer.
LEMMA NextSector ==
  ASSUME NEW t \in Tracks, NEW c \in Toc[t] .. Toc[t + 1] - 1
  PROVE  /\ Append(FirstOf(t, c - Toc[t]), c) = FirstOf(t, c + 1 - Toc[t])
         /\ c \in 0 .. DiscLastSector
<1> DEFINE k == c - Toc[t]  f == FirstOf(t, k)
<1>1. /\ Toc[t] \in Nat /\ Toc[t + 1] \in Nat /\ Toc[t + 1] <= DiscLastSector + 1
      /\ DiscLastSector \in Nat
  BY TocFacts
<1>2. c \in Nat /\ k \in Nat /\ c = Toc[t] + (k + 1) - 1 /\ c + 1 - Toc[t] = k + 1
      /\ c \in 0 .. DiscLastSector
  BY <1>1
<1> HIDE DEF k
<1>3. f \in Seq(Int) /\ Len(f) = k /\ \A i \in 1 .. k : f[i] = Toc[t] + i - 1
  BY <1>1, <1>2 DEF FirstOf
<1>4. c \in Int
  BY <1>2
<1> HIDE DEF f
<1>5. /\ Append(f, c) \in Seq(Int) /\ Len(Append(f, c)) = k + 1
      /\ Append(f, c)[k + 1] = c
      /\ \A i \in 1 .. k : Append(f, c)[i] = f[i]
  BY <1>2, <1>3, <1>4
<1>6. Append(f, c) = [i \in 1 .. k + 1 |-> Append(f, c)[i]]
  BY <1>2, <1>5
<1>7. \A i \in 1 .. k + 1 : Append(f, c)[i] = Toc[t] + i - 1
  BY <1>2, <1>3, <1>5
<1>8. Append(f, c) = [i \in 1 .. k + 1 |-> Toc[t] + i - 1]
  BY <1>6, <1>7
<1> QED BY <1>2, <1>8 DEF FirstOf, f, k

LEMMA WholeTrack == \A t : FirstOf(t, Toc[t + 1] - Toc[t]) = SectorsOf(t)
  BY DEF FirstOf, SectorsOf

-----------------------------------------------------------------------------
(* The invariant *)

LEMMA InitRipInv == Init => RipInv
<1> SUFFICES ASSUME Init PROVE RipInv
  OBVIOUS
<1>1. 0 \in -1 .. DiscLastSector + 1 /\ 0 \in 0 .. NTracks + 1 /\ -1 \in -1 .. DiscLastSector
  BY TocFacts
<1>2. << >> \in Seq(0 .. DiscLastSector)
  OBVIOUS
<1>3. file \in [Tracks -> Seq(0 .. DiscLastSector)]
  BY <1>2 DEF Init
<1>4. TypeOK
  BY <1>1, <1>3 DEF Init, TypeOK, Places
<1> QED BY <1>4 DEF Init, RipInv, TrackInv, SectorInv, EndInv, FlagInv, Ended

\* What the parts of the invariant depend on.
LEMMA QuietStep ==
  ASSUME RipInv, UNCHANGED <<pc, loop, disc, reported, failed>>,
         status' \in {"extracting", "cancel", "idle"}
  PROVE  RipInv'
BY DEF RipInv, TypeOK, TrackInv, SectorInv, EndInv, FlagInv, Before, Undecided, Decided, Kept,
       Ended, Places, SectorsOf, FirstOf, LastSector, DiscLastSector, Tracks, loop, disc

LEMMA SetupStep ==
  ASSUME RipInv, Setup
  PROVE  RipInv'
<1>1. pc = "setup" /\ current = 0 /\ UNCHANGED <<status, reported>>
  BY DEF Setup, RipInv, FlagInv
<1>2. CASE Fail /\ UNCHANGED <<loop, disc>>
  BY <1>1, <1>2 DEF Fail, RipInv, TypeOK, TrackInv, SectorInv, EndInv, FlagInv, Ended, Places,
     Before, Kept, loop, disc
<1>3. CASE /\ skipped' = [t \in Tracks |-> TRUE]
           /\ cursor' = FirstSector(1) /\ position' = FirstSector(1)
           /\ current' = 0 /\ pc' = "track"
           /\ UNCHANGED <<last, skip, exists, file, failed>>
  <2>1. 1 \in Tracks /\ 1 \in 1 .. NTracks + 1 /\ ~(0 > NTracks) /\ 0 \in 0 .. NTracks + 1
    BY TocFacts DEF Tracks
  <2>2. cursor' = Toc[1] /\ position' = Toc[1] /\ Toc[1] \in -1 .. DiscLastSector + 1
    BY <1>3, <2>1, TocFacts DEF FirstSector
  <2>3. TypeOK'
    BY <1>1, <1>3, <2>1, <2>2 DEF RipInv, TypeOK, Places
  <2>4. Undecided(1)' /\ Kept' /\ Decided(1)'
    <3>1. \A t \in exists : ~(t < 1)
      BY DEF RipInv, TypeOK, Tracks
    <3> QED BY <1>3, <3>1 DEF Undecided, Kept, Decided
  <2>5. Before(1)'
    BY <1>3, <2>1, <2>2, <2>4 DEF Before
  <2>6. TrackInv'
    BY <2>1, <2>5 DEF TrackInv
  <2> QED BY <1>1, <1>3, <2>2, <2>3, <2>6
          DEF RipInv, SectorInv, EndInv, FlagInv, Ended
<1> QED BY <1>2, <1>3 DEF Setup

\* The next track, when the loop goes on with a valid one.
LEMMA NextTrack ==
  ASSUME RipInv, pc = "track", NEW n \in 1 .. NTracks + 1, Before(n), MoreToExtract,
         TrackOf(cursor) >= 1
  PROVE  n \in Tracks /\ TrackOf(cursor) = n /\ cursor = Toc[n]
<1>1. cursor # -1
  BY TrackOffDisc
<1>2. cursor = Toc[n]
  BY <1>1 DEF Before
<1>3. n # NTracks + 1
  BY <1>2, TocFacts DEF MoreToExtract
<1>4. n \in Tracks
  BY <1>3, TocFacts DEF Tracks
<1> QED BY <1>2, <1>4, TrackAtStart

LEMMA StartTrackStep ==
  ASSUME RipInv, StartTrack
  PROVE  RipInv'
<1>1. /\ pc = "track" /\ MoreToExtract /\ UNCHANGED <<status, reported>>
      /\ ~failed /\ ~reported
  BY DEF StartTrack, RipInv, FlagInv, Ended
<1>2. PICK n \in 1 .. NTracks + 1 : Before(n)
  BY <1>1 DEF RipInv, TrackInv
<1>3. CASE TrackOf(cursor) < 1 /\ pc' = "cleanup" /\ UNCHANGED <<loop, disc, failed>>
  <2>1. current > NTracks
    <3> SUFFICES ASSUME ~(current > NTracks)
                 PROVE  FALSE
      OBVIOUS
    <3>1. cursor = Toc[n]
      BY <1>2 DEF Before
    <3>2. n # NTracks + 1
      BY <1>1, <3>1, TocFacts DEF MoreToExtract
    <3>3. n \in Tracks
      BY <3>2, TocFacts DEF Tracks
    <3>4. TrackOf(cursor) = n /\ n >= 1
      BY <3>1, <3>3, TrackAtStart DEF Tracks
    <3> QED BY <1>3, <3>3, <3>4 DEF Tracks
  <2>2. current = NTracks + 1 /\ n = NTracks + 1 /\ current > 0
    BY <1>2, <2>1, TocFacts DEF Before
  <2>3. Kept /\ Decided(current + 1)
    <3>1. \A t \in exists : t < NTracks + 1
      BY TocFacts DEF RipInv, TypeOK, Tracks
    <3> QED BY <1>2, <2>2, <3>1 DEF Before, Decided
  <2>4. Kept' /\ Decided(current + 1)'
    BY <1>3, <2>3 DEF Kept, Decided, loop, disc
  <2>5. TypeOK'
    BY <1>1, <1>3 DEF RipInv, TypeOK, Places, loop, disc
  <2> QED BY <1>1, <1>3, <2>2, <2>4, <2>5
          DEF RipInv, TrackInv, SectorInv, EndInv, FlagInv, Ended, loop, Decided
<1>4. CASE /\ TrackOf(cursor) >= 1
           /\ current' = TrackOf(cursor)
           /\ last' = LastSector(TrackOf(cursor))
           /\ \/ Fail /\ UNCHANGED <<skip, exists, file>>
              \/ /\ exists' = exists \cup {TrackOf(cursor)}
                 /\ file' = [file EXCEPT ![TrackOf(cursor)] = << >>]
                 /\ \/ Fail /\ UNCHANGED skip
                    \/ skip' = FALSE /\ pc' = "sector" /\ UNCHANGED failed
           /\ UNCHANGED <<cursor, position, skipped>>
  <2>1. n \in Tracks /\ TrackOf(cursor) = n /\ cursor = Toc[n]
    BY <1>1, <1>2, <1>4, NextTrack
  <2>2. /\ n \in 0 .. NTracks + 1 /\ n > 0 /\ LastSector(n) \in -1 .. DiscLastSector
        /\ cursor \in Toc[n] .. Toc[n + 1] /\ cursor - Toc[n] = 0
    <3>1. /\ n \in Nat /\ n > 0 /\ n <= NTracks /\ NTracks \in Nat /\ DiscLastSector \in Nat
          /\ Toc[n] \in Nat /\ Toc[n + 1] \in Nat /\ Toc[n] < Toc[n + 1]
          /\ Toc[n + 1] <= DiscLastSector + 1
      BY <2>1, TocFacts DEF Tracks
    <3> QED BY <2>1, <3>1 DEF LastSector
  <2>3. /\ exists' \in {exists, exists \cup {n}}
        /\ file' \in {file, [file EXCEPT ![n] = << >>]}
    BY <1>4, <2>1
  <2>4. << >> \in Seq(0 .. DiscLastSector)
    OBVIOUS
  <2>5. TypeOK'
    <3>1. file' \in [Tracks -> Seq(0 .. DiscLastSector)] /\ exists' \in SUBSET Tracks
      BY <2>1, <2>3, <2>4 DEF RipInv, TypeOK
    <3> QED BY <1>1, <1>4, <2>1, <2>2, <3>1 DEF RipInv, TypeOK, Places, Fail
  <2>6. Undecided(n)' /\ Decided(n)' /\ Kept'
    <3>1. Undecided(n) /\ Decided(n) /\ Kept /\ skipped' = skipped
      BY <1>2, <1>4 DEF Before
    <3>2. skipped[n] /\ ~(n < n)
      BY <2>1, <3>1 DEF Undecided, Tracks
    <3>3. \A t \in Tracks : ~skipped[t] => t \in exists' /\ file'[t] = file[t]
      BY <2>3, <3>1, <3>2 DEF RipInv, TypeOK, Kept
    <3>4. Kept'
      BY <3>1, <3>3 DEF Kept, SectorsOf
    <3> QED BY <2>3, <3>1, <3>2, <3>4 DEF Undecided, Decided
  <2>7. CASE pc' = "sector"
    <3>1. /\ exists' = exists \cup {n} /\ file' = [file EXCEPT ![n] = << >>]
          /\ skip' = FALSE /\ failed' = failed
      BY <1>4, <2>1, <2>7 DEF Fail
    <3>2. n \in exists' /\ file'[n] = << >>
      BY <2>1, <3>1 DEF RipInv, TypeOK
    <3>3. FirstOf(n, 0) = << >>
      BY DEF FirstOf
    <3>4. SectorInv'
      BY <1>4, <2>1, <2>2, <2>6, <2>7, <3>1, <3>2, <3>3 DEF SectorInv, FirstOf, LastSector
    <3> QED BY <1>1, <1>4, <2>5, <2>7, <3>1, <3>4 DEF RipInv, TrackInv, EndInv, FlagInv, Ended
  <2>8. CASE Fail
    BY <1>1, <1>4, <2>1, <2>5, <2>6, <2>8
    DEF RipInv, TrackInv, SectorInv, EndInv, FlagInv, Ended, Fail
  <2> QED BY <1>4, <2>7, <2>8
<1> QED BY <1>1, <1>3, <1>4 DEF StartTrack

LEMMA ReadSectorStep ==
  ASSUME RipInv, ReadSector
  PROVE  RipInv'
<1>1. /\ pc = "sector" /\ cursor <= last /\ ~failed /\ ~reported /\ position = cursor
      /\ UNCHANGED <<status, skipped, exists, reported>>
  BY DEF ReadSector, SectorsLeft, RipInv, FlagInv, Ended
<1>2. /\ current \in Tracks /\ last = LastSector(current)
      /\ cursor \in Toc[current] .. Toc[current + 1]
      /\ Undecided(current) /\ Decided(current) /\ Kept
      /\ current \in exists
      /\ ~skip /\ file[current] = FirstOf(current, cursor - Toc[current])
  BY <1>1 DEF RipInv, SectorInv
<1>3. /\ Toc[current] \in Nat /\ Toc[current + 1] \in Nat
      /\ Toc[current + 1] <= DiscLastSector + 1 /\ DiscLastSector \in Nat
      /\ current > 0 /\ skipped[current]
  BY <1>2, TocFacts DEF Undecided, Tracks
<1>4. cursor \in Toc[current] .. Toc[current + 1] - 1
  BY <1>1, <1>2, <1>3 DEF LastSector
<1>5. /\ cursor + 1 \in Toc[current] .. Toc[current + 1]
      /\ cursor + 1 \in -1 .. DiscLastSector + 1
  BY <1>3, <1>4
<1>6. CASE Fail /\ UNCHANGED <<loop, file>>
  BY <1>1, <1>2, <1>6
  DEF RipInv, TypeOK, Places, TrackInv, SectorInv, EndInv, FlagInv, Ended, Fail, Kept, loop
<1>7. CASE skip' = TRUE /\ pc' = "end" /\ UNCHANGED <<cursor, position, current, last, file, failed>>
  <2>1. SectorInv'
    BY <1>1, <1>2, <1>7 DEF SectorInv, Undecided, Decided, Kept, LastSector
  <2> QED BY <1>1, <1>7, <2>1 DEF RipInv, TypeOK, Places, TrackInv, EndInv, FlagInv, Ended
<1>8. CASE /\ cursor' = cursor + 1 /\ position' = position + 1
           /\ UNCHANGED <<current, last>>
           /\ Fail /\ UNCHANGED <<skip, file>>
  <2>1. TypeOK'
    BY <1>1, <1>5, <1>8 DEF RipInv, TypeOK, Places, Fail
  <2>2. Kept'
    BY <1>1, <1>2, <1>8 DEF Kept
  <2> QED BY <1>1, <1>8, <2>1, <2>2
          DEF RipInv, TrackInv, SectorInv, EndInv, FlagInv, Ended, Fail
<1>9. CASE /\ cursor' = cursor + 1 /\ position' = position + 1
           /\ UNCHANGED <<current, last>>
           /\ file' = [file EXCEPT ![current] = Append(@, position)]
           /\ skip' = AbortAfterSector
           /\ pc' = IF AbortAfterSector THEN "end" ELSE "sector"
           /\ UNCHANGED failed
  <2>1. /\ Append(file[current], position) = FirstOf(current, cursor + 1 - Toc[current])
        /\ cursor \in 0 .. DiscLastSector
    BY <1>1, <1>2, <1>4, NextSector
  <2>2. Append(file[current], position) \in Seq(0 .. DiscLastSector)
    <3>1. file[current] \in Seq(0 .. DiscLastSector)
      BY <1>2 DEF RipInv, TypeOK
    <3>2. position \in 0 .. DiscLastSector
      BY <1>1, <2>1
    <3> DEFINE S == 0 .. DiscLastSector
    <3> HIDE DEF S
    <3>3. file[current] \in Seq(S) /\ position \in S
      BY <3>1, <3>2 DEF S
    <3>4. Append(file[current], position) \in Seq(S)
      BY <3>3
    <3> QED BY <3>4 DEF S
  <2>3. /\ file'[current] = FirstOf(current, cursor + 1 - Toc[current])
        /\ file' \in [Tracks -> Seq(0 .. DiscLastSector)]
        /\ \A t \in Tracks : t # current => file'[t] = file[t]
    BY <1>2, <1>9, <2>1, <2>2 DEF RipInv, TypeOK
  <2>4. AbortAfterSector \in BOOLEAN
    BY DEF AbortAfterSector
  <2>5. TypeOK'
    BY <1>1, <1>5, <1>9, <2>3, <2>4 DEF RipInv, TypeOK, Places
  <2>6. Undecided(current)' /\ Decided(current)' /\ Kept'
    <3>1. \A t \in Tracks : ~skipped[t] => t \in exists /\ file'[t] = SectorsOf(t)
      BY <1>2, <1>3, <2>3 DEF Kept
    <3> QED BY <1>1, <1>2, <1>9, <3>1 DEF Undecided, Decided, Kept, SectorsOf
  <2>7. SectorInv'
    <3>1. CASE AbortAfterSector
      BY <1>1, <1>2, <1>5, <1>9, <2>6, <3>1 DEF SectorInv
    <3>2. CASE ~AbortAfterSector
      <4>1. pc' = "sector" /\ ~skip'
        BY <1>9, <3>2
      <4>2. current' = current /\ cursor' = cursor + 1 /\ last' = last /\ exists' = exists
        BY <1>1, <1>9
      <4>3. file'[current] = FirstOf(current, cursor + 1 - Toc[current])
        BY <2>3
      <4>4. file'[current'] = FirstOf(current', cursor' - Toc[current'])
        <5>1. cursor' - Toc[current'] = cursor + 1 - Toc[current]
          BY <1>3, <1>4, <4>2
        <5> QED BY <4>2, <4>3, <5>1
      <4> QED BY <1>2, <1>5, <2>6, <4>1, <4>2, <4>4 DEF SectorInv
    <3> QED BY <3>1, <3>2
  <2> QED BY <1>1, <1>9, <2>5, <2>7 DEF RipInv, TrackInv, EndInv, FlagInv, Ended
<1> QED BY <1>6, <1>7, <1>8, <1>9 DEF ReadSector

LEMMA EndOfTrackStep ==
  ASSUME RipInv, EndOfTrack
  PROVE  RipInv'
<1>1. /\ pc = "sector" /\ ~(cursor <= last) /\ pc' = "end"
      /\ UNCHANGED <<status, loop, disc, reported, failed>>
  BY DEF EndOfTrack, SectorsLeft
<1>2. /\ current \in Tracks /\ last = LastSector(current)
      /\ cursor \in Toc[current] .. Toc[current + 1]
      /\ file[current] = FirstOf(current, cursor - Toc[current])
  BY <1>1 DEF RipInv, SectorInv
<1>3. cursor = Toc[current + 1]
  BY <1>1, <1>2, TocFacts DEF LastSector
<1>4. file[current] = SectorsOf(current)
  BY <1>2, <1>3, WholeTrack
<1>5. SectorInv'
  BY <1>1, <1>3, <1>4
  DEF RipInv, SectorInv, Undecided, Decided, Kept, LastSector, SectorsOf, loop, disc
<1> QED BY <1>1, <1>5
        DEF RipInv, TypeOK, Places, TrackInv, EndInv, FlagInv, Ended, loop, disc

\* A decision on the current track.
LEMMA FinishTrackStep ==
  ASSUME RipInv, FinishTrack
  PROVE  RipInv'
<1>1. /\ pc = "end" /\ ~failed /\ ~reported /\ position = cursor
      /\ UNCHANGED <<status, reported>>
  BY DEF FinishTrack, RipInv, FlagInv, Ended
<1>2. /\ current \in Tracks
      /\ Undecided(current) /\ Decided(current) /\ Kept
      /\ current \in exists
      /\ ~skip => cursor = Toc[current + 1] /\ file[current] = SectorsOf(current)
  BY <1>1 DEF RipInv, SectorInv
<1>3. /\ current \in Nat /\ current > 0 /\ current <= NTracks /\ NTracks \in Nat
      /\ current + 1 \in 1 .. NTracks + 1 /\ current + 1 \in 0 .. NTracks + 1
  BY <1>2, TocFacts DEF Tracks
<1>4. PICK n \in 1 .. NTracks + 1 : n = current + 1
  BY <1>3
<1>5. CASE Fail /\ UNCHANGED <<loop, disc>>
  BY <1>1, <1>2, <1>5
  DEF RipInv, TypeOK, Places, TrackInv, SectorInv, EndInv, FlagInv, Ended, Fail, Kept,
      SectorsOf, loop, disc
<1>6. ASSUME skipped' = [skipped EXCEPT ![current] = skip],
             exists' = IF skip THEN Unlinked ELSE exists,
             file' = file
      PROVE  Undecided(n)' /\ Decided(n)' /\ Kept'
  <2>1. /\ skipped'[current] = skip /\ skip \in BOOLEAN
        /\ \A t \in Tracks : t # current => skipped'[t] = skipped[t]
        /\ \A t \in exists' : t \in exists /\ t \in Tracks /\ (skip => t # current)
    BY <1>2, <1>6 DEF RipInv, TypeOK, Unlinked
  <2>2. ASSUME NEW t \in Tracks, t >= n
        PROVE  skipped'[t]
    BY <1>2, <1>3, <1>4, <2>1, <2>2 DEF Undecided, Tracks
  <2>3. ASSUME NEW t \in exists', t < n
        PROVE  ~skipped'[t]
    <3>1. t = current \/ t < current
      BY <1>3, <1>4, <2>1, <2>3 DEF Tracks
    <3>2. CASE t = current
      BY <2>1, <3>2
    <3>3. CASE t < current
      <4>1. t # current
        BY <1>3, <3>3
      <4> QED BY <1>2, <2>1, <3>3, <4>1 DEF Decided
    <3> QED BY <3>1, <3>2, <3>3
  <2>4. ASSUME NEW t \in Tracks, ~skipped'[t]
        PROVE  t \in exists' /\ file'[t] = SectorsOf(t)
    <3>1. CASE t = current
      BY <1>2, <1>6, <2>1, <2>4, <3>1
    <3>2. CASE t # current
      BY <1>2, <1>6, <2>1, <2>4, <3>2 DEF Kept, Unlinked
    <3> QED BY <3>1, <3>2
  <2>5. Kept'
    BY <2>4 DEF Kept, SectorsOf
  <2> QED BY <2>2, <2>3, <2>5 DEF Undecided, Decided
<1>7. CASE /\ skipped' = [skipped EXCEPT ![current] = skip]
           /\ UNCHANGED <<last, skip, file, failed>>
           /\ ~skip /\ pc' = "track" /\ UNCHANGED <<cursor, position, current, exists>>
  <2>1. Undecided(n)' /\ Decided(n)' /\ Kept'
    BY <1>6, <1>7
  <2>2. Before(n)'
    BY <1>2, <1>3, <1>4, <1>7, <2>1 DEF Before
  <2>3. TypeOK'
    BY <1>1, <1>2, <1>7 DEF RipInv, TypeOK, Places
  <2> QED BY <1>1, <1>7, <2>2, <2>3
          DEF RipInv, TrackInv, SectorInv, EndInv, FlagInv, Ended
<1>8. CASE /\ skipped' = [skipped EXCEPT ![current] = skip]
           /\ UNCHANGED <<last, skip, file, failed>>
           /\ skip /\ exists' = Unlinked /\ pc' = "cleanup"
           /\ UNCHANGED <<cursor, position, current>>
  <2>1. Decided(n)' /\ Kept' /\ n = current' + 1
    BY <1>4, <1>6, <1>8
  <2>2. TypeOK'
    BY <1>1, <1>2, <1>8 DEF RipInv, TypeOK, Places, Unlinked
  <2> QED BY <1>1, <1>3, <1>8, <2>1, <2>2
          DEF RipInv, TrackInv, SectorInv, EndInv, FlagInv, Ended, Decided
<1>9. CASE /\ skipped' = [skipped EXCEPT ![current] = skip]
           /\ UNCHANGED <<last, skip, file, failed>>
           /\ skip /\ exists' = Unlinked /\ pc' = "track"
           /\ current' = current + 1
           /\ cursor' = FirstSector(current + 1) /\ position' = cursor'
  <2>1. Undecided(n)' /\ Decided(n)' /\ Kept'
    BY <1>6, <1>9
  <2>2. cursor' = IF current' > NTracks THEN -1 ELSE Toc[n]
    BY <1>3, <1>4, <1>9 DEF FirstSector, Tracks
  <2>3. Before(n)'
    BY <1>4, <1>9, <2>1, <2>2 DEF Before
  <2>4. cursor' \in -1 .. DiscLastSector + 1
    BY <1>4, <2>2, TocFacts
  <2>5. TypeOK'
    BY <1>1, <1>2, <1>3, <1>9, <2>4 DEF RipInv, TypeOK, Places, Unlinked
  <2> QED BY <1>1, <1>9, <2>3, <2>5 DEF RipInv, TrackInv, SectorInv, EndInv, FlagInv, Ended
<1> QED BY <1>5, <1>7, <1>8, <1>9 DEF FinishTrack, SeekTo

\* The outer loop ends behind the last track only.
LEMMA AllDecided ==
  ASSUME RipInv, pc = "track", ~MoreToExtract, NEW n \in 1 .. NTracks + 1, Before(n)
  PROVE  n = NTracks + 1 /\ current \in {NTracks, NTracks + 1} /\ current > 0
         /\ cursor \notin 0 .. DiscLastSector
<1>1. /\ NTracks \in Nat /\ NTracks >= 1 /\ NTracks <= 99 /\ DiscLastSector \in Nat
      /\ n \in 1 .. NTracks + 1 /\ current \in {n - 1, n}
      /\ cursor = IF current > NTracks THEN -1 ELSE Toc[n]
  BY TocFacts DEF Before
<1>2. CASE current > NTracks
  BY <1>1, <1>2
<1>3. CASE ~(current > NTracks)
  <2>1. ~(cursor <= DiscLastSector)
    BY <1>1, <1>3 DEF MoreToExtract, CDE_MAX_TRACKS
  <2>2. n \notin Tracks
    BY <1>1, <1>3, <2>1, TocFacts
  <2> QED BY <1>1, <1>3, <2>1, <2>2 DEF Tracks
<1> QED BY <1>2, <1>3

LEMMA DoneStep ==
  ASSUME RipInv, Done
  PROVE  RipInv'
<1>1. /\ pc = "track" /\ ~MoreToExtract /\ reported' = TRUE /\ pc' = "cleanup"
      /\ UNCHANGED <<status, loop, disc, failed>>
  BY DEF Done
<1>2. PICK n \in 1 .. NTracks + 1 : Before(n)
  BY <1>1 DEF RipInv, TrackInv
<1>3. n = NTracks + 1 /\ current \in {NTracks, NTracks + 1} /\ current > 0
  BY <1>1, <1>2, AllDecided
<1>4. Kept /\ Decided(current + 1)
  <2>1. \A t \in exists : t < NTracks + 1
    BY TocFacts DEF RipInv, TypeOK, Tracks
  <2> QED BY <1>2, <1>3, <2>1 DEF Before, Decided
<1>5. Kept' /\ Decided(current + 1)'
  BY <1>1, <1>4 DEF Kept, Decided, SectorsOf, loop, disc
<1>6. TypeOK'
  BY <1>1 DEF RipInv, TypeOK, Places, loop, disc
<1> QED BY <1>1, <1>3, <1>5, <1>6
        DEF RipInv, TrackInv, SectorInv, EndInv, FlagInv, Ended, loop, disc, Decided

LEMMA CleanupStep ==
  ASSUME RipInv, Cleanup
  PROVE  RipInv'
BY DEF Cleanup, RipInv, TypeOK, TrackInv, SectorInv, EndInv, FlagInv, Ended, Places,
       Kept, Decided, SectorsOf, loop, disc

LEMMA NextRipInv == RipInv /\ [Next]_vars => RipInv'
<1> SUFFICES ASSUME RipInv, [Next]_vars
             PROVE  RipInv'
  OBVIOUS
<1>1. CASE Cancel
  BY <1>1, QuietStep DEF Cancel
<1>2. CASE UNCHANGED vars
  BY <1>2, QuietStep DEF vars, loop, disc, RipInv, TypeOK
<1> QED BY <1>1, <1>2, SetupStep, StartTrackStep, ReadSectorStep, EndOfTrackStep,
           FinishTrackStep, DoneStep, CleanupStep DEF Next, Step

THEOREM RipInvCorrect == Spec => []RipInv
<1> QED BY InitRipInv, NextRipInv, PTL DEF Spec

\* The fields keep their types: TocAssumption keeps the cursor on the disc.
THEOREM TypeCorrect == Spec => []TypeOK
<1>1. RipInv => TypeOK
  BY DEF RipInv
<1> QED BY <1>1, RipInvCorrect, PTL

LEMMA KeptIsWhole == RipInv => KeptTrackIsWhole
<1> SUFFICES ASSUME RipInv, current > 0
             PROVE  Kept
  BY DEF KeptTrackIsWhole, Kept
<1>1. pc # "setup" /\ pc \in Places
  BY DEF RipInv, FlagInv, TypeOK
<1>2. CASE pc = "track"
  BY <1>2 DEF RipInv, TrackInv, Before
<1>3. CASE pc \in {"sector", "end"}
  BY <1>3 DEF RipInv, SectorInv
<1>4. CASE pc \in {"cleanup", "ended"}
  BY <1>4 DEF RipInv, EndInv, Ended
<1> QED BY <1>1, <1>2, <1>3, <1>4 DEF Places

\* A track that is not skipped has all of its sectors and no other, for any
\* table of contents and any course of the extraction (cde_extract_audio_t).
THEOREM KeptTrackIsWholeCorrect == Spec => []KeptTrackIsWhole
<1> QED BY KeptIsWhole, RipInvCorrect, PTL

\* Without a failure, what a skip or a cancellation leaves behind are whole
\* files of tracks that are not skipped (the unlink of cde_extract_audio_t).
THEOREM NoPartialFileCorrect == Spec => []NoPartialFile
<1>1. RipInv => NoPartialFile
  <2> SUFFICES ASSUME RipInv, pc = "ended", ~failed,
                      NEW t \in exists, t <= current
               PROVE  file[t] = SectorsOf(t) /\ ~skipped[t]
    BY DEF NoPartialFile
  <2>1. current > 0 /\ Kept /\ Decided(current + 1)
    BY DEF RipInv, EndInv, Ended
  <2>2. t \in Tracks /\ t < current + 1
    BY NTracksAssumption DEF RipInv, TypeOK, Tracks
  <2> QED BY <2>1, <2>2 DEF Decided, Kept
<1> QED BY <1>1, RipInvCorrect, PTL

-----------------------------------------------------------------------------
(* Cancellation *)

\* After a cancellation in time the extraction is on its way to the next look
\* at the status, or past it with the track skipped.
OnTheWay ==
    /\ ~reported /\ status # "extracting"
    /\ pc \in {"setup", "track", "sector"} => cursor \in 0 .. DiscLastSector
    /\ pc = "end" => skip \/ cursor \in 0 .. DiscLastSector
    /\ status = "idle" => pc = "ended"

\* A disc cancelled while sectors are left is never reported (nor stored) as
\* extracted, whatever track is being read.
THEOREM CancelInTimeIsFinalCorrect == Spec => CancelInTimeIsFinal
<1>1. RipInv /\ CancelInTime => OnTheWay
  BY DEF CancelInTime, OnTheWay, RipInv, FlagInv, Ended
<1>2. RipInv /\ OnTheWay /\ [Next]_vars => OnTheWay'
  <2> SUFFICES ASSUME RipInv, OnTheWay, [Next]_vars
               PROVE  OnTheWay'
    OBVIOUS
  <2>1. CASE Cancel \/ Cleanup \/ EndOfTrack \/ UNCHANGED vars
    BY <2>1 DEF OnTheWay, Cancel, Cleanup, EndOfTrack, vars, loop, disc
  <2>2. CASE Setup
    <3>1. FirstSector(1) \in 0 .. DiscLastSector
      BY TocFacts DEF FirstSector, Tracks
    <3> QED BY <2>2, <3>1 DEF OnTheWay, Setup, Fail
  <2>3. CASE StartTrack
    BY <2>3 DEF OnTheWay, StartTrack, Fail, loop
  <2>4. CASE ReadSector
    BY <2>4 DEF OnTheWay, ReadSector, Fail, AbortAfterSector, RipInv, TypeOK
  <2>5. CASE FinishTrack
    BY <2>5 DEF OnTheWay, FinishTrack, Fail, RipInv, TypeOK, loop
  <2>6. ~Done
    BY AllDecided DEF OnTheWay, Done, RipInv, TrackInv
  <2> QED BY <2>1, <2>2, <2>3, <2>4, <2>5, <2>6 DEF Next, Step
<1>3. OnTheWay => ~reported
  BY DEF OnTheWay
<1> QED BY <1>1, <1>2, <1>3, RipInvCorrect, PTL DEF Spec, CancelInTimeIsFinal

-----------------------------------------------------------------------------
(* The loops implement RipDisc *)

RipKept == {t \in exists : current > 0 /\ ~skipped[t] /\ file[t] = SectorsOf(t)}

RipPhase == IF reported THEN "done"
            ELSE IF Ended THEN "stopped"
            ELSE "running"

Unskipped == {t \in Tracks : ~skipped[t]}

\* The number of decided tracks, from the sector the next one starts at
LEMMA DecidedFrom ==
  ASSUME pc = "track", NEW n \in 1 .. NTracks + 1,
         cursor = Toc[n] \/ (cursor = -1 /\ n = NTracks + 1)
  PROVE  TracksDecided = n - 1
<1>1. NTracks \in Nat
  BY TocFacts
<1>2. CASE n \in Tracks
  <2>1. cursor = Toc[n] /\ n >= 1
    BY <1>1, <1>2 DEF Tracks
  <2> QED BY <1>2, <2>1, TrackAtStart DEF TracksDecided
<1>3. CASE n = NTracks + 1
  <2>1. ~(TrackOf(cursor) >= 1)
    BY <1>3, TrackOffDisc
  <2> QED BY <1>1, <1>3, <2>1 DEF TracksDecided
<1> QED BY <1>1, <1>2, <1>3 DEF Tracks

DecidedFromToc ==
    \A n \in 1 .. NTracks + 1 :
      pc = "track" /\ (cursor = Toc[n] \/ (cursor = -1 /\ n = NTracks + 1))
        => TracksDecided = n - 1

LEMMA DecidedFromNext == DecidedFromToc'
<1>1. DecidedFromToc
  <2> SUFFICES ASSUME NEW n \in 1 .. NTracks + 1, pc = "track",
                      cursor = Toc[n] \/ (cursor = -1 /\ n = NTracks + 1)
               PROVE  TracksDecided = n - 1
    BY DEF DecidedFromToc
  <2> QED BY DecidedFrom
<1> QED BY <1>1, PTL

\* What RipDisc sees of a state
LEMMA RipView ==
  ASSUME RipInv
  PROVE  /\ current = 0 => RipKept = {}
         /\ current > 0 \/ pc = "track" => RipKept = Unskipped
         /\ pc \in {"sector", "end"} => TracksDecided = current - 1
         /\ \A n \in 1 .. NTracks + 1 : pc = "track" /\ Before(n) => TracksDecided = n - 1
         /\ pc = "setup" => current = 0 /\ TracksDecided = 0
<1>1. current = 0 => RipKept = {}
  BY DEF RipKept
<1>2. current > 0 => RipKept = Unskipped
  <2>1. RipInv => KeptTrackIsWhole
    BY KeptIsWhole
  <2> QED BY <2>1 DEF RipKept, Unskipped, KeptTrackIsWhole, RipInv, TypeOK
<1>3. ASSUME pc = "track", ~(current > 0)
      PROVE  Unskipped = {}
  <2>1. PICK n \in 1 .. NTracks + 1 : Before(n)
    BY <1>3 DEF RipInv, TrackInv
  <2>2. n \in Nat /\ n <= 1 /\ Undecided(n)
    BY <1>3, <2>1, NTracksAssumption DEF Before
  <2> QED BY <2>2, NTracksAssumption DEF Undecided, Unskipped, Tracks
<1>4. ASSUME NEW n \in 1 .. NTracks + 1, pc = "track", Before(n)
      PROVE  TracksDecided = n - 1
  <2>1. cursor = Toc[n] \/ (cursor = -1 /\ n = NTracks + 1)
    BY <1>4, TocFacts DEF Before
  <2> QED BY <1>4, <2>1, DecidedFrom
<1>5. pc = "track" /\ ~(current > 0) => current = 0
  BY NTracksAssumption DEF RipInv, TypeOK
<1>6. /\ pc \in {"sector", "end"} => TracksDecided = current - 1
      /\ pc = "setup" => current = 0 /\ TracksDecided = 0
  BY DEF TracksDecided, RipInv, FlagInv
<1> QED BY <1>1, <1>2, <1>3, <1>4, <1>5, <1>6

LEMMA RipViewNext == RipInv' =>
         /\ (current = 0 => RipKept = {})'
         /\ (current > 0 \/ pc = "track" => RipKept = Unskipped)'
         /\ (pc \in {"sector", "end"} => TracksDecided = current - 1)'
         /\ (\A n \in 1 .. NTracks + 1 : pc = "track" /\ Before(n) => TracksDecided = n - 1)'
  BY RipView, PTL

\* RipDisc's steps on the view
RipStutter == UNCHANGED <<TracksDecided, RipKept, RipPhase>>

RipStop == RipPhase = "running" /\ RipPhase' = "stopped"
           /\ UNCHANGED <<TracksDecided, RipKept>>

RipDecide(kept, phase) ==
    /\ RipPhase = "running" /\ RipPhase' = phase
    /\ TracksDecided < NTracks
    /\ TracksDecided' = TracksDecided + 1 /\ RipKept' = kept

RipFinish == RipPhase = "running" /\ RipPhase' = "done" /\ TracksDecided = NTracks
             /\ UNCHANGED <<TracksDecided, RipKept>>

LEMMA SetupRips ==
  ASSUME RipInv, RipInv', Setup
  PROVE  RipStop \/ RipStutter
<1>1. /\ pc = "setup" /\ current = 0 /\ TracksDecided = 0 /\ RipKept = {}
      /\ RipPhase = "running" /\ UNCHANGED reported /\ ~reported /\ current' = 0
  BY RipView DEF Setup, RipInv, FlagInv, Ended, RipPhase, loop
<1>2. CASE pc' = "cleanup"
  <2>1. TracksDecided' = 0 /\ RipPhase' = "stopped" /\ RipKept' = {}
    BY <1>1, <1>2 DEF TracksDecided, RipPhase, Ended, RipKept
  <2> QED BY <1>1, <2>1 DEF RipStop
<1>3. CASE pc' = "track"
  <2>1. RipPhase' = "running" /\ RipKept' = {}
    BY <1>1, <1>3 DEF RipPhase, Ended, RipKept
  <2>2. TracksDecided' = 0
    <3>1. PICK n \in 1 .. NTracks + 1 : Before(n)'
      BY <1>3 DEF RipInv, TrackInv
    <3>2. n = 1
      BY <1>1, <3>1, NTracksAssumption DEF Before
    <3> QED BY <1>3, <3>1, <3>2, RipViewNext
  <2> QED BY <1>1, <2>1, <2>2 DEF RipStutter
<1> QED BY <1>2, <1>3 DEF Setup, Fail

LEMMA StartTrackRips ==
  ASSUME RipInv, RipInv', StartTrack
  PROVE  RipStop \/ RipStutter
<1>1. /\ pc = "track" /\ MoreToExtract /\ ~reported /\ ~failed /\ UNCHANGED <<reported, skipped>>
      /\ RipPhase = "running" /\ RipKept = Unskipped
  BY RipView DEF StartTrack, RipInv, FlagInv, Ended, RipPhase, disc
<1>2. PICK n \in 1 .. NTracks + 1 : Before(n)
  BY <1>1 DEF RipInv, TrackInv
<1>3. TracksDecided = n - 1 /\ n \in Int /\ NTracks \in Int
  BY <1>1, <1>2, RipView, TocFacts
<1>4. CASE TrackOf(cursor) < 1 /\ pc' = "cleanup" /\ UNCHANGED <<loop, disc, failed>>
  <2>1. pc' = "cleanup" /\ UNCHANGED <<current, failed>>
    BY <1>4 DEF loop
  <2>2. current > NTracks
    <3>1. n \notin Tracks \/ cursor # Toc[n]
      BY <1>4, TrackAtStart DEF Tracks
    <3>2. n = NTracks + 1 => ~(Toc[n] <= DiscLastSector)
      BY TocFacts
    <3> QED BY <1>1, <1>2, <1>3, <3>1, <3>2 DEF Before, Tracks, MoreToExtract
  <2>3. n = NTracks + 1 /\ current = NTracks + 1 /\ current > 0
    BY <1>2, <2>2, TocFacts DEF Before
  <2>4. TracksDecided' = NTracks /\ RipPhase' = "stopped"
    BY <1>1, <2>1, <2>2, <2>3, TocFacts DEF TracksDecided, RipPhase, Ended
  <2>5. RipKept' = Unskipped
    BY <1>1, <2>1, <2>3, RipViewNext DEF Unskipped
  <2> QED BY <1>1, <1>3, <2>3, <2>4, <2>5 DEF RipStop
<1>5. CASE /\ TrackOf(cursor) >= 1 /\ current' = TrackOf(cursor)
           /\ (pc' = "cleanup" /\ failed') \/ pc' = "sector"
  <2>1. n \in Tracks /\ TrackOf(cursor) = n
    BY <1>1, <1>2, <1>5, NextTrack
  <2>2. current' = n /\ n > 0 /\ n <= NTracks
    BY <1>3, <1>5, <2>1 DEF Tracks
  <2>3. RipKept' = Unskipped
    BY <1>1, <2>2, RipViewNext DEF Unskipped
  <2>4. CASE pc' = "cleanup" /\ failed'
    <3>1. TracksDecided' = n - 1 /\ RipPhase' = "stopped"
      BY <1>1, <2>2, <2>4 DEF TracksDecided, RipPhase, Ended
    <3> QED BY <1>1, <1>3, <2>3, <3>1 DEF RipStop
  <2>5. CASE pc' = "sector"
    <3>1. TracksDecided' = n - 1 /\ RipPhase' = "running"
      BY <1>1, <2>2, <2>5 DEF TracksDecided, RipPhase, Ended
    <3> QED BY <1>1, <1>3, <2>3, <3>1 DEF RipStutter
  <2> QED BY <1>5, <2>4, <2>5
<1> QED BY <1>4, <1>5 DEF StartTrack, Fail

\* Reading and the end of a track decide nothing, a failure stops.
LEMMA ReadRips ==
  ASSUME RipInv, RipInv', ReadSector \/ EndOfTrack
  PROVE  RipStop \/ RipStutter
<1>1. /\ pc = "sector" /\ ~reported /\ UNCHANGED <<reported, skipped, current>>
      /\ RipPhase = "running" /\ current > 0
  BY DEF ReadSector, EndOfTrack, RipInv, FlagInv, SectorInv, Ended, RipPhase, Tracks, disc, loop
<1>2. TracksDecided = current - 1 /\ RipKept = Unskipped /\ RipKept' = Unskipped
  BY <1>1, RipView, RipViewNext DEF Unskipped
<1>3. CASE pc' = "cleanup" /\ failed'
  <2>1. TracksDecided' = current - 1 /\ RipPhase' = "stopped"
    BY <1>1, <1>3 DEF TracksDecided, RipPhase, Ended
  <2> QED BY <1>1, <1>2, <2>1 DEF RipStop
<1>4. CASE pc' \in {"sector", "end"}
  <2>1. TracksDecided' = current - 1 /\ RipPhase' = "running"
    BY <1>1, <1>4 DEF TracksDecided, RipPhase, Ended
  <2> QED BY <1>1, <1>2, <2>1 DEF RipStutter
<1> QED BY <1>3, <1>4 DEF ReadSector, EndOfTrack, Fail

\* Keep, Drop and, at the last look at the status, a Drop that stops
LEMMA FinishTrackRips ==
  ASSUME RipInv, RipInv', FinishTrack
  PROVE  \/ RipStop
         \/ RipDecide(RipKept \cup {TracksDecided + 1}, "running")
         \/ RipDecide(RipKept, "running")
         \/ RipDecide(RipKept, "stopped")
<1>1. /\ pc = "end" /\ ~reported /\ ~failed /\ UNCHANGED reported
      /\ RipPhase = "running" /\ TracksDecided = current - 1
      /\ current \in Tracks /\ skipped[current]
      /\ ~skip => cursor = Toc[current + 1]
      /\ skip \in BOOLEAN /\ skipped \in [Tracks -> BOOLEAN]
  BY RipView DEF FinishTrack, RipInv, FlagInv, SectorInv, TypeOK, Ended, RipPhase, Undecided, Tracks
<1>2. /\ current \in Nat /\ current > 0 /\ current <= NTracks /\ NTracks \in Nat
      /\ current + 1 \in 1 .. NTracks + 1
  <2>1. current \in Tracks
    BY <1>1
  <2> QED BY <2>1, TocFacts DEF Tracks
<1>3. RipKept = Unskipped
  BY <1>2, RipView
<1>4. CASE Fail /\ UNCHANGED <<loop, disc>>
  <2>1. /\ pc' = "cleanup" /\ failed' /\ current' = current /\ skipped' = skipped
    BY <1>4 DEF Fail, loop, disc
  <2>2. TracksDecided' = current - 1 /\ RipPhase' = "stopped" /\ RipKept' = Unskipped
    BY <1>1, <1>2, <2>1, RipViewNext DEF TracksDecided, RipPhase, Ended, Unskipped
  <2> QED BY <1>1, <1>3, <2>2 DEF RipStop
<1>5. ASSUME skipped' = [skipped EXCEPT ![current] = skip], current' > 0
      PROVE  RipKept' = IF skip THEN RipKept ELSE RipKept \cup {current}
  <2>1. RipKept' = {t \in Tracks : ~skipped'[t]}
    BY <1>5, RipViewNext DEF Unskipped
  <2>2. CASE skip
    <3>1. skipped' = skipped
      BY <1>1, <1>5, <2>2
    <3> QED BY <1>3, <2>1, <2>2, <3>1 DEF Unskipped
  <2>3. CASE ~skip
    <3>1. \A t \in Tracks : ~skipped'[t] <=> ~skipped[t] \/ t = current
      BY <1>1, <1>5, <2>3
    <3> QED BY <1>1, <1>3, <2>1, <2>3, <3>1 DEF Unskipped
  <2> QED BY <2>2, <2>3
<1>6. ASSUME TracksDecided' = current
      PROVE  TracksDecided < NTracks /\ TracksDecided' = TracksDecided + 1
  BY <1>1, <1>2, <1>6
<1>7. CASE /\ skipped' = [skipped EXCEPT ![current] = skip]
           /\ ~skip /\ pc' = "track" /\ UNCHANGED <<cursor, current>>
  <2>1. TracksDecided' = current
    <3>1. PICK n \in 1 .. NTracks + 1 : n = current + 1
      BY <1>2
    <3>2. cursor' = Toc[n]
      BY <1>1, <1>7, <3>1
    <3>3. TracksDecided' = n - 1
      BY <1>7, <3>2, DecidedFromNext DEF DecidedFromToc
    <3> QED BY <1>2, <3>1, <3>3
  <2>2. RipPhase' = "running"
    BY <1>1, <1>7 DEF RipPhase, Ended
  <2>3. RipKept' = RipKept \cup {TracksDecided + 1}
    BY <1>1, <1>2, <1>5, <1>7
  <2> QED BY <1>1, <1>6, <2>1, <2>2, <2>3 DEF RipDecide
<1>8. CASE /\ skipped' = [skipped EXCEPT ![current] = skip]
           /\ skip /\ pc' = "cleanup" /\ UNCHANGED <<current, failed>>
  <2>1. TracksDecided' = current /\ RipPhase' = "stopped" /\ RipKept' = RipKept
    BY <1>1, <1>2, <1>5, <1>8 DEF TracksDecided, RipPhase, Ended
  <2> QED BY <1>1, <1>6, <2>1 DEF RipDecide
<1>9. CASE /\ skipped' = [skipped EXCEPT ![current] = skip]
           /\ skip /\ pc' = "track" /\ current' = current + 1
           /\ cursor' = FirstSector(current + 1)
  <2>1. TracksDecided' = current
    <3>1. PICK n \in 1 .. NTracks + 1 : n = current + 1
      BY <1>2
    <3>2. cursor' = Toc[n] \/ (cursor' = -1 /\ n = NTracks + 1)
      BY <1>2, <1>9, <3>1 DEF FirstSector, Tracks
    <3>3. TracksDecided' = n - 1
      BY <1>9, <3>2, DecidedFromNext DEF DecidedFromToc
    <3> QED BY <1>2, <3>1, <3>3
  <2>2. RipPhase' = "running" /\ RipKept' = RipKept
    BY <1>1, <1>2, <1>5, <1>9 DEF RipPhase, Ended
  <2> QED BY <1>1, <1>6, <2>1, <2>2 DEF RipDecide
<1> QED BY <1>4, <1>7, <1>8, <1>9 DEF FinishTrack

LEMMA DoneRips ==
  ASSUME RipInv, RipInv', Done
  PROVE  RipFinish
<1>1. /\ pc = "track" /\ ~MoreToExtract /\ ~reported /\ reported' /\ pc' = "cleanup"
      /\ ~failed /\ UNCHANGED <<current, skipped, failed>>
  BY DEF Done, RipInv, FlagInv, Ended, loop, disc
<1>2. PICK n \in 1 .. NTracks + 1 : Before(n)
  BY <1>1 DEF RipInv, TrackInv
<1>3. n = NTracks + 1 /\ current \in {NTracks, NTracks + 1} /\ current > 0 /\ NTracks \in Int
  BY <1>1, <1>2, AllDecided, TocFacts
<1>4. TracksDecided = NTracks /\ RipKept = Unskipped /\ RipKept' = Unskipped
  BY <1>1, <1>2, <1>3, RipView, RipViewNext DEF Unskipped
<1>5. TracksDecided' = NTracks
  BY <1>1, <1>3 DEF TracksDecided
<1> QED BY <1>1, <1>4, <1>5 DEF RipFinish, RipPhase, Ended

\* The extraction decides the tracks in order, keeps whole files only, and
\* reports the disc when all have been decided: it implements RipDisc.
THEOREM RipsDisc == Spec => Rip!Spec
<1>1. Init /\ RipInv => Rip!Init
  <2> SUFFICES ASSUME Init, RipInv
               PROVE  Rip!Init
    OBVIOUS
  <2>1. TracksDecided = 0 /\ RipKept = {} /\ RipPhase = "running"
    BY RipView DEF Init, RipPhase, Ended
  <2> QED BY <2>1 DEF Rip!Init, RipKept, RipPhase, Ended
<1>2. RipInv /\ RipInv' /\ [Next]_vars => [Rip!Next]_(Rip!vars)
  <2> SUFFICES ASSUME RipInv, RipInv', [Next]_vars
               PROVE  [Rip!Next]_(Rip!vars)
    OBVIOUS
  <2>1. /\ RipStutter => UNCHANGED Rip!vars
        /\ RipStop => Rip!Stop
        /\ RipDecide(RipKept \cup {TracksDecided + 1}, "running") => Rip!Keep
        /\ RipDecide(RipKept, "running") => Rip!Drop
        /\ RipDecide(RipKept, "stopped") => Rip!Drop
        /\ RipFinish => Rip!Finish
    BY DEF RipStutter, RipStop, RipDecide, RipFinish, RipKept, RipPhase, Ended,
           Rip!vars, Rip!Stop, Rip!Keep, Rip!Drop, Rip!Finish
  <2>2. CASE Cancel \/ UNCHANGED vars
    BY <2>1, <2>2 DEF Cancel, vars, loop, disc, RipStutter, RipKept, RipPhase, Ended,
       TracksDecided, SectorsOf
  <2>3. CASE Cleanup
    BY <2>1, <2>3 DEF Cleanup, loop, disc, RipStutter, RipKept, RipPhase, Ended,
       TracksDecided, SectorsOf
  <2> QED BY <2>1, <2>2, <2>3, SetupRips, StartTrackRips, ReadRips, FinishTrackRips, DoneRips
          DEF Next, Step, Rip!Next
<1> QED BY <1>1, <1>2, InitRipInv, RipInvCorrect, PTL DEF Spec, Rip!Spec

=============================================================================
