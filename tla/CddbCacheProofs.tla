-------------------------- MODULE CddbCacheProofs --------------------------
(***************************************************************************)
(* Proofs about the cache, for every set of discs, files, answers of the   *)
(* service, names and requests: its types (CacheTypeCorrect), the index of *)
(* a rebuild (TempIsIndexAlways), that what is counted or reported is in   *)
(* the cache and is found (KeptIsAlwaysThere, ReportedIsAlwaysServed,      *)
(* AlbumIsAlwaysFound), and that a cue sheet reads back                    *)
(* (CueAlwaysReadsBack).                                                   *)
(*                                                                         *)
(* They rest on what the parsers return (ParserProofs).  A disc has one    *)
(* hash, two discs with one hash have one number of tracks, each as long   *)
(* to a second (SameDrive), and no file of the cddb folder and no entry    *)
(* beside an album has the hash of a disc: a file rounds the last track to *)
(* whole seconds after an offset of two seconds (FileNotDrive), and an     *)
(* entry beside an album has a track more (WrittenDiscIs).  So the HTTP    *)
(* thread and the job write different rows.                                *)
(*                                                                         *)
(* IndexInv says that the index and the rows threads refer to are there,   *)
(* BaseInv adds what each thread has in hand and what the rows hold;       *)
(* TallyInv, ServedInv and KeptInv extend it for one theorem each.         *)
(***************************************************************************)
EXTENDS ParserProofs

-----------------------------------------------------------------------------
(* The lookup hash. *)
HashHead(n, length, len) == <<n % 256, length % 65536>> \o <<len[n] \div Frames>>
HashTail(n, len) == [i \in 1..(n - 1) |-> len[i] % 524288]
Hash(n, length, len) == HashHead(n, length, len) \o HashTail(n, len)

(* The hash is as long as it has numbers: two more than tracks. *)
LEMMA HashParts ==
  ASSUME NEW n \in Nat \ {0}, NEW length, NEW len
  PROVE  LET h == Hash(n, length, len)
         IN  /\ Len(h) = n + 2 /\ h[2] = length % 65536 /\ h[3] = len[n] \div Frames
             /\ \A i \in 1 .. n - 1 : h[3 + i] = len[i] % 524288
  <1> DEFINE a == n % 256
             b == length % 65536
             c == len[n] \div Frames
             v(i) == len[i] % 524288
             t == [i \in 1 .. n - 1 |-> v(i)]
             S == {a, b, c} \cup {v(i) : i \in 1 .. n - 1}
             ab == <<a, b>>
             cc == <<c>>
             hd == ab \o cc
             h == hd \o t
  <1>1. Hash(n, length, len) = h
    <2> HIDE DEF a, b, c, v
    <2> QED BY DEF Hash, HashHead, HashTail, a, b, c, v
  <1> HIDE DEF a, b, c, v
  <1>2. ab \in Seq(S) /\ Len(ab) = 2 /\ ab[1] = a /\ ab[2] = b
    OBVIOUS
  <1>3. cc \in Seq(S) /\ Len(cc) = 1 /\ cc[1] = c
    OBVIOUS
  <1>4. t \in Seq(S) /\ Len(t) = n - 1 /\ \A i \in 1 .. n - 1 : t[i] = v(i)
    <2>1. \A i \in 1 .. n - 1 : v(i) \in S
      OBVIOUS
    <2> HIDE DEF S
    <2>2. t \in [1 .. n - 1 -> S] /\ n - 1 \in Nat
      BY <2>1
    <2> QED BY <2>2
  <1> HIDE DEF ab, cc, t, S
  <1>5. hd \in Seq(S) /\ Len(hd) = 3 /\ hd[2] = b /\ hd[3] = c
    <2>1. /\ ab \o cc \in Seq(S) /\ Len(ab \o cc) = Len(ab) + Len(cc)
          /\ \A j \in 1..Len(ab) : (ab \o cc)[j] = ab[j]
          /\ \A j \in 1..Len(cc) : (ab \o cc)[Len(ab) + j] = cc[j]
      <3>1. ab \in Seq(S) /\ cc \in Seq(S)
        BY <1>2, <1>3
      <3> QED BY ONLY <3>1, ConcatAt
    <2>2. 2 \in 1..Len(ab) /\ 1 \in 1..Len(cc) /\ Len(ab) + 1 = 3 /\ Len(ab) + Len(cc) = 3
      BY <1>2, <1>3
    <2> QED BY <1>2, <1>3, <2>1, <2>2
  <1> HIDE DEF hd
  <1>6. /\ Len(h) = Len(hd) + Len(t)
        /\ \A j \in 1..Len(hd) : h[j] = hd[j]
        /\ \A j \in 1..Len(t) : h[Len(hd) + j] = t[j]
    <2>1. hd \in Seq(S) /\ t \in Seq(S)
      BY <1>4, <1>5
    <2>2. /\ Len(hd \o t) = Len(hd) + Len(t)
          /\ \A j \in 1..Len(hd) : (hd \o t)[j] = hd[j]
          /\ \A j \in 1..Len(t) : (hd \o t)[Len(hd) + j] = t[j]
      BY ONLY <2>1, ConcatAt
    <2> QED BY <2>2
  <1>7. 2 \in 1..Len(hd) /\ 3 \in 1..Len(hd) /\ Len(hd) + Len(t) = n + 2
    BY <1>4, <1>5
  <1> HIDE DEF h
  <1>8. /\ Len(h) = n + 2 /\ h[2] = b /\ h[3] = c
        /\ \A i \in 1 .. n - 1 : h[3 + i] = v(i)
    BY <1>4, <1>5, <1>6, <1>7
  <1> QED BY <1>1, <1>8 DEF b, c, v

(* Equal hashes: what the discs have in common. *)
LEMMA EqualHash ==
  ASSUME NEW n \in Nat \ {0}, NEW length, NEW len,
         NEW m \in Nat \ {0}, NEW length2, NEW len2,
         Hash(n, length, len) = Hash(m, length2, len2)
  PROVE  /\ n = m /\ length % 65536 = length2 % 65536
         /\ len[n] \div Frames = len2[n] \div Frames
         /\ \A i \in 1 .. n - 1 : len[i] % 524288 = len2[i] % 524288
  <1> DEFINE h == Hash(n, length, len)
             h2 == Hash(m, length2, len2)
  <1>1. /\ Len(h) = n + 2 /\ h[2] = length % 65536 /\ h[3] = len[n] \div Frames
        /\ \A i \in 1 .. n - 1 : h[3 + i] = len[i] % 524288
    BY HashParts
  <1>2. /\ Len(h2) = m + 2 /\ h2[2] = length2 % 65536 /\ h2[3] = len2[m] \div Frames
        /\ \A i \in 1 .. m - 1 : h2[3 + i] = len2[i] % 524288
    BY HashParts
  <1>3. h = h2
    OBVIOUS
  <1> HIDE DEF h, h2
  <1>4. n = m
    BY <1>1, <1>2, <1>3
  <1> QED BY <1>1, <1>2, <1>3, <1>4

(* The hash looks at the tracks of the disc only. *)
LEMMA HashOfTracks ==
  ASSUME NEW n \in Nat \ {0}, NEW length, NEW len, NEW len2, \A i \in 1..n : len[i] = len2[i]
  PROVE  Hash(n, length, len) = Hash(n, length, len2)
  <1>1. \A i \in 1 .. n - 1 : len[i] % 524288 = len2[i] % 524288
    OBVIOUS
  <1>2. HashTail(n, len) = HashTail(n, len2)
    BY <1>1 DEF HashTail
  <1>3. HashHead(n, length, len) = HashHead(n, length, len2)
    <2>1. len[n] = len2[n]
      OBVIOUS
    <2> QED BY <2>1 DEF HashHead
  <1> QED BY <1>2, <1>3 DEF Hash

WithLookup(d, lookup) == Disc(d.id, d.cid, lookup, d.n, d.length, d.name, d.year, d.rev,
                              d.complete, d.len, d.title)

(* The hash that SetHash sets. *)
LEMMA SetHashIs ==
  ASSUME NEW d, IsStruct(d), d.n \in Nat \ {0}
  PROVE  SetHash(d) = WithLookup(d, Hash(d.n, d.length, d.len))
  <1> DEFINE h == <<d.n % 256, d.length % 65536>>
                  \o (IF d.n > 0 THEN <<d.len[d.n] \div Frames>> ELSE <<>>)
                  \o [i \in 1..(IF d.n > 0 THEN d.n - 1 ELSE 0) |-> d.len[i] % 524288]
  <1>1. d.n > 0
    OBVIOUS
  <1>2. h = Hash(d.n, d.length, d.len)
    <2>1. h = <<d.n % 256, d.length % 65536>> \o <<d.len[d.n] \div Frames>>
              \o [i \in 1..(d.n - 1) |-> d.len[i] % 524288]
      <3> DEFINE a == <<d.n % 256, d.length % 65536>>
                 b == <<d.len[d.n] \div Frames>>
                 t(k) == [i \in 1..k |-> d.len[i] % 524288]
      <3>1. (IF d.n > 0 THEN b ELSE <<>>) = b /\ (IF d.n > 0 THEN d.n - 1 ELSE 0) = d.n - 1
        BY <1>1
      <3>2. h = a \o (IF d.n > 0 THEN b ELSE <<>>) \o t(IF d.n > 0 THEN d.n - 1 ELSE 0)
        OBVIOUS
      <3> HIDE DEF a, b, t, h
      <3>3. h = a \o b \o t(d.n - 1)
        BY <3>1, <3>2
      <3> QED BY <3>3 DEF a, b, t
    <2> HIDE DEF h
    <2> QED BY <2>1 DEF Hash, HashHead, HashTail
  <1>3. SetHash(d) = [d EXCEPT !.lookup = h]
    BY DEF SetHash
  <1> HIDE DEF h
  <1>4. [d EXCEPT !.lookup = h] = WithLookup(d, h)
    BY DEF IsStruct, WithLookup, Disc
  <1> QED BY <1>2, <1>3, <1>4

(* Equal lengths have equal sums. *)
LEMMA SumOfEqual ==
  ASSUME NEW f, NEW g, NEW n \in Nat, \A i \in 1..n : f[i] = g[i] /\ f[i] \in Int
  PROVE  Sum(f, n) = Sum(g, n) /\ Sum(f, n) \in Int
  <1> DEFINE P == {k \in Nat : k <= n => Sum(f, k) = Sum(g, k)}
  <1>1. /\ Sum(f, 0) = 0 /\ \A k \in 1..n : Sum(f, k) = Sum(f, k - 1) + f[k]
        /\ \A k \in 0..n : Sum(f, k) \in Int
    BY SumSteps
  <1>2. Sum(g, 0) = 0 /\ \A k \in 1..n : Sum(g, k) = Sum(g, k - 1) + g[k]
    <2>1. \A i \in 1..n : g[i] \in Int
      OBVIOUS
    <2> QED BY <2>1, SumSteps
  <1>3. 0 \in P
    BY <1>1, <1>2
  <1>4. ASSUME NEW k \in Nat, k \in P PROVE k + 1 \in P
    <2>1. CASE k + 1 <= n
      <3>1. k + 1 \in 1..n /\ (k + 1) - 1 = k /\ k <= n
        BY ONLY <2>1, k \in Nat, n \in Nat
      <3>2. Sum(f, k) = Sum(g, k)
        BY <1>4, <3>1
      <3>3. Sum(f, k + 1) = Sum(f, k) + f[k + 1] /\ Sum(g, k + 1) = Sum(g, k) + g[k + 1]
            /\ f[k + 1] = g[k + 1]
        BY <1>1, <1>2, <3>1
      <3> QED BY <3>2, <3>3
    <2> QED BY <2>1
  <1> HIDE DEF P
  <1>5. n \in P
    BY <1>3, <1>4, SetInduction
  <1>6. n \in 0..n
    OBVIOUS
  <1> QED BY <1>1, <1>5, <1>6 DEF P

-----------------------------------------------------------------------------
(* The disc in the drive. *)
DriveLength(c) == Sum(c.lens, Len(c.lens))
DriveHash(c) == Hash(Len(c.lens), DriveLength(c), c.lens)

(* A structure that holds what the table of contents says. *)
DriveLike(d, c) ==
  /\ IsStruct(d) /\ d.id = c.id /\ d.n = Len(c.lens) /\ d.length = DriveLength(c)
  /\ d.lookup = DriveHash(c)
  /\ \A i \in 1..Len(c.lens) : d.len[i] = c.lens[i]
  /\ d.year \in Nat /\ d.rev \in Nat

(* A new structure. *)
LEMMA AllocIsStruct == IsStruct(AllocDisc) /\ AllocDisc.n = 0 /\ AllocDisc.length = 0
                       /\ AllocDisc.year = 0 /\ AllocDisc.rev = 0 /\ AllocDisc.cid = NoId
                       /\ AllocDisc.id = NoId /\ AllocDisc.lookup = NoLookup
                       /\ \A i \in 1..MaxTracks : /\ AllocDisc.len[i] = 0
                                                  /\ AllocDisc.title[i] = DefaultTitle
  <1>1. DefaultTitle \in Seq(Pieces) \ {<<>>}
    <2> DEFINE t == "Track"
    <2>1. t \in Pieces
      BY DEF Pieces
    <2>2. DefaultTitle = <<t>>
      BY DEF DefaultTitle
    <2> HIDE DEF t
    <2>3. \A S : t \in S => <<t>> \in Seq(S)
      OBVIOUS
    <2>4. <<t>> # <<>>
      OBVIOUS
    <2> QED BY <2>1, <2>2, <2>3, <2>4
  <1>2. /\ AllocDisc.len = [i \in 1..MaxTracks |-> 0]
        /\ AllocDisc.title = [i \in 1..MaxTracks |-> DefaultTitle]
    BY DEF AllocDisc
  <1>3. AllocDisc.len \in Lens /\ AllocDisc.title \in Titles
    BY <1>1, <1>2 DEF Lens, Titles
  <1>4. AllocDisc = Disc(AllocDisc.id, AllocDisc.cid, AllocDisc.lookup, AllocDisc.n,
                         AllocDisc.length, AllocDisc.name, AllocDisc.year, AllocDisc.rev,
                         AllocDisc.complete, AllocDisc.len, AllocDisc.title)
    BY DEF AllocDisc, Disc
  <1>5. /\ AllocDisc.n = 0 /\ AllocDisc.length = 0 /\ AllocDisc.year = 0 /\ AllocDisc.rev = 0
        /\ AllocDisc.cid = NoId /\ AllocDisc.id = NoId /\ AllocDisc.lookup = NoLookup
    BY DEF AllocDisc
  <1> QED BY <1>2, <1>3, <1>4, <1>5 DEF IsStruct

(* Every field of a structure that is written out is a field of Disc. *)
LEMMA DiscFields ==
  ASSUME NEW id, NEW cid, NEW lookup, NEW n, NEW length, NEW name, NEW year, NEW rev,
         NEW complete, NEW len, NEW title
  PROVE  LET d == Disc(id, cid, lookup, n, length, name, year, rev, complete, len, title)
         IN  /\ d.id = id /\ d.cid = cid /\ d.lookup = lookup /\ d.n = n /\ d.length = length
             /\ d.name = name /\ d.year = year /\ d.rev = rev /\ d.complete = complete
             /\ d.len = len /\ d.title = title
             /\ (len \in Lens /\ title \in Titles => IsStruct(d))
  BY DEF Disc, IsStruct

(* A disc in the drive. *)
LEMMA TocOf ==
  ASSUME NEW c \in Discs
  PROVE  /\ c.id # NoId /\ Len(c.lens) \in Nat \ {0} /\ Len(c.lens) \in 1 .. MaxTracks - 1
         /\ Len(c.lens) \in 1..MaxTracks
         /\ \A i \in 1..Len(c.lens) : /\ c.lens[i] \in Nat /\ c.lens[i] < 524288
                                      /\ c.lens[i] >= 300
         /\ SumFunctionOnSet(c.lens, DOMAIN c.lens) = DriveLength(c)
         /\ DriveLength(c) \in Nat
  <1>1. c.id # NoId /\ IsToc(c.lens)
    BY DocumentAssumption
  <1>2. /\ Len(c.lens) \in 1..MaxTracks /\ DOMAIN c.lens = 1..Len(c.lens)
        /\ \A i \in 1..Len(c.lens) : c.lens[i] \in Nat /\ c.lens[i] < 524288
        /\ SumFunctionOnSet(c.lens, DOMAIN c.lens) = Sum(c.lens, Len(c.lens))
    BY <1>1, TocFacts
  <1>3. \A i \in DOMAIN c.lens : c.lens[i] >= 4 * Frames
    BY ShortestTrack
  <1>4. 4 * Frames = 300
    BY DEF Frames
  <1>5. \A i \in 1..Len(c.lens) : c.lens[i] >= 300
    BY <1>2, <1>3, <1>4
  <1>6. Len(c.lens) \in 1 .. MaxTracks - 1
    BY <1>1 DEF IsToc
  <1>7. DriveLength(c) \in Nat
    <2> DEFINE n == Len(c.lens)  len == c.lens
    <2>1. n \in Nat /\ \A i \in 1..n : len[i] \in Nat
      BY <1>2, MaxTracksAssumption
    <2>2. n \in 0..n
      BY <2>1
    <2> HIDE DEF n, len
    <2>3. \A k \in 0..n : Sum(len, k) \in Nat
      BY <2>1, SumNat
    <2> QED BY <2>2, <2>3 DEF DriveLength, n, len
  <1> QED BY <1>1, <1>2, <1>5, <1>6, <1>7, MaxTracksAssumption DEF DriveLength

(* The structure prepared for a disc holds its table of contents, whatever *)
(* it held before.                                                         *)
LEMMA PreparedIs ==
  ASSUME NEW c \in Discs, NEW old, IsStruct(old), old.year \in Nat, old.rev \in Nat
  PROVE  DriveLike(Prepare(old, c), c)
  <1> DEFINE n == Len(c.lens)
             s == SumFunctionOnSet(c.lens, DOMAIN c.lens)
             len == [i \in 1..MaxTracks |-> IF i <= n /\ c.lens[i] # 0 THEN c.lens[i] ELSE old.len[i]]
             d0 == [old EXCEPT !.id = c.id]
             d1 == [d0 EXCEPT !.n = n]
             d2 == [d1 EXCEPT !.length = s]
             d3 == [d2 EXCEPT !.len = len]
             e == Disc(c.id, old.cid, old.lookup, n, s, old.name, old.year, old.rev,
                       old.complete, len, old.title)
  <1>1. /\ n \in Nat \ {0} /\ n \in 1..MaxTracks
        /\ \A i \in 1..n : c.lens[i] \in Nat
        /\ s = DriveLength(c)
    BY TocOf
  <1>2. len \in Lens
    <2>1. \A i \in 1..MaxTracks : i <= n => i \in 1..n
      BY <1>1
    <2>2. \A i \in 1..MaxTracks : old.len[i] \in Int
      BY DEF IsStruct, Lens
    <2> HIDE DEF n
    <2> QED BY <1>1, <2>1, <2>2 DEF Lens
  <1>l. \A i \in 1..n : len[i] = c.lens[i]
    <2>1. \A i \in 1..n : i <= n /\ i \in 1..MaxTracks
      BY <1>1, MaxTracksAssumption
    <2>2. \A i \in 1..n : c.lens[i] # 0
      <3>1. \A i \in 1..n : c.lens[i] \in Nat /\ c.lens[i] >= 300
        BY TocOf
      <3> HIDE DEF n
      <3> QED BY <3>1
    <2> HIDE DEF n
    <2> QED BY <2>1, <2>2
  <1>3. Prepare(old, c) = SetHash([old EXCEPT !.id = c.id, !.n = n, !.length = s, !.len = len])
    BY DEF Prepare
  <1> HIDE DEF n, s, len
  <1>4. d3 = e
    <2>1. old = Disc(old.id, old.cid, old.lookup, old.n, old.length, old.name, old.year,
                     old.rev, old.complete, old.len, old.title)
      BY DEF IsStruct
    <2>2. d0 = Disc(c.id, old.cid, old.lookup, old.n, old.length, old.name, old.year,
                    old.rev, old.complete, old.len, old.title)
      BY <2>1 DEF Disc
    <2> HIDE DEF d0
    <2>3. d1 = Disc(c.id, old.cid, old.lookup, n, old.length, old.name, old.year,
                    old.rev, old.complete, old.len, old.title)
      BY <2>2 DEF Disc
    <2> HIDE DEF d1
    <2>4. d2 = Disc(c.id, old.cid, old.lookup, n, s, old.name, old.year,
                    old.rev, old.complete, old.len, old.title)
      BY <2>3 DEF Disc
    <2> HIDE DEF d2
    <2> QED BY <2>4 DEF Disc
  <1>5. Prepare(old, c) = SetHash(e)
    <2> HIDE DEF e
    <2> QED BY <1>3, <1>4
  <1> HIDE DEF d3
  <1>6. /\ e.id = c.id /\ e.n = n /\ e.length = s /\ e.len = len /\ e.year = old.year
        /\ e.rev = old.rev /\ e.title = old.title /\ IsStruct(e)
    BY <1>2, DiscFields DEF IsStruct
  <1> HIDE DEF e
  <1>7. SetHash(e) = WithLookup(e, Hash(e.n, e.length, e.len))
    BY <1>1, <1>6, SetHashIs
  <1>8. Hash(n, s, len) = DriveHash(c)
    <2>1. Hash(n, s, len) = Hash(n, s, c.lens)
      BY <1>1, <1>l, HashOfTracks
    <2> QED BY <1>1, <2>1 DEF DriveHash, n
  <1> DEFINE p == WithLookup(e, DriveHash(c))
  <1>9. Prepare(old, c) = p
    BY <1>5, <1>6, <1>7, <1>8
  <1>10. /\ p.id = e.id /\ p.n = e.n /\ p.length = e.length /\ p.len = e.len
         /\ p.year = e.year /\ p.rev = e.rev /\ p.lookup = DriveHash(c) /\ IsStruct(p)
    BY <1>6, DiscFields DEF WithLookup, IsStruct
  <1> HIDE DEF p
  <1> QED BY <1>1, <1>6, <1>l, <1>9, <1>10 DEF DriveLike, n

LEMMA DriveDiscIs ==
  ASSUME NEW c \in Discs
  PROVE  DriveLike(DriveDisc[c], c)
  <1>1. DriveDisc[c] = Prepare(AllocDisc, c)
    BY DEF DriveDisc
  <1>2. DriveLike(Prepare(AllocDisc, c), c)
    BY AllocIsStruct, PreparedIs
  <1> QED BY <1>1, <1>2

(* Two discs with one hash. *)
LEMMA SameDrive ==
  ASSUME NEW c \in Discs, NEW b \in Discs, DriveHash(c) = DriveHash(b)
  PROVE  /\ Len(c.lens) = Len(b.lens)
         /\ \A k \in 1..Len(c.lens) : Abs(c.lens[k] - b.lens[k]) < Frames
  <1> DEFINE n == Len(c.lens)  m == Len(b.lens)
  <1>1. n \in Nat \ {0} /\ m \in Nat \ {0}
    BY TocOf
  <1>2. /\ n = m /\ c.lens[n] \div Frames = b.lens[n] \div Frames
        /\ \A i \in 1 .. n - 1 : c.lens[i] % 524288 = b.lens[i] % 524288
    BY <1>1, EqualHash DEF DriveHash
  <1>3. /\ \A i \in 1..n : c.lens[i] \in Nat /\ c.lens[i] < 524288
        /\ \A i \in 1..m : b.lens[i] \in Nat /\ b.lens[i] < 524288
    BY TocOf
  <1> HIDE DEF n, m
  <1>4. ASSUME NEW k \in 1..n PROVE Abs(c.lens[k] - b.lens[k]) < Frames
    <2> DEFINE x == c.lens[k]  y == b.lens[k]
    <2>1. x \in Nat /\ x < 524288 /\ y \in Nat /\ y < 524288
      BY <1>2, <1>3
    <2>2. CASE k = n
      <3>1. x \div 75 = y \div 75
        BY <1>2, <2>2 DEF Frames
      <3> HIDE DEF x, y
      <3>2. x - y < 75 /\ y - x < 75
        BY ONLY <2>1, <3>1
      <3> QED BY <2>1, <3>2 DEF Abs, Frames, x, y
    <2>3. CASE k # n
      <3>1. k \in 1 .. n - 1
        BY <1>1, <2>3
      <3>2. x % 524288 = y % 524288
        BY <1>2, <3>1
      <3> HIDE DEF x, y
      <3>3. x = y
        BY ONLY <2>1, <3>2
      <3>4. x - y = 0
        BY <2>1, <3>3
      <3> QED BY <3>4 DEF Abs, Frames, x, y
    <2> QED BY <2>2, <2>3
  <1> QED BY <1>2, <1>4 DEF n, m

-----------------------------------------------------------------------------
(* The disc of a file of the cddb folder: the last track is as long as the *)
(* seconds of the disc leave.                                              *)
FileSecs(f) == (MsfOffset + Sum(f.lens, Len(f.lens))) \div Frames
FileLast(f) == FileSecs(f) * Frames - (MsfOffset + Sum(f.lens, Len(f.lens) - 1))
FileLens(f) == [i \in 1..Len(f.lens) |-> IF i < Len(f.lens) THEN f.lens[i] ELSE FileLast(f)]
FileHash(f) == Hash(Len(f.lens), FileSecs(f) * Frames, FileLens(f))

FileLike(d, f) ==
  /\ IsStruct(d) /\ d.n = Len(f.lens) /\ d.lookup = FileHash(f)
  /\ d.name = f.name /\ d.rev = f.rev /\ d.year \in Nat
  /\ \A i \in 1..Len(f.lens) : d.len[i] = FileLens(f)[i] /\ d.title[i] = f.titles[i]

(* A file of the cddb folder. *)
LEMMA TocOfFile ==
  ASSUME NEW f \in Files
  PROVE  /\ IsEntry(f) /\ Len(f.lens) \in Nat \ {0} /\ Len(f.lens) \in 1..MaxTracks
         /\ \A i \in 1..Len(f.lens) : /\ f.lens[i] \in Nat /\ f.lens[i] < 524288
                                      /\ f.lens[i] >= 300
         /\ Sum(f.lens, Len(f.lens) - 1) \in Nat
         /\ Sum(f.lens, Len(f.lens)) = Sum(f.lens, Len(f.lens) - 1) + f.lens[Len(f.lens)]
         /\ f.year \in Nat /\ f.rev \in Nat /\ f.id # NoId
  <1>1. IsEntry(f) /\ IsToc(f.lens)
    BY DocumentAssumption DEF IsEntry
  <1>2. /\ Len(f.lens) \in 1..MaxTracks /\ DOMAIN f.lens = 1..Len(f.lens)
        /\ \A i \in 1..Len(f.lens) : f.lens[i] \in Nat /\ f.lens[i] < 524288
    BY <1>1, TocFacts
  <1>3. \A i \in DOMAIN f.lens : f.lens[i] >= 4 * Frames
    BY ShortestTrack
  <1>4. 4 * Frames = 300
    BY DEF Frames
  <1>5. \A i \in 1..Len(f.lens) : f.lens[i] >= 300
    BY <1>2, <1>3, <1>4
  <1> DEFINE n == Len(f.lens)  len == f.lens
  <1>6. n \in Nat /\ n \in Nat \ {0} /\ n \in 0..n /\ n - 1 \in 0..n /\ n \in 1..n
        /\ \A i \in 1..n : len[i] \in Nat /\ len[i] \in Int
    BY <1>2, MaxTracksAssumption
  <1> HIDE DEF n, len
  <1>7. \A k \in 0..n : Sum(len, k) \in Nat
    BY <1>6, SumNat
  <1>8. Sum(len, n) = Sum(len, n - 1) + len[n]
    BY <1>6, SumSteps
  <1>9. f.year \in Nat /\ f.rev \in Nat /\ f.id # NoId
    BY <1>1 DEF IsEntry
  <1>10. Sum(len, n - 1) \in Nat
    BY <1>6, <1>7
  <1>11. n \in Nat \ {0}
    BY <1>6
  <1> QED BY <1>1, <1>2, <1>5, <1>8, <1>9, <1>10, <1>11 DEF n, len

(* Less than a second is lost. *)
LEMMA FileLastIs ==
  ASSUME NEW f \in Files
  PROVE  /\ FileLast(f) \in Nat /\ FileLast(f) <= f.lens[Len(f.lens)]
         /\ f.lens[Len(f.lens)] - FileLast(f) < 75
         /\ FileSecs(f) \in Nat
         /\ FileSecs(f) * 75 = FileLast(f) + 150 + Sum(f.lens, Len(f.lens) - 1)
  <1> DEFINE n == Len(f.lens)
             s == Sum(f.lens, n - 1)
             b == f.lens[n]
             q == (150 + (s + b)) \div 75
  <1>1. n \in 1..n
    BY TocOfFile
  <1>2. s \in Nat /\ b \in Nat /\ b >= 300 /\ Sum(f.lens, n) = s + b
    BY <1>1, TocOfFile
  <1>3. FileSecs(f) = q /\ FileLast(f) = q * 75 - (150 + s)
    BY <1>2 DEF FileSecs, FileLast, MsfOffset, Frames
  <1> HIDE DEF n, s, b
  <1>4. q \in Nat /\ q * 75 <= 150 + (s + b) /\ 150 + (s + b) < q * 75 + 75
    BY ONLY <1>2
  <1> HIDE DEF q
  <1>5. LET last == q * 75 - (150 + s)
        IN  last \in Nat /\ last <= b /\ b - last < 75 /\ q * 75 = last + 150 + s
    BY ONLY <1>2, <1>4
  <1> QED BY <1>3, <1>4, <1>5 DEF b, s, n

(* What reading the file gives. *)
LEMMA FileDiscIs ==
  ASSUME NEW f \in Files
  PROVE  /\ FileLike(FileDisc[f], f) /\ FileDisc[f].year = f.year
         /\ FileDisc[f].lookup = FileHash(f)
  <1> DEFINE n == Len(f.lens)
             d0 == [AllocDisc EXCEPT !.id = f.id]
             secs == FileSecs(f)
             hd == HeadOf(d0, f.lens, n, secs, f.rev, f.id, f.name, f.year)
             t == Titled(d0, f.titles, n)
             e == WithTitles(hd, n, t)
  <1>1. /\ IsEntry(f) /\ n \in Nat \ {0} /\ n \in 1..MaxTracks
        /\ f.titles \in Seq(Seq(Pieces) \ {<<>>}) /\ Len(f.titles) = n
        /\ \A i \in 1..n : f.lens[i] \in Nat
        /\ f.year \in Nat
    BY TocOfFile, EntryTitles
  <1>2. /\ IsStruct(d0) /\ d0.n = 0 /\ d0.length = 0 /\ d0.year = 0
        /\ \A i \in 1..MaxTracks : d0.len[i] = 0
        /\ d0.title \in Titles /\ d0.len \in Lens
    <2>1. d0 = Disc(f.id, AllocDisc.cid, AllocDisc.lookup, AllocDisc.n,
                    AllocDisc.length, AllocDisc.name, AllocDisc.year, AllocDisc.rev,
                    AllocDisc.complete, AllocDisc.len, AllocDisc.title)
      BY AllocIsStruct DEF IsStruct, Disc
    <2> HIDE DEF d0
    <2> QED BY <2>1, AllocIsStruct, DiscFields DEF IsStruct
  <1>3. X!ParseEntry(d0, X!ServiceEntry(f)) = e
    <2>1. X!ParseEntry(d0, X!ServiceEntry(f)) = Served(d0, f)
      BY <1>1, <1>2, ServiceParsed
    <2>2. Served(d0, f) = e
      BY DEF Served, FileSecs
    <2> QED BY <2>1, <2>2
  <1>4. FileDisc[f] = SetHash(e)
    BY <1>3 DEF FileDisc
  <1> HIDE DEF d0
  <1>5. /\ hd.length = secs * Frames /\ hd.name = f.name /\ hd.rev = f.rev /\ hd.year = f.year
        /\ hd.len = FillAll(d0, f.lens, n, secs)
    <2>1. (IF d0.length = 0 THEN secs * Frames ELSE d0.length) = secs * Frames
      BY <1>2
    <2>2. (IF f.year = 0 THEN d0.year ELSE f.year) = f.year
      BY <1>2
    <2> HIDE DEF n, secs
    <2> QED BY <2>1, <2>2 DEF HeadOf, Disc
  <1> DEFINE len == FillAll(d0, f.lens, n, secs)
  <1>6. \A i \in 1..n : len[i] = FileLens(f)[i]
    <2> SUFFICES ASSUME NEW i \in 1..n PROVE len[i] = FileLens(f)[i]
      OBVIOUS
    <2>1. i \in 1..MaxTracks /\ i <= n /\ d0.len[i] = 0
      BY <1>1, <1>2, MaxTracksAssumption
    <2>2. len[i] = IF i < n THEN f.lens[i]
                   ELSE secs * Frames - (MsfOffset + Sum(f.lens, n - 1))
      <3> HIDE DEF n, secs
      <3> QED BY <2>1 DEF FillAll
    <2>3. FileLens(f)[i] = IF i < n THEN f.lens[i] ELSE FileLast(f)
      BY DEF FileLens
    <2> QED BY <2>2, <2>3 DEF FileLast
  <1>7. len \in Lens
    <2>1. FileLast(f) \in Int
      BY FileLastIs
    <2>2. \A i \in 1..n : FileLens(f)[i] \in Int
      BY <1>1, <2>1 DEF FileLens
    <2>3. ASSUME NEW i \in 1..MaxTracks PROVE len[i] \in Int
      <3>1. CASE i <= n
        <4>1. i \in 1..n
          BY <1>1, <3>1
        <4> QED BY <1>6, <2>2, <4>1
      <3>2. CASE ~(i <= n)
        <4>1. len[i] = d0.len[i]
          <5> HIDE DEF n, secs
          <5> QED BY <3>2 DEF FillAll
        <4> QED BY <1>2, <4>1
      <3> QED BY <3>1, <3>2
    <2>4. len = [i \in 1..MaxTracks |-> len[i]]
      BY DEF FillAll
    <2> HIDE DEF len
    <2> QED BY <2>3, <2>4 DEF Lens
  <1>8. t \in Titles /\ \A i \in 1..n : t[i] = f.titles[i]
    <2>1. \A i \in 1..n : f.titles[i] \in Seq(Pieces) \ {<<>>} /\ i \in 1..MaxTracks /\ i <= n
      BY <1>1, MaxTracksAssumption
    <2>2. ASSUME NEW i \in 1..MaxTracks
          PROVE  (IF i <= n THEN f.titles[i] ELSE d0.title[i]) \in Seq(Pieces) \ {<<>>}
      <3>1. CASE i <= n
        <4>1. i \in 1..n
          BY <1>1, <3>1
        <4> QED BY <2>1, <3>1, <4>1
      <3>2. CASE ~(i <= n)
        BY <1>2, <3>2 DEF Titles
      <3> QED BY <3>1, <3>2
    <2> HIDE DEF n
    <2>3. t \in Titles
      BY <2>2 DEF Titles, Titled
    <2>4. \A i \in 1..n : t[i] = f.titles[i]
      BY <2>1 DEF Titled
    <2> QED BY <2>3, <2>4
  <1>9. /\ e.n = n /\ e.length = secs * Frames /\ e.name = f.name /\ e.rev = f.rev
        /\ e.year = f.year /\ e.len = len /\ e.title = t /\ IsStruct(e)
    <2> HIDE DEF n, len, t, secs, hd
    <2> QED BY <1>5, <1>7, <1>8, DiscFields DEF WithTitles, len
  <1> HIDE DEF e
  <1>10. SetHash(e) = WithLookup(e, Hash(e.n, e.length, e.len))
    BY <1>1, <1>9, SetHashIs
  <1>11. Hash(n, secs * Frames, len) = FileHash(f)
    <2>1. Hash(n, secs * Frames, len) = Hash(n, secs * Frames, FileLens(f))
      <3> DEFINE length == secs * Frames
                 other == FileLens(f)
      <3> HIDE DEF n, length, len, other
      <3>1. n \in Nat \ {0} /\ \A i \in 1..n : len[i] = other[i]
        BY <1>1, <1>6 DEF other
      <3>2. Hash(n, length, len) = Hash(n, length, other)
        BY <3>1, HashOfTracks
      <3> QED BY <3>2 DEF length, other
    <2> QED BY <2>1 DEF FileHash
  <1> DEFINE p == WithLookup(e, FileHash(f))
  <1>12. FileDisc[f] = p
    BY <1>4, <1>9, <1>10, <1>11
  <1>13. /\ p.n = e.n /\ p.name = e.name /\ p.rev = e.rev /\ p.year = e.year /\ p.len = e.len
         /\ p.title = e.title /\ p.lookup = FileHash(f) /\ IsStruct(p)
    <2>1. e.len \in Lens /\ e.title \in Titles
      BY <1>9 DEF IsStruct
    <2> QED BY <2>1, DiscFields DEF WithLookup
  <1> HIDE DEF p, len, t
  <1> QED BY <1>1, <1>6, <1>8, <1>9, <1>12, <1>13 DEF FileLike, n

(* A file has never the hash of a disc in the drive: one counts the length *)
(* of the disc from the start of the first track, the other to the end of  *)
(* the last.                                                               *)
LEMMA FileNotDrive ==
  ASSUME NEW f \in Files, NEW c \in Discs
  PROVE  FileHash(f) # DriveHash(c)
  <1> SUFFICES ASSUME FileHash(f) = DriveHash(c) PROVE FALSE
    OBVIOUS
  <1> DEFINE n == Len(f.lens)
             m == Len(c.lens)
             s == Sum(f.lens, n - 1)
             L == FileSecs(f) * Frames
             p == FileLast(f)
             x == c.lens[n]
             D == DriveLength(c)
  <1>1. n \in Nat \ {0} /\ m \in Nat \ {0} /\ s \in Nat
    BY TocOfFile, TocOf
  <1>2. /\ n = m /\ L % 65536 = D % 65536
        /\ FileLens(f)[n] \div Frames = x \div Frames
        /\ \A i \in 1 .. n - 1 : FileLens(f)[i] % 524288 = c.lens[i] % 524288
    <2> DEFINE len == FileLens(f)  len2 == c.lens
    <2>1. Hash(n, L, len) = Hash(m, D, len2)
      BY DEF FileHash, DriveHash
    <2> HIDE DEF n, m, L, D, len, len2
    <2>2. /\ n = m /\ L % 65536 = D % 65536
          /\ len[n] \div Frames = len2[n] \div Frames
          /\ \A i \in 1 .. n - 1 : len[i] % 524288 = len2[i] % 524288
      BY ONLY <1>1, <2>1, EqualHash
    <2> QED BY <2>2 DEF len, len2
  <1>3. FileLens(f)[n] = p /\ \A i \in 1 .. n - 1 : FileLens(f)[i] = f.lens[i]
    <2>1. n \in 1..n /\ ~(n < n) /\ \A i \in 1 .. n - 1 : i \in 1..n /\ i < n
      BY <1>1
    <2> QED BY <2>1 DEF FileLens
  <1>4. /\ \A i \in 1..n : f.lens[i] \in Nat /\ f.lens[i] < 524288
        /\ \A i \in 1..m : c.lens[i] \in Nat /\ c.lens[i] < 524288
    BY TocOfFile, TocOf
  <1>5. p \in Nat /\ L = p + 150 + s
    BY FileLastIs DEF Frames
  <1>6. x \in Nat
    BY <1>1, <1>2, <1>4
  <1>7. D = s + x
    <2> DEFINE len == f.lens  len2 == c.lens
    <2> HIDE DEF n, m, len, len2
    <2>1. \A i \in 1 .. n - 1 : len[i] = len2[i] /\ len[i] \in Int
      <3> SUFFICES ASSUME NEW i \in 1 .. n - 1 PROVE len[i] = len2[i] /\ len[i] \in Int
        OBVIOUS
      <3>1. i \in 1..n /\ i \in 1..m
        BY <1>1, <1>2
      <3> DEFINE a == len[i]  b == len2[i]
      <3>2. a \in Nat /\ a < 524288 /\ b \in Nat /\ b < 524288
        BY <1>4, <3>1 DEF len, len2
      <3>3. a % 524288 = b % 524288
        BY <1>2, <1>3 DEF len, len2
      <3> HIDE DEF a, b
      <3>4. a = b
        BY ONLY <3>2, <3>3
      <3> QED BY <3>2, <3>4 DEF a, b
    <2>2. n - 1 \in Nat
      BY <1>1
    <2>3. Sum(len, n - 1) = Sum(len2, n - 1)
      <3> DEFINE k == n - 1
      <3>1. k \in Nat /\ \A i \in 1..k : len[i] = len2[i] /\ len[i] \in Int
        BY <2>1, <2>2
      <3> HIDE DEF k
      <3>2. Sum(len, k) = Sum(len2, k)
        BY <3>1, SumOfEqual
      <3> QED BY <3>2 DEF k
    <2>4. Sum(len2, n) = Sum(len2, n - 1) + len2[n]
      <3>1. \A i \in 1..n : len2[i] \in Int
        BY <1>2, <1>4 DEF len2
      <3>2. n \in Nat /\ n \in 1..n
        BY <1>1
      <3> QED BY <3>1, <3>2, SumSteps
    <2>5. D = Sum(len2, n)
      BY <1>2 DEF DriveLength, m, len2
    <2> QED BY <2>3, <2>4, <2>5 DEF len, len2
  <1>8. p \div 75 = x \div 75 /\ L % 65536 = D % 65536
    BY <1>2, <1>3 DEF Frames
  <1> HIDE DEF n, m, s, L, p, x, D
  <1>9. p - x < 75 /\ x - p < 75
    BY ONLY <1>5, <1>6, <1>8
  <1> QED BY ONLY <1>1, <1>5, <1>6, <1>7, <1>8, <1>9

(* Two files with one hash have the same tracks, as read. *)
LEMMA SameFile ==
  ASSUME NEW f \in Files, NEW g \in Files, FileHash(f) = FileHash(g)
  PROVE  /\ Len(f.lens) = Len(g.lens)
         /\ \A k \in 1..Len(f.lens) : FileLens(g)[k] = FileLens(f)[k]
  <1> DEFINE n == Len(f.lens)
             m == Len(g.lens)
             s == Sum(f.lens, n - 1)
             L == FileSecs(f) * Frames
             M == FileSecs(g) * Frames
             p == FileLast(f)
             q == FileLast(g)
  <1>1. n \in Nat \ {0} /\ m \in Nat \ {0} /\ s \in Nat
    BY TocOfFile
  <1>2. /\ n = m /\ L % 65536 = M % 65536
        /\ FileLens(f)[n] \div Frames = FileLens(g)[n] \div Frames
        /\ \A i \in 1 .. n - 1 : FileLens(f)[i] % 524288 = FileLens(g)[i] % 524288
    <2> DEFINE len == FileLens(f)  len2 == FileLens(g)
    <2>1. Hash(n, L, len) = Hash(m, M, len2)
      BY DEF FileHash
    <2> HIDE DEF n, m, L, M, len, len2
    <2>2. /\ n = m /\ L % 65536 = M % 65536
          /\ len[n] \div Frames = len2[n] \div Frames
          /\ \A i \in 1 .. n - 1 : len[i] % 524288 = len2[i] % 524288
      BY ONLY <1>1, <2>1, EqualHash
    <2> QED BY <2>2 DEF len, len2
  <1>3. /\ FileLens(f)[n] = p /\ FileLens(g)[n] = q
        /\ \A i \in 1 .. n - 1 : FileLens(f)[i] = f.lens[i] /\ FileLens(g)[i] = g.lens[i]
    <2>1. n \in 1..n /\ ~(n < n) /\ \A i \in 1 .. n - 1 : i \in 1..n /\ i < n
      BY <1>1
    <2>2. m = n
      BY <1>2
    <2> QED BY <2>1, <2>2 DEF FileLens
  <1>4. /\ \A i \in 1..n : f.lens[i] \in Nat /\ f.lens[i] < 524288
        /\ \A i \in 1..m : g.lens[i] \in Nat /\ g.lens[i] < 524288
    BY TocOfFile
  <1>5. \A i \in 1 .. n - 1 : f.lens[i] = g.lens[i] /\ f.lens[i] \in Int
    <2> SUFFICES ASSUME NEW i \in 1 .. n - 1 PROVE f.lens[i] = g.lens[i] /\ f.lens[i] \in Int
      OBVIOUS
    <2>1. i \in 1..n /\ i \in 1..m
      <3> HIDE DEF n, m
      <3> QED BY <1>1, <1>2
    <2> DEFINE a == f.lens[i]  b == g.lens[i]
    <2>2. a \in Nat /\ a < 524288 /\ b \in Nat /\ b < 524288
      BY <1>4, <2>1
    <2>3. a % 524288 = b % 524288
      BY <1>2, <1>3
    <2> HIDE DEF a, b
    <2>4. a = b
      BY ONLY <2>2, <2>3
    <2> QED BY <2>2, <2>4 DEF a, b
  <1>6. Sum(g.lens, m - 1) = s
    <2> DEFINE len == f.lens  len2 == g.lens
               k == n - 1
    <2>1. k \in Nat /\ \A i \in 1..k : len[i] = len2[i] /\ len[i] \in Int
      BY <1>1, <1>5
    <2> HIDE DEF k, len, len2
    <2>2. Sum(len, k) = Sum(len2, k)
      BY <2>1, SumOfEqual
    <2> QED BY <1>2, <2>2 DEF k, len, len2
  <1>7. p \in Nat /\ q \in Nat /\ L = p + 150 + s /\ M = q + 150 + s
    BY <1>6, FileLastIs DEF Frames
  <1>8. p \div 75 = q \div 75 /\ L % 65536 = M % 65536
    BY <1>2, <1>3 DEF Frames
  <1>9. p = q
    <2> HIDE DEF n, m, s, L, M, p, q
    <2>1. p - q < 75 /\ q - p < 75
      BY ONLY <1>7, <1>8
    <2> QED BY ONLY <1>1, <1>7, <1>8, <2>1
  <1>10. ASSUME NEW k \in 1..n PROVE FileLens(g)[k] = FileLens(f)[k]
    <2>1. k = n \/ k \in 1 .. n - 1
      <3> HIDE DEF n
      <3> QED BY <1>1
    <2> HIDE DEF n, p, q
    <2> QED BY <1>3, <1>5, <1>9, <2>1
  <1> QED BY <1>2, <1>10

(* The tracks of a file, as long as the file says, to a second. *)
LEMMA FileLensNear ==
  ASSUME NEW f \in Files, NEW k \in 1..Len(f.lens)
  PROVE  FileLens(f)[k] \in Nat /\ Abs(FileLens(f)[k] - f.lens[k]) < Frames
  <1> DEFINE a == f.lens[k]  b == FileLens(f)[k]
  <1>1. a \in Nat /\ FileLast(f) \in Nat
    BY TocOfFile, FileLastIs
  <1>2. CASE k < Len(f.lens)
    <2>1. b = a
      BY <1>2 DEF FileLens
    <2>2. b - a = 0
      BY <1>1, <2>1
    <2> QED BY <1>1, <2>1, <2>2 DEF Abs, Frames
  <1>3. CASE ~(k < Len(f.lens))
    <2>1. k = Len(f.lens)
      BY <1>3, TocOfFile
    <2>2. b = FileLast(f)
      BY <1>3 DEF FileLens
    <2>3. b <= a /\ a - b < 75
      BY <2>1, <2>2, FileLastIs
    <2>4. b \in Nat
      BY <1>1, <2>2
    <2> HIDE DEF a, b
    <2> QED BY <1>1, <2>3, <2>4 DEF Abs, Frames, a, b
  <1> QED BY <1>2, <1>3

-----------------------------------------------------------------------------
(* The disc of the entry that an extraction has left beside an album: one  *)
(* track more than the disc, which is empty.                               *)
WrittenDisc(x) == SetHash(X!ParseEntry(AllocDisc, X!WriteEntry(x)))

(* A disc that can be stored. *)
Storable(d) ==
  /\ IsStruct(d) /\ d.n \in 1..MaxTracks /\ d.year \in Nat /\ d.rev \in Nat
  /\ Len(d.lookup) = d.n + 2
  /\ \A k \in 1..d.n : d.len[k] \in Nat

IsDriveHash(h) == \E c \in Discs : h = DriveHash(c)

LEMMA WrittenDiscIs ==
  ASSUME NEW c \in Discs, NEW x, DriveLike(x, c)
  PROVE  Storable(WrittenDisc(x)) /\ ~IsDriveHash(WrittenDisc(x).lookup)
  <1> DEFINE n == x.n
             len == x.len
             secs == x.length \div Frames
             s == Sum(len, n - 1)
             hd == HeadOf(AllocDisc, len, n, secs, x.rev, x.id, x.name, x.year)
             all == FillAll(AllocDisc, len, n, secs)
             sh == Shifted(AllocDisc, x.title, n)
             e == WithTitles(hd, n + 1, sh)
             m == n + 1
  <1>1. /\ IsStruct(x) /\ n \in 1 .. MaxTracks - 1 /\ n \in Nat \ {0} /\ m \in 1..MaxTracks
        /\ \A i \in 1..n : len[i] = c.lens[i] /\ len[i] \in Nat /\ len[i] >= 300
        /\ x.length = DriveLength(c) /\ x.year \in Nat /\ x.rev \in Nat /\ n = Len(c.lens)
    BY TocOf, MaxTracksAssumption DEF DriveLike
  <1>2. /\ s \in Nat /\ x.length = s + len[n] /\ len[n] \in Nat /\ len[n] >= 300
    <2> HIDE DEF n, len
    <2>1. /\ \A k \in 1..n : Sum(len, k) = Sum(len, k - 1) + len[k]
          /\ \A k \in 0..n : Sum(len, k) \in Nat
      <3>1. n \in Nat /\ \A i \in 1..n : len[i] \in Nat
        BY <1>1
      <3> QED BY <3>1, SumNat
    <2>2. n \in 1..n /\ n - 1 \in 0..n
      BY <1>1
    <2>3. \A i \in 1..n : len[i] = c.lens[i] /\ len[i] \in Int
      BY <1>1
    <2>3a. n \in Nat
      BY <1>1
    <2>4. Sum(len, n) = Sum(c.lens, n)
      <3> DEFINE g == c.lens
      <3> HIDE DEF g
      <3>1. \A i \in 1..n : len[i] = g[i] /\ len[i] \in Int
        BY <2>3 DEF g
      <3>2. Sum(len, n) = Sum(g, n)
        BY <2>3a, <3>1, SumOfEqual
      <3> QED BY <3>2 DEF g
    <2>5. x.length = Sum(c.lens, n)
      BY <1>1 DEF DriveLength
    <2>6. Sum(len, n) = Sum(len, n - 1) + len[n] /\ Sum(len, n - 1) \in Nat
      BY <2>1, <2>2
    <2>7. len[n] \in Nat /\ len[n] >= 300
      BY <1>1, <2>2
    <2> QED BY <2>4, <2>5, <2>6, <2>7
  <1>3. /\ IsStruct(AllocDisc) /\ \A i \in 1..MaxTracks : AllocDisc.len[i] = 0
        /\ AllocDisc.year = 0
    BY AllocIsStruct
  <1>4. X!ParseEntry(AllocDisc, X!WriteEntry(x)) = e
    <2>1. X!ParseEntry(AllocDisc, X!WriteEntry(x)) = Written(AllocDisc, x)
      BY <1>1, <1>3, WrittenParsed
    <2> QED BY <2>1 DEF Written
  <1>5. /\ \A i \in 1 .. n - 1 : all[i] = len[i]
        /\ all[n] = secs * 75 - (150 + s) /\ all[m] = 0 /\ all \in Lens
    <2> HIDE DEF n, len, secs
    <2>1. /\ \A i \in 1 .. n - 1 : i \in 1..MaxTracks /\ i <= n /\ i < n
          /\ n \in 1..MaxTracks /\ n <= n /\ ~(n < n) /\ ~(m <= n)
          /\ m \in 1..MaxTracks
      BY <1>1, MaxTracksAssumption
    <2>2. \A i \in 1 .. n - 1 : all[i] = len[i]
      BY <1>3, <2>1 DEF FillAll
    <2>3. all[n] = secs * 75 - (150 + s)
      BY <1>3, <2>1 DEF FillAll, Frames, MsfOffset
    <2>4. all[m] = 0
      BY <1>3, <2>1 DEF FillAll
    <2>5. secs \in Int
      BY <1>2 DEF secs, Frames
    <2>6. all \in Lens
      <3>1. ASSUME NEW i \in 1..MaxTracks
            PROVE  (IF i <= n /\ AllocDisc.len[i] = 0
                    THEN (IF i < n THEN len[i] ELSE secs * Frames - (MsfOffset + s))
                    ELSE AllocDisc.len[i]) \in Int
        <4>1. secs * Frames - (MsfOffset + s) \in Int
          BY <1>2, <2>5 DEF Frames, MsfOffset
        <4>2. i < n => len[i] \in Int
          BY <1>1
        <4> HIDE DEF s
        <4> QED BY <1>3, <4>1, <4>2
      <3> QED BY <3>1 DEF FillAll, Lens
    <2> QED BY <2>2, <2>3, <2>4, <2>6
  <1>6. all[n] \in Nat
    <2>1. \A a \in Nat, b \in Nat : b >= 300 => ((a + b) \div 75) * 75 - (150 + a) \in Nat
      OBVIOUS
    <2>2. secs = (s + len[n]) \div 75
      BY <1>2 DEF Frames
    <2> HIDE DEF s, len, n, secs
    <2>3. ((s + len[n]) \div 75) * 75 - (150 + s) \in Nat
      BY <1>2, <2>1
    <2> QED BY <1>5, <2>2, <2>3
  <1>7. sh \in Titles
    <2> HIDE DEF n
    <2>1. ASSUME NEW k \in 1..MaxTracks
          PROVE  (IF k \in 2 .. n + 1 THEN x.title[k - 1] ELSE AllocDisc.title[k])
                 \in Seq(Pieces) \ {<<>>}
      <3>1. k \in 2 .. n + 1 => k - 1 \in 1..MaxTracks
        BY <1>1, MaxTracksAssumption
      <3>2. x.title \in Titles /\ AllocDisc.title \in Titles
        BY <1>1, <1>3 DEF IsStruct
      <3> QED BY <3>1, <3>2 DEF Titles
    <2> QED BY <2>1 DEF Titles, Shifted
  <1>8. /\ IsStruct(e) /\ e.n = m /\ e.len = all /\ e.rev = x.rev /\ e.year \in Nat
    <2> DEFINE y == IF x.year = 0 THEN AllocDisc.year ELSE x.year
    <2>0. y \in Nat
      BY <1>1, <1>3
    <2>1. hd.len = all /\ hd.rev = x.rev /\ hd.year = y
      BY DEF HeadOf, Disc
    <2> HIDE DEF hd, all, sh, m, y
    <2>2. /\ e.n = n + 1 /\ e.len = all /\ e.rev = x.rev /\ e.year = y /\ e.title = sh
          /\ e = Disc(e.id, e.cid, e.lookup, e.n, e.length, e.name, e.year, e.rev, e.complete,
                      e.len, e.title)
      BY <2>1 DEF WithTitles, Disc
    <2> HIDE DEF e
    <2> QED BY <1>5, <1>7, <2>0, <2>2 DEF IsStruct, m
  <1> HIDE DEF e, all, sh, hd, s, secs, len, n
  <1> DEFINE h == Hash(e.n, e.length, e.len)
             w == WithLookup(e, h)
  <1>9. WrittenDisc(x) = w
    <2>0. e.n \in Nat \ {0}
      BY <1>1, <1>8
    <2> HIDE DEF m
    <2>1. SetHash(e) = WithLookup(e, Hash(e.n, e.length, e.len))
      BY <1>8, <2>0, SetHashIs
    <2> QED BY <1>4, <2>1 DEF WrittenDisc
  <1>10. Len(h) = m + 2 /\ h[3] = all[m] \div Frames
    <2> DEFINE L == e.length
    <2> HIDE DEF L
    <2>0. m \in Nat \ {0}
      BY <1>1
    <2> HIDE DEF m
    <2>1. Len(Hash(m, L, all)) = m + 2 /\ Hash(m, L, all)[3] = all[m] \div Frames
      BY <2>0, HashParts
    <2> QED BY <1>8, <2>1 DEF L
  <1> HIDE DEF h
  <1>11. /\ IsStruct(w) /\ w.n = m /\ w.len = all /\ w.rev = x.rev /\ w.year \in Nat
         /\ w.lookup = h
    BY <1>8, DiscFields DEF WithLookup, IsStruct
  <1> HIDE DEF w
  <1>12. \A k \in 1..m : all[k] \in Nat
    <2>1. \A k \in 1..m : k \in 1 .. n - 1 \/ k = n \/ k = m
      BY <1>1
    <2>2. \A k \in 1 .. n - 1 : k \in 1..n
      BY <1>1
    <2> HIDE DEF m
    <2>3. ASSUME NEW k \in 1 .. n - 1 PROVE all[k] \in Nat
      <3>1. len[k] \in Nat
        BY <1>1, <2>2
      <3> QED BY <1>5, <3>1
    <2> QED BY <1>5, <1>6, <2>1, <2>3
  <1>13. Storable(w)
    <2> HIDE DEF m
    <2> QED BY <1>1, <1>10, <1>11, <1>12 DEF Storable
  <1>14. ASSUME NEW b \in Discs, h = DriveHash(b)
         PROVE  FALSE
    <2> DEFINE k == Len(b.lens)
               g == DriveHash(b)
               z == b.lens[k]
    <2>1. k \in Nat \ {0} /\ z \in Nat /\ z >= 300
      BY TocOf
    <2>2. g[3] = z \div Frames
      <3> DEFINE L == DriveLength(b)
                 bl == b.lens
      <3> HIDE DEF L, bl, k
      <3>1. Hash(k, L, bl)[3] = bl[k] \div Frames
        BY <2>1, HashParts
      <3> QED BY <3>1 DEF DriveHash, L, bl, k
    <2>3. h[3] = 0
      BY <1>5, <1>10 DEF Frames
    <2>4. z \div 75 # 0
      <3> HIDE DEF z
      <3> QED BY <2>1
    <2> QED BY <1>14, <2>2, <2>3, <2>4 DEF Frames
  <1> QED BY <1>9, <1>11, <1>13, <1>14 DEF IsDriveHash

-----------------------------------------------------------------------------
(* The rows, the temporary table and the rows that threads refer to. *)
RowFields == {"lookup", "name", "year", "rev", "secs", "n", "title", "len"}

(* The cache is a sequence of functions on the fields of a row. *)
IsTable(s) == /\ Len(s) \in Nat
              /\ s = [i \in 1..Len(s) |-> s[i]]
              /\ \A i \in 1..Len(s) : DOMAIN s[i] = RowFields

CacheInv == /\ IsTable(cddb)
            /\ base \in 0..Len(cddb)
            /\ TempIsIndex

(* A table of rows is a sequence, over the set of its rows. *)
LEMMA TableIsSeq ==
  ASSUME NEW s, IsTable(s), NEW e
  PROVE  /\ s \in Seq({s[i] : i \in 1..Len(s)} \cup {e})
         /\ DOMAIN s = 1..Len(s)
  <1> DEFINE S == {s[i] : i \in 1..Len(s)} \cup {e}
  <1>1. s \in [1..Len(s) -> S]
    BY DEF IsTable
  <1> QED BY <1>1 DEF IsTable

LEMMA SeqIsFunction ==
  ASSUME NEW S, NEW t \in Seq(S)
  PROVE  t = [i \in 1..Len(t) |-> t[i]] /\ Len(t) \in Nat
  <1>1. t \in [1..Len(t) -> S] /\ Len(t) \in Nat
    OBVIOUS
  <1> QED BY <1>1

(* Appending a row leaves the others where they are. *)
LEMMA AppendRow ==
  ASSUME NEW s, IsTable(s), NEW d, NEW secs
  PROVE  LET t == Append(s, Row(d, secs))
         IN  /\ IsTable(t) /\ Len(t) = Len(s) + 1
             /\ t[Len(s) + 1].lookup = d.lookup
             /\ \A i \in 1..Len(s) : t[i] = s[i]
  <1> DEFINE r == Row(d, secs)  t == Append(s, r)
             S == {s[i] : i \in 1..Len(s)} \cup {r}
  <1>1. s \in Seq(S) /\ r \in S
    BY TableIsSeq
  <1>2. /\ t \in Seq(S) /\ Len(t) = Len(s) + 1
        /\ t[Len(s) + 1] = r /\ \A i \in 1..Len(s) : t[i] = s[i]
    BY <1>1
  <1>3. DOMAIN r = RowFields /\ r.lookup = d.lookup
    BY DEF Row, RowFields
  <1>4. \A i \in 1..Len(t) : DOMAIN t[i] = RowFields
    BY <1>2, <1>3 DEF IsTable
  <1>5. t = [i \in 1..Len(t) |-> t[i]] /\ Len(t) \in Nat
    BY <1>2, SeqIsFunction
  <1> HIDE DEF r, t
  <1>6. IsTable(t)
    BY <1>4, <1>5 DEF IsTable
  <1> QED BY <1>2, <1>3, <1>6 DEF t, r

(* Updating the header of a row keeps every hash. *)
Updated(s, k, d) == [s EXCEPT ![k] = Header(s[k], d)]

LEMMA UpdateRow ==
  ASSUME NEW s, IsTable(s), NEW k \in 1..Len(s), NEW d
  PROVE  LET t == Updated(s, k, d)
         IN  /\ IsTable(t) /\ Len(t) = Len(s)
             /\ \A i \in 1..Len(s) : t[i].lookup = s[i].lookup
  <1> DEFINE r == Header(s[k], d)
             t == [s EXCEPT ![k] = r]
             S == {s[i] : i \in 1..Len(s)} \cup {r}
  <1>1. s \in Seq(S) /\ r \in S /\ DOMAIN s = 1..Len(s)
    BY TableIsSeq
  <1>2. DOMAIN r = RowFields /\ r.lookup = s[k].lookup
    BY DEF IsTable, RowFields, Header
  <1> HIDE DEF r
  <1>3. /\ t \in Seq(S) /\ Len(t) = Len(s) /\ t[k] = r
        /\ \A i \in 1..Len(s) : i # k => t[i] = s[i]
    BY <1>1
  <1>4. \A i \in 1..Len(t) : DOMAIN t[i] = RowFields
    BY <1>2, <1>3 DEF IsTable
  <1> HIDE DEF t
  <1>5. t = [i \in 1..Len(t) |-> t[i]] /\ Len(t) \in Nat
    BY <1>3, SeqIsFunction
  <1>6. \A i \in 1..Len(s) : t[i].lookup = s[i].lookup
    BY <1>2, <1>3
  <1>7. IsTable(t)
    BY <1>4, <1>5 DEF IsTable
  <1> QED BY <1>3, <1>6, <1>7 DEF t, r, Updated

(* A set of row numbers that is not empty has a largest member. *)
LEMMA LargestIsMember ==
  ASSUME NEW n \in Nat, NEW S, S \subseteq 1..n, S # {}
  PROVE  Largest(S) \in S
  <1> DEFINE T == {m \in Nat : n - m \in S}
  <1>1. T \subseteq Nat /\ T # {}
    <2>1. PICK x \in S : TRUE
      OBVIOUS
    <2>2. x \in 1..n
      BY <2>1
    <2>3. n - x \in Nat /\ n - (n - x) = x
      BY <2>2
    <2> QED BY <2>1, <2>3
  <1>2. PICK m \in T : \A k \in T : ~(<<k, m>> \in OpToRel(<, Nat))
    <2> HIDE DEF T
    <2> QED BY <1>1, NatLessThanWellFounded, WFMin
  <1>3. \A k \in T : ~(k < m)
    BY <1>2 DEF OpToRel
  <1>4. \A y \in S : y <= n - m
    <2> SUFFICES ASSUME NEW y \in S
                 PROVE  y <= n - m
      OBVIOUS
    <2>1. y \in 1..n /\ n - (n - y) = y /\ n - y \in Nat
      OBVIOUS
    <2>2. n - y \in T
      BY <2>1
    <2>3. ~(n - y < m)
      BY <1>3, <2>2
    <2>4. m \in Nat /\ y \in Nat
      BY <2>1
    <2> HIDE DEF T
    <2> QED BY <2>3, <2>4
  <1>5. n - m \in S
    OBVIOUS
  <1> QED BY <1>4, <1>5 DEF Largest

LEMMA InitCacheInv == Init => CacheInv
  BY DEF Init, CacheInv, IsTable, TempIsIndex

(* The invariant survives when the table only grows, in front of which no  *)
(* row changes its hash, and the temporary table stays.                    *)
LEMMA SameTemp ==
  ASSUME CacheInv, UNCHANGED <<temp, base>>, IsTable(cddb'), Len(cddb') >= Len(cddb),
         \A i \in 1..Len(cddb) : cddb'[i].lookup = cddb[i].lookup
  PROVE  CacheInv'
  BY DEF CacheInv, TempIsIndex, IsTable

LEMMA InsertCacheInv ==
  ASSUME CacheInv, NEW t \in Threads, Insert(t)
  PROVE  CacheInv'
  <1> DEFINE d == arg[t].d
  <1>1. cddb' = Append(cddb, Row(d, d.length \div Frames)) /\ base' = base
    BY DEF Insert
  <1>2. /\ IsTable(cddb') /\ Len(cddb') = Len(cddb) + 1
        /\ cddb'[Len(cddb) + 1].lookup = d.lookup
        /\ \A i \in 1..Len(cddb) : cddb'[i] = cddb[i]
    BY <1>1, AppendRow DEF CacheInv
  <1>3. CASE temp' = temp
    <2> HIDE DEF d
    <2>1. Len(cddb) \in Nat
      BY DEF CacheInv, IsTable
    <2>2. Len(cddb') >= Len(cddb)
      BY <1>2, <2>1
    <2>3. \A i \in 1..Len(cddb) : cddb'[i].lookup = cddb[i].lookup
      BY <1>2
    <2>4. UNCHANGED <<temp, base>> /\ IsTable(cddb')
      BY <1>1, <1>2, <1>3
    <2> QED BY <2>2, <2>3, <2>4, SameTemp
  <1>4. CASE /\ ~\E e \in temp : e.lookup = d.lookup
             /\ temp' = temp \cup {[lookup |-> d.lookup, id |-> Len(cddb) + 1]}
    <2> HIDE DEF d
    <2>1. base' \in 0..Len(cddb')
      BY <1>1, <1>2 DEF CacheInv, IsTable
    <2>2. ASSUME NEW e \in temp'
          PROVE  e.id \in base' + 1 .. Len(cddb') /\ cddb'[e.id].lookup = e.lookup
      BY <1>1, <1>2, <1>4 DEF CacheInv, IsTable, TempIsIndex
    <2>3. ASSUME NEW e1 \in temp', NEW e2 \in temp', e1.lookup = e2.lookup
          PROVE  e1 = e2
      BY <1>4, <2>3 DEF CacheInv, TempIsIndex
    <2> QED BY <1>2, <2>1, <2>2, <2>3 DEF CacheInv, TempIsIndex
  <1> QED BY <1>3, <1>4 DEF Insert

(* The row an update names must exist: see TargetInv below. *)
LEMMA UpdateCacheInv ==
  ASSUME CacheInv, NEW t \in Threads, Update(t), arg[t].target \in 1..Len(cddb)
  PROVE  CacheInv'
  <1> DEFINE k == arg[t].target  d == arg[t].d
  <1>1. cddb' = Updated(cddb, k, d) /\ UNCHANGED <<temp, base>>
    BY DEF Update, Updated
  <1> HIDE DEF k, d
  <1>2. /\ IsTable(cddb') /\ Len(cddb') = Len(cddb)
        /\ \A i \in 1..Len(cddb) : cddb'[i].lookup = cddb[i].lookup
    BY <1>1, UpdateRow DEF CacheInv, k
  <1>3. Len(cddb) \in Nat
    BY DEF CacheInv, IsTable
  <1>4. Len(cddb') >= Len(cddb)
    BY <1>2, <1>3
  <1> QED BY <1>1, <1>2, <1>4, SameTemp

-----------------------------------------------------------------------------
(* The rows the threads have in mind exist. *)
TargetInv == /\ arg = [t \in Threads |-> arg[t]]
             /\ \A t \in Threads : arg[t].target \in 0..Len(cddb)
             /\ found.id \in 0..Len(cddb)

IndexInv == CacheInv /\ TargetInv

(* Both look-ups return a row of the table, or none. *)
LEMMA ByTocInTable ==
  ASSUME CacheInv, NEW d
  PROVE  ByToc(d).id \in 0..Len(cddb)
  <1> DEFINE S == {i \in RowsOf(d.lookup) : Fits(cddb[i], d, MsfOffset)}
  <1>1. S \subseteq 1..Len(cddb) /\ Len(cddb) \in Nat
    BY TableIsSeq DEF RowsOf, CacheInv, IsTable
  <1> HIDE DEF S
  <1>2. CASE S = {}
    BY <1>1, <1>2 DEF ByToc, S, NoFound, NoRow
  <1>3. CASE S # {}
    <2>1. Largest(S) \in 1..Len(cddb)
      BY <1>1, <1>3, LargestIsMember
    <2>2. ByToc(d).id = Largest(S)
      BY <1>3 DEF ByToc, S
    <2> QED BY <1>1, <2>1, <2>2
  <1> QED BY <1>2, <1>3

LEMMA TargetInTable ==
  ASSUME CacheInv, NEW a
  PROVE  Target(a) \in 0..Len(cddb)
  <1>1. /\ RowsOf(a.d.lookup) \subseteq 1..Len(cddb) /\ Len(cddb) \in Nat
        /\ base \in 0..Len(cddb)
    BY TableIsSeq DEF RowsOf, CacheInv, IsTable
  <1>2. CASE a.method = "temp"
    <2> DEFINE S == {e \in temp : e.lookup = a.d.lookup}
    <2>1. CASE S = {}
      BY <1>1, <1>2, <2>1 DEF Target, NoRow
    <2>2. CASE S # {}
      <3>1. PICK e \in temp : Target(a) = e.id
        BY <1>2, <2>2 DEF Target
      <3> QED BY <1>1, <3>1 DEF CacheInv, TempIsIndex
    <2> QED BY <2>1, <2>2
  <1>3. CASE a.method # "temp"
    <2>1. CASE RowsOf(a.d.lookup) = {}
      BY <1>1, <1>3, <2>1 DEF Target, NoRow
    <2>2. CASE RowsOf(a.d.lookup) # {}
      <3>1. Largest(RowsOf(a.d.lookup)) \in 1..Len(cddb)
        BY <1>1, <2>2, LargestIsMember
      <3>2. Target(a) = Largest(RowsOf(a.d.lookup))
        BY <1>3, <2>2 DEF Target
      <3> QED BY <1>1, <3>1, <3>2
    <2> QED BY <2>1, <2>2
  <1> QED BY <1>2, <1>3

(* A step that hands a thread nothing, or a row that exists, and never     *)
(* shrinks the table.                                                      *)
LEMMA KeepTarget ==
  ASSUME IndexInv, Len(cddb') >= Len(cddb), Len(cddb') \in Nat,
         found'.id \in 0..Len(cddb), NEW t \in Threads, NEW a,
         a.target \in 0..Len(cddb),
         arg' = arg \/ arg' = [arg EXCEPT ![t] = a]
  PROVE  TargetInv'
  <1>1. Len(cddb) \in Nat
    BY DEF IndexInv, CacheInv, IsTable
  <1>2. arg' = [u \in Threads |-> arg'[u]]
    BY DEF IndexInv, TargetInv
  <1>3. ASSUME NEW u \in Threads
        PROVE  arg'[u].target \in 0..Len(cddb)
    BY DEF IndexInv, TargetInv
  <1> QED BY <1>1, <1>2, <1>3 DEF TargetInv

LEMMA InitIndexInv == Init => IndexInv
  <1> SUFFICES ASSUME Init PROVE TargetInv
    BY InitCacheInv DEF IndexInv
  <1> QED BY DEF Init, TargetInv, NoArg, NoFound, NoRow

(* A step that leaves the tables of the cache alone. *)
LEMMA QuietStep ==
  ASSUME IndexInv, UNCHANGED <<cddb, temp, base>>, found'.id \in 0..Len(cddb),
         NEW t \in Threads, NEW a, a.target \in 0..Len(cddb),
         arg' = arg \/ arg' = [arg EXCEPT ![t] = a]
  PROVE  IndexInv'
  <1>1. CacheInv'
    BY DEF IndexInv, CacheInv, TempIsIndex, IsTable
  <1>2. Len(cddb) \in Nat /\ Len(cddb') = Len(cddb)
    BY DEF IndexInv, CacheInv, IsTable
  <1>3. TargetInv'
    BY <1>2, KeepTarget
  <1> QED BY <1>1, <1>3 DEF IndexInv

LEMMA StoreSteps ==
  ASSUME IndexInv, NEW t \in Threads,
         Decide(t) \/ Insert(t) \/ Update(t) \/ WriteFails(t)
  PROVE  IndexInv'
  <1> USE DEF IndexInv
  <1>0. /\ Len(cddb) \in Nat /\ 0 \in 0..Len(cddb) /\ found.id \in 0..Len(cddb)
        /\ NoArg.target \in 0..Len(cddb)
    BY DEF CacheInv, IsTable, TargetInv, NoArg, NoRow
  <1>1. CASE Decide(t)
    <2> DEFINE i == Target(arg[t])
    <2>1. i \in 0..Len(cddb)
      BY TargetInTable
    <2>2. UNCHANGED <<cddb, temp, base, found>>
      BY <1>1 DEF Decide
    <2>3. PICK a : a.target \in 0..Len(cddb) /\ arg' = [arg EXCEPT ![t] = a]
      <3>1. CASE AfterStore(t, TRUE)
        BY <1>0, <3>1 DEF AfterStore
      <3>2. CASE \E d, m, f : \E k \in {i, NoRow} : Hand(t, d, m, k, f)
        <4>1. PICK d, m, f : \E k \in {i, NoRow} : Hand(t, d, m, k, f)
          BY <3>2
        <4>2. PICK k \in {i, NoRow} : Hand(t, d, m, k, f)
          BY <4>1
        <4> DEFINE a == [d |-> d, method |-> m, target |-> k, file |-> f]
        <4>3. a.target \in 0..Len(cddb)
          BY <1>0, <2>1, <4>2 DEF NoRow
        <4>4. arg' = [arg EXCEPT ![t] = a]
          BY <4>2 DEF Hand
        <4> QED BY <4>3, <4>4
      <3> HIDE DEF i
      <3> QED BY <1>1, <3>1, <3>2 DEF Decide, i
    <2> QED BY <1>0, <2>2, <2>3, QuietStep
  <1>2. CASE Insert(t)
    <2>1. CacheInv'
      BY <1>2, InsertCacheInv
    <2>2. Len(cddb') = Len(cddb) + 1
      BY <1>2, AppendRow DEF Insert, CacheInv
    <2>3. arg' = [arg EXCEPT ![t] = NoArg] /\ found' = found
      BY <1>2 DEF Insert, AfterStore
    <2>4. TargetInv'
      <3> HIDE DEF IndexInv
      <3>1. Len(cddb') >= Len(cddb) /\ Len(cddb') \in Nat /\ found'.id \in 0..Len(cddb)
        BY <1>0, <2>2, <2>3
      <3> QED BY <1>0, <2>3, <3>1, KeepTarget
    <2> QED BY <2>1, <2>4
  <1>3. CASE Update(t)
    <2>1. arg[t].target \in 1..Len(cddb)
      BY <1>0, <1>3 DEF Update, TargetInv, NoRow
    <2>2. CacheInv'
      BY <1>3, <2>1, UpdateCacheInv
    <2>3. Len(cddb') = Len(cddb)
      <3> DEFINE k == arg[t].target  d == arg[t].d
      <3>1. cddb' = Updated(cddb, k, d)
        BY <1>3 DEF Update, Updated
      <3> HIDE DEF k, d
      <3> QED BY <2>1, <3>1, UpdateRow DEF CacheInv, k
    <2>4. arg' = [arg EXCEPT ![t] = NoArg] /\ found' = found
      BY <1>3 DEF Update, AfterStore
    <2>5. TargetInv'
      <3> HIDE DEF IndexInv
      <3>1. Len(cddb') >= Len(cddb) /\ Len(cddb') \in Nat /\ found'.id \in 0..Len(cddb)
        BY <1>0, <2>3, <2>4
      <3> QED BY <1>0, <2>4, <3>1, KeepTarget
    <2> QED BY <2>2, <2>5
  <1>4. CASE WriteFails(t)
    BY <1>0, <1>4, QuietStep DEF WriteFails, AfterStore
  <1> QED BY <1>1, <1>2, <1>3, <1>4

LEMMA StepIndexInv == IndexInv /\ [Next]_vars => IndexInv'
  <1> SUFFICES ASSUME IndexInv, [Next]_vars PROVE IndexInv'
    OBVIOUS
  <1>0. /\ Len(cddb) \in Nat /\ 0 \in 0..Len(cddb) /\ found.id \in 0..Len(cddb)
        /\ NoArg.target \in 0..Len(cddb)
    BY DEF IndexInv, CacheInv, IsTable, TargetInv, NoArg, NoRow
  <1>h. "http" \in Threads /\ "job" \in Threads
    BY DEF Threads
  <1>1. CASE ChangeDisc
    BY <1>0, <1>1, <1>h, QuietStep DEF ChangeDisc
  <1>2. CASE GetDisc
    <2>1. ByToc(info').id \in 0..Len(cddb)
      BY ByTocInTable DEF IndexInv
    <2> QED BY <1>0, <1>2, <1>h, <2>1, QuietStep DEF GetDisc
  <1>3. CASE WriteSheets \/ AnswerPost \/ Overrun
    BY <1>0, <1>3, <1>h, QuietStep DEF WriteSheets, AnswerPost, Overrun
  <1>m. ASSUME NEW e \in Entries, MusicBrainz(e)
        PROVE  IndexInv'
    BY <1>0, <1>m, <1>h, QuietStep DEF MusicBrainz
  <1>4. ASSUME NEW e \in Entries, NEW answer \in {"none", "query", "entry"},
               QueryService(answer, e)
        PROVE  IndexInv'
    <2>1. UNCHANGED <<cddb, temp, base>> /\ found' = NoFound
      BY <1>4 DEF QueryService
    <2>2. \/ arg' = arg
          \/ Hand("http", info', "lookup", NoRow, NoDisc)
          \/ Hand("http", info', "lookup", found.id, NoDisc)
      BY <1>4 DEF QueryService
    <2>3. PICK a : a.target \in 0..Len(cddb)
                   /\ (arg' = arg \/ arg' = [arg EXCEPT !["http"] = a])
      <3> DEFINE b(k) == [d |-> info', method |-> "lookup", target |-> k, file |-> NoDisc]
      <3>1. b(NoRow).target \in 0..Len(cddb) /\ b(found.id).target \in 0..Len(cddb)
        BY <1>0 DEF NoRow
      <3>2. \/ arg' = arg \/ arg' = [arg EXCEPT !["http"] = b(NoRow)]
            \/ arg' = [arg EXCEPT !["http"] = b(found.id)]
        BY <2>2 DEF Hand
      <3> HIDE DEF b
      <3> QED BY <3>1, <3>2
    <2>4. found'.id \in 0..Len(cddb)
      BY <1>0, <2>1 DEF NoFound, NoRow
    <2> QED BY <1>h, <2>1, <2>3, <2>4, QuietStep
  <1>5. ASSUME NEW name \in Names, PostDisc(name)
        PROVE  IndexInv'
    <2> DEFINE a == [d |-> info', method |-> "post", target |-> NoRow, file |-> NoDisc]
    <2>1. a.target \in 0..Len(cddb) /\ arg' = [arg EXCEPT !["http"] = a]
      BY <1>0, <1>5 DEF PostDisc, Hand, NoRow
    <2> HIDE DEF a
    <2> QED BY <1>0, <1>5, <1>h, <2>1, QuietStep DEF PostDisc
  <1>6. ASSUME NEW f \in Foreign, CopyAlbum(f)
        PROVE  IndexInv'
    BY <1>0, <1>6, <1>h, QuietStep DEF CopyAlbum
  <1>7. CASE StartRebuild \/ EndRebuild
    <2>1. /\ cddb' = cddb /\ temp' = {} /\ base' \in {0, Len(cddb)}
          /\ arg' = arg /\ found' = found
      BY <1>7 DEF StartRebuild, EndRebuild
    <2> QED BY <1>0, <2>1 DEF IndexInv, CacheInv, TargetInv, TempIsIndex, IsTable
  <1>8. CASE ScanAlbum
    <2>1. PICK a : a.target \in 0..Len(cddb)
                   /\ (arg' = arg \/ arg' = [arg EXCEPT !["job"] = a])
      <3>1. \/ arg' = arg
            \/ \E d : Hand("job", d, "lookup", NoRow, NoDisc)
        BY <1>8 DEF ScanAlbum
      <3>2. CASE \E d : Hand("job", d, "lookup", NoRow, NoDisc)
        <4>1. PICK d : Hand("job", d, "lookup", NoRow, NoDisc)
          BY <3>2
        <4> DEFINE a == [d |-> d, method |-> "lookup", target |-> NoRow, file |-> NoDisc]
        <4>2. a.target \in 0..Len(cddb) /\ arg' = [arg EXCEPT !["job"] = a]
          BY <1>0, <4>1 DEF Hand, NoRow
        <4> HIDE DEF a
        <4> QED BY <4>2
      <3> QED BY <1>0, <3>1, <3>2
    <2> QED BY <1>0, <1>8, <1>h, <2>1, QuietStep DEF ScanAlbum
  <1>9. CASE CompleteAlbum
    BY <1>0, <1>9, <1>h, QuietStep DEF CompleteAlbum
  <1>10. ASSUME NEW f \in Files, ReadFile(f)
         PROVE  IndexInv'
    <2>1. PICK a : a.target \in 0..Len(cddb)
                   /\ (arg' = arg \/ arg' = [arg EXCEPT !["job"] = a])
      <3> DEFINE a == [d |-> FileDisc[f], method |-> "temp", target |-> NoRow, file |-> f]
      <3>1. a.target \in 0..Len(cddb) /\ (arg' = arg \/ arg' = [arg EXCEPT !["job"] = a])
        BY <1>0, <1>10 DEF ReadFile, Hand, NoRow
      <3> HIDE DEF a
      <3> QED BY <3>1
    <2> QED BY <1>0, <1>10, <1>h, <2>1, QuietStep DEF ReadFile
  <1>11. ASSUME NEW t \in Threads, Decide(t) \/ Insert(t) \/ Update(t) \/ WriteFails(t)
         PROVE  IndexInv'
    BY <1>11, StoreSteps
  <1>12. CASE UNCHANGED vars
    BY <1>0, <1>12, <1>h, QuietStep DEF vars
  <1> QED BY <1>1, <1>2, <1>3, <1>m, <1>4, <1>5, <1>6, <1>7, <1>8, <1>9, <1>10, <1>11, <1>12 DEF Next

(* While a rebuild runs, each row of its temporary table names a row that  *)
(* this rebuild inserted and that still has the hash, and no hash has two, *)
(* whatever the other thread stores in between (db.c:2658, 2700).          *)
THEOREM TempIsIndexAlways == Spec => []TempIsIndex
  <1>1. IndexInv => TempIsIndex
    BY DEF IndexInv, CacheInv
  <1> QED BY <1>1, InitIndexInv, StepIndexInv, PTL DEF Spec

-----------------------------------------------------------------------------
(* What a step may change of a disc that is in the drive. *)
LEMMA DriveLikeKept ==
  ASSUME NEW c, NEW d, DriveLike(d, c), NEW v
  PROVE  /\ DriveLike([d EXCEPT !.name = v], c)
         /\ DriveLike([d EXCEPT !.complete = v], c)
         /\ v \in Nat => DriveLike([d EXCEPT !.year = v], c)
  <1> DEFINE D(name, year, complete) ==
               Disc(d.id, d.cid, d.lookup, d.n, d.length, name, year, d.rev,
                    complete, d.len, d.title)
  <1>1. ASSUME NEW name, NEW year \in Nat, NEW complete
        PROVE  DriveLike(D(name, year, complete), c)
    <2> DEFINE e == D(name, year, complete)
    <2>1. /\ e.id = d.id /\ e.lookup = d.lookup /\ e.n = d.n /\ e.length = d.length
          /\ e.len = d.len /\ e.year = year /\ e.rev = d.rev /\ IsStruct(e)
      BY DiscFields DEF DriveLike, IsStruct
    <2> HIDE DEF e
    <2>2. DriveLike(e, c)
      BY <2>1 DEF DriveLike
    <2> QED BY <2>2 DEF e
  <1>2. d.year \in Nat
    BY DEF DriveLike
  <1>3. /\ [d EXCEPT !.name = v] = D(v, d.year, d.complete)
        /\ [d EXCEPT !.complete = v] = D(d.name, d.year, v)
        /\ [d EXCEPT !.year = v] = D(d.name, v, d.complete)
    <2>1. d = D(d.name, d.year, d.complete)
      BY DEF DriveLike, IsStruct
    <2> QED BY <2>1 DEF Disc
  <1> HIDE DEF D
  <1> QED BY <1>1, <1>2, <1>3

(* The answer of the service keeps the identity and the lengths: they are  *)
(* known.                                                                  *)
LEMMA ServedKeeps ==
  ASSUME NEW c \in Discs, NEW d, DriveLike(d, c), NEW e \in Entries, e.id = c.id
  PROVE  DriveLike(X!ParseEntry(d, X!ServiceEntry(e)), c)
  <1> DEFINE n == Len(e.lens)
             secs == (MsfOffset + Sum(e.lens, n)) \div Frames
             hd == HeadOf(d, e.lens, n, secs, e.rev, e.id, e.name, e.year)
             t == Titled(d, e.titles, n)
             p == WithTitles(hd, n, t)
             len == FillAll(d, e.lens, n, secs)
             cid == IF d.cid = NoId THEN e.id ELSE d.cid
             y == IF e.year = 0 THEN d.year ELSE e.year
  <1>1. /\ IsEntry(e) /\ n = Len(c.lens) /\ n \in Nat \ {0} /\ n \in 1..MaxTracks
        /\ e.year \in Nat /\ e.rev \in Nat /\ e.titles \in Seq(Seq(Pieces) \ {<<>>})
        /\ Len(e.titles) = n
    BY DocumentAssumption, TocOf, EntryTitles DEF IsEntry
  <1>2. /\ IsStruct(d) /\ d.id = c.id /\ d.id # NoId /\ d.n = n /\ d.length = DriveLength(c)
        /\ d.lookup = DriveHash(c) /\ d.year \in Nat
        /\ \A i \in 1..n : d.len[i] = c.lens[i] /\ d.len[i] \in Nat /\ d.len[i] >= 300
    <2>1. c.id # NoId /\ \A i \in 1..Len(c.lens) : c.lens[i] \in Nat /\ c.lens[i] >= 300
      BY TocOf
    <2> HIDE DEF n
    <2> QED BY <1>1, <2>1 DEF DriveLike
  <1>3. DriveLength(c) # 0
    <2> DEFINE lens == c.lens
    <2>1. /\ \A k \in 1..n : Sum(lens, k) = Sum(lens, k - 1) + lens[k]
          /\ \A k \in 0..n : Sum(lens, k) \in Nat
      <3>1. \A k \in 1..n : lens[k] \in Nat
        BY <1>2
      <3> HIDE DEF lens, n
      <3> QED BY <1>1, <3>1, SumNat
    <2>2. n \in 1..n /\ n - 1 \in 0..n
      BY <1>1
    <2>3. lens[n] \in Nat /\ lens[n] >= 300
      BY <1>2, <2>2
    <2> HIDE DEF lens, n
    <2>4. Sum(lens, n) # 0
      BY <2>1, <2>2, <2>3
    <2> QED BY <1>1, <2>4 DEF DriveLength, lens
  <1>4. X!ParseEntry(d, X!ServiceEntry(e)) = p
    <2>1. X!ParseEntry(d, X!ServiceEntry(e)) = Served(d, e)
      BY <1>1, <1>2, ServiceParsed
    <2> QED BY <2>1 DEF Served
  <1>5. len = d.len
    <2>1. d.len = [i \in 1..MaxTracks |-> d.len[i]]
      BY <1>2 DEF IsStruct, Lens
    <2>2. ASSUME NEW i \in 1..MaxTracks
          PROVE  ~(i <= n /\ d.len[i] = 0)
      <3>1. i <= n => i \in 1..n
        BY <1>1
      <3> QED BY <1>2, <3>1
    <2> HIDE DEF n, secs
    <2> QED BY <2>1, <2>2 DEF FillAll
  <1>6. t \in Titles
    <2>1. \A i \in 1..n : e.titles[i] \in Seq(Pieces) \ {<<>>}
      BY <1>1
    <2>2. ASSUME NEW i \in 1..MaxTracks
          PROVE  (IF i <= n THEN e.titles[i] ELSE d.title[i]) \in Seq(Pieces) \ {<<>>}
      <3>1. CASE i <= n
        <4>1. i \in 1..n
          BY <1>1, <3>1
        <4> QED BY <2>1, <3>1, <4>1
      <3>2. CASE ~(i <= n)
        BY <1>2, <3>2 DEF Titles, IsStruct
      <3> QED BY <3>1, <3>2
    <2> HIDE DEF n
    <2> QED BY <2>2 DEF Titles, Titled
  <1>7. y \in Nat
    BY <1>1, <1>2
  <1>8. hd = Disc(d.id, cid, d.lookup, n, d.length, e.name, y, e.rev, d.complete, d.len, d.title)
    <2> HIDE DEF n, secs, len
    <2>1. (IF d.id = NoId THEN cid ELSE d.id) = d.id
      BY <1>2
    <2>2. (IF d.length = 0 THEN secs * Frames ELSE d.length) = d.length
      BY <1>2, <1>3
    <2> HIDE DEF cid, y
    <2> QED BY <1>5, <2>1, <2>2 DEF HeadOf, len, cid, y
  <1> HIDE DEF n, hd, t, y, cid, len, secs
  <1>9. hd.id = d.id /\ hd.cid = cid /\ hd.lookup = d.lookup /\ hd.length = d.length
        /\ hd.name = e.name /\ hd.year = y /\ hd.rev = e.rev /\ hd.complete = d.complete
        /\ hd.len = d.len
    BY <1>8, DiscFields
  <1>10. /\ p.id = d.id /\ p.lookup = d.lookup /\ p.n = n /\ p.length = d.length
         /\ p.len = d.len /\ p.year = y /\ p.rev = e.rev /\ IsStruct(p)
    BY <1>2, <1>6, <1>9, DiscFields DEF WithTitles, IsStruct
  <1> HIDE DEF p
  <1> QED BY <1>1, <1>2, <1>4, <1>7, <1>10 DEF DriveLike

LEMMA QueryKeeps ==
  ASSUME NEW c \in Discs, NEW d, DriveLike(d, c), NEW e \in Entries, e.id = c.id,
         NEW answer \in {"none", "query", "entry"}
  PROVE  DriveLike(X!Query(d, answer, e), c)
  <1> DEFINE d0 == [d EXCEPT !.name = e.name]
             no == FALSE
             yes == TRUE
             r == X!ParseEntry(d0, X!ServiceEntry(e))
  <1>1. DriveLike(d0, c)
    BY DriveLikeKept
  <1> HIDE DEF d0
  <1>2. DriveLike(r, c)
    BY <1>1, ServedKeeps
  <1> HIDE DEF r
  <1>3. CASE answer = "none"
    <2>1. X!Query(d, answer, e) = [d EXCEPT !.complete = no]
      BY <1>3 DEF X!Query
    <2> HIDE DEF no
    <2>2. DriveLike([d EXCEPT !.complete = no], c)
      BY DriveLikeKept
    <2> QED BY <2>1, <2>2
  <1>4. CASE answer = "query"
    <2>1. X!Query(d, answer, e) = [[d EXCEPT !.complete = yes] EXCEPT !.name = e.name]
      BY <1>4 DEF X!Query
    <2> DEFINE d1 == [d EXCEPT !.complete = yes]
               v == e.name
    <2> HIDE DEF yes
    <2>2. DriveLike(d1, c)
      BY DriveLikeKept
    <2>3. X!Query(d, answer, e) = [d1 EXCEPT !.name = v]
      BY <2>1
    <2> HIDE DEF d1, v
    <2>4. DriveLike([d1 EXCEPT !.name = v], c)
      BY <2>2, DriveLikeKept
    <2> QED BY <2>3, <2>4
  <1>5. CASE answer = "entry"
    <2>1. X!Query(d, answer, e) = [r EXCEPT !.complete = yes]
      BY <1>5 DEF X!Query, r, d0
    <2> HIDE DEF yes
    <2>2. DriveLike([r EXCEPT !.complete = yes], c)
      BY <1>2, DriveLikeKept
    <2> QED BY <2>1, <2>2
  <1> QED BY <1>3, <1>4, <1>5

(* So does the answer of MusicBrainz. *)
LEMMA FilledKeeps ==
  ASSUME NEW c, NEW d, DriveLike(d, c), NEW e \in Entries
  PROVE  DriveLike(Filled(d, e), c)
  <1> DEFINE m == Len(e.titles)
             t == [i \in 1..MaxTracks |-> IF i <= m /\ d.title[i] = DefaultTitle
                                          THEN e.titles[i] ELSE d.title[i]]
             name == IF d.name = Unknown THEN e.name ELSE d.name
             y == IF d.year = 0 THEN e.year ELSE d.year
             f == Disc(d.id, d.cid, d.lookup, d.n, d.length, name, y, d.rev,
                       d.complete, d.len, t)
  <1>1. /\ IsEntry(e) /\ e.year \in Nat /\ e.titles \in Seq(Seq(Pieces) \ {<<>>})
        /\ m \in Nat /\ \A i \in 1..m : e.titles[i] \in Seq(Pieces) \ {<<>>}
    <2>1. IsEntry(e) /\ e.year \in Nat
      BY DocumentAssumption DEF IsEntry
    <2>2. e.titles \in Seq(Seq(Pieces) \ {<<>>})
      BY <2>1, EntryTitles
    <2> QED BY <2>1, <2>2
  <1>2. IsStruct(d) /\ d.year \in Nat /\ DOMAIN d.title = 1..MaxTracks
        /\ \A i \in 1..MaxTracks : d.title[i] \in Seq(Pieces) \ {<<>>}
    BY DEF DriveLike, IsStruct, Titles
  <1>3. t \in Titles
    <2>1. ASSUME NEW i \in 1..MaxTracks
          PROVE  (IF i <= m /\ d.title[i] = DefaultTitle THEN e.titles[i] ELSE d.title[i])
                 \in Seq(Pieces) \ {<<>>}
      <3>1. CASE i <= m /\ d.title[i] = DefaultTitle
        <4>1. i \in 1..m
          BY <1>1, <3>1, MaxTracksAssumption
        <4> QED BY <1>1, <3>1, <4>1
      <3>2. CASE ~(i <= m /\ d.title[i] = DefaultTitle)
        BY <1>2, <3>2
      <3> QED BY <3>1, <3>2
    <2> HIDE DEF m
    <2> QED BY <2>1 DEF Titles
  <1>4. y \in Nat
    BY <1>1, <1>2
  <1>5. Filled(d, e) = f
    <2> DEFINE u == [i \in DOMAIN d.title |-> IF i <= m /\ d.title[i] = DefaultTitle
                                              THEN e.titles[i] ELSE d.title[i]]
    <2>1. u = t
      BY <1>2
    <2>2. Filled(d, e) = [[[d EXCEPT !.name = name] EXCEPT !.year = y] EXCEPT !.title = u]
      BY <1>2 DEF Filled, IsStruct, Disc
    <2>3. d = Disc(d.id, d.cid, d.lookup, d.n, d.length, d.name, d.year, d.rev,
                   d.complete, d.len, d.title)
      BY <1>2 DEF IsStruct
    <2> HIDE DEF u, t, name, y
    <2> QED BY <2>1, <2>2, <2>3 DEF Disc
  <1>6. /\ f.id = d.id /\ f.lookup = d.lookup /\ f.n = d.n /\ f.length = d.length
        /\ f.len = d.len /\ f.year = y /\ f.rev = d.rev /\ IsStruct(f)
    <2> HIDE DEF t, name, y
    <2> QED BY <1>2, <1>3, DiscFields DEF IsStruct
  <1> HIDE DEF f, y
  <1> QED BY <1>4, <1>5, <1>6 DEF DriveLike

-----------------------------------------------------------------------------
(* Rows.  A row with the hash of a disc in the drive has the tracks of     *)
(* such a disc.                                                            *)
DriveRow(r, c) == /\ r.lookup = DriveHash(c) /\ r.n = Len(c.lens)
                  /\ \A k \in 1..r.n : r.len[k] = c.lens[k]

(* A row with the tracks of a file of the rebuild. *)
FileRow(r, g) == /\ r.lookup = FileHash(g) /\ r.n = Len(g.lens)
                 /\ \A k \in 1..r.n : r.len[k] = FileLens(g)[k] /\ r.title[k] = g.titles[k]

RowOk(r) ==
  /\ r.n \in 1..MaxTracks /\ r.year \in Nat /\ r.rev \in Nat
  /\ Len(r.lookup) = r.n + 2
  /\ \A k \in 1..r.n : r.len[k] \in Nat /\ r.title[k] # <<>>
  /\ IsDriveHash(r.lookup) => \E c \in Discs : DriveRow(r, c)

(* What is stored by a request, and what by a rebuild, has as many lengths *)
(* as its hash.                                                            *)
LEMMA DriveLikeStorable ==
  ASSUME NEW c \in Discs, NEW d, DriveLike(d, c)
  PROVE  Storable(d) /\ IsDriveHash(d.lookup)
  <1>1. /\ Len(c.lens) \in 1..MaxTracks /\ Len(c.lens) \in Nat \ {0}
        /\ \A i \in 1..Len(c.lens) : c.lens[i] \in Nat
    BY TocOf
  <1>2. Len(DriveHash(c)) = Len(c.lens) + 2
    <2> DEFINE n == Len(c.lens)  L == DriveLength(c)  lens == c.lens
    <2> HIDE DEF n, L, lens
    <2>1. Len(Hash(n, L, lens)) = n + 2
      BY <1>1, HashParts DEF n
    <2> QED BY <2>1 DEF DriveHash, n, L, lens
  <1> QED BY <1>1, <1>2 DEF DriveLike, Storable, IsDriveHash

LEMMA FileLikeStorable ==
  ASSUME NEW f \in Files, NEW d, FileLike(d, f)
  PROVE  Storable(d) /\ ~IsDriveHash(d.lookup)
  <1>1. /\ Len(f.lens) \in 1..MaxTracks /\ Len(f.lens) \in Nat \ {0} /\ f.rev \in Nat
        /\ \A i \in 1..Len(f.lens) : FileLens(f)[i] \in Nat
    BY TocOfFile, FileLensNear
  <1>2. Len(FileHash(f)) = Len(f.lens) + 2
    <2> DEFINE n == Len(f.lens)  L == FileSecs(f) * Frames  lens == FileLens(f)
    <2> HIDE DEF n, L, lens
    <2>1. Len(Hash(n, L, lens)) = n + 2
      BY <1>1, HashParts DEF n
    <2> QED BY <2>1 DEF FileHash, n, L, lens
  <1>3. ~IsDriveHash(FileHash(f))
    BY FileNotDrive DEF IsDriveHash
  <1> QED BY <1>1, <1>2, <1>3 DEF FileLike, Storable

(* The row of a disc. *)
LEMMA RowFieldsAre ==
  ASSUME NEW d, NEW secs
  PROVE  LET r == Row(d, secs)
         IN  /\ r.lookup = d.lookup /\ r.name = d.name /\ r.year = d.year /\ r.rev = d.rev
             /\ r.n = d.n /\ \A k \in 1..d.n : r.len[k] = d.len[k] /\ r.title[k] = d.title[k]
  BY DEF Row

(* The row of a disc. *)
LEMMA RowOfStorable ==
  ASSUME NEW d, Storable(d), NEW secs,
         IsDriveHash(d.lookup) => \E c \in Discs : DriveLike(d, c)
  PROVE  RowOk(Row(d, secs))
  <1> DEFINE r == Row(d, secs)
  <1>1. /\ r.lookup = d.lookup /\ r.year = d.year /\ r.rev = d.rev /\ r.n = d.n
        /\ \A k \in 1..d.n : r.len[k] = d.len[k] /\ r.title[k] = d.title[k]
    BY RowFieldsAre
  <1> HIDE DEF r
  <1>2. ASSUME NEW k \in 1..d.n PROVE d.title[k] # <<>>
    <2>1. d.n \in 1..MaxTracks /\ d.title \in Titles
      BY DEF Storable, IsStruct
    <2>2. k \in 1..MaxTracks
      BY <2>1, MaxTracksAssumption
    <2> QED BY <2>1, <2>2 DEF Titles
  <1>3. ASSUME IsDriveHash(d.lookup) PROVE \E c \in Discs : DriveRow(r, c)
    <2>1. PICK c \in Discs : DriveLike(d, c)
      BY <1>3
    <2>2. DriveRow(r, c)
      BY <1>1, <2>1 DEF DriveLike, DriveRow
    <2> QED BY <2>2
  <1>4. RowOk(r)
    BY <1>1, <1>2, <1>3 DEF RowOk, Storable
  <1> QED BY <1>4 DEF r

LEMMA FileRowOf ==
  ASSUME NEW f \in Files, NEW d, FileLike(d, f), NEW secs
  PROVE  FileRow(Row(d, secs), f)
  <1> DEFINE r == Row(d, secs)
  <1>1. /\ r.lookup = d.lookup /\ r.n = d.n
        /\ \A k \in 1..d.n : r.len[k] = d.len[k] /\ r.title[k] = d.title[k]
    BY RowFieldsAre
  <1> HIDE DEF r
  <1>2. FileRow(r, f)
    BY <1>1 DEF FileLike, FileRow
  <1> QED BY <1>2 DEF r

(* A header that is written again leaves hash and tracks. *)
LEMMA HeaderFields ==
  ASSUME NEW r, DOMAIN r = RowFields, NEW d
  PROVE  LET h == Header(r, d)
         IN  /\ h.lookup = r.lookup /\ h.len = r.len /\ h.title = r.title
             /\ h.n = d.n /\ h.name = d.name /\ h.year = d.year /\ h.rev = d.rev
  BY DEF Header, RowFields

LEMMA HeaderOk ==
  ASSUME NEW r, DOMAIN r = RowFields, RowOk(r), NEW d, Storable(d), r.lookup = d.lookup
  PROVE  RowOk(Header(r, d)) /\ Header(r, d).n = r.n
  <1> DEFINE h == Header(r, d)
  <1>1. /\ h.lookup = r.lookup /\ h.len = r.len /\ h.title = r.title
        /\ h.n = d.n /\ h.year = d.year /\ h.rev = d.rev
    BY HeaderFields
  <1> HIDE DEF h
  <1>2. d.n = r.n
    <2>1. d.n + 2 = r.n + 2 /\ d.n \in Nat /\ r.n \in Nat
      BY MaxTracksAssumption DEF RowOk, Storable
    <2> QED BY <2>1
  <1>3. \A c : DriveRow(r, c) => DriveRow(h, c)
    BY <1>1, <1>2 DEF DriveRow
  <1>4. RowOk(h)
    BY <1>1, <1>2, <1>3 DEF RowOk, Storable
  <1> QED BY <1>1, <1>2, <1>4 DEF h

(* The tables after an insertion and after an update. *)
LEMMA AppendAt ==
  ASSUME NEW s, IsTable(s), NEW d, NEW secs
  PROVE  /\ Append(s, Row(d, secs))[Len(s) + 1] = Row(d, secs)
         /\ Len(Append(s, Row(d, secs))) = Len(s) + 1
         /\ \A i \in 1..Len(s) : Append(s, Row(d, secs))[i] = s[i]
  <1> DEFINE r == Row(d, secs)
             S == {s[i] : i \in 1..Len(s)} \cup {r}
  <1> HIDE DEF r
  <1>1. s \in Seq(S) /\ r \in S
    BY TableIsSeq
  <1> HIDE DEF S
  <1>2. /\ Append(s, r)[Len(s) + 1] = r /\ Len(Append(s, r)) = Len(s) + 1
        /\ \A i \in 1..Len(s) : Append(s, r)[i] = s[i]
    BY <1>1
  <1> QED BY <1>2 DEF r

LEMMA UpdatedAt ==
  ASSUME NEW s, IsTable(s), NEW k \in 1..Len(s), NEW d
  PROVE  /\ Updated(s, k, d)[k] = Header(s[k], d)
         /\ Len(Updated(s, k, d)) = Len(s)
         /\ \A i \in 1..Len(s) : i # k => Updated(s, k, d)[i] = s[i]
  <1> DEFINE r == Header(s[k], d)
             S == {s[i] : i \in 1..Len(s)} \cup {r}
  <1> HIDE DEF r
  <1>1. s \in Seq(S) /\ r \in S
    BY TableIsSeq
  <1> HIDE DEF S
  <1>2. /\ [s EXCEPT ![k] = r][k] = r /\ Len([s EXCEPT ![k] = r]) = Len(s)
        /\ \A i \in 1..Len(s) : i # k => [s EXCEPT ![k] = r][i] = s[i]
    BY <1>1
  <1> QED BY <1>2 DEF r, Updated

(* The year of a disc may be replaced by that of its row. *)
LEMMA YearKept ==
  ASSUME NEW d, NEW v \in Nat
  PROVE  /\ Storable(d) => Storable([d EXCEPT !.year = v])
                           /\ [d EXCEPT !.year = v].lookup = d.lookup
                           /\ [d EXCEPT !.year = v].name = d.name
         /\ \A f : FileLike(d, f) => FileLike([d EXCEPT !.year = v], f)
  <1> DEFINE e == Disc(d.id, d.cid, d.lookup, d.n, d.length, d.name, v, d.rev,
                       d.complete, d.len, d.title)
  <1>1. ASSUME IsStruct(d)
        PROVE  /\ [d EXCEPT !.year = v] = e /\ IsStruct(e)
               /\ e.lookup = d.lookup /\ e.n = d.n /\ e.name = d.name /\ e.year = v
               /\ e.rev = d.rev /\ e.len = d.len /\ e.title = d.title
    <2>1. [d EXCEPT !.year = v] = e
      BY <1>1 DEF IsStruct, Disc
    <2>2. /\ e.lookup = d.lookup /\ e.n = d.n /\ e.name = d.name /\ e.year = v
          /\ e.rev = d.rev /\ e.len = d.len /\ e.title = d.title /\ IsStruct(e)
      BY <1>1, DiscFields DEF IsStruct
    <2> QED BY <2>1, <2>2
  <1> HIDE DEF e
  <1>2. Storable(d) => Storable([d EXCEPT !.year = v])
                       /\ [d EXCEPT !.year = v].lookup = d.lookup
                       /\ [d EXCEPT !.year = v].name = d.name
    BY <1>1 DEF Storable
  <1>3. ASSUME NEW f, FileLike(d, f)
        PROVE  FileLike([d EXCEPT !.year = v], f)
    BY <1>1, <1>3 DEF FileLike
  <1> QED BY <1>2, <1>3

-----------------------------------------------------------------------------
(* What each thread is about to do, and the store it has in hand: GET and  *)
(* POST store the disc of the structure, the job a file of the cddb folder or  *)
(* the entry beside an album, neither of which has the hash of a disc.     *)
Storing(l) == l \in {"store", "write"}

Importing(a) == a.method = "temp" /\ a.file \in Files /\ FileLike(a.d, a.file)
Adopting(a) == a.method = "lookup" /\ Storable(a.d) /\ ~IsDriveHash(a.d.lookup)

LabelOk(t, l) == IF t = "http"
                 THEN l \in {"idle", "get", "query", "store", "write", "musicbrainz", "lost"}
                 ELSE l \in {"idle", "rebuild", "store", "write", "complete"}

(* The structure holds a disc, the one in the drive or an earlier one. *)
Driven(d) == \E c \in Discs : DriveLike(d, c)

ArgOk(t, a) == IF t = "http" THEN Driven(a.d) /\ a.method \in {"lookup", "post"}
               ELSE Importing(a) \/ Adopting(a)

ThreadOk(t) == LabelOk(t, pc[t]) /\ (Storing(pc[t]) => ArgOk(t, arg[t]))

(* A row that is about to be written has the hash of the disc. *)
TargetRow(t) == pc[t] = "write" /\ arg[t].target # NoRow
                => cddb[arg[t].target].lookup = arg[t].d.lookup

InfoInv == /\ toc \in Discs
           /\ info = NoDisc \/ Driven(info)
           /\ pc["http"] # "idle" => Driven(info)
           /\ pc["http"] = "query" => DriveLike(info, toc)

(* The row GET /disc has read has the hash of the disc in the drive. *)
FoundInv == pc["http"] = "query" /\ found.id # NoRow => cddb[found.id].lookup = DriveHash(toc)

RowsInv == \A i \in 1..Len(cddb) : RowOk(cddb[i])

(* The album an extraction has written. *)
AlbumOk(x) == \/ x.disc = NoDisc /\ x.entry = <<>>
              \/ \E c \in Discs : /\ DriveLike(x.disc, c) /\ x.cue = C!WriteCue(x.disc)
                                  /\ x.entry \in {<<>>, X!WriteEntry(x.disc)}

AlbumInv == album = {} \/ \E x : album = {x} /\ AlbumOk(x)

BaseInv == /\ IndexInv /\ pc = [t \in Threads |-> pc[t]]
           /\ \A t \in Threads : ThreadOk(t) /\ TargetRow(t)
           /\ InfoInv /\ FoundInv /\ RowsInv /\ AlbumInv

(* What Goto and Hand set. *)
LEMMA GotoIs ==
  ASSUME pc = [u \in Threads |-> pc[u]], NEW t \in Threads, NEW l, Goto(t, l)
  PROVE  /\ pc'[t] = l /\ \A u \in Threads \ {t} : pc'[u] = pc[u]
         /\ pc' = [u \in Threads |-> pc'[u]]
  <1>1. pc' = [pc EXCEPT ![t] = l] /\ DOMAIN pc = Threads
    BY DEF Goto
  <1> QED BY <1>1

LEMMA ArgIs ==
  ASSUME arg = [u \in Threads |-> arg[u]], NEW t \in Threads, NEW a, arg' = [arg EXCEPT ![t] = a]
  PROVE  arg'[t] = a /\ \A u \in Threads \ {t} : arg'[u] = arg[u]
  <1>1. DOMAIN arg = Threads
    OBVIOUS
  <1> QED BY <1>1

LEMMA HandIs ==
  ASSUME arg = [u \in Threads |-> arg[u]], NEW t \in Threads, NEW d, NEW method, NEW target,
         NEW f, Hand(t, d, method, target, f)
  PROVE  /\ arg'[t].d = d /\ arg'[t].method = method /\ arg'[t].target = target
         /\ arg'[t].file = f
         /\ \A u \in Threads \ {t} : arg'[u] = arg[u]
  <1> DEFINE a == [d |-> d, method |-> method, target |-> target, file |-> f]
  <1>1. arg' = [arg EXCEPT ![t] = a]
    BY DEF Hand
  <1>2. a.d = d /\ a.method = method /\ a.target = target /\ a.file = f
    OBVIOUS
  <1> HIDE DEF a
  <1>3. arg'[t] = a /\ \A u \in Threads \ {t} : arg'[u] = arg[u]
    BY <1>1, ArgIs
  <1> QED BY <1>2, <1>3

(* The disc a thread is about to store. *)
LEMMA InHand ==
  ASSUME BaseInv, NEW t \in Threads, Storing(pc[t])
  PROVE  /\ Storable(arg[t].d)
         /\ t = "http" => Driven(arg[t].d) /\ IsDriveHash(arg[t].d.lookup)
                          /\ arg[t].method \in {"lookup", "post"}
         /\ t = "job" => ~IsDriveHash(arg[t].d.lookup)
                         /\ (Importing(arg[t]) \/ Adopting(arg[t]))
  <1>1. ArgOk(t, arg[t])
    BY DEF BaseInv, ThreadOk
  <1>2. CASE t = "http"
    <2>1. Driven(arg[t].d) /\ arg[t].method \in {"lookup", "post"}
      BY <1>1, <1>2 DEF ArgOk
    <2>2. PICK c \in Discs : DriveLike(arg[t].d, c)
      BY <2>1 DEF Driven
    <2>3. Storable(arg[t].d) /\ IsDriveHash(arg[t].d.lookup)
      BY <2>2, DriveLikeStorable
    <2> QED BY <1>2, <2>1, <2>3
  <1>3. CASE t = "job"
    <2>1. Importing(arg[t]) \/ Adopting(arg[t])
      BY <1>1, <1>3 DEF ArgOk
    <2>2. CASE Importing(arg[t])
      <3>1. arg[t].file \in Files /\ FileLike(arg[t].d, arg[t].file)
        BY <2>2 DEF Importing
      <3>2. Storable(arg[t].d) /\ ~IsDriveHash(arg[t].d.lookup)
        BY <3>1, FileLikeStorable
      <3> QED BY <1>3, <2>1, <3>2
    <2>3. CASE Adopting(arg[t])
      BY <1>3, <2>1, <2>3 DEF Adopting
    <2> QED BY <2>1, <2>2, <2>3
  <1> QED BY <1>2, <1>3 DEF Threads

(* After a store. *)
LEMMA AfterStoreIs ==
  ASSUME BaseInv, NEW t \in Threads, Storing(pc[t]), NEW ok, AfterStore(t, ok)
  PROVE  /\ ~Storing(pc'[t]) /\ LabelOk(t, pc'[t]) /\ pc'[t] # "query"
         /\ t = "job" => pc'[t] = IF arg[t].method = "temp" THEN "rebuild" ELSE "complete"
         /\ pc' = [u \in Threads |-> pc'[u]]
         /\ \A u \in Threads \ {t} : pc'[u] = pc[u] /\ arg'[u] = arg[u]
  <1> DEFINE l == CASE arg[t].method = "post" -> "get"
                    [] t = "http" /\ ok -> "musicbrainz"
                    [] t = "http" -> "idle"
                    [] arg[t].method = "temp" -> "rebuild"
                    [] OTHER -> "complete"
  <1>1. Goto(t, l) /\ arg' = [arg EXCEPT ![t] = NoArg]
    BY DEF AfterStore
  <1>2. CASE t = "http"
    <2>1. arg[t].method \in {"lookup", "post"}
      BY <1>2, InHand
    <2> QED BY <1>2, <2>1, l \in {"get", "idle", "musicbrainz"}, <1>1, GotoIs, ArgIs
            DEF BaseInv, IndexInv, TargetInv, Storing, LabelOk
  <1>3. CASE t = "job"
    <2>1. arg[t].method \in {"temp", "lookup"}
      BY <1>3, InHand DEF Importing, Adopting
    <2>2. l = IF arg[t].method = "temp" THEN "rebuild" ELSE "complete"
      BY <1>3, <2>1
    <2> HIDE DEF l
    <2>3. /\ pc'[t] = l /\ pc' = [u \in Threads |-> pc'[u]]
          /\ \A u \in Threads \ {t} : pc'[u] = pc[u] /\ arg'[u] = arg[u]
      BY <1>1, GotoIs, ArgIs DEF BaseInv, IndexInv, TargetInv
    <2>4. ~Storing(l) /\ LabelOk(t, l) /\ l # "query"
      BY <1>3, <2>2 DEF Storing, LabelOk
    <2> QED BY <2>2, <2>3, <2>4
  <1> QED BY <1>2, <1>3 DEF Threads

(* The row a store finds has the hash. *)
LEMMA TargetHasHash ==
  ASSUME IndexInv, NEW a, Target(a) # NoRow
  PROVE  /\ Target(a) \in 1..Len(cddb)
         /\ cddb[Target(a)].lookup = a.d.lookup
         /\ a.method = "temp" => Target(a) \in base + 1 .. Len(cddb)
         /\ a.method # "temp" => RowsOf(a.d.lookup) # {}
                                 /\ Target(a) = Largest(RowsOf(a.d.lookup))
  <1>1. /\ RowsOf(a.d.lookup) \subseteq 1..Len(cddb) /\ Len(cddb) \in Nat
        /\ base \in 0..Len(cddb)
    BY TableIsSeq DEF RowsOf, IndexInv, CacheInv, IsTable
  <1>2. CASE a.method = "temp"
    <2> DEFINE S == {e \in temp : e.lookup = a.d.lookup}
    <2>1. S # {}
      BY <1>2 DEF Target
    <2>2. PICK e \in S : Target(a) = e.id
      BY <1>2, <2>1 DEF Target
    <2>3. /\ e.id \in base + 1 .. Len(cddb) /\ cddb[e.id].lookup = a.d.lookup
      BY <2>2 DEF IndexInv, CacheInv, TempIsIndex
    <2>4. e.id \in 1..Len(cddb)
      BY <1>1, <2>3
    <2> QED BY <1>2, <2>2, <2>3, <2>4
  <1>3. CASE a.method # "temp"
    <2>1. RowsOf(a.d.lookup) # {} /\ Target(a) = Largest(RowsOf(a.d.lookup))
      BY <1>3 DEF Target
    <2>2. Largest(RowsOf(a.d.lookup)) \in RowsOf(a.d.lookup)
      BY <1>1, <2>1, LargestIsMember
    <2> QED BY <1>1, <1>3, <2>1, <2>2 DEF RowsOf
  <1> QED BY <1>2, <1>3

(* The row found keeps its hash. *)
LEMMA FoundStep ==
  ASSUME BaseInv, UNCHANGED <<found, toc>>, pc'["http"] = pc["http"] \/ pc'["http"] # "query",
         \A i \in 1..Len(cddb) : cddb'[i].lookup = cddb[i].lookup
  PROVE  FoundInv'
  <1> DEFINE k == found.id
  <1>1. k \in 0..Len(cddb) /\ Len(cddb) \in Nat
    BY DEF BaseInv, IndexInv, TargetInv, CacheInv, IsTable
  <1> HIDE DEF k
  <1>2. k # NoRow => k \in 1..Len(cddb)
    BY <1>1 DEF NoRow
  <1> QED BY <1>2 DEF BaseInv, FoundInv, k

(* The look-up by contents answers with a row that has the hash. *)
LEMMA ByTocHasHash ==
  ASSUME IndexInv, NEW d, ByToc(d).id # NoRow
  PROVE  ByToc(d).id \in RowsOf(d.lookup)
  <1> DEFINE S == {i \in RowsOf(d.lookup) : Fits(cddb[i], d, MsfOffset)}
  <1>1. S \subseteq 1..Len(cddb) /\ Len(cddb) \in Nat
    BY TableIsSeq DEF RowsOf, IndexInv, CacheInv, IsTable
  <1>2. S # {} /\ ByToc(d).id = Largest(S)
    BY DEF ByToc, NoFound, NoRow
  <1>3. S \subseteq RowsOf(d.lookup)
    OBVIOUS
  <1> HIDE DEF S
  <1>4. Largest(S) \in S
    BY <1>1, <1>2, LargestIsMember
  <1> QED BY <1>2, <1>3, <1>4

(* A step of one thread that leaves the tables and the album alone. *)
LEMMA ThreadStep ==
  ASSUME BaseInv, IndexInv', UNCHANGED <<cddb, album>>, NEW t \in Threads,
         pc' = [u \in Threads |-> pc'[u]],
         \A u \in Threads \ {t} : pc'[u] = pc[u] /\ arg'[u] = arg[u],
         ThreadOk(t)', TargetRow(t)', InfoInv', FoundInv'
  PROVE  BaseInv'
  <1>1. RowsInv' /\ AlbumInv'
    BY DEF BaseInv, RowsInv, AlbumInv
  <1>2. ASSUME NEW u \in Threads \ {t}
        PROVE  ThreadOk(u)' /\ TargetRow(u)'
    <2>1. ThreadOk(u) /\ TargetRow(u) /\ pc'[u] = pc[u] /\ arg'[u] = arg[u]
      BY <1>2 DEF BaseInv
    <2>2. ThreadOk(u)'
      BY <2>1 DEF ThreadOk
    <2> QED BY <2>1, <2>2 DEF TargetRow
  <1> QED BY <1>1, <1>2 DEF BaseInv

-----------------------------------------------------------------------------
(* What Decide hands on when it has not found a duplicate. *)
Decided(t) ==
  LET a == arg[t]
      i == Target(a)
      update == i # NoRow /\ Same(a.d, cddb[i])
  IN  /\ pc'[t] = "write" /\ arg'[t].method = a.method /\ arg'[t].file = a.file
      /\ arg'[t].target = IF update THEN i ELSE NoRow
      /\ arg'[t].d = IF update /\ a.d.year = 0 THEN [a.d EXCEPT !.year = cddb[i].year]
                     ELSE a.d
      /\ info' = IF t = "http" THEN arg'[t].d ELSE info
      /\ pc' = [u \in Threads |-> pc'[u]]
      /\ \A u \in Threads \ {t} : pc'[u] = pc[u] /\ arg'[u] = arg[u]
      /\ UNCHANGED <<kept, reported>>

(* The decision of a store. *)
LEMMA DecideIs ==
  ASSUME BaseInv, NEW t \in Threads, Decide(t)
  PROVE  /\ Storing(pc[t])
         /\ UNCHANGED <<cddb, temp, toc, room, mb, found, todo, album, hit, base, requests, jobs>>
         /\ \/ /\ Target(arg[t]) # NoRow /\ Duplicate(arg[t].d, cddb[Target(arg[t])])
               /\ AfterStore(t, TRUE) /\ UNCHANGED info
            \/ Decided(t)
  <1> DEFINE a == arg[t]
             i == Target(a)
             update == i # NoRow /\ Same(a.d, cddb[i])
             d == IF update /\ a.d.year = 0 THEN [a.d EXCEPT !.year = cddb[i].year] ELSE a.d
             k == IF update THEN i ELSE NoRow
  <1>1. Storing(pc[t]) /\ UNCHANGED <<cddb, temp, toc, room, mb, found, todo, album, hit, base, requests, jobs>>
    BY DEF Decide, Storing
  <1>2. \/ i # NoRow /\ Duplicate(a.d, cddb[i]) /\ AfterStore(t, TRUE) /\ UNCHANGED info
        \/ /\ Goto(t, "write") /\ Hand(t, d, a.method, k, a.file)
           /\ info' = (IF t = "http" THEN d ELSE info) /\ UNCHANGED <<kept, reported>>
    BY DEF Decide
  <1>3. ASSUME Goto(t, "write"), Hand(t, d, a.method, k, a.file),
               info' = (IF t = "http" THEN d ELSE info), UNCHANGED <<kept, reported>>
        PROVE  Decided(t)
    <2> DEFINE w == "write"
               m == a.method
               f == a.file
    <2> HIDE DEF d, k, w, m, f
    <2>0. pc = [u \in Threads |-> pc[u]] /\ arg = [u \in Threads |-> arg[u]]
      BY DEF BaseInv, IndexInv, TargetInv
    <2>1. /\ pc'[t] = w /\ \A u \in Threads \ {t} : pc'[u] = pc[u]
          /\ pc' = [u \in Threads |-> pc'[u]]
      BY <1>3, <2>0, GotoIs DEF w
    <2>2. /\ arg'[t].d = d /\ arg'[t].method = m /\ arg'[t].target = k
          /\ arg'[t].file = f
          /\ \A u \in Threads \ {t} : arg'[u] = arg[u]
      BY <1>3, <2>0, HandIs DEF m, f
    <2> QED BY <1>3, <2>1, <2>2 DEF Decided, d, k, w, m, f
  <1> HIDE DEF d, k
  <1> QED BY <1>1, <1>2, <1>3

(* The disc it hands on: as before, but for the year. *)
LEMMA DecidedDisc ==
  ASSUME BaseInv, NEW t \in Threads, Storing(pc[t]), Decided(t)
  PROVE  /\ arg'[t].d.lookup = arg[t].d.lookup /\ arg'[t].d.name = arg[t].d.name
         /\ Storable(arg'[t].d)
         /\ \A c : DriveLike(arg[t].d, c) => DriveLike(arg'[t].d, c)
         /\ \A f : FileLike(arg[t].d, f) => FileLike(arg'[t].d, f)
  <1> DEFINE i == Target(arg[t])
             d == arg[t].d
             y == cddb[i].year
  <1>1. Storable(d)
    BY InHand
  <1>2. arg'[t].d = d \/ (i # NoRow /\ arg'[t].d = [d EXCEPT !.year = y])
    BY DEF Decided
  <1>3. ASSUME i # NoRow PROVE y \in Nat
    <2>1. i \in 1..Len(cddb)
      BY <1>3, TargetHasHash DEF BaseInv
    <2> QED BY <2>1 DEF BaseInv, RowsInv, RowOk
  <1> HIDE DEF i, d, y
  <1>4. CASE arg'[t].d = d
    BY <1>1, <1>4 DEF d
  <1>5. CASE i # NoRow /\ arg'[t].d = [d EXCEPT !.year = y]
    <2> DEFINE e == [d EXCEPT !.year = y]
    <2>1. /\ Storable(e) /\ e.lookup = d.lookup /\ e.name = d.name
      BY <1>1, <1>3, <1>5, YearKept
    <2>2. \A f : FileLike(d, f) => FileLike(e, f)
      BY <1>3, <1>5, YearKept
    <2>3. ASSUME NEW c, DriveLike(d, c) PROVE DriveLike(e, c)
      BY <1>3, <1>5, <2>3, DriveLikeKept
    <2>4. arg'[t].d = e
      BY <1>5
    <2> HIDE DEF e
    <2> QED BY <2>1, <2>2, <2>3, <2>4 DEF d
  <1> QED BY <1>2, <1>4, <1>5

(* BaseInv after the decision. *)
LEMMA DecideBase ==
  ASSUME BaseInv, NEW t \in Threads, Decide(t)
  PROVE  BaseInv'
  <1>0. IndexInv'
    BY StoreSteps DEF BaseInv
  <1>1. Storing(pc[t]) /\ UNCHANGED <<cddb, temp, toc, found, album>>
    BY DecideIs
  <1>2. CASE AfterStore(t, TRUE) /\ UNCHANGED info
    <2>1. /\ ~Storing(pc'[t]) /\ LabelOk(t, pc'[t]) /\ pc'[t] # "query"
          /\ pc' = [u \in Threads |-> pc'[u]]
          /\ \A u \in Threads \ {t} : pc'[u] = pc[u] /\ arg'[u] = arg[u]
      BY <1>1, <1>2, AfterStoreIs
    <2>2. ThreadOk(t)' /\ TargetRow(t)'
      BY <2>1 DEF ThreadOk, TargetRow, Storing
    <2>3. InfoInv'
      BY <1>1, <1>2, <2>1 DEF BaseInv, InfoInv, Threads, Storing
    <2>4. pc'["http"] = pc["http"] \/ pc'["http"] # "query"
      BY <2>1 DEF Threads
    <2>5. FoundInv'
      BY <1>1, <2>4, FoundStep
    <2> QED BY <1>0, <1>1, <2>1, <2>2, <2>3, <2>5, ThreadStep
  <1>3. CASE Decided(t)
    <2>0. /\ pc'[t] = "write" /\ arg'[t].method = arg[t].method /\ arg'[t].file = arg[t].file
          /\ pc' = [u \in Threads |-> pc'[u]]
          /\ \A u \in Threads \ {t} : pc'[u] = pc[u] /\ arg'[u] = arg[u]
          /\ info' = IF t = "http" THEN arg'[t].d ELSE info
          /\ arg'[t].target \in {NoRow, Target(arg[t])}
      BY <1>3 DEF Decided
    <2>1. /\ arg'[t].d.lookup = arg[t].d.lookup
          /\ Storable(arg'[t].d)
          /\ \A c : DriveLike(arg[t].d, c) => DriveLike(arg'[t].d, c)
          /\ \A f : FileLike(arg[t].d, f) => FileLike(arg'[t].d, f)
      BY <1>1, <1>3, DecidedDisc
    <2>2. /\ t = "http" => Driven(arg[t].d) /\ arg[t].method \in {"lookup", "post"}
          /\ t = "job" => ~IsDriveHash(arg[t].d.lookup)
                          /\ (Importing(arg[t]) \/ Adopting(arg[t]))
      BY <1>1, InHand
    <2>3. ThreadOk(t)'
      <3>1. CASE t = "http"
        <4>1. Driven(arg'[t].d) /\ arg'[t].method \in {"lookup", "post"}
          BY <2>0, <2>1, <2>2, <3>1 DEF Driven
        <4> QED BY <2>0, <3>1, <4>1 DEF ThreadOk, LabelOk, ArgOk
      <3>2. CASE t = "job"
        <4>1. Importing(arg[t]) => Importing(arg'[t])
          BY <2>0, <2>1 DEF Importing
        <4>2. Adopting(arg[t]) => Adopting(arg'[t])
          BY <2>0, <2>1, <2>2, <3>2 DEF Adopting
        <4> QED BY <2>0, <2>2, <3>2, <4>1, <4>2 DEF ThreadOk, LabelOk, ArgOk
      <3> QED BY <3>1, <3>2 DEF Threads
    <2>4. TargetRow(t)'
      <3>1. Target(arg[t]) # NoRow => cddb[Target(arg[t])].lookup = arg[t].d.lookup
        BY TargetHasHash DEF BaseInv
      <3> QED BY <1>1, <2>0, <2>1, <3>1 DEF TargetRow
    <2>5. InfoInv'
      <3>1. CASE t = "http"
        <4>1. Driven(info')
          BY <2>0, <2>1, <2>2, <3>1 DEF Driven
        <4> QED BY <1>1, <2>0, <3>1, <4>1 DEF InfoInv, BaseInv
      <3>2. CASE t = "job"
        BY <1>1, <2>0, <3>2 DEF InfoInv, BaseInv, Threads
      <3> QED BY <3>1, <3>2 DEF Threads
    <2>6. pc'["http"] = pc["http"] \/ pc'["http"] # "query"
      BY <2>0 DEF Threads
    <2>7. FoundInv'
      BY <1>1, <2>6, FoundStep
    <2> QED BY <1>0, <1>1, <2>0, <2>3, <2>4, <2>5, <2>7, ThreadStep
  <1> QED BY <1>2, <1>3, DecideIs

(* The rows of the table after an insertion, an update or a failed write. *)
Inserted(d) == /\ Len(cddb') = Len(cddb) + 1
               /\ cddb'[Len(cddb) + 1] = Row(d, d.length \div Frames)
               /\ \A i \in 1..Len(cddb) : cddb'[i] = cddb[i]

UpdatedOnly(k, d) == /\ Len(cddb') = Len(cddb)
                     /\ cddb'[k] = Header(cddb[k], d)
                     /\ \A i \in 1..Len(cddb) : i # k => cddb'[i] = cddb[i]

(* The three ways a write can go. *)
LEMMA WriteIs ==
  ASSUME BaseInv, NEW t \in Threads, Insert(t) \/ Update(t) \/ WriteFails(t)
  PROVE  /\ pc[t] = "write" /\ UNCHANGED <<toc, info, room, mb, found, todo, album, hit, base, requests, jobs>>
         /\ \/ Insert(t) /\ arg[t].target = NoRow /\ Inserted(arg[t].d) /\ AfterStore(t, TRUE)
               /\ Len(cddb) < MaxRows
            \/ Update(t) /\ arg[t].target \in 1..Len(cddb)
               /\ UpdatedOnly(arg[t].target, arg[t].d) /\ AfterStore(t, TRUE)
            \/ cddb' = cddb /\ AfterStore(t, FALSE)
  <1> DEFINE d == arg[t].d
             k == arg[t].target
             secs == d.length \div Frames
  <1>1. IsTable(cddb)
    BY DEF BaseInv, IndexInv, CacheInv
  <1>2. CASE Insert(t)
    <2>1. cddb' = Append(cddb, Row(d, secs)) /\ pc[t] = "write" /\ AfterStore(t, TRUE)
          /\ arg[t].target = NoRow /\ Len(cddb) < MaxRows
          /\ UNCHANGED <<toc, info, room, mb, found, todo, album, hit, base, requests, jobs>>
      BY <1>2 DEF Insert
    <2>2. Inserted(d)
      <3> HIDE DEF d
      <3>1. Inserted(d) <=> /\ Len(cddb') = Len(cddb) + 1
                            /\ cddb'[Len(cddb) + 1] = Row(d, secs)
                            /\ \A i \in 1..Len(cddb) : cddb'[i] = cddb[i]
        BY DEF Inserted
      <3> HIDE DEF secs
      <3> QED BY <1>1, <2>1, <3>1, AppendAt
    <2> QED BY <1>2, <2>1, <2>2
  <1>3. CASE Update(t)
    <2>1. cddb' = Updated(cddb, k, d) /\ pc[t] = "write" /\ AfterStore(t, TRUE) /\ k # NoRow
          /\ UNCHANGED <<toc, info, room, mb, found, todo, album, hit, base, requests, jobs>>
      BY <1>3 DEF Update, Updated
    <2>2. k \in 1..Len(cddb)
      <3>1. k \in 0..Len(cddb) /\ Len(cddb) \in Nat
        BY <1>1 DEF BaseInv, IndexInv, TargetInv, IsTable
      <3> HIDE DEF k
      <3> QED BY <2>1, <3>1 DEF NoRow
    <2>3. UpdatedOnly(k, d)
      <3> HIDE DEF k, d
      <3> QED BY <1>1, <2>1, <2>2, UpdatedAt DEF UpdatedOnly
    <2> QED BY <1>3, <2>1, <2>2, <2>3
  <1>4. CASE WriteFails(t)
    BY <1>4 DEF WriteFails
  <1> QED BY <1>2, <1>3, <1>4

(* BaseInv after a write. *)
LEMMA WriteBase ==
  ASSUME BaseInv, NEW t \in Threads, Insert(t) \/ Update(t) \/ WriteFails(t)
  PROVE  BaseInv'
  <1>0. IndexInv'
    BY StoreSteps DEF BaseInv
  <1>1. Storing(pc[t]) /\ UNCHANGED <<toc, info, found, album>> /\ pc[t] = "write"
    BY WriteIs DEF Storing
  <1>2. \E ok : AfterStore(t, ok)
    BY WriteIs
  <1>3. /\ ~Storing(pc'[t]) /\ LabelOk(t, pc'[t]) /\ pc'[t] # "query"
        /\ pc' = [u \in Threads |-> pc'[u]]
        /\ \A u \in Threads \ {t} : pc'[u] = pc[u] /\ arg'[u] = arg[u]
    BY <1>1, <1>2, AfterStoreIs
  <1>4. Storable(arg[t].d) /\ (IsDriveHash(arg[t].d.lookup) => \E c \in Discs : DriveLike(arg[t].d, c))
    <2>1. t = "http" => Driven(arg[t].d)
      BY <1>1, InHand
    <2>2. t = "job" => ~IsDriveHash(arg[t].d.lookup)
      BY <1>1, InHand
    <2>3. Storable(arg[t].d)
      BY <1>1, InHand
    <2> QED BY <2>1, <2>2, <2>3 DEF Threads, Driven
  <1>5. Len(cddb) \in Nat /\ IsTable(cddb)
    BY DEF BaseInv, IndexInv, CacheInv, IsTable
  <1>6. RowsInv' /\ \A i \in 1..Len(cddb) : cddb'[i].lookup = cddb[i].lookup
    <2> DEFINE d == arg[t].d
               k == arg[t].target
               secs == d.length \div Frames
    <2>1. CASE Inserted(d)
      <3>1. RowOk(Row(d, secs))
        <4> HIDE DEF d, secs
        <4> QED BY <1>4, RowOfStorable DEF d
      <3>2. \A i \in 1..Len(cddb') : i \in 1..Len(cddb) \/ i = Len(cddb) + 1
        BY <1>5, <2>1 DEF Inserted
      <3>3. cddb'[Len(cddb) + 1] = Row(d, secs) /\ \A i \in 1..Len(cddb) : cddb'[i] = cddb[i]
        BY <2>1 DEF Inserted
      <3> HIDE DEF d, secs
      <3> QED BY <3>1, <3>2, <3>3 DEF BaseInv, RowsInv
    <2>2. CASE k \in 1..Len(cddb) /\ UpdatedOnly(k, d)
      <3>1. cddb[k].lookup = d.lookup
        <4>1. k # NoRow
          BY <2>2, <1>5 DEF NoRow
        <4> QED BY <1>1, <4>1 DEF BaseInv, TargetRow
      <3>2. DOMAIN cddb[k] = RowFields /\ RowOk(cddb[k])
        BY <1>5, <2>2 DEF IsTable, BaseInv, RowsInv
      <3> DEFINE r == cddb[k]
                 h == Header(r, d)
      <3>3. RowOk(h) /\ h.lookup = r.lookup
        <4> HIDE DEF d, r
        <4> QED BY <1>4, <3>1, <3>2, HeaderOk, HeaderFields DEF r, d
      <3>4. cddb'[k] = h /\ Len(cddb') = Len(cddb) /\ \A i \in 1..Len(cddb) : i # k => cddb'[i] = cddb[i]
        BY <2>2 DEF UpdatedOnly
      <3> HIDE DEF d, h, k
      <3> QED BY <3>3, <3>4 DEF BaseInv, RowsInv
    <2>3. CASE cddb' = cddb
      BY <2>3 DEF BaseInv, RowsInv
    <2> QED BY <2>1, <2>2, <2>3, WriteIs
  <1>7. ASSUME NEW u \in Threads
        PROVE  ThreadOk(u)' /\ TargetRow(u)'
    <2>1. CASE u = t
      BY <1>3, <2>1 DEF ThreadOk, TargetRow, Storing
    <2>2. CASE u # t
      <3>1. /\ ThreadOk(u) /\ TargetRow(u) /\ pc'[u] = pc[u] /\ arg'[u] = arg[u]
        BY <1>3, <2>2 DEF BaseInv
      <3>2. arg[u].target # NoRow => arg[u].target \in 1..Len(cddb)
        <4> DEFINE k == arg[u].target
        <4>1. k \in 0..Len(cddb)
          BY DEF BaseInv, IndexInv, TargetInv
        <4> HIDE DEF k
        <4>2. k # NoRow => k \in 1..Len(cddb)
          BY <1>5, <4>1 DEF NoRow
        <4> QED BY <4>2 DEF k
      <3>3. TargetRow(u)'
        BY <1>6, <3>1, <3>2 DEF TargetRow
      <3> QED BY <3>1, <3>3 DEF ThreadOk
    <2> QED BY <2>1, <2>2
  <1>8. InfoInv' /\ AlbumInv'
    BY <1>1, <1>3 DEF BaseInv, InfoInv, AlbumInv, Threads, Storing
  <1>9. FoundInv'
    <2>1. pc'["http"] = pc["http"] \/ pc'["http"] # "query"
      BY <1>3 DEF Threads
    <2>2. UNCHANGED <<found, toc>>
      BY WriteIs
    <2> QED BY <1>6, <2>1, <2>2, FoundStep
  <1> QED BY <1>0, <1>3, <1>6, <1>7, <1>8, <1>9 DEF BaseInv

-----------------------------------------------------------------------------
(* BaseInv: the initial state and each action. *)
LEMMA InitBase == Init => BaseInv
  <1> SUFFICES ASSUME Init PROVE BaseInv
    OBVIOUS
  <1>1. IndexInv
    BY InitIndexInv
  <1>2. pc = [t \in Threads |-> "idle"] /\ album = {} /\ info = NoDisc /\ toc \in Discs
        /\ cddb = <<>>
    BY DEF Init
  <1>3. pc = [t \in Threads |-> pc[t]] /\ \A t \in Threads : pc[t] = "idle"
    BY <1>2
  <1>4. \A t \in Threads : ThreadOk(t) /\ TargetRow(t)
    BY <1>3 DEF ThreadOk, TargetRow, LabelOk, Storing
  <1>5. InfoInv /\ FoundInv /\ RowsInv /\ AlbumInv
    BY <1>2, <1>3 DEF InfoInv, FoundInv, RowsInv, AlbumInv, Threads
  <1> QED BY <1>1, <1>3, <1>4, <1>5 DEF BaseInv

LEMMA ServedInfo ==
  ASSUME BaseInv, NEW e \in Entries, NEW answer \in {"none", "query", "entry"},
         QueryService(answer, e)
  PROVE  DriveLike(info', toc) /\ toc \in Discs
  <1>1. pc["http"] = "query" /\ e.id = toc.id /\ info' = X!Query(info, answer, e)
    BY DEF QueryService
  <1>2. DriveLike(info, toc) /\ toc \in Discs
    BY <1>1 DEF BaseInv, InfoInv
  <1> QED BY <1>1, <1>2, QueryKeeps

LEMMA PreparedInfo ==
  ASSUME BaseInv, GetDisc
  PROVE  DriveLike(info', toc)
  <1> DEFINE old == IF info = NoDisc THEN AllocDisc ELSE info
  <1>1. info' = Prepare(old, toc) /\ toc \in Discs
    BY DEF GetDisc, BaseInv, InfoInv
  <1>2. IsStruct(old) /\ old.year \in Nat /\ old.rev \in Nat
    <2>1. CASE info = NoDisc
      <3>1. IsStruct(AllocDisc) /\ AllocDisc.year \in Nat /\ AllocDisc.rev \in Nat
        BY AllocIsStruct
      <3> QED BY <2>1, <3>1
    <2>2. CASE info # NoDisc
      BY <2>2 DEF BaseInv, InfoInv, Driven, DriveLike
    <2> QED BY <2>1, <2>2
  <1> HIDE DEF old
  <1> QED BY <1>1, <1>2, PreparedIs

(* BaseInv after the other steps of the HTTP thread. *)
LEMMA HttpBase ==
  ASSUME BaseInv, IndexInv',
         \/ ChangeDisc \/ GetDisc \/ Overrun \/ AnswerPost
         \/ \E e \in Entries : MusicBrainz(e)
         \/ \E e \in Entries, answer \in {"none", "query", "entry"} : QueryService(answer, e)
         \/ \E name \in Names : PostDisc(name)
  PROVE  BaseInv'
  <1>0. /\ pc = [u \in Threads |-> pc[u]] /\ arg = [u \in Threads |-> arg[u]]
        /\ "http" \in Threads /\ InfoInv /\ LabelOk("http", pc["http"])
    BY DEF BaseInv, IndexInv, TargetInv, Threads, ThreadOk
  <1>1. CASE ChangeDisc
    <2>1. /\ UNCHANGED <<cddb, album, pc, arg>> /\ pc["http"] = "idle" /\ toc' \in Discs
          /\ info' \in {NoDisc, info}
      BY <1>1 DEF ChangeDisc
    <2>2. ThreadOk("http")' /\ TargetRow("http")' /\ InfoInv'
      BY <1>0, <2>1 DEF ThreadOk, LabelOk, Storing, TargetRow, InfoInv
    <2>3. FoundInv'
      BY <2>1 DEF FoundInv
    <2> QED BY <1>0, <2>1, <2>2, <2>3, ThreadStep
  <1>2. CASE GetDisc
    <2>1. UNCHANGED <<cddb, album, toc, arg>> /\ Goto("http", "query")
      BY <1>2 DEF GetDisc
    <2>2. /\ pc'["http"] = "query" /\ \A u \in Threads \ {"http"} : pc'[u] = pc[u]
          /\ pc' = [u \in Threads |-> pc'[u]]
      BY <1>0, <2>1, GotoIs
    <2>3. InfoInv'
      BY <1>0, <1>2, <2>1, PreparedInfo DEF InfoInv, Driven
    <2>4. ThreadOk("http")' /\ TargetRow("http")'
      BY <2>2 DEF ThreadOk, LabelOk, Storing, TargetRow
    <2>5. FoundInv'
      <3>1. DriveLike(info', toc)
        BY <1>2, PreparedInfo
      <3> DEFINE d == info'
      <3>2. d.lookup = DriveHash(toc)
        BY <3>1 DEF DriveLike
      <3>3. found' = ByToc(d)
        BY <1>2 DEF GetDisc
      <3> HIDE DEF d
      <3>4. ByToc(d).id # NoRow => cddb[ByToc(d).id].lookup = d.lookup
        BY ByTocHasHash DEF BaseInv, RowsOf
      <3> QED BY <2>1, <3>2, <3>3, <3>4 DEF FoundInv
    <2> QED BY <1>0, <2>1, <2>2, <2>3, <2>4, <2>5, ThreadStep
  <1>3. CASE AnswerPost \/ Overrun
    <2>1. /\ UNCHANGED <<cddb, album, toc, info, arg>>
          /\ \/ pc["http"] = "get" /\ Goto("http", "idle")
             \/ info # NoDisc /\ Goto("http", "lost")
      BY <1>3 DEF AnswerPost, Overrun, HasRoom
    <2>2. PICK l \in {"idle", "lost"} : Goto("http", l)
      BY <2>1
    <2>3. /\ pc'["http"] = l /\ \A u \in Threads \ {"http"} : pc'[u] = pc[u]
          /\ pc' = [u \in Threads |-> pc'[u]]
      BY <1>0, <2>2, GotoIs
    <2>4. Driven(info)
      BY <1>0, <2>1 DEF InfoInv
    <2>5. ThreadOk("http")' /\ TargetRow("http")' /\ InfoInv'
      BY <1>0, <2>1, <2>3, <2>4 DEF ThreadOk, LabelOk, Storing, TargetRow, InfoInv
    <2>6. FoundInv'
      BY <2>3 DEF FoundInv
    <2> QED BY <1>0, <2>1, <2>3, <2>5, <2>6, ThreadStep
  <1>m. ASSUME NEW e \in Entries, MusicBrainz(e)
        PROVE  BaseInv'
    <2>1. /\ UNCHANGED <<cddb, album, toc, arg>> /\ Goto("http", "idle")
          /\ pc["http"] = "musicbrainz" /\ info' \in {info, Filled(info, e)}
      BY <1>m DEF MusicBrainz
    <2>2. /\ pc'["http"] = "idle" /\ \A u \in Threads \ {"http"} : pc'[u] = pc[u]
          /\ pc' = [u \in Threads |-> pc'[u]]
      BY <1>0, <2>1, GotoIs
    <2>3. Driven(info')
      <3>1. PICK c \in Discs : DriveLike(info, c)
        BY <1>0, <2>1 DEF InfoInv, Driven
      <3>2. DriveLike(Filled(info, e), c)
        BY <3>1, FilledKeeps
      <3> QED BY <2>1, <3>1, <3>2 DEF Driven
    <2>4. ThreadOk("http")' /\ TargetRow("http")' /\ InfoInv'
      BY <1>0, <2>1, <2>2, <2>3 DEF ThreadOk, LabelOk, Storing, TargetRow, InfoInv
    <2>5. FoundInv'
      BY <2>2 DEF FoundInv
    <2> QED BY <1>0, <2>1, <2>2, <2>4, <2>5, ThreadStep
  <1>4. ASSUME NEW e \in Entries, NEW answer \in {"none", "query", "entry"},
               QueryService(answer, e)
        PROVE  BaseInv'
    <2>1. UNCHANGED <<cddb, album, toc>> /\ found' = NoFound
      BY <1>4 DEF QueryService
    <2>2. DriveLike(info', toc) /\ toc \in Discs
      BY <1>4, ServedInfo
    <2>d. Driven(info')
      BY <2>2 DEF Driven
    <2> DEFINE k == found.id
               s == "store"  w == "write"  id == "musicbrainz"  l == "lookup"  d == info'
    <2>3. \/ Goto("http", s) /\ Hand("http", d, l, NoRow, NoDisc)
          \/ Goto("http", w) /\ Hand("http", d, l, k, NoDisc)
             /\ k # NoRow
          \/ Goto("http", id) /\ UNCHANGED arg
      BY <1>4 DEF QueryService
    <2>4. pc["http"] = "query"
      BY <1>4 DEF QueryService
    <2> HIDE DEF k, s, w, id, l, d
    <2>5. CASE Goto("http", s) /\ Hand("http", d, l, NoRow, NoDisc)
      <3>1. /\ pc'["http"] = s /\ \A u \in Threads \ {"http"} : pc'[u] = pc[u]
            /\ pc' = [u \in Threads |-> pc'[u]]
        BY <1>0, <2>5, GotoIs
      <3>2. /\ arg'["http"].d = d /\ arg'["http"].method = l
            /\ \A u \in Threads \ {"http"} : arg'[u] = arg[u]
        BY <1>0, <2>5, HandIs
      <3>3. ThreadOk("http")' /\ TargetRow("http")' /\ InfoInv' /\ FoundInv'
        BY <2>1, <2>2, <2>d, <3>1, <3>2
           DEF ThreadOk, LabelOk, ArgOk, Storing, TargetRow, InfoInv, FoundInv, s, l, d
      <3> QED BY <1>0, <2>1, <3>1, <3>2, <3>3, ThreadStep
    <2>6. CASE Goto("http", w) /\ Hand("http", d, l, k, NoDisc) /\ k # NoRow
      <3>1. /\ pc'["http"] = w /\ \A u \in Threads \ {"http"} : pc'[u] = pc[u]
            /\ pc' = [u \in Threads |-> pc'[u]]
        BY <1>0, <2>6, GotoIs
      <3>2. /\ arg'["http"].d = d /\ arg'["http"].method = l /\ arg'["http"].target = k
            /\ \A u \in Threads \ {"http"} : arg'[u] = arg[u]
        BY <1>0, <2>6, HandIs
      <3>3. cddb[k].lookup = DriveHash(toc)
        BY <2>4, <2>6 DEF BaseInv, FoundInv, k
      <3>4. ThreadOk("http")' /\ InfoInv' /\ FoundInv'
        BY <2>1, <2>2, <2>d, <3>1, <3>2
           DEF ThreadOk, LabelOk, ArgOk, Storing, InfoInv, FoundInv, w, l, d
      <3>5. TargetRow("http")'
        BY <2>1, <2>2, <3>2, <3>3 DEF TargetRow, DriveLike, d
      <3> QED BY <1>0, <2>1, <3>1, <3>2, <3>4, <3>5, ThreadStep
    <2>7. CASE Goto("http", id) /\ UNCHANGED arg
      <3>1. /\ pc'["http"] = id /\ \A u \in Threads \ {"http"} : pc'[u] = pc[u]
            /\ pc' = [u \in Threads |-> pc'[u]]
        BY <1>0, <2>7, GotoIs
      <3>2. ThreadOk("http")' /\ TargetRow("http")' /\ InfoInv' /\ FoundInv'
        BY <2>1, <2>2, <2>d, <3>1
           DEF ThreadOk, LabelOk, Storing, TargetRow, InfoInv, FoundInv, id, d
      <3> QED BY <1>0, <2>1, <2>7, <3>1, <3>2, ThreadStep
    <2> QED BY <2>3, <2>5, <2>6, <2>7
  <1>5. ASSUME NEW name \in Names, PostDisc(name)
        PROVE  BaseInv'
    <2> DEFINE s == "store"  p == "post"  d == info'
    <2>1. /\ UNCHANGED <<cddb, album, toc>> /\ info # NoDisc
          /\ info' = [info EXCEPT !.name = name]
          /\ Goto("http", s) /\ Hand("http", d, p, NoRow, NoDisc)
      BY <1>5 DEF PostDisc
    <2>2. toc \in Discs /\ \E c \in Discs : DriveLike(info, c)
      BY <1>0, <2>1 DEF InfoInv, Driven
    <2> HIDE DEF s, p, d
    <2>3. Driven(info')
      <3>1. PICK c \in Discs : DriveLike(info, c)
        BY <2>2
      <3>2. DriveLike([info EXCEPT !.name = name], c)
        BY <3>1, DriveLikeKept
      <3> QED BY <2>1, <3>2 DEF Driven
    <2>4. /\ pc'["http"] = s /\ \A u \in Threads \ {"http"} : pc'[u] = pc[u]
          /\ pc' = [u \in Threads |-> pc'[u]]
      BY <1>0, <2>1, GotoIs
    <2>5. /\ arg'["http"].d = d /\ arg'["http"].method = p
          /\ \A u \in Threads \ {"http"} : arg'[u] = arg[u]
      BY <1>0, <2>1, HandIs
    <2>6. ThreadOk("http")' /\ TargetRow("http")' /\ InfoInv' /\ FoundInv'
      BY <2>1, <2>2, <2>3, <2>4, <2>5
         DEF ThreadOk, LabelOk, ArgOk, Storing, TargetRow, InfoInv, FoundInv, s, p, d
    <2> QED BY <1>0, <2>1, <2>4, <2>5, <2>6, ThreadStep
  <1> QED BY <1>1, <1>2, <1>3, <1>m, <1>4, <1>5

(* The album an extraction leaves. *)
LEMMA WriteSheetsIs ==
  ASSUME BaseInv, WriteSheets
  PROVE  \E x : /\ album' = {x} /\ AlbumOk(x) /\ x.disc # NoDisc
                /\ x.disc = info /\ x.cue = C!WriteCue(info)
                /\ \E c \in Discs : DriveLike(info, c)
  <1> DEFINE e == IF WriteCddb THEN X!WriteEntry(info) ELSE <<>>
             q == C!WriteCue(info)
             x == [disc |-> info, cue |-> q, entry |-> e]
  <1>1. album' = {x} /\ info # NoDisc
    BY DEF WriteSheets
  <1>2. \E c \in Discs : DriveLike(info, c)
    BY <1>1 DEF BaseInv, InfoInv, Driven
  <1>3. e \in {<<>>, X!WriteEntry(info)}
    OBVIOUS
  <1> HIDE DEF e, q
  <1>4. x.disc = info /\ x.cue = q /\ x.entry = e
    OBVIOUS
  <1> HIDE DEF x
  <1>5. AlbumOk(x)
    BY <1>2, <1>3, <1>4 DEF AlbumOk, q
  <1> QED BY <1>1, <1>2, <1>4, <1>5 DEF q

(* The album another program has ripped. *)
LEMMA CopyAlbumIs ==
  ASSUME NEW f \in Foreign, CopyAlbum(f)
  PROVE  \E x : album' = {x} /\ AlbumOk(x) /\ x.disc = NoDisc
  <1> DEFINE q == C!ForeignCue(f.entry, f.style)
             z == <<>>
             x == [disc |-> NoDisc, cue |-> q, entry |-> z]
  <1>1. album' = {x}
    BY DEF CopyAlbum
  <1> HIDE DEF q
  <1>2. x.disc = NoDisc /\ x.entry = <<>>
    OBVIOUS
  <1> HIDE DEF x
  <1> QED BY <1>1, <1>2 DEF AlbumOk

(* The entry beside an album, when the scan stores it. *)
LEMMA ScannedIs ==
  ASSUME BaseInv, album # {}
  PROVE  LET a == CHOOSE x \in album : TRUE
         IN  /\ AlbumOk(a)
             /\ a.entry # <<>> => /\ Storable(SetHash(X!ParseEntry(AllocDisc, a.entry)))
                                  /\ ~IsDriveHash(SetHash(X!ParseEntry(AllocDisc, a.entry)).lookup)
  <1> DEFINE a == CHOOSE x \in album : TRUE
  <1>1. PICK x : album = {x} /\ AlbumOk(x)
    BY DEF BaseInv, AlbumInv
  <1>2. a = x
    BY <1>1
  <1> HIDE DEF a
  <1>3. ASSUME a.entry # <<>>
        PROVE  \E c \in Discs : DriveLike(a.disc, c) /\ a.entry = X!WriteEntry(a.disc)
    BY <1>1, <1>2, <1>3 DEF AlbumOk
  <1>4. ASSUME a.entry # <<>>
        PROVE  /\ Storable(SetHash(X!ParseEntry(AllocDisc, a.entry)))
               /\ ~IsDriveHash(SetHash(X!ParseEntry(AllocDisc, a.entry)).lookup)
    <2>1. PICK c \in Discs : DriveLike(a.disc, c) /\ a.entry = X!WriteEntry(a.disc)
      BY <1>3, <1>4
    <2> DEFINE y == a.disc
    <2> HIDE DEF y
    <2>2. Storable(WrittenDisc(y)) /\ ~IsDriveHash(WrittenDisc(y).lookup)
      BY <2>1, WrittenDiscIs DEF y
    <2> QED BY <2>1, <2>2 DEF WrittenDisc, y
  <1> QED BY <1>1, <1>2, <1>4 DEF a

LEMMA SheetsBase ==
  ASSUME BaseInv, IndexInv', WriteSheets \/ \E f \in Foreign : CopyAlbum(f)
  PROVE  BaseInv'
  <1>1. UNCHANGED <<cddb, toc, info, found, pc, arg>>
    BY DEF WriteSheets, CopyAlbum
  <1>2. AlbumInv'
    <2>1. \E x : album' = {x} /\ AlbumOk(x)
      BY WriteSheetsIs, CopyAlbumIs
    <2>2. PICK x : album' = {x} /\ AlbumOk(x)
      BY <2>1
    <2> QED BY <2>2 DEF AlbumInv
  <1>3. \A t \in Threads : ThreadOk(t)' /\ TargetRow(t)'
    BY <1>1 DEF BaseInv, ThreadOk, TargetRow
  <1>4. InfoInv' /\ FoundInv' /\ RowsInv'
    BY <1>1 DEF BaseInv, InfoInv, FoundInv, RowsInv
  <1> QED BY <1>1, <1>2, <1>3, <1>4 DEF BaseInv

(* The job goes to a label where it stores nothing. *)
LEMMA JobGoes ==
  ASSUME BaseInv, IndexInv', UNCHANGED <<cddb, album, toc, info, found, arg>>,
         NEW l \in {"idle", "rebuild", "complete"}, Goto("job", l)
  PROVE  BaseInv'
  <1>1. /\ pc = [u \in Threads |-> pc[u]] /\ "job" \in Threads /\ "http" \in Threads
        /\ "http" # "job"
    BY DEF BaseInv, Threads
  <1>2. /\ pc'["job"] = l /\ \A u \in Threads \ {"job"} : pc'[u] = pc[u]
        /\ pc' = [u \in Threads |-> pc'[u]]
    BY <1>1, GotoIs
  <1>3. pc'["http"] = pc["http"]
    BY <1>1, <1>2
  <1>4. ThreadOk("job")' /\ TargetRow("job")'
    BY <1>2 DEF ThreadOk, TargetRow, LabelOk, Storing
  <1>5. InfoInv' /\ FoundInv'
    BY <1>3 DEF BaseInv, InfoInv, FoundInv
  <1> QED BY <1>1, <1>2, <1>4, <1>5, ThreadStep

(* The job takes a store in hand. *)
LEMMA JobHands ==
  ASSUME BaseInv, IndexInv', UNCHANGED <<cddb, album, toc, info, found>>,
         NEW l, l = "store", Goto("job", l),
         NEW d, NEW m, NEW f, Hand("job", d, m, NoRow, f),
         \/ m = "temp" /\ f \in Files /\ FileLike(d, f)
         \/ m = "lookup" /\ Storable(d) /\ ~IsDriveHash(d.lookup)
  PROVE  BaseInv'
  <1>1. /\ pc = [u \in Threads |-> pc[u]] /\ "job" \in Threads /\ "http" \in Threads
        /\ "http" # "job" /\ arg = [u \in Threads |-> arg[u]]
    BY DEF BaseInv, Threads, IndexInv, TargetInv
  <1>2. /\ pc'["job"] = l /\ \A u \in Threads \ {"job"} : pc'[u] = pc[u]
        /\ pc' = [u \in Threads |-> pc'[u]]
    BY <1>1, GotoIs
  <1>3. /\ arg'["job"].d = d /\ arg'["job"].method = m /\ arg'["job"].file = f
        /\ \A u \in Threads \ {"job"} : arg'[u] = arg[u]
    BY <1>1, HandIs
  <1>4. pc'["http"] = pc["http"]
    BY <1>1, <1>2
  <1>5. ThreadOk("job")' /\ TargetRow("job")'
    BY <1>2, <1>3 DEF ThreadOk, TargetRow, LabelOk, Storing, ArgOk, Importing, Adopting
  <1>6. InfoInv' /\ FoundInv'
    BY <1>4 DEF BaseInv, InfoInv, FoundInv
  <1> QED BY <1>1, <1>2, <1>3, <1>5, <1>6, ThreadStep

(* BaseInv after the other steps of the job. *)
LEMMA JobBase ==
  ASSUME BaseInv, IndexInv',
         \/ StartRebuild \/ EndRebuild \/ ScanAlbum \/ CompleteAlbum
         \/ \E f \in Files : ReadFile(f)
  PROVE  BaseInv'
  <1> DEFINE s == "store"  r == "rebuild"  id == "idle"  c == "complete"
  <1>1. CASE StartRebuild
    <2>1. UNCHANGED <<cddb, album, toc, info, found, arg>> /\ Goto("job", r)
          /\ r \in {"idle", "rebuild", "complete"}
      BY <1>1 DEF StartRebuild
    <2> HIDE DEF r
    <2> QED BY <2>1, JobGoes
  <1>2. CASE EndRebuild \/ CompleteAlbum
    <2>1. UNCHANGED <<cddb, album, toc, info, found, arg>> /\ Goto("job", id)
          /\ id \in {"idle", "rebuild", "complete"}
      BY <1>2 DEF EndRebuild, CompleteAlbum
    <2> HIDE DEF id
    <2> QED BY <2>1, JobGoes
  <1>3. CASE ScanAlbum
    <2> DEFINE a == CHOOSE x \in album : TRUE
               d == SetHash(X!ParseEntry(AllocDisc, a.entry))
               m == "lookup"
    <2>1. /\ UNCHANGED <<cddb, album, toc, info, found>> /\ album # {}
          /\ \/ a.entry # <<>> /\ Goto("job", s) /\ Hand("job", d, m, NoRow, NoDisc)
             \/ Goto("job", c) /\ UNCHANGED arg
      BY <1>3 DEF ScanAlbum
    <2>2. a.entry # <<>> => Storable(d) /\ ~IsDriveHash(d.lookup)
      BY <2>1, ScannedIs
    <2>3. c \in {"idle", "rebuild", "complete"} /\ s = "store" /\ m = "lookup"
      OBVIOUS
    <2> HIDE DEF a, d, s, m, c
    <2>4. CASE a.entry # <<>> /\ Goto("job", s) /\ Hand("job", d, m, NoRow, NoDisc)
      BY <2>1, <2>2, <2>3, <2>4, JobHands
    <2>5. CASE Goto("job", c) /\ UNCHANGED arg
      BY <2>1, <2>3, <2>5, JobGoes
    <2> QED BY <2>1, <2>4, <2>5
  <1>4. ASSUME NEW f \in Files, ReadFile(f)
        PROVE  BaseInv'
    <2> DEFINE d == FileDisc[f]
               m == "temp"
    <2>1. /\ UNCHANGED <<cddb, album, toc, info, found>>
          /\ \/ Goto("job", s) /\ Hand("job", d, m, NoRow, f)
             \/ UNCHANGED <<pc, arg>>
      BY <1>4 DEF ReadFile
    <2>2. FileLike(d, f)
      BY FileDiscIs
    <2>3. m = "temp" /\ s = "store"
      OBVIOUS
    <2> HIDE DEF d, m, s
    <2>4. CASE Goto("job", s) /\ Hand("job", d, m, NoRow, f)
      BY <2>1, <2>2, <2>3, <2>4, JobHands
    <2>5. CASE UNCHANGED <<pc, arg>>
      <3>1. \A t \in Threads : ThreadOk(t)' /\ TargetRow(t)'
        BY <2>1, <2>5 DEF BaseInv, ThreadOk, TargetRow
      <3>2. InfoInv' /\ FoundInv' /\ RowsInv' /\ AlbumInv'
        BY <2>1, <2>5 DEF BaseInv, InfoInv, FoundInv, RowsInv, AlbumInv
      <3> QED BY <2>5, <3>1, <3>2 DEF BaseInv
    <2> QED BY <2>1, <2>4, <2>5
  <1> QED BY <1>1, <1>2, <1>3, <1>4

LEMMA StepBase == BaseInv /\ [Next]_vars => BaseInv'
  <1> SUFFICES ASSUME BaseInv, [Next]_vars PROVE BaseInv'
    OBVIOUS
  <1>1. IndexInv'
    BY StepIndexInv DEF BaseInv
  <1>2. CASE UNCHANGED vars
    <2>1. UNCHANGED <<cddb, toc, info, found, pc, arg, album>>
      BY <1>2 DEF vars
    <2>2. \A t \in Threads : ThreadOk(t)' /\ TargetRow(t)'
      BY <2>1 DEF BaseInv, ThreadOk, TargetRow
    <2>3. InfoInv' /\ FoundInv' /\ RowsInv' /\ AlbumInv'
      BY <2>1 DEF BaseInv, InfoInv, FoundInv, RowsInv, AlbumInv
    <2> QED BY <1>1, <2>1, <2>2, <2>3 DEF BaseInv
  <1>3. CASE Next
    <2>1. ASSUME NEW t \in Threads, Decide(t) \/ Insert(t) \/ Update(t) \/ WriteFails(t)
          PROVE  BaseInv'
      BY <2>1, DecideBase, WriteBase
    <2> QED BY <1>1, <1>3, <2>1, HttpBase, SheetsBase, JobBase DEF Next
  <1> QED BY <1>2, <1>3

(* BaseInv always holds. *)
LEMMA BaseAlways == Spec => []BaseInv
  BY InitBase, StepBase, PTL DEF Spec

-----------------------------------------------------------------------------
(* The search by weight. *)
LEMMA WeightIs ==
  ASSUME NEW r, NEW d
  PROVE  Weight(r, d) \in Nat /\ Weight(r, d) <= 1022
  <1> DEFINE W(a, b, c, e, f, g) ==
               Points(512, a) + Points(256, b) + Points(128 + 64 + 32 + 16, c) + Points(8, e)
               + Points(4, f) + Points(2, g)
             s == d.length \div Frames
             a == r.lookup = d.lookup
             b == r.n = d.n
             c == r.name = d.name
             e == r.secs = s
             f == Abs(r.secs - s) < 5
             g == r.year = d.year
  <1>1. \A p \in Nat : \A x : Points(p, x) \in {0, p}
    BY DEF Points
  <1>2. /\ Points(512, a) \in {0, 512} /\ Points(256, b) \in {0, 256}
        /\ Points(128 + 64 + 32 + 16, c) \in {0, 240} /\ Points(8, e) \in {0, 8}
        /\ Points(4, f) \in {0, 4} /\ Points(2, g) \in {0, 2}
    BY DEF Points
  <1>3. Weight(r, d) = W(a, b, c, e, f, g)
    BY DEF Weight
  <1> HIDE DEF a, b, c, e, f, g
  <1> QED BY <1>2, <1>3

(* Of numbered weights one is the heaviest, the later of two equal ones.   *)
LEMMA TopWeight ==
  ASSUME NEW n \in Nat, NEW S, S \subseteq 1..n, S # {},
         NEW top \in Nat, NEW v \in [S -> 0..top]
  PROVE  \E i \in S : \A j \in S : /\ j # i => v[i] > v[j] \/ (v[i] = v[j] /\ i > j)
                                   /\ ~(v[j] > v[i] \/ (v[j] = v[i] /\ j > i))
  <1> DEFINE V == {v[i] + 1 : i \in S}
             m == top + 1
  <1>1. \A i \in S : v[i] \in 0..top /\ v[i] \in Int /\ i \in Int
    OBVIOUS
  <1>2. V \subseteq 1..m /\ V # {}
    <2>1. \A i \in S : v[i] + 1 \in 1..m
      BY <1>1
    <2> HIDE DEF m
    <2> QED BY <2>1
  <1>3. m \in Nat
    OBVIOUS
  <1>4. PICK x \in V : \A y \in V : x >= y
    <2> HIDE DEF V, m
    <2> QED BY <1>2, <1>3, LargestOf
  <1> DEFINE T == {i \in S : v[i] + 1 = x}
  <1>5. T \subseteq 1..n /\ T # {}
    BY <1>4
  <1>6. PICK i \in T : \A j \in T : i >= j
    <2> HIDE DEF T
    <2> QED BY <1>5, LargestOf
  <1>7. i \in S /\ v[i] + 1 = x
    BY <1>6
  <1>8. ASSUME NEW j \in S
        PROVE  /\ j # i => v[i] > v[j] \/ (v[i] = v[j] /\ i > j)
               /\ ~(v[j] > v[i] \/ (v[j] = v[i] /\ j > i))
    <2> DEFINE a == v[i]  b == v[j]
    <2>1. a \in Int /\ b \in Int /\ i \in Int /\ j \in Int
      BY <1>1, <1>7
    <2>2. b + 1 \in V
      OBVIOUS
    <2>3. a + 1 >= b + 1
      BY <1>4, <1>7, <2>2
    <2>4. b = a => i >= j
      <3>1. b = a => j \in T
        BY <1>7
      <3> QED BY <1>6, <3>1
    <2> HIDE DEF a, b
    <2>5. (j # i => a > b \/ (a = b /\ i > j)) /\ ~(b > a \/ (b = a /\ j > i))
      BY <2>1, <2>3, <2>4
    <2> QED BY <2>5 DEF a, b
  <1> QED BY <1>7, <1>8

(* Of some rows one is heavier than the others, the later of two equal     *)
(* ones.                                                                   *)
LEMMA HeaviestOf ==
  ASSUME IndexInv, NEW d, NEW S, S \subseteq 1..Len(cddb), S # {}
  PROVE  \E i \in S : \A j \in S : /\ j # i => Heavier(d, i, j)
                                   /\ ~Heavier(d, j, i)
  <1> DEFINE w(i) == Weight(cddb[i], d)
             v == [i \in S |-> w(i)]
             n == Len(cddb)
             top == 1022
  <1>0. top \in Nat
    OBVIOUS
  <1>1. ASSUME NEW i \in S PROVE w(i) \in 0..top
    <2> DEFINE r == cddb[i]
    <2>1. Weight(r, d) \in Nat /\ Weight(r, d) <= top
      <3> HIDE DEF r
      <3> QED BY WeightIs
    <2> HIDE DEF top
    <2> QED BY <1>0, <2>1
  <1>2. n \in Nat
    BY DEF IndexInv, CacheInv, IsTable
  <1> HIDE DEF w, n, top
  <1>3. v \in [S -> 0..top] /\ \A i \in S : v[i] = w(i)
    BY <1>1
  <1> HIDE DEF v
  <1>4. S \subseteq 1..n
    BY DEF n
  <1>5. PICK i \in S : \A j \in S : /\ j # i => v[i] > v[j] \/ (v[i] = v[j] /\ i > j)
                                   /\ ~(v[j] > v[i] \/ (v[j] = v[i] /\ j > i))
    BY <1>0, <1>2, <1>3, <1>4, TopWeight
  <1>6. \A j \in S : /\ j # i => Heavier(d, i, j)
                    /\ ~Heavier(d, j, i)
    BY <1>3, <1>5 DEF Heavier, w
  <1> QED BY <1>6

(* The rows the search looks at. *)
Candidates(d) == {i \in DOMAIN cddb : /\ cddb[i].n = d.n
                                      /\ IF d.lookup # NoLookup
                                         THEN cddb[i].lookup = d.lookup
                                         ELSE cddb[i].name = d.name}
Best(d) == {i \in Candidates(d) : Cardinality({j \in Candidates(d) : Heavier(d, j, i)}) < 3}
Fitting(d) == {i \in Best(d) : Fits(cddb[i], d, SearchDeviation)}

(* What the search returns: a row that fits, or none when none of the      *)
(* three heaviest does.                                                    *)
LEMMA SearchIs ==
  ASSUME IndexInv, NEW d
  PROVE  /\ Fitting(d) = {} => SearchRow(d) = NoRow
         /\ Fitting(d) # {} => SearchRow(d) \in Fitting(d)
         /\ Fitting(d) \subseteq 1..Len(cddb)
         /\ Candidates(d) # {} => Best(d) # {}
  <1> DEFINE S == Candidates(d)
             F == Fitting(d)
  <1>1. SearchRow(d) = IF F = {} THEN NoRow
                       ELSE CHOOSE i \in F : \A j \in F \ {i} : Heavier(d, i, j)
    BY DEF SearchRow, Candidates, Best, Fitting
  <1>2. S \subseteq 1..Len(cddb)
    BY TableIsSeq DEF Candidates, IndexInv, CacheInv
  <1>3. F \subseteq S /\ F \subseteq 1..Len(cddb)
    BY <1>2 DEF Fitting, Best
  <1>4. ASSUME S # {} PROVE Best(d) # {}
    <2>1. PICK i \in S : \A j \in S : ~Heavier(d, j, i)
      <3> HIDE DEF S
      <3> QED BY <1>2, <1>4, HeaviestOf
    <2>2. {j \in S : Heavier(d, j, i)} = {}
      BY <2>1
    <2>3. Cardinality({j \in S : Heavier(d, j, i)}) = 0
      BY <2>2, FS_EmptySet
    <2>4. Cardinality({j \in S : Heavier(d, j, i)}) < 3
      BY <2>3
    <2> QED BY <2>4 DEF Best
  <1>5. ASSUME F # {} PROVE SearchRow(d) \in F
    <2>1. \E i \in F : \A j \in F \ {i} : Heavier(d, i, j)
      <3> HIDE DEF F, S
      <3>1. \E i \in F : \A j \in F : j # i => Heavier(d, i, j)
        BY <1>3, <1>5, HeaviestOf
      <3> QED BY <3>1
    <2> HIDE DEF F
    <2> QED BY <1>1, <1>5, <2>1
  <1> QED BY <1>1, <1>3, <1>4, <1>5

LEMMA SearchInTable ==
  ASSUME IndexInv, NEW d
  PROVE  SearchRow(d) \in 0..Len(cddb)
  <1>1. /\ Fitting(d) = {} => SearchRow(d) = NoRow
        /\ Fitting(d) # {} => SearchRow(d) \in Fitting(d)
        /\ Fitting(d) \subseteq 1..Len(cddb)
    BY SearchIs
  <1>2. Len(cddb) \in Nat
    BY DEF IndexInv, CacheInv, IsTable
  <1>3. SearchRow(d) = NoRow \/ SearchRow(d) \in 1..Len(cddb)
    BY <1>1
  <1> QED BY <1>2, <1>3 DEF NoRow

-----------------------------------------------------------------------------
(* What comes back from the sheet of a disc that was in the drive. *)
LEMMA SheetRead ==
  ASSUME NEW c \in Discs, NEW d, DriveLike(d, c)
  PROVE  LET r == C!ParseCue(C!WriteCue(d))
         IN  /\ C!CueOk(r)
             /\ r.id = d.id /\ r.lookup = d.lookup /\ r.n = d.n
             /\ r.name = d.name /\ r.year = d.year /\ r.length = d.length
             /\ \A i \in 1..r.n : r.title[i] = d.title[i]
             /\ \A i \in 2..r.n : r.len[i] = d.len[i]
             /\ r.len[1] \in {0, d.len[1] - MsfOffset}
  <1> DEFINE n == d.n
             len == CueLens(d, n)
             t == CueTitles(d, n)
             zeros == [i \in 1..MaxTracks |-> 0]
             defaults == [i \in 1..MaxTracks |-> DefaultTitle]
             hd == CueHead(d)
             r == WithTracks(hd, n, len, t)
  <1>1. /\ n \in 1 .. MaxTracks - 1 /\ n \in 1..MaxTracks /\ d.year \in Nat /\ d.lookup # NoLookup
        /\ \A i \in 1..n : d.len[i] \in Nat \ {0}
        /\ d.id # NoId
    <2>1. /\ d.n = Len(c.lens) /\ d.id = c.id /\ d.year \in Nat
          /\ \A i \in 1..Len(c.lens) : d.len[i] = c.lens[i]
      BY DEF DriveLike
    <2>2. /\ c.id # NoId /\ Len(c.lens) \in 1 .. MaxTracks - 1 /\ Len(c.lens) \in 1..MaxTracks
          /\ \A i \in 1..Len(c.lens) : c.lens[i] \in Nat /\ c.lens[i] >= 300
      BY TocOf
    <2>3. d.lookup # NoLookup
      <3>1. Len(d.lookup) = n + 2 /\ n \in 1..MaxTracks
        BY <2>1, <2>2, DriveLikeStorable DEF Storable
      <3>2. Len(NoLookup) = 0
        BY DEF NoLookup
      <3> QED BY <3>1, <3>2
    <2>4. \A i \in 1..Len(c.lens) : c.lens[i] \in Nat \ {0}
      BY <2>2
    <2> QED BY <2>1, <2>2, <2>3, <2>4
  <1>2. C!ParseCue(C!WriteCue(d)) = r
    <2>1. C!ParseCue(C!WriteCue(d)) = CueRead(d)
      BY <1>1, CueParsed
    <2> QED BY <2>1 DEF CueRead
  <1> HIDE DEF len, t, n
  <1>3. /\ hd.id = d.id /\ hd.lookup = d.lookup /\ hd.length = d.length
        /\ hd.name = d.name /\ hd.year = d.year
    BY DEF CueHead, Disc
  <1> HIDE DEF hd
  <1>4. /\ r.id = d.id /\ r.lookup = d.lookup /\ r.n = n /\ r.length = d.length
        /\ r.name = d.name /\ r.year = d.year /\ r.len = len /\ r.title = t
    BY <1>3 DEF WithTracks, Disc
  <1> HIDE DEF r
  <1>5. MaxTracks \in Nat /\ n \in Nat /\ n >= 1 /\ n < MaxTracks
    BY <1>1, MaxTracksAssumption
  <1>6. \A i \in 1..n : t[i] = d.title[i]
    <2>1. \A i \in 1..n : i \in 1..MaxTracks /\ i <= n
      BY <1>5
    <2> QED BY <2>1 DEF t, CueTitles
  <1>7. \A i \in 2..n : len[i] = d.len[i]
    <2>1. \A i \in 2..n : i \in 1..MaxTracks /\ i <= n /\ i # 1
      BY <1>5
    <2> QED BY <2>1 DEF len, CueLens
  <1>8. len[1] \in {0, d.len[1] - MsfOffset}
    <2>1. 1 \in 1..MaxTracks
      BY <1>5
    <2> QED BY <2>1 DEF len, CueLens
  <1>9. C!CueOk(r)
    BY <1>1, <1>4 DEF C!CueOk, C!NoId, NoId
  <1> QED BY <1>2, <1>4, <1>6, <1>7, <1>8, <1>9 DEF n

(* Only an extraction and a copy change the album folder. *)
LEMMA AlbumStep ==
  ASSUME Next, album' # album
  PROVE  WriteSheets \/ \E f \in Foreign : CopyAlbum(f)
  <1>1. ~\E t \in Threads : Decide(t) \/ Insert(t) \/ Update(t) \/ WriteFails(t)
    BY DEF Decide, Insert, Update, WriteFails
  <1>2. ~(ChangeDisc \/ GetDisc \/ Overrun \/ AnswerPost)
        /\ ~\E e \in Entries : MusicBrainz(e)
    BY DEF ChangeDisc, GetDisc, Overrun, AnswerPost, MusicBrainz
  <1>3. /\ ~\E e \in Entries, answer \in {"none", "query", "entry"} : QueryService(answer, e)
        /\ ~\E name \in Names : PostDisc(name)
    BY DEF QueryService, PostDisc
  <1>4. ~(StartRebuild \/ EndRebuild \/ ScanAlbum \/ CompleteAlbum)
    BY DEF StartRebuild, EndRebuild, ScanAlbum, CompleteAlbum
  <1>5. ~\E f \in Files : ReadFile(f)
    BY DEF ReadFile
  <1> QED BY <1>1, <1>2, <1>3, <1>4, <1>5 DEF Next

CueReads(a) ==
  a.disc # NoDisc =>
    LET r == C!ParseCue(a.cue)
    IN  /\ C!CueOk(r)
        /\ r.id = a.disc.id /\ r.lookup = a.disc.lookup /\ r.n = a.disc.n
        /\ r.name = a.disc.name /\ r.year = a.disc.year /\ r.length = a.disc.length
        /\ \A i \in 1..r.n : r.title[i] = a.disc.title[i]
        /\ \A i \in 2..r.n : r.len[i] = a.disc.len[i]
        /\ r.len[1] \in {0, a.disc.len[1] - MsfOffset}

(* The cue sheet an extraction writes reads back as its disc, whatever the *)
(* drive, the service and the user have told the program about the disc    *)
(* (cue_sheet.c:604-615, 166, 257-266).                                    *)
THEOREM CueAlwaysReadsBack == Spec => CueReadBack
  <1>1. ASSUME BaseInv, [Next]_vars
        PROVE  [\A a \in album' \ album : CueReads(a)]_vars
    <2>1. CASE album' = album
      BY <2>1
    <2>2. CASE album' # album
      <3>1. Next
        BY <1>1, <2>2 DEF vars
      <3>2. CASE WriteSheets
        <4>1. PICK x : /\ album' = {x} /\ x.disc = info /\ x.cue = C!WriteCue(info)
                       /\ \E c \in Discs : DriveLike(info, c)
          BY <1>1, <3>2, WriteSheetsIs
        <4>2. PICK c \in Discs : DriveLike(info, c)
          BY <4>1
        <4>3. CueReads(x)
          BY <4>1, <4>2, SheetRead DEF CueReads
        <4> QED BY <4>1, <4>3
      <3>3. CASE \E f \in Foreign : CopyAlbum(f)
        <4>1. PICK x : album' = {x} /\ x.disc = NoDisc
          BY <3>3, CopyAlbumIs
        <4>2. CueReads(x)
          BY <4>1 DEF CueReads
        <4> QED BY <4>1, <4>2
      <3> QED BY <2>2, <3>1, <3>2, <3>3, AlbumStep
    <2> QED BY <2>1, <2>2
  <1>2. CueReadBack <=> [][\A a \in album' \ album : CueReads(a)]_vars
    BY DEF CueReadBack, CueReads
  <1> QED BY <1>1, <1>2, BaseAlways, PTL DEF Spec

-----------------------------------------------------------------------------
(* The counters are within their bounds, the search has answered with a    *)
(* row or none, and the rebuild keeps no file it has not read.             *)
TallyInv ==
  /\ Len(cddb) <= MaxRows /\ requests \in 0..MaxRequests /\ jobs \in 0..MaxJobs
  /\ hit \in {-1} \cup 0..Len(cddb)
  /\ room \in 0..MaxTracks /\ mb \in BOOLEAN
  /\ todo \subseteq Files /\ kept \subseteq Files \ todo
  /\ Storing(pc["job"]) /\ arg["job"].method = "temp" => arg["job"].file \in Files \ todo

LEMMA InitTally == Init => TallyInv
  <1> SUFFICES ASSUME Init PROVE TallyInv
    OBVIOUS
  <1>1. pc["job"] = "idle" /\ Len(cddb) = 0
    BY DEF Init, Threads
  <1>2. room = 0 /\ mb = FALSE
    BY DEF Init
  <1>3. room \in 0..MaxTracks
    BY <1>2, MaxTracksAssumption
  <1>4. mb \in BOOLEAN
    BY <1>2
  <1> QED BY <1>1, <1>3, <1>4, CacheAssumption DEF Init, TallyInv, Storing

(* A step that leaves table, counters, search and files alone.             *)
LEMMA TallyKept ==
  ASSUME TallyInv, UNCHANGED <<cddb, hit, todo, kept, jobs>>, requests' \in 0..MaxRequests,
         room' \in 0..MaxTracks, mb' \in BOOLEAN,
         \/ pc'["job"] = pc["job"] /\ arg'["job"] = arg["job"]
         \/ ~Storing(pc'["job"])
         \/ arg'["job"].method # "temp"
  PROVE  TallyInv'
  BY DEF TallyInv

(* TallyInv, action by action. *)
LEMMA HttpTally ==
  ASSUME BaseInv, TallyInv,
         \/ ChangeDisc \/ GetDisc \/ Overrun \/ AnswerPost \/ WriteSheets
         \/ \E e \in Entries : MusicBrainz(e)
         \/ \E e \in Entries, answer \in {"none", "query", "entry"} : QueryService(answer, e)
         \/ \E name \in Names : PostDisc(name)
         \/ \E f \in Foreign : CopyAlbum(f)
  PROVE  TallyInv'
  <1>0. /\ pc = [u \in Threads |-> pc[u]] /\ arg = [u \in Threads |-> arg[u]]
        /\ "http" \in Threads /\ "job" \in Threads /\ "http" # "job"
        /\ requests \in 0..MaxRequests /\ MaxRequests \in Nat
    BY CacheAssumption DEF BaseInv, IndexInv, TargetInv, Threads, TallyInv
  <1>1. UNCHANGED <<cddb, hit, todo, kept, jobs>>
    BY DEF ChangeDisc, GetDisc, Overrun, AnswerPost, MusicBrainz, WriteSheets, QueryService, PostDisc, CopyAlbum
  <1>2. requests' \in 0..MaxRequests
    <2> DEFINE Counted == requests' = requests \/ (requests < MaxRequests /\ requests' = requests + 1)
    <2>a. GetDisc \/ Overrun => Counted
      BY DEF GetDisc, Overrun, Asked
    <2>b. ChangeDisc \/ AnswerPost \/ WriteSheets => Counted
      BY DEF ChangeDisc, AnswerPost, WriteSheets
    <2>c. \A e \in Entries, answer \in {"none", "query", "entry"} :
            QueryService(answer, e) => Counted
      BY DEF QueryService
    <2>d. \A name \in Names : PostDisc(name) => Counted
      BY DEF PostDisc
    <2>e. \A f \in Foreign : CopyAlbum(f) => Counted
      BY DEF CopyAlbum
    <2>f. \A e \in Entries : MusicBrainz(e) => Counted
      BY DEF MusicBrainz
    <2>1. Counted
      <3> HIDE DEF Counted
      <3> QED BY <2>a, <2>b, <2>c, <2>d, <2>e, <2>f
    <2> QED BY <1>0, <2>1
  <1>3. \/ pc' = pc \/ \E l : Goto("http", l)
    BY DEF ChangeDisc, GetDisc, Overrun, AnswerPost, MusicBrainz, WriteSheets, QueryService, PostDisc, CopyAlbum
  <1>4. \/ arg' = arg \/ \E d, m, k, f : Hand("http", d, m, k, f)
    BY DEF ChangeDisc, GetDisc, Overrun, AnswerPost, MusicBrainz, WriteSheets, QueryService, PostDisc, CopyAlbum
  <1>5. pc'["job"] = pc["job"]
    BY <1>0, <1>3, GotoIs
  <1>6. arg'["job"] = arg["job"]
    BY <1>0, <1>4, HandIs
  <1>7. room' \in 0..MaxTracks
    <2>1. room' \in {room, 0, Len(toc.lens)}
      BY DEF ChangeDisc, GetDisc, Overrun, AnswerPost, MusicBrainz, WriteSheets, QueryService,
             PostDisc, CopyAlbum
    <2>2. toc \in Discs
      BY DEF BaseInv, InfoInv
    <2>3. Len(toc.lens) \in 1..MaxTracks
      BY <2>2, TocOf
    <2> QED BY <2>1, <2>3, MaxTracksAssumption DEF TallyInv
  <1>8. mb' \in BOOLEAN
    <2>1. mb' = mb \/ mb' \in BOOLEAN
      BY DEF ChangeDisc, GetDisc, Overrun, AnswerPost, MusicBrainz, WriteSheets, QueryService,
             PostDisc, CopyAlbum
    <2> QED BY <2>1 DEF TallyInv
  <1> QED BY <1>1, <1>2, <1>5, <1>6, <1>7, <1>8, TallyKept

LEMMA JobTally ==
  ASSUME BaseInv, TallyInv,
         \/ StartRebuild \/ EndRebuild \/ ScanAlbum \/ CompleteAlbum
         \/ \E f \in Files : ReadFile(f)
  PROVE  TallyInv'
  <1>0. /\ pc = [u \in Threads |-> pc[u]] /\ arg = [u \in Threads |-> arg[u]]
        /\ "http" \in Threads /\ "job" \in Threads /\ "http" # "job"
        /\ requests \in 0..MaxRequests /\ jobs \in 0..MaxJobs /\ MaxJobs \in Nat
    BY CacheAssumption DEF BaseInv, IndexInv, TargetInv, Threads, TallyInv
  <1> DEFINE s == "store"  r == "rebuild"  id == "idle"  c == "complete"
  <1>1. CASE StartRebuild
    <2>1. /\ UNCHANGED <<cddb, room, mb, requests, hit>> /\ Goto("job", r) /\ todo' = Files /\ kept' = {}
          /\ jobs < MaxJobs /\ jobs' = jobs + 1
      BY <1>1 DEF StartRebuild
    <2> HIDE DEF r
    <2>2. pc'["job"] = r
      BY <1>0, <2>1, GotoIs
    <2>3. jobs' \in 0..MaxJobs
      BY <1>0, <2>1
    <2> QED BY <2>1, <2>2, <2>3 DEF TallyInv, Storing, r
  <1>2. CASE EndRebuild
    <2>1. /\ UNCHANGED <<cddb, room, mb, requests, hit, jobs, todo>> /\ Goto("job", id) /\ kept' = {}
      BY <1>2 DEF EndRebuild
    <2> HIDE DEF id
    <2>2. pc'["job"] = id
      BY <1>0, <2>1, GotoIs
    <2> QED BY <2>1, <2>2 DEF TallyInv, Storing, id
  <1>3. CASE ScanAlbum
    <2>1. /\ UNCHANGED <<cddb, room, mb, requests, hit, todo, kept>>
          /\ jobs < MaxJobs /\ jobs' = jobs + 1
          /\ \/ \E d : Hand("job", d, "lookup", NoRow, NoDisc)
             \/ Goto("job", c)
      BY <1>3 DEF ScanAlbum
    <2>2. jobs' \in 0..MaxJobs
      BY <1>0, <2>1
    <2> DEFINE m == "lookup"
    <2>3. ASSUME NEW d, Hand("job", d, m, NoRow, NoDisc)
          PROVE  arg'["job"].method # "temp"
      <3> HIDE DEF m
      <3>1. arg'["job"].method = m
        BY <1>0, <2>3, HandIs
      <3> QED BY <3>1 DEF m
    <2>4. ASSUME Goto("job", c) PROVE ~Storing(pc'["job"])
      <3> HIDE DEF c
      <3>1. pc'["job"] = c
        BY <1>0, <2>4, GotoIs
      <3> QED BY <3>1 DEF c, Storing
    <2> QED BY <2>1, <2>2, <2>3, <2>4 DEF TallyInv
  <1>4. CASE CompleteAlbum
    <2> DEFINE d == C!ParseCue((CHOOSE x \in album : TRUE).cue)
    <2>1. /\ UNCHANGED <<cddb, room, mb, requests, jobs, todo, kept>> /\ Goto("job", id)
          /\ hit' = IF C!CueOk(d) THEN SearchRow(d) ELSE NoRow
      BY <1>4 DEF CompleteAlbum
    <2>2. SearchRow(d) \in 0..Len(cddb) /\ NoRow \in 0..Len(cddb)
      <3> HIDE DEF d
      <3>1. Len(cddb) \in Nat
        BY DEF BaseInv, IndexInv, CacheInv, IsTable
      <3> QED BY <3>1, SearchInTable DEF BaseInv, NoRow
    <2> HIDE DEF id, d
    <2>3. pc'["job"] = id
      BY <1>0, <2>1, GotoIs
    <2>4. hit' \in 0..Len(cddb)
      BY <2>1, <2>2
    <2> QED BY <2>1, <2>3, <2>4 DEF TallyInv, Storing, id
  <1>5. ASSUME NEW f \in Files, ReadFile(f)
        PROVE  TallyInv'
    <2> DEFINE d == FileDisc[f]
               m == "temp"
    <2>1. /\ UNCHANGED <<cddb, room, mb, requests, jobs, hit, kept>> /\ todo' = todo \ {f}
          /\ pc["job"] = "rebuild"
          /\ \/ Hand("job", d, m, NoRow, f)
             \/ UNCHANGED <<pc, arg>>
      BY <1>5 DEF ReadFile
    <2> HIDE DEF d, m
    <2>2. ASSUME Hand("job", d, m, NoRow, f) PROVE arg'["job"].file = f
      BY <1>0, <2>2, HandIs
    <2>3. \/ arg'["job"].file \in Files \ todo'
          \/ ~Storing(pc'["job"])
      BY <2>1, <2>2 DEF Storing
    <2> QED BY <2>1, <2>3 DEF TallyInv
  <1> QED BY <1>1, <1>2, <1>3, <1>4, <1>5

LEMMA DecideTally ==
  ASSUME BaseInv, TallyInv, NEW t \in Threads, Decide(t)
  PROVE  TallyInv'
  <1>1. Storing(pc[t]) /\ UNCHANGED <<cddb, room, mb, todo, hit, requests, jobs>>
    BY DecideIs
  <1>2. CASE AfterStore(t, TRUE)
    <2>1. /\ ~Storing(pc'[t])
          /\ \A u \in Threads \ {t} : pc'[u] = pc[u] /\ arg'[u] = arg[u]
      BY <1>1, <1>2, AfterStoreIs
    <2>2. kept' \subseteq Files \ todo
      <3>1. kept' = kept \/ (arg[t].method = "temp" /\ kept' = kept \cup {arg[t].file})
        BY <1>2 DEF AfterStore
      <3>2. arg[t].method = "temp" => t = "job"
        BY <1>1, InHand DEF Threads
      <3> QED BY <1>1, <3>1, <3>2 DEF TallyInv
    <2> QED BY <1>1, <2>1, <2>2 DEF TallyInv, Threads
  <1>3. CASE Decided(t)
    <2>1. /\ arg'[t].method = arg[t].method /\ arg'[t].file = arg[t].file /\ kept' = kept
          /\ \A u \in Threads \ {t} : pc'[u] = pc[u] /\ arg'[u] = arg[u]
      BY <1>3 DEF Decided
    <2> QED BY <1>1, <2>1 DEF TallyInv, Threads
  <1> QED BY <1>2, <1>3, DecideIs

LEMMA WriteTally ==
  ASSUME BaseInv, TallyInv, NEW t \in Threads, Insert(t) \/ Update(t) \/ WriteFails(t)
  PROVE  TallyInv'
  <1>1. Storing(pc[t]) /\ UNCHANGED <<room, mb, todo, hit, requests, jobs>>
    BY WriteIs DEF Storing
  <1>2. \E ok : AfterStore(t, ok)
    BY WriteIs
  <1>3. /\ ~Storing(pc'[t])
        /\ \A u \in Threads \ {t} : pc'[u] = pc[u] /\ arg'[u] = arg[u]
    BY <1>1, <1>2, AfterStoreIs
  <1>4. kept' \subseteq Files \ todo
    <2>1. kept' = kept \/ (arg[t].method = "temp" /\ kept' = kept \cup {arg[t].file})
      BY <1>2 DEF AfterStore
    <2>2. arg[t].method = "temp" => t = "job"
      BY <1>1, InHand DEF Threads
    <2> QED BY <1>1, <2>1, <2>2 DEF TallyInv
  <1>5. Len(cddb') <= MaxRows /\ Len(cddb') \in Nat /\ Len(cddb') >= Len(cddb) /\ Len(cddb) \in Nat
    <2>1. Len(cddb) \in Nat
      BY DEF BaseInv, IndexInv, CacheInv, IsTable
    <2>2. Len(cddb') = Len(cddb) \/ (Len(cddb) < MaxRows /\ Len(cddb') = Len(cddb) + 1)
      <3> DEFINE k == arg[t].target  d == arg[t].d
      <3>1. (Inserted(d) /\ Len(cddb) < MaxRows) \/ UpdatedOnly(k, d) \/ cddb' = cddb
        BY WriteIs
      <3> HIDE DEF k, d
      <3> QED BY <3>1 DEF Inserted, UpdatedOnly
    <2> QED BY <2>1, <2>2, CacheAssumption DEF TallyInv
  <1>6. hit' \in {-1} \cup 0..Len(cddb')
    BY <1>1, <1>5 DEF TallyInv
  <1> QED BY <1>1, <1>3, <1>4, <1>5, <1>6 DEF TallyInv, Threads

LEMMA StepTally == BaseInv /\ TallyInv /\ [Next]_vars => TallyInv'
  <1> SUFFICES ASSUME BaseInv, TallyInv, [Next]_vars PROVE TallyInv'
    OBVIOUS
  <1>1. CASE UNCHANGED vars
    BY <1>1 DEF vars, TallyInv
  <1>2. CASE Next
    BY <1>2, HttpTally, JobTally, DecideTally, WriteTally DEF Next
  <1> QED BY <1>1, <1>2

(* The tables of the cache stay well formed: every row has a hash, its     *)
(* tracks have lengths and titles, and what the threads remember of rows,  *)
(* files and the last search refers to something that exists.              *)
THEOREM CacheTypeCorrect == Spec => []TypeOK
  <1>1. BaseInv /\ TallyInv => TypeOK
    <2> SUFFICES ASSUME BaseInv, TallyInv PROVE TypeOK
      OBVIOUS
    <2>1. DOMAIN cddb = 1..Len(cddb) /\ Len(cddb) \in Nat /\ base \in 0..Len(cddb)
      BY TableIsSeq DEF BaseInv, IndexInv, CacheInv, IsTable
    <2>2. ASSUME NEW i \in DOMAIN cddb
          PROVE  /\ cddb[i].n \in 1..MaxTracks /\ cddb[i].rev \in Nat /\ cddb[i].year \in Nat
                 /\ cddb[i].lookup # NoLookup
                 /\ \A k \in 1..cddb[i].n : cddb[i].len[k] \in Nat /\ cddb[i].title[k] # <<>>
      <3>1. RowOk(cddb[i])
        BY <2>1, <2>2 DEF BaseInv, RowsInv
      <3>2. cddb[i].lookup # NoLookup
        <4>1. Len(NoLookup) = 0
          BY DEF NoLookup
        <4>2. Len(cddb[i].lookup) = cddb[i].n + 2 /\ cddb[i].n \in Nat
          BY <3>1, MaxTracksAssumption DEF RowOk
        <4> QED BY <4>1, <4>2
      <3> QED BY <3>1, <3>2 DEF RowOk
    <2>3. \A e \in temp : e.id \in DOMAIN cddb
      <3>1. \A e \in temp : e.id \in base + 1 .. Len(cddb)
        BY DEF BaseInv, IndexInv, CacheInv, TempIsIndex
      <3> QED BY <2>1, <3>1
    <2>4. base \in 0..MaxRows
      BY <2>1, CacheAssumption DEF TallyInv
    <2>5. pc \in [Threads -> {"idle", "get", "query", "store", "write", "musicbrainz", "lost",
                             "rebuild", "complete"}]
      <3>1. \A t \in Threads : LabelOk(t, pc[t])
        BY DEF BaseInv, ThreadOk
      <3>2. \A t \in Threads :
              pc[t] \in {"idle", "get", "query", "store", "write", "musicbrainz", "lost",
                             "rebuild", "complete"}
        BY <3>1 DEF LabelOk
      <3> QED BY <3>2 DEF BaseInv
    <2>6. /\ toc \in Discs /\ found.id \in 0..Len(cddb)
          /\ \A t \in Threads : arg[t].target \in 0..Len(cddb)
      BY DEF BaseInv, InfoInv, IndexInv, TargetInv
    <2> QED BY <2>2, <2>3, <2>4, <2>5, <2>6 DEF TypeOK, TallyInv
  <1> QED BY <1>1, BaseAlways, InitTally, StepTally, PTL DEF Spec

-----------------------------------------------------------------------------
(* The rows with a hash, of a table. *)
HashRows(s, h) == {i \in DOMAIN s : s[i].lookup = h}

LEMMA RowsOfIs ==
  ASSUME NEW h
  PROVE  RowsOf(h) = HashRows(cddb, h) /\ RowsOf(h)' = HashRows(cddb', h)
  BY DEF RowsOf, HashRows

(* The rows with a hash are row numbers. *)
LEMMA HashRowsIn ==
  ASSUME NEW s, IsTable(s), NEW h
  PROVE  HashRows(s, h) = {i \in 1..Len(s) : s[i].lookup = h} /\ Len(s) \in Nat
  <1>1. DOMAIN s = 1..Len(s) /\ Len(s) \in Nat
    BY TableIsSeq DEF IsTable
  <1> QED BY <1>1 DEF HashRows

LEMMA LargestIs ==
  ASSUME NEW n \in Nat, NEW S, S \subseteq 1..n, NEW x \in S, \A y \in S : y <= x
  PROVE  Largest(S) = x
  <1>1. Largest(S) \in S /\ \A y \in S : y <= Largest(S)
    BY DEF Largest
  <1>2. \A y \in S : y \in Int
    OBVIOUS
  <1> DEFINE l == Largest(S)
  <1>3. l \in Int /\ x \in Int /\ x <= l /\ l <= x
    BY <1>1, <1>2
  <1> HIDE DEF l
  <1>4. l = x
    BY <1>3
  <1> QED BY <1>4 DEF l

(* The rows after an insertion. *)
LEMMA RowsInserted ==
  ASSUME NEW s, IsTable(s), NEW t, IsTable(t), Len(t) = Len(s) + 1,
         \A i \in 1..Len(s) : t[i] = s[i],
         NEW h
  PROVE  /\ t[Len(s) + 1].lookup # h => HashRows(t, h) = HashRows(s, h)
         /\ t[Len(s) + 1].lookup = h => HashRows(t, h) # {} /\ Largest(HashRows(t, h)) = Len(s) + 1
  <1> DEFINE n == Len(s)
             m == n + 1
             S == HashRows(s, h)
             T == HashRows(t, h)
  <1>1. /\ S = {i \in 1..n : s[i].lookup = h} /\ n \in Nat
        /\ T = {i \in 1..Len(t) : t[i].lookup = h}
    BY HashRowsIn
  <1>2. Len(t) = m /\ m \in Nat /\ (\A i \in 1..m : i \in 1..n \/ i = m) /\ m \notin 1..n
        /\ (\A i \in 1..n : i \in 1..m) /\ (\A i \in 1..m : i <= m) /\ m \in 1..m
    BY <1>1
  <1>3. \A i \in 1..n : t[i] = s[i]
    OBVIOUS
  <1> HIDE DEF n, m, S, T
  <1>4. ASSUME t[m].lookup # h PROVE T = S
    BY <1>1, <1>2, <1>3, <1>4
  <1>5. ASSUME t[m].lookup = h PROVE T # {} /\ Largest(T) = m
    <2>1. m \in T /\ T \subseteq 1..m /\ \A y \in T : y <= m
      BY <1>1, <1>2, <1>5
    <2> QED BY <1>2, <2>1, LargestIs
  <1> QED BY <1>4, <1>5 DEF n, m, S, T

(* An update leaves the rows of every hash where they are. *)
LEMMA RowsUpdated ==
  ASSUME NEW s, IsTable(s), NEW t, IsTable(t), Len(t) = Len(s),
         \A i \in 1..Len(s) : t[i].lookup = s[i].lookup,
         NEW h
  PROVE  HashRows(t, h) = HashRows(s, h)
  <1>1. /\ HashRows(s, h) = {i \in 1..Len(s) : s[i].lookup = h}
        /\ HashRows(t, h) = {i \in 1..Len(s) : t[i].lookup = h}
    BY HashRowsIn
  <1> QED BY <1>1

(* All rows with the hash of a disc have its tracks, to a second. *)
LEMMA RowsFit ==
  ASSUME BaseInv, NEW c \in Discs, NEW d, d.lookup = DriveHash(c), d.n = Len(c.lens),
         NEW slack \in Nat, NEW tol \in Nat, slack + 75 <= tol,
         \A k \in 1..d.n : d.len[k] = 0 \/ (d.len[k] \in Int /\ Abs(d.len[k] - c.lens[k]) <= slack),
         NEW i \in RowsOf(d.lookup)
  PROVE  Fits(cddb[i], d, tol)
  <1> DEFINE r == cddb[i]
  <1>1. RowOk(r) /\ r.lookup = DriveHash(c)
    <2>1. i \in 1..Len(cddb) /\ r.lookup = d.lookup
      BY TableIsSeq DEF RowsOf, BaseInv, IndexInv, CacheInv
    <2> QED BY <2>1 DEF BaseInv, RowsInv
  <1>2. PICK b \in Discs : DriveRow(r, b)
    BY <1>1 DEF RowOk, IsDriveHash
  <1> HIDE DEF r
  <1>3. /\ Len(c.lens) = Len(b.lens) /\ r.n = Len(b.lens) /\ d.n = r.n
        /\ \A k \in 1..r.n : r.len[k] = b.lens[k]
    BY <1>1, <1>2, SameDrive DEF DriveRow
  <1>4. \A k \in 1..d.n : Abs(c.lens[k] - b.lens[k]) < Frames
    BY <1>1, <1>2, SameDrive DEF DriveRow
  <1>5. /\ \A k \in 1..d.n : c.lens[k] \in Int
        /\ \A k \in 1..d.n : b.lens[k] \in Int
        /\ d.n \in 1..r.n
    BY <1>3, TocOf
  <1>6. ASSUME NEW k \in 1..d.n
        PROVE  d.len[k] = 0 \/ Abs(d.len[k] - r.len[k]) <= tol
    <2>1. r.len[k] = b.lens[k]
      BY <1>3
    <2> DEFINE x == d.len[k]
               y == c.lens[k]
               z == b.lens[k]
    <2>2. y \in Int /\ z \in Int /\ Abs(y - z) < 75 /\ (x = 0 \/ (x \in Int /\ Abs(x - y) <= slack))
      BY <1>4, <1>5 DEF Frames
    <2> HIDE DEF x, y, z
    <2>3. x = 0 \/ Abs(x - z) <= tol
      BY <2>2 DEF Abs
    <2> QED BY <2>1, <2>3 DEF x, z
  <1> QED BY <1>5, <1>6 DEF Fits, r

(* The look-up by contents answers with the last row that has the hash. *)
LEMMA ByTocIsLatest ==
  ASSUME BaseInv, NEW c \in Discs, NEW d, DriveLike(d, c)
  PROVE  /\ RowsOf(DriveHash(c)) = {} => ByToc(d).id = NoRow
         /\ RowsOf(DriveHash(c)) # {} => /\ ByToc(d).id = Largest(RowsOf(DriveHash(c)))
                                         /\ ByToc(d).row = cddb[Largest(RowsOf(DriveHash(c)))]
  <1> DEFINE h == DriveHash(c)
             R == RowsOf(h)
             S == {i \in R : Fits(cddb[i], d, MsfOffset)}
  <1>1. /\ d.lookup = h /\ d.n = Len(c.lens)
        /\ \A k \in 1..d.n : d.len[k] \in Int /\ d.len[k] = c.lens[k]
    BY TocOf DEF DriveLike
  <1>2. \A k \in 1..d.n : Abs(d.len[k] - c.lens[k]) <= 0
    BY <1>1 DEF Abs
  <1> DEFINE z == 0
  <1>3. z \in Nat /\ MsfOffset \in Nat /\ z + 75 <= MsfOffset
    BY DEF MsfOffset
  <1>4. \A k \in 1..d.n : d.len[k] = 0 \/ (d.len[k] \in Int /\ Abs(d.len[k] - c.lens[k]) <= z)
    BY <1>1, <1>2
  <1> HIDE DEF z
  <1>5. ASSUME NEW i \in R PROVE Fits(cddb[i], d, MsfOffset)
    BY <1>1, <1>3, <1>4, RowsFit
  <1>6. S = R
    BY <1>5
  <1>7. ByToc(d) = IF S = {} THEN NoFound ELSE [id |-> Largest(S), row |-> cddb[Largest(S)]]
    BY <1>1 DEF ByToc
  <1> HIDE DEF S, R
  <1>8. R = {} => ByToc(d).id = NoRow
    BY <1>6, <1>7 DEF NoFound
  <1>9. R # {} => ByToc(d).id = Largest(R) /\ ByToc(d).row = cddb[Largest(R)]
    BY <1>6, <1>7
  <1> QED BY <1>8, <1>9 DEF R, h

-----------------------------------------------------------------------------
(* What was reported is in the last row of its hash; and the row GET /disc *)
(* has read, or the one the HTTP thread is about to write, is the last of  *)
(* its hash: no other thread inserts a row with the hash of a disc.        *)
ReportedRow(s, r) == /\ IsDriveHash(r.lookup) /\ HashRows(s, r.lookup) # {}
                     /\ s[Largest(HashRows(s, r.lookup))].name = r.name

LatestOf(s, h) == Largest(HashRows(s, h))

ReportedInv == \A r \in reported : ReportedRow(cddb, r)
ReadInv == pc["http"] = "query" /\ found.id # NoRow => found.id = LatestOf(cddb, DriveHash(toc))
AimInv == pc["http"] = "write" /\ arg["http"].target # NoRow
          => arg["http"].target = LatestOf(cddb, arg["http"].d.lookup)

ServedInv == ReportedInv /\ ReadInv /\ AimInv

LEMMA InitServed == Init => ServedInv
  <1> SUFFICES ASSUME Init PROVE ServedInv
    OBVIOUS
  <1>1. pc["http"] = "idle" /\ reported = {}
    BY DEF Init, Threads
  <1> QED BY <1>1 DEF ServedInv, ReportedInv, ReadInv, AimInv

(* The rows with the hash of a disc stay as they are. *)
DriveRowsKept == \A h : IsDriveHash(h) => /\ HashRows(cddb', h) = HashRows(cddb, h)
                                          /\ \A i \in HashRows(cddb, h) : cddb'[i] = cddb[i]

LEMMA ReportedKept ==
  ASSUME BaseInv, ReportedInv, DriveRowsKept, reported' = reported
  PROVE  ReportedInv'
  <1> SUFFICES ASSUME NEW r \in reported PROVE ReportedRow(cddb', r)
    BY DEF ReportedInv
  <1>1. ReportedRow(cddb, r)
    BY DEF ReportedInv
  <1> DEFINE h == r.lookup
             R == HashRows(cddb, h)
  <1>2. R \subseteq 1..Len(cddb) /\ Len(cddb) \in Nat
    BY HashRowsIn DEF BaseInv, IndexInv, CacheInv
  <1>3. R # {} /\ IsDriveHash(h)
    BY <1>1 DEF ReportedRow
  <1>4. Largest(R) \in R
    <2> HIDE DEF R
    <2> QED BY <1>2, <1>3, LargestIsMember
  <1>5. HashRows(cddb', h) = R /\ cddb'[Largest(R)] = cddb[Largest(R)]
    BY <1>3, <1>4 DEF DriveRowsKept
  <1> QED BY <1>1, <1>5 DEF ReportedRow

(* A step that keeps these rows and what the HTTP thread knows of them. *)
LEMMA ServedKept ==
  ASSUME BaseInv, ServedInv, DriveRowsKept, UNCHANGED <<reported, found, toc>>,
         pc'["http"] = pc["http"], arg'["http"] = arg["http"]
  PROVE  ServedInv'
  <1>1. ReportedInv'
    BY ReportedKept DEF ServedInv
  <1>2. \A h : IsDriveHash(h) => LatestOf(cddb', h) = LatestOf(cddb, h)
    BY DEF DriveRowsKept, LatestOf
  <1>3. IsDriveHash(DriveHash(toc))
    BY DEF IsDriveHash, BaseInv, InfoInv
  <1>4. pc["http"] = "write" => IsDriveHash(arg["http"].d.lookup)
    <2>1. "http" \in Threads
      BY DEF Threads
    <2> QED BY <2>1, InHand DEF Storing
  <1>5. ReadInv'
    BY <1>2, <1>3 DEF ServedInv, ReadInv
  <1>6. AimInv'
    BY <1>2, <1>4 DEF ServedInv, AimInv
  <1> QED BY <1>1, <1>5, <1>6 DEF ServedInv

(* A write of the job. *)
LEMMA JobWriteKeeps ==
  ASSUME BaseInv, IndexInv', Insert("job") \/ Update("job") \/ WriteFails("job")
  PROVE  DriveRowsKept
  <1> DEFINE d == arg["job"].d
             k == arg["job"].target
             s == cddb
             t == cddb'
  <1>1. "job" \in Threads /\ IsTable(s) /\ IsTable(t) /\ Len(s) \in Nat
    BY DEF Threads, BaseInv, IndexInv, CacheInv, IsTable
  <1>2. pc["job"] = "write" /\ ~IsDriveHash(d.lookup)
    <2>1. pc["job"] = "write"
      BY <1>1, WriteIs
    <2> QED BY <1>1, <2>1, InHand DEF Storing
  <1>3. CASE Inserted(d)
    <2> SUFFICES ASSUME NEW h, IsDriveHash(h)
                 PROVE  HashRows(t, h) = HashRows(s, h) /\ \A i \in HashRows(s, h) : t[i] = s[i]
      BY DEF DriveRowsKept
    <2>1. /\ Len(t) = Len(s) + 1 /\ \A i \in 1..Len(s) : t[i] = s[i]
      BY <1>3 DEF Inserted
    <2>2. t[Len(s) + 1].lookup # h
      <3> DEFINE secs == d.length \div Frames
                 r == Row(d, secs)
      <3>1. r.lookup = d.lookup
        BY RowFieldsAre
      <3>2. t[Len(s) + 1] = r
        BY <1>3 DEF Inserted
      <3> HIDE DEF r, d
      <3> QED BY <1>2, <3>1, <3>2
    <2> HIDE DEF s, t
    <2>3. HashRows(t, h) = HashRows(s, h)
      BY <1>1, <2>1, <2>2, RowsInserted
    <2>4. HashRows(s, h) \subseteq 1..Len(s)
      BY <1>1, HashRowsIn
    <2> QED BY <2>1, <2>3, <2>4
  <1>4. CASE k \in 1..Len(cddb) /\ UpdatedOnly(k, d)
    <2> SUFFICES ASSUME NEW h, IsDriveHash(h)
                 PROVE  HashRows(t, h) = HashRows(s, h) /\ \A i \in HashRows(s, h) : t[i] = s[i]
      BY DEF DriveRowsKept
    <2>1. s[k].lookup = d.lookup
      <3>1. k # NoRow
        BY <1>1, <1>4 DEF NoRow
      <3> QED BY <1>1, <1>2, <3>1 DEF BaseInv, TargetRow
    <2>2. t[k].lookup = s[k].lookup
      <3>1. DOMAIN s[k] = RowFields
        BY <1>1, <1>4 DEF IsTable
      <3> DEFINE r == s[k]
                 g == Header(r, d)
      <3>2. t[k] = g
        BY <1>4 DEF UpdatedOnly
      <3>3. g.lookup = r.lookup
        <4> HIDE DEF d, r
        <4> QED BY <3>1, HeaderFields DEF r
      <3> HIDE DEF g, t
      <3> QED BY <3>2, <3>3
    <2>3. Len(t) = Len(s) /\ \A i \in 1..Len(s) : i # k => t[i] = s[i]
      BY <1>4 DEF UpdatedOnly
    <2> HIDE DEF s, t, d, k
    <2>4. \A i \in 1..Len(s) : t[i].lookup = s[i].lookup
      BY <2>2, <2>3
    <2>5. HashRows(t, h) = HashRows(s, h)
      BY <1>1, <2>3, <2>4, RowsUpdated
    <2>6. HashRows(s, h) = {i \in 1..Len(s) : s[i].lookup = h}
      BY <1>1, HashRowsIn
    <2>7. k \notin HashRows(s, h)
      BY <1>2, <2>1, <2>6
    <2> QED BY <2>3, <2>5, <2>6, <2>7
  <1>5. CASE cddb' = cddb
    BY <1>5 DEF DriveRowsKept
  <1> QED BY <1>1, <1>3, <1>4, <1>5, WriteIs

(* A store of the HTTP thread is reported: its row is the last of the hash *)
(* and has the name.                                                       *)
LEMMA ReportNow ==
  ASSUME BaseInv, ReportedInv, Storing(pc["http"]),
         AfterStore("http", TRUE),
         HashRows(cddb', arg["http"].d.lookup) # {},
         cddb'[LatestOf(cddb', arg["http"].d.lookup)].name = arg["http"].d.name,
         \A h : h # arg["http"].d.lookup =>
                 /\ HashRows(cddb', h) = HashRows(cddb, h)
                                      /\ \A i \in HashRows(cddb, h) : cddb'[i] = cddb[i]
  PROVE  ReportedInv'
  <1> DEFINE a == arg["http"]
             n == [lookup |-> a.d.lookup, name |-> a.d.name]
  <1>1. IsDriveHash(a.d.lookup)
    <2>1. "http" \in Threads
      BY DEF Threads
    <2> QED BY <2>1, InHand
  <1>2. reported' = {r \in reported : r.lookup # a.d.lookup} \cup {n}
    BY DEF AfterStore
  <1>3. n.lookup = a.d.lookup /\ n.name = a.d.name
    OBVIOUS
  <1> HIDE DEF n, a
  <1>4. ReportedRow(cddb', n)
    BY <1>1, <1>3 DEF ReportedRow, LatestOf, a
  <1>5. ASSUME NEW r \in reported, r.lookup # a.d.lookup
        PROVE  ReportedRow(cddb', r)
    <2> DEFINE h == r.lookup
               R == HashRows(cddb, h)
    <2>1. ReportedRow(cddb, r)
      BY <1>5 DEF ReportedInv
    <2>2. R \subseteq 1..Len(cddb) /\ Len(cddb) \in Nat
      BY HashRowsIn DEF BaseInv, IndexInv, CacheInv
    <2>3. R # {} /\ h # arg["http"].d.lookup
      BY <1>5, <2>1 DEF ReportedRow, a
    <2>4. Largest(R) \in R
      <3> HIDE DEF R
      <3> QED BY <2>2, <2>3, LargestIsMember
    <2>5. HashRows(cddb', h) = R /\ cddb'[Largest(R)] = cddb[Largest(R)]
      BY <2>3, <2>4
    <2> QED BY <2>1, <2>5 DEF ReportedRow
  <1> QED BY <1>2, <1>4, <1>5 DEF ReportedInv

(* ServedInv after a write of the HTTP thread. *)
LEMMA HttpWriteServed ==
  ASSUME BaseInv, IndexInv', ServedInv, Insert("http") \/ Update("http") \/ WriteFails("http")
  PROVE  ServedInv'
  <1> DEFINE d == arg["http"].d
             k == arg["http"].target
             s == cddb
             t == cddb'
             h0 == d.lookup
  <1>0. "http" \in Threads /\ IsTable(s) /\ IsTable(t) /\ Len(s) \in Nat
    BY DEF Threads, BaseInv, IndexInv, CacheInv, IsTable
  <1>1. pc["http"] = "write" /\ Storing(pc["http"])
    BY <1>0, WriteIs DEF Storing
  <1>2. d.lookup = h0
    OBVIOUS
  <1>3. ASSUME NEW ok, AfterStore("http", ok)
        PROVE  ReadInv' /\ AimInv'
    <2>1. ~Storing(pc'["http"]) /\ pc'["http"] # "query"
      BY <1>0, <1>1, <1>3, AfterStoreIs
    <2> QED BY <2>1 DEF ReadInv, AimInv, Storing
  <1>4. CASE Inserted(d) /\ AfterStore("http", TRUE)
    <2> DEFINE secs == d.length \div Frames
               r == Row(d, secs)
               m == Len(s) + 1
    <2>1. r.lookup = d.lookup /\ r.name = d.name
      BY RowFieldsAre
    <2>2. /\ Len(t) = m /\ t[m] = r /\ \A i \in 1..Len(s) : t[i] = s[i]
      BY <1>4 DEF Inserted
    <2> HIDE DEF s, t, r, d, h0
    <2>3. HashRows(t, h0) # {} /\ Largest(HashRows(t, h0)) = m
      BY <1>0, <1>2, <2>1, <2>2, RowsInserted
    <2>4. ASSUME NEW h, h # h0
          PROVE  HashRows(t, h) = HashRows(s, h) /\ \A i \in HashRows(s, h) : t[i] = s[i]
      <3>1. HashRows(t, h) = HashRows(s, h)
        BY <1>0, <1>2, <2>1, <2>2, <2>4, RowsInserted
      <3>2. HashRows(s, h) \subseteq 1..Len(s)
        BY <1>0, HashRowsIn
      <3> QED BY <2>2, <3>1, <3>2
    <2>5. t[m].name = d.name
      BY <2>1, <2>2
    <2> HIDE DEF m
    <2>6. ReportedInv'
      BY <1>1, <1>4, <2>3, <2>4, <2>5, ReportNow DEF s, t, d, h0, LatestOf, ServedInv
    <2> QED BY <1>3, <1>4, <2>6 DEF ServedInv
  <1>5. CASE Update("http") /\ k \in 1..Len(cddb) /\ UpdatedOnly(k, d) /\ AfterStore("http", TRUE)
    <2> DEFINE r == s[k]
               g == Header(r, d)
    <2>0. k # NoRow
      BY <1>0, <1>5 DEF NoRow
    <2>1. s[k].lookup = h0 /\ k = Largest(HashRows(s, h0))
      BY <1>0, <1>1, <1>2, <2>0 DEF BaseInv, TargetRow, ServedInv, AimInv, LatestOf
    <2>2. DOMAIN r = RowFields
      BY <1>0, <1>5 DEF IsTable
    <2>3. /\ Len(t) = Len(s) /\ t[k] = g /\ \A i \in 1..Len(s) : i # k => t[i] = s[i]
      BY <1>5 DEF UpdatedOnly
    <2>4. g.lookup = r.lookup /\ g.name = d.name
      <3> HIDE DEF r, d
      <3> QED BY <2>2, HeaderFields
    <2> HIDE DEF g
    <2>5. t[k].lookup = s[k].lookup /\ t[k].name = d.name
      BY <2>3, <2>4
    <2>6. k \in 1..Len(s)
      BY <1>5
    <2> HIDE DEF s, t, d, k, h0, r
    <2>7. \A i \in 1..Len(s) : t[i].lookup = s[i].lookup
      BY <2>3, <2>5
    <2>8. \A h : HashRows(t, h) = HashRows(s, h) /\ HashRows(s, h) = {i \in 1..Len(s) : s[i].lookup = h}
      BY <1>0, <2>3, <2>7, RowsUpdated, HashRowsIn
    <2>9. HashRows(t, h0) # {} /\ k = Largest(HashRows(t, h0))
      BY <2>1, <2>6, <2>8
    <2>10. ASSUME NEW h, h # h0
           PROVE  HashRows(t, h) = HashRows(s, h) /\ \A i \in HashRows(s, h) : t[i] = s[i]
      <3>1. k \notin HashRows(s, h)
        BY <2>1, <2>8, <2>10
      <3> QED BY <2>3, <2>8, <3>1
    <2>11. ReportedInv'
      BY <1>1, <1>5, <2>5, <2>9, <2>10, ReportNow DEF s, t, d, h0, LatestOf, ServedInv
    <2> QED BY <1>3, <1>5, <2>11 DEF ServedInv
  <1>6. CASE cddb' = cddb /\ AfterStore("http", FALSE)
    <2>1. reported' = reported
      BY <1>6 DEF AfterStore
    <2>2. DriveRowsKept
      BY <1>6 DEF DriveRowsKept
    <2>3. ReportedInv'
      BY <2>1, <2>2, ReportedKept DEF ServedInv
    <2> QED BY <1>3, <1>6, <2>3 DEF ServedInv
  <1> QED BY <1>0, <1>4, <1>5, <1>6, WriteIs

(* ServedInv after the decision of a store: a duplicate is reported too. *)
LEMMA DecideServed ==
  ASSUME BaseInv, ServedInv, NEW t \in Threads, Decide(t)
  PROVE  ServedInv'
  <1>0. Storing(pc[t]) /\ UNCHANGED <<cddb, toc, found>>
    BY DecideIs
  <1>1. DriveRowsKept
    BY <1>0 DEF DriveRowsKept
  <1>2. CASE t = "job"
    <2>1. reported' = reported /\ pc'["http"] = pc["http"] /\ arg'["http"] = arg["http"]
      <3>1. CASE AfterStore(t, TRUE)
        <4>1. \A u \in Threads \ {t} : pc'[u] = pc[u] /\ arg'[u] = arg[u]
          BY <1>0, <3>1, AfterStoreIs
        <4>2. reported' = reported
          BY <1>2, <3>1 DEF AfterStore
        <4> QED BY <1>2, <4>1, <4>2 DEF Threads
      <3>2. CASE Decided(t)
        BY <1>2, <3>2 DEF Decided, Threads
      <3> QED BY <3>1, <3>2, DecideIs
    <2> QED BY <1>0, <1>1, <2>1, ServedKept
  <1>3. CASE t = "http"
    <2> DEFINE a == arg[t]
               i == Target(a)
               h == a.d.lookup
    <2>1. a.d.lookup = h /\ a.method # "temp"
      BY <1>0, <1>3, InHand
    <2>2. i # NoRow => /\ HashRows(cddb, h) # {} /\ i = LatestOf(cddb, h)
      <3>1. i # NoRow => RowsOf(a.d.lookup) # {} /\ i = Largest(RowsOf(a.d.lookup))
        BY <2>1, TargetHasHash DEF BaseInv
      <3>2. RowsOf(h) = HashRows(cddb, h)
        BY RowsOfIs
      <3> QED BY <2>1, <3>1, <3>2 DEF LatestOf
    <2>3. CASE i # NoRow /\ Duplicate(a.d, cddb[i]) /\ AfterStore(t, TRUE)
      <3>1. cddb[i].name = a.d.name
        BY <2>3 DEF Duplicate, Same
      <3>2. \A hh : HashRows(cddb', hh) = HashRows(cddb, hh)
                    /\ \A j \in HashRows(cddb, hh) : cddb'[j] = cddb[j]
        BY <1>0
      <3>3. ReportedInv'
        <4> HIDE DEF i
        <4>1. cddb'[LatestOf(cddb', arg["http"].d.lookup)].name = arg["http"].d.name
          BY <1>0, <1>3, <2>2, <2>3, <3>1
        <4>2. HashRows(cddb', arg["http"].d.lookup) # {}
          BY <1>0, <1>3, <2>2, <2>3
        <4> QED BY <1>0, <1>3, <2>3, <3>2, <4>1, <4>2, ReportNow DEF ServedInv
      <3>4. ~Storing(pc'[t]) /\ pc'[t] # "query"
        BY <1>0, <2>3, AfterStoreIs
      <3> QED BY <1>3, <3>3, <3>4 DEF ServedInv, ReadInv, AimInv, Storing
    <2>4. CASE Decided(t)
      <3>1. reported' = reported /\ arg'[t].target \in {NoRow, i} /\ pc'[t] = "write"
        BY <2>4 DEF Decided
      <3>2. ReportedInv'
        BY <1>1, <3>1, ReportedKept DEF ServedInv
      <3>3. arg'[t].d.lookup = h
        BY <1>0, <2>4, DecidedDisc
      <3> HIDE DEF i, h
      <3>4. AimInv'
        BY <1>0, <1>3, <2>2, <3>1, <3>3 DEF AimInv
      <3> QED BY <1>3, <3>1, <3>2, <3>4 DEF ServedInv, ReadInv
    <2> QED BY <2>3, <2>4, DecideIs
  <1> QED BY <1>2, <1>3 DEF Threads

(* ServedInv after the other steps of the HTTP thread. *)
LEMMA HttpServed ==
  ASSUME BaseInv, ServedInv,
         \/ ChangeDisc \/ GetDisc \/ Overrun \/ AnswerPost
         \/ \E e \in Entries : MusicBrainz(e)
         \/ \E e \in Entries, answer \in {"none", "query", "entry"} : QueryService(answer, e)
         \/ \E name \in Names : PostDisc(name)
  PROVE  ServedInv'
  <1>0. /\ pc = [u \in Threads |-> pc[u]] /\ arg = [u \in Threads |-> arg[u]]
        /\ "http" \in Threads
    BY DEF BaseInv, IndexInv, TargetInv, Threads
  <1>1. UNCHANGED <<cddb, reported>>
    BY DEF ChangeDisc, GetDisc, Overrun, AnswerPost, MusicBrainz, QueryService, PostDisc
  <1>2. ReportedInv'
    <2>1. DriveRowsKept
      BY <1>1 DEF DriveRowsKept
    <2> QED BY <1>1, <2>1, ReportedKept DEF ServedInv
  <1>3. CASE ChangeDisc
    <2>1. pc' = pc /\ pc["http"] = "idle"
      BY <1>3 DEF ChangeDisc
    <2> QED BY <1>2, <2>1 DEF ServedInv, ReadInv, AimInv
  <1>4. CASE GetDisc
    <2> DEFINE q == "query"  d == info'
    <2>1. /\ Goto("http", q) /\ found' = ByToc(d) /\ UNCHANGED <<toc, cddb>>
      BY <1>4 DEF GetDisc
    <2>2. DriveLike(d, toc) /\ toc \in Discs
      BY <1>4, PreparedInfo DEF BaseInv, InfoInv
    <2> HIDE DEF q, d
    <2>3. pc'["http"] = q
      BY <1>0, <2>1, GotoIs
    <2>4. ByToc(d).id # NoRow => ByToc(d).id = LatestOf(cddb, DriveHash(toc))
      <3>1. /\ RowsOf(DriveHash(toc)) = {} => ByToc(d).id = NoRow
            /\ RowsOf(DriveHash(toc)) # {} => ByToc(d).id = Largest(RowsOf(DriveHash(toc)))
        BY <2>2, ByTocIsLatest
      <3>2. RowsOf(DriveHash(toc)) = HashRows(cddb, DriveHash(toc))
        BY RowsOfIs
      <3> QED BY <3>1, <3>2 DEF LatestOf
    <2> QED BY <1>2, <2>1, <2>3, <2>4 DEF ServedInv, ReadInv, AimInv, q
  <1>5. CASE Overrun \/ AnswerPost \/ \E e \in Entries : MusicBrainz(e)
    <2>1. PICK l \in {"idle", "lost"} : Goto("http", l)
      BY <1>5 DEF Overrun, AnswerPost, MusicBrainz
    <2>2. pc'["http"] = l
      BY <1>0, <2>1, GotoIs
    <2> QED BY <1>2, <2>2 DEF ServedInv, ReadInv, AimInv
  <1>6. ASSUME NEW e \in Entries, NEW answer \in {"none", "query", "entry"},
               QueryService(answer, e)
        PROVE  ServedInv'
    <2> DEFINE k == found.id
               s == "store"  w == "write"  id == "musicbrainz"  l == "lookup"  d == info'
    <2>i. d.lookup = DriveHash(toc)
      BY <1>6, ServedInfo DEF DriveLike
    <2>1. /\ pc["http"] = "query" /\ UNCHANGED <<cddb, toc>>
          /\ \/ Goto("http", s)
             \/ Goto("http", w) /\ Hand("http", d, l, k, NoDisc)
             \/ Goto("http", id)
      BY <1>6 DEF QueryService
    <2> HIDE DEF k, s, w, id, l, d
    <2>2. CASE Goto("http", s)
      <3>1. pc'["http"] = s
        BY <1>0, <2>2, GotoIs
      <3> QED BY <1>2, <3>1 DEF ServedInv, ReadInv, AimInv, s
    <2>3. CASE Goto("http", id)
      <3>1. pc'["http"] = id
        BY <1>0, <2>3, GotoIs
      <3> QED BY <1>2, <3>1 DEF ServedInv, ReadInv, AimInv, id
    <2>4. CASE Goto("http", w) /\ Hand("http", d, l, k, NoDisc)
      <3>1. pc'["http"] = w /\ arg'["http"].target = k /\ arg'["http"].d = d
        BY <1>0, <2>4, GotoIs, HandIs
      <3>2. k # NoRow => k = LatestOf(cddb, DriveHash(toc))
        BY <2>1 DEF ServedInv, ReadInv, k
      <3> QED BY <1>2, <2>i, <2>1, <3>1, <3>2 DEF ServedInv, ReadInv, AimInv, w
    <2> QED BY <2>1, <2>2, <2>3, <2>4
  <1>7. ASSUME NEW name \in Names, PostDisc(name)
        PROVE  ServedInv'
    <2> DEFINE s == "store"
    <2>1. Goto("http", s)
      BY <1>7 DEF PostDisc
    <2> HIDE DEF s
    <2>2. pc'["http"] = s
      BY <1>0, <2>1, GotoIs
    <2> QED BY <1>2, <2>2 DEF ServedInv, ReadInv, AimInv, s
  <1> QED BY <1>3, <1>4, <1>5, <1>6, <1>7

(* ServedInv after the other steps of the job. *)
LEMMA OtherServed ==
  ASSUME BaseInv, ServedInv,
         \/ WriteSheets \/ StartRebuild \/ EndRebuild \/ ScanAlbum \/ CompleteAlbum
         \/ \E f \in Files : ReadFile(f)
         \/ \E f \in Foreign : CopyAlbum(f)
         \/ UNCHANGED vars
  PROVE  ServedInv'
  <1>0. /\ pc = [u \in Threads |-> pc[u]] /\ arg = [u \in Threads |-> arg[u]]
        /\ "http" \in Threads /\ "job" \in Threads /\ "http" # "job"
    BY DEF BaseInv, IndexInv, TargetInv, Threads
  <1>1. UNCHANGED <<cddb, reported, found, toc>>
    BY DEF WriteSheets, StartRebuild, EndRebuild, ScanAlbum, CompleteAlbum, ReadFile, CopyAlbum,
           vars
  <1>2. pc' = pc \/ \E l : Goto("job", l)
    BY DEF WriteSheets, StartRebuild, EndRebuild, ScanAlbum, CompleteAlbum, ReadFile, CopyAlbum,
           vars
  <1>3. arg' = arg \/ \E d, m, k, f : Hand("job", d, m, k, f)
    BY DEF WriteSheets, StartRebuild, EndRebuild, ScanAlbum, CompleteAlbum, ReadFile, CopyAlbum,
           vars
  <1>4. pc'["http"] = pc["http"]
    BY <1>0, <1>2, GotoIs
  <1>5. arg'["http"] = arg["http"]
    BY <1>0, <1>3, HandIs
  <1>6. DriveRowsKept
    BY <1>1 DEF DriveRowsKept
  <1> QED BY <1>1, <1>4, <1>5, <1>6, ServedKept

(* ServedInv after a write of the job. *)
LEMMA JobWriteServed ==
  ASSUME BaseInv, IndexInv', ServedInv, Insert("job") \/ Update("job") \/ WriteFails("job")
  PROVE  ServedInv'
  <1>1. "job" \in Threads /\ "http" \in Threads /\ "http" # "job"
    BY DEF Threads
  <1>2. pc["job"] = "write" /\ UNCHANGED <<toc, found>> /\ \E ok : AfterStore("job", ok)
    BY <1>1, WriteIs
  <1>3. pc'["http"] = pc["http"] /\ arg'["http"] = arg["http"]
    BY <1>1, <1>2, AfterStoreIs DEF Storing
  <1>4. reported' = reported
    BY <1>2 DEF AfterStore
  <1>5. DriveRowsKept
    BY JobWriteKeeps
  <1> QED BY <1>2, <1>3, <1>4, <1>5, ServedKept

LEMMA StepServed == BaseInv /\ BaseInv' /\ ServedInv /\ [Next]_vars => ServedInv'
  <1> SUFFICES ASSUME BaseInv, BaseInv', ServedInv, [Next]_vars PROVE ServedInv'
    OBVIOUS
  <1>1. IndexInv'
    BY DEF BaseInv
  <1>2. ASSUME NEW t \in Threads, Decide(t) \/ Insert(t) \/ Update(t) \/ WriteFails(t)
        PROVE  ServedInv'
    <2>1. CASE Decide(t)
      BY <2>1, DecideServed
    <2>2. CASE t = "http" /\ (Insert(t) \/ Update(t) \/ WriteFails(t))
      BY <1>1, <2>2, HttpWriteServed
    <2>3. CASE t = "job" /\ (Insert(t) \/ Update(t) \/ WriteFails(t))
      BY <1>1, <2>3, JobWriteServed
    <2> QED BY <1>2, <2>1, <2>2, <2>3 DEF Threads
  <1>3. CASE UNCHANGED vars
    BY <1>3, OtherServed
  <1>4. CASE Next
    BY <1>2, <1>4, HttpServed, OtherServed DEF Next
  <1> QED BY <1>3, <1>4

(* Once a store by GET /disc or POST /disc has been reported done, the     *)
(* look-up by contents finds a row of that disc under the name stored      *)
(* last, whatever a rebuild or a scan stores meanwhile (api.c:702-714,     *)
(* 1081, db.c:2047).                                                       *)
THEOREM ReportedIsAlwaysServed == Spec => []ReportedIsServed
  <1>1. BaseInv /\ ServedInv => ReportedIsServed
    <2> SUFFICES ASSUME BaseInv, ServedInv, NEW c \in Discs, NEW r \in reported,
                        r.lookup = DriveDisc[c].lookup
                 PROVE  ByToc(DriveDisc[c]).id # NoRow /\ ByToc(DriveDisc[c]).row.name = r.name
      BY DEF ReportedIsServed
    <2> DEFINE d == DriveDisc[c]
               h == DriveHash(c)
               R == HashRows(cddb, h)
    <2>1. DriveLike(d, c)
      BY DriveDiscIs
    <2>2. r.lookup = h /\ ReportedRow(cddb, r)
      BY <2>1 DEF DriveLike, ServedInv, ReportedInv
    <2>3. RowsOf(h) = R
      BY RowsOfIs
    <2>4. R # {} /\ cddb[Largest(R)].name = r.name
      BY <2>2 DEF ReportedRow
    <2>5. R \subseteq 1..Len(cddb) /\ Len(cddb) \in Nat
      BY HashRowsIn DEF BaseInv, IndexInv, CacheInv
    <2> HIDE DEF d, R
    <2>6. ByToc(d).id = Largest(R) /\ ByToc(d).row = cddb[Largest(R)]
      BY <2>1, <2>3, <2>4, ByTocIsLatest DEF h
    <2>7. Largest(R) \in 1..Len(cddb)
      BY <2>4, <2>5, LargestIsMember
    <2> QED BY <2>4, <2>5, <2>6, <2>7 DEF d, NoRow
  <1> QED BY <1>1, BaseAlways, InitServed, StepServed, PTL DEF Spec

(* The hash of a disc is a hash. *)
LEMMA HashIsKnown ==
  ASSUME NEW c \in Discs
  PROVE  DriveHash(c) # NoLookup
  <1> DEFINE n == Len(c.lens)  L == DriveLength(c)  lens == c.lens
  <1>1. n \in 1..MaxTracks /\ n \in Nat \ {0}
    BY TocOf
  <1> HIDE DEF n, L, lens
  <1>2. Len(Hash(n, L, lens)) = n + 2
    BY <1>1, HashParts
  <1>3. Len(DriveHash(c)) = n + 2
    BY <1>2 DEF DriveHash, n, L, lens
  <1>4. Len(NoLookup) = 0
    BY DEF NoLookup
  <1> QED BY <1>1, <1>3, <1>4

(* The search by weight finds a disc that the table has a row of: every    *)
(* row with its hash has as many tracks and fits, so one of the three      *)
(* heaviest does.                                                          *)
LEMMA SearchFinds ==
  ASSUME BaseInv, NEW c \in Discs, NEW d, d.lookup = DriveHash(c), d.n = Len(c.lens),
         \A k \in 1..d.n : d.len[k] = 0 \/ (d.len[k] \in Int
                                            /\ Abs(d.len[k] - c.lens[k]) <= MsfOffset),
         RowsOf(d.lookup) # {}
  PROVE  SearchRow(d) # NoRow
  <1> DEFINE R == RowsOf(d.lookup)
  <1>1. d.lookup # NoLookup
    BY HashIsKnown
  <1>2. ASSUME NEW i \in R
        PROVE  i \in DOMAIN cddb /\ cddb[i].lookup = d.lookup /\ cddb[i].n = d.n
    <2>1. i \in DOMAIN cddb /\ i \in 1..Len(cddb) /\ cddb[i].lookup = d.lookup
      BY TableIsSeq DEF RowsOf, BaseInv, IndexInv, CacheInv
    <2>2. PICK b \in Discs : DriveRow(cddb[i], b)
      BY <2>1 DEF BaseInv, RowsInv, RowOk, IsDriveHash
    <2>3. DriveHash(b) = DriveHash(c) /\ cddb[i].n = Len(b.lens)
      BY <2>1, <2>2 DEF DriveRow
    <2>4. Len(b.lens) = Len(c.lens)
      BY <2>3, SameDrive
    <2> QED BY <2>1, <2>3, <2>4
  <1>3. Candidates(d) = R
    <2>1. R \subseteq DOMAIN cddb
      BY DEF RowsOf
    <2>2. \A i \in DOMAIN cddb : i \in R <=> cddb[i].lookup = d.lookup
      BY DEF RowsOf
    <2> QED BY <1>1, <1>2, <2>1, <2>2 DEF Candidates
  <1>4. Best(d) # {} /\ Best(d) \subseteq R
    <2>1. Candidates(d) # {} => Best(d) # {}
      BY SearchIs DEF BaseInv
    <2> QED BY <1>3, <2>1 DEF Best
  <1>5. ASSUME NEW i \in R PROVE Fits(cddb[i], d, SearchDeviation)
    <2> DEFINE slack == MsfOffset  tol == SearchDeviation
    <2>1. slack \in Nat /\ tol \in Nat /\ slack + 75 <= tol
      BY DEF MsfOffset, SearchDeviation, Frames
    <2>2. \A k \in 1..d.n : d.len[k] = 0 \/ (d.len[k] \in Int /\ Abs(d.len[k] - c.lens[k]) <= slack)
      OBVIOUS
    <2> HIDE DEF slack, tol, R
    <2> QED BY <2>1, <2>2, RowsFit DEF tol, R
  <1>6. Fitting(d) # {}
    BY <1>4, <1>5 DEF Fitting
  <1>7. SearchRow(d) \in 1..Len(cddb)
    BY <1>6, SearchIs DEF BaseInv
  <1> QED BY <1>7 DEF NoRow

(* The job leaves the search of an album only with its answer. *)
LEMMA CompletingStep ==
  ASSUME BaseInv, Next, pc["job"] = "complete", pc'["job"] = "idle"
  PROVE  CompleteAlbum
  <1>0. /\ pc = [u \in Threads |-> pc[u]] /\ "http" \in Threads /\ "job" \in Threads
        /\ "http" # "job"
    BY DEF BaseInv, Threads
  <1>1. ~\E l : Goto("http", l)
    BY <1>0, GotoIs
  <1>2. pc' # pc
    OBVIOUS
  <1>3. /\ ~(ChangeDisc \/ GetDisc \/ Overrun \/ AnswerPost \/ WriteSheets)
        /\ ~\E e \in Entries : MusicBrainz(e)
    BY <1>1, <1>2 DEF ChangeDisc, GetDisc, Overrun, AnswerPost, MusicBrainz, WriteSheets
  <1>4. /\ ~\E e \in Entries, answer \in {"none", "query", "entry"} : QueryService(answer, e)
        /\ ~\E name \in Names : PostDisc(name)
        /\ ~\E f \in Foreign : CopyAlbum(f)
    BY <1>1, <1>2 DEF QueryService, PostDisc, CopyAlbum
  <1>5. ~(StartRebuild \/ EndRebuild \/ ScanAlbum) /\ ~\E f \in Files : ReadFile(f)
    BY DEF StartRebuild, EndRebuild, ScanAlbum, ReadFile
  <1>6. ASSUME NEW t \in Threads
        PROVE  ~(Decide(t) \/ Insert(t) \/ Update(t) \/ WriteFails(t))
    <2>1. CASE t = "job"
      BY <2>1 DEF Decide, Insert, Update, WriteFails
    <2>2. CASE t = "http"
      BY <1>1, <2>2 DEF Decide, Insert, Update, WriteFails, AfterStore
    <2> QED BY <2>1, <2>2 DEF Threads
  <1> QED BY <1>3, <1>4, <1>5, <1>6 DEF Next

AlbumHit(a) ==
  (/\ pc["job"] = "complete" /\ pc'["job"] = "idle" /\ a.disc # NoDisc
   /\ \E r \in reported : r.lookup = a.disc.lookup)
  => hit' # NoRow

(* What a scan finds. *)
LEMMA ScanHits ==
  ASSUME BaseInv, ServedInv, [Next]_vars, NEW a \in album
  PROVE  AlbumHit(a)
  <1> SUFFICES ASSUME pc["job"] = "complete", pc'["job"] = "idle", a.disc # NoDisc,
                      NEW r \in reported, r.lookup = a.disc.lookup
               PROVE  hit' # NoRow
    BY DEF AlbumHit
  <1>1. CompleteAlbum
    <2>1. pc' # pc
      OBVIOUS
    <2>2. Next
      BY <2>1 DEF vars
    <2> QED BY <2>2, CompletingStep
  <1> DEFINE x == CHOOSE y \in album : TRUE
             d == C!ParseCue(x.cue)
  <1>2. x = a /\ AlbumOk(a)
    BY DEF BaseInv, AlbumInv
  <1>3. hit' = IF C!CueOk(d) THEN SearchRow(d) ELSE NoRow
    BY <1>1 DEF CompleteAlbum
  <1>4. PICK c \in Discs : DriveLike(a.disc, c) /\ a.cue = C!WriteCue(a.disc)
    BY <1>2 DEF AlbumOk
  <1> DEFINE y == a.disc
  <1>5. d = C!ParseCue(C!WriteCue(y))
    BY <1>2, <1>4
  <1> HIDE DEF x, d, y
  <1>6. /\ C!CueOk(d) /\ d.lookup = y.lookup /\ d.n = y.n
        /\ \A i \in 2..d.n : d.len[i] = y.len[i]
        /\ d.len[1] \in {0, y.len[1] - MsfOffset}
    <2>1. DriveLike(y, c)
      BY <1>4 DEF y
    <2> QED BY <1>5, <2>1, SheetRead
  <1>7. /\ y.lookup = DriveHash(c) /\ y.n = Len(c.lens) /\ y.n \in Nat \ {0}
        /\ \A k \in 1..y.n : y.len[k] = c.lens[k] /\ c.lens[k] \in Nat
    BY <1>4, TocOf DEF DriveLike, y
  <1>8. ASSUME NEW k \in 1..d.n
        PROVE  d.len[k] = 0 \/ (d.len[k] \in Int /\ Abs(d.len[k] - c.lens[k]) <= MsfOffset)
    <2> DEFINE u == d.len[k]
               v == c.lens[k]
    <2>1. v \in Nat /\ y.len[k] = v
      BY <1>6, <1>7
    <2>2. CASE k = 1
      <3>1. u = 0 \/ u = v - 150
        BY <1>6, <2>1, <2>2 DEF MsfOffset
      <3> HIDE DEF u, v
      <3>2. u = 0 \/ (u \in Int /\ Abs(u - v) <= 150)
        BY <2>1, <3>1 DEF Abs
      <3> QED BY <3>2 DEF MsfOffset, u, v
    <2>3. CASE k # 1
      <3>1. k \in 2..d.n
        BY <1>6, <1>7, <2>3
      <3>2. u = v
        BY <1>6, <2>1, <3>1
      <3> HIDE DEF u, v
      <3>3. u \in Int /\ Abs(u - v) <= 150
        BY <2>1, <3>2 DEF Abs
      <3> QED BY <3>3 DEF MsfOffset, u, v
    <2> QED BY <2>2, <2>3
  <1>9. RowsOf(d.lookup) # {}
    <2>1. ReportedRow(cddb, r) /\ r.lookup = d.lookup
      BY <1>6 DEF ServedInv, ReportedInv, y
    <2>2. RowsOf(d.lookup) = HashRows(cddb, d.lookup)
      BY RowsOfIs
    <2> QED BY <2>1, <2>2 DEF ReportedRow
  <1>10. SearchRow(d) # NoRow
    <2>1. d.lookup = DriveHash(c) /\ d.n = Len(c.lens)
      BY <1>6, <1>7
    <2> QED BY <1>8, <1>9, <2>1, SearchFinds
  <1> QED BY <1>3, <1>6, <1>10

(* An album the program has extracted and stored is found in the cache by  *)
(* every later scan, whatever other rows there are: its sheet brings back  *)
(* hash and lengths, and every row with the hash fits (scan.c:159,         *)
(* db.c:2241).                                                             *)
THEOREM AlbumIsAlwaysFound == Spec => AlbumIsFound
  <1>1. ASSUME BaseInv, ServedInv, [Next]_vars
        PROVE  [\A a \in album : AlbumHit(a)]_vars
    BY <1>1, ScanHits
  <1>2. AlbumIsFound <=> [][\A a \in album : AlbumHit(a)]_vars
    BY DEF AlbumIsFound, AlbumHit
  <1> QED BY <1>1, <1>2, BaseAlways, InitServed, StepServed, PTL DEF Spec

-----------------------------------------------------------------------------
(* What a rebuild has stored.  Of the rows behind those it has found, each *)
(* has the hash of a disc, and is the HTTP thread's, or the tracks of a    *)
(* file; a file counted as stored has a row with its name; and the row the *)
(* job is about to write is one of these and has the name already.         *)
Rebuilding == \/ pc["job"] = "rebuild"
              \/ Storing(pc["job"]) /\ arg["job"].method = "temp"

ImportedRow(r) == IsDriveHash(r.lookup) \/ \E g \in Files : FileRow(r, g)
ImportedInv == \A i \in base + 1 .. Len(cddb) : ImportedRow(cddb[i])

HasRow(f) == \E i \in base + 1 .. Len(cddb) : cddb[i].lookup = FileHash(f) /\ cddb[i].name = f.name

SameName(i, a) == i \in base + 1 .. Len(cddb) /\ cddb[i].name = a.d.name
AimedInv == pc["job"] = "write" /\ arg["job"].target # NoRow
            => SameName(arg["job"].target, arg["job"])

KeptInv == /\ ~Rebuilding => kept = {}
           /\ Rebuilding => ImportedInv /\ (\A f \in kept : HasRow(f)) /\ AimedInv

(* A row stays what it is for the rebuild: the HTTP thread may give a row  *)
(* another header only when it has the hash of a disc.                     *)
RowStays(i) ==
  /\ cddb'[i].lookup = cddb[i].lookup
  /\ ~IsDriveHash(cddb[i].lookup)
     => /\ cddb'[i].name = cddb[i].name /\ cddb'[i].n = cddb[i].n
        /\ cddb'[i].len = cddb[i].len /\ cddb'[i].title = cddb[i].title

(* As long as each row stays, so does what the rebuild knows of them. *)
LEMMA RowsStay ==
  ASSUME BaseInv, ImportedInv, base' = base, Len(cddb') \in Nat, Len(cddb') >= Len(cddb),
         \A i \in 1..Len(cddb) : RowStays(i)
  PROVE  /\ \A i \in base + 1 .. Len(cddb) : ImportedRow(cddb'[i])
         /\ \A f \in Files : HasRow(f) => HasRow(f)'
         /\ \A i, a : /\ SameName(i, a)
                      /\ cddb[i].lookup = a.d.lookup /\ ~IsDriveHash(a.d.lookup)
                      => i \in base + 1 .. Len(cddb') /\ cddb'[i].name = a.d.name
  <1> DEFINE n == Len(cddb)
             m == Len(cddb')
  <1>1. base \in 0..n /\ n \in Nat /\ m \in Nat /\ m >= n
    BY DEF BaseInv, IndexInv, CacheInv, IsTable
  <1>2. \A i \in base + 1 .. n : i \in 1..n /\ i \in base + 1 .. m
    <2> HIDE DEF n, m
    <2> QED BY <1>1
  <1>3. ASSUME NEW i \in base + 1 .. n
        PROVE  ImportedRow(cddb'[i])
    <2>1. RowStays(i) /\ ImportedRow(cddb[i])
      BY <1>2 DEF ImportedInv
    <2>2. CASE IsDriveHash(cddb[i].lookup)
      BY <2>1, <2>2 DEF RowStays, ImportedRow
    <2>3. CASE ~IsDriveHash(cddb[i].lookup)
      <3>1. PICK g \in Files : FileRow(cddb[i], g)
        BY <2>1, <2>3 DEF ImportedRow
      <3>2. FileRow(cddb'[i], g)
        BY <2>1, <2>3, <3>1 DEF RowStays, FileRow
      <3> QED BY <3>2 DEF ImportedRow
    <2> QED BY <2>2, <2>3
  <1>4. ASSUME NEW f \in Files, HasRow(f)
        PROVE  HasRow(f)'
    <2>1. PICK i \in base + 1 .. n : cddb[i].lookup = FileHash(f) /\ cddb[i].name = f.name
      BY <1>4 DEF HasRow
    <2>2. RowStays(i) /\ i \in base + 1 .. m
      BY <1>2
    <2>3. ~IsDriveHash(FileHash(f))
      BY FileNotDrive DEF IsDriveHash
    <2>4. cddb'[i].lookup = FileHash(f) /\ cddb'[i].name = f.name
      BY <2>1, <2>2, <2>3 DEF RowStays
    <2> QED BY <2>2, <2>4 DEF HasRow
  <1>5. ASSUME NEW i, NEW a, SameName(i, a),
               cddb[i].lookup = a.d.lookup, ~IsDriveHash(a.d.lookup)
        PROVE  i \in base + 1 .. m /\ cddb'[i].name = a.d.name
    <2>1. i \in base + 1 .. n /\ cddb[i].name = a.d.name
      BY <1>5 DEF SameName
    <2>2. RowStays(i) /\ i \in base + 1 .. m
      BY <1>2, <2>1
    <2>3. cddb'[i].name = a.d.name
      BY <1>5, <2>1, <2>2 DEF RowStays
    <2> QED BY <2>2, <2>3
  <1> QED BY <1>3, <1>4, <1>5

(* A step that leaves the table, or adds a row with the hash of a disc, or *)
(* writes the header of such a row again, for the rebuild.                 *)
LEMMA KeptStays ==
  ASSUME BaseInv, KeptInv, UNCHANGED <<base, kept>>, Len(cddb') \in Nat,
         Len(cddb') >= Len(cddb), \A i \in 1..Len(cddb) : RowStays(i),
         \A i \in base + 1 .. Len(cddb') : i \in 1..Len(cddb) \/ IsDriveHash(cddb'[i].lookup),
         kept \subseteq Files, pc'["job"] = pc["job"], arg'["job"] = arg["job"]
  PROVE  KeptInv'
  <1> DEFINE a == arg["job"]
             k == a.target
  <1>1. /\ Rebuilding' <=> Rebuilding
        /\ AimedInv' <=> (pc["job"] = "write" /\ k # NoRow
                          => k \in base + 1 .. Len(cddb') /\ cddb'[k].name = a.d.name)
    BY DEF Rebuilding, AimedInv, SameName
  <1>2. ASSUME Rebuilding
        PROVE  ImportedInv' /\ (\A f \in kept : HasRow(f)') /\ AimedInv'
    <2>1. ImportedInv /\ (\A f \in kept : HasRow(f)) /\ AimedInv
      BY <1>2 DEF KeptInv
    <2>2. /\ \A i \in base + 1 .. Len(cddb) : ImportedRow(cddb'[i])
          /\ \A f \in Files : HasRow(f) => HasRow(f)'
          /\ SameName(k, a) /\ cddb[k].lookup = a.d.lookup /\ ~IsDriveHash(a.d.lookup)
             => k \in base + 1 .. Len(cddb') /\ cddb'[k].name = a.d.name
      <3> HIDE DEF a, k
      <3> QED BY <2>1, RowsStay
    <2>3. ImportedInv'
      <3>1. ASSUME NEW i \in base + 1 .. Len(cddb')
            PROVE  ImportedRow(cddb'[i])
        <4>1. CASE i \in 1..Len(cddb)
          <5>1. base \in Nat /\ Len(cddb) \in Nat
            BY DEF BaseInv, IndexInv, CacheInv, IsTable
          <5>2. i \in base + 1 .. Len(cddb)
            BY <4>1, <5>1
          <5> QED BY <2>2, <5>2
        <4>2. CASE IsDriveHash(cddb'[i].lookup)
          BY <4>2 DEF ImportedRow
        <4> QED BY <4>1, <4>2
      <3> QED BY <3>1 DEF ImportedInv
    <2>4. ASSUME pc["job"] = "write", k # NoRow
          PROVE  k \in base + 1 .. Len(cddb') /\ cddb'[k].name = a.d.name
      <3>1. "job" \in Threads /\ Storing(pc["job"])
        BY <2>4 DEF Threads, Storing
      <3>2. SameName(k, a)
        BY <2>1, <2>4 DEF AimedInv
      <3>3. cddb[k].lookup = a.d.lookup
        BY <2>4, <3>1 DEF BaseInv, TargetRow
      <3>4. ~IsDriveHash(a.d.lookup)
        BY <3>1, InHand
      <3> QED BY <2>2, <3>2, <3>3, <3>4
    <2> QED BY <1>1, <2>1, <2>2, <2>3, <2>4
  <1> QED BY <1>1, <1>2 DEF KeptInv

(* A step that leaves the table alone. *)
LEMMA TableStays ==
  ASSUME BaseInv, cddb' = cddb
  PROVE  /\ \A i \in 1..Len(cddb) : RowStays(i)
         /\ Len(cddb') \in Nat /\ Len(cddb') >= Len(cddb)
         /\ \A i \in base + 1 .. Len(cddb') : i \in 1..Len(cddb)
  <1>1. base \in Nat /\ Len(cddb) \in Nat
    BY DEF BaseInv, IndexInv, CacheInv, IsTable
  <1> QED BY <1>1 DEF RowStays

(* KeptInv after the other steps of the HTTP thread. *)
LEMMA HttpKept ==
  ASSUME BaseInv, TallyInv, KeptInv,
         \/ ChangeDisc \/ GetDisc \/ Overrun \/ AnswerPost \/ WriteSheets
         \/ \E e \in Entries : MusicBrainz(e)
         \/ \E e \in Entries, answer \in {"none", "query", "entry"} : QueryService(answer, e)
         \/ \E name \in Names : PostDisc(name)
         \/ \E f \in Foreign : CopyAlbum(f)
         \/ UNCHANGED vars
  PROVE  KeptInv'
  <1>0. /\ pc = [u \in Threads |-> pc[u]] /\ arg = [u \in Threads |-> arg[u]]
        /\ "http" \in Threads /\ "job" \in Threads /\ "http" # "job"
    BY DEF BaseInv, IndexInv, TargetInv, Threads
  <1>1. UNCHANGED <<cddb, base, kept>>
    BY DEF ChangeDisc, GetDisc, Overrun, AnswerPost, MusicBrainz, WriteSheets, QueryService, PostDisc, CopyAlbum, vars
  <1>2. pc' = pc \/ \E l : Goto("http", l)
    BY DEF ChangeDisc, GetDisc, Overrun, AnswerPost, MusicBrainz, WriteSheets, QueryService, PostDisc, CopyAlbum, vars
  <1>3. arg' = arg \/ \E d, m, k, f : Hand("http", d, m, k, f)
    BY DEF ChangeDisc, GetDisc, Overrun, AnswerPost, MusicBrainz, WriteSheets, QueryService, PostDisc, CopyAlbum, vars
  <1>4. pc'["job"] = pc["job"] /\ arg'["job"] = arg["job"]
    <2>1. pc'["job"] = pc["job"]
      BY <1>0, <1>2, GotoIs
    <2>2. arg'["job"] = arg["job"]
      BY <1>0, <1>3, HandIs
    <2> QED BY <2>1, <2>2
  <1> QED BY <1>1, <1>4, TableStays, KeptStays DEF TallyInv

(* A rebuild starts with no row of its own; what it has stored is of no    *)
(* interest when it has ended.                                             *)
LEMMA JobKept ==
  ASSUME BaseInv, KeptInv,
         \/ StartRebuild \/ EndRebuild \/ ScanAlbum \/ CompleteAlbum
         \/ \E f \in Files : ReadFile(f)
  PROVE  KeptInv'
  <1>0. /\ pc = [u \in Threads |-> pc[u]] /\ arg = [u \in Threads |-> arg[u]]
        /\ "job" \in Threads /\ base \in Nat /\ Len(cddb) \in Nat
    BY DEF BaseInv, IndexInv, TargetInv, CacheInv, IsTable, Threads
  <1> DEFINE s == "store"  r == "rebuild"  id == "idle"  c == "complete"
             tm == "temp"  l == "lookup"
  <1>1. CASE StartRebuild
    <2>1. Goto("job", r) /\ kept' = {} /\ base' = Len(cddb) /\ cddb' = cddb
      BY <1>1 DEF StartRebuild
    <2> HIDE DEF r
    <2>2. pc'["job"] = r
      BY <1>0, <2>1, GotoIs
    <2>3. \A i : i \notin base' + 1 .. Len(cddb')
      BY <1>0, <2>1
    <2> QED BY <2>1, <2>2, <2>3 DEF KeptInv, ImportedInv, AimedInv, r
  <1>2. CASE EndRebuild \/ CompleteAlbum
    <2>1. Goto("job", id) /\ (kept' = {} \/ (kept' = kept /\ pc["job"] = "complete"))
      BY <1>2 DEF EndRebuild, CompleteAlbum
    <2> HIDE DEF id
    <2>2. pc'["job"] = id
      BY <1>0, <2>1, GotoIs
    <2>3. ~Rebuilding' /\ (pc["job"] = "complete" => ~Rebuilding)
      BY <2>2 DEF Rebuilding, Storing, id
    <2> QED BY <2>1, <2>3 DEF KeptInv
  <1>3. CASE ScanAlbum
    <2> DEFINE a == CHOOSE x \in album : TRUE
               d == X!ParseEntry(AllocDisc, a.entry)
               e == SetHash(d)
    <2>1. /\ kept' = kept /\ pc["job"] = "idle"
          /\ \/ Goto("job", s) /\ Hand("job", e, l, NoRow, NoDisc)
             \/ Goto("job", c)
      BY <1>3 DEF ScanAlbum
    <2> HIDE DEF a, d, e, s, c, l
    <2>2. ~Rebuilding'
      <3>1. CASE Goto("job", s) /\ Hand("job", e, l, NoRow, NoDisc)
        <4>1. arg'["job"].method = l /\ pc'["job"] = s
          BY <1>0, <3>1, GotoIs, HandIs
        <4> QED BY <4>1 DEF Rebuilding, l, s
      <3>2. CASE Goto("job", c)
        <4>1. pc'["job"] = c
          BY <1>0, <3>2, GotoIs
        <4> QED BY <4>1 DEF Rebuilding, Storing, c
      <3> QED BY <2>1, <3>1, <3>2
    <2>3. ~Rebuilding
      BY <2>1 DEF Rebuilding, Storing
    <2> QED BY <2>1, <2>2, <2>3 DEF KeptInv
  <1>4. ASSUME NEW f \in Files, ReadFile(f)
        PROVE  KeptInv'
    <2> DEFINE d == FileDisc[f]
    <2>1. /\ UNCHANGED <<cddb, base, kept>> /\ pc["job"] = "rebuild"
          /\ \/ Goto("job", s) /\ Hand("job", d, tm, NoRow, f)
             \/ UNCHANGED <<pc, arg>>
      BY <1>4 DEF ReadFile
    <2>2. Rebuilding /\ ImportedInv /\ (\A g \in kept : HasRow(g)) /\ pc["job"] # "write"
      BY <2>1 DEF Rebuilding, KeptInv
    <2> HIDE DEF d, s, tm
    <2>3. Rebuilding' /\ pc'["job"] # "write"
      <3>1. CASE Goto("job", s) /\ Hand("job", d, tm, NoRow, f)
        <4>1. arg'["job"].method = tm /\ pc'["job"] = s
          BY <1>0, <3>1, GotoIs, HandIs
        <4> QED BY <4>1 DEF Rebuilding, Storing, tm, s
      <3>2. CASE UNCHANGED <<pc, arg>>
        BY <2>2, <3>2 DEF Rebuilding
      <3> QED BY <2>1, <3>1, <3>2
    <2>4. ImportedInv' /\ (\A g \in kept : HasRow(g)')
      BY <2>1, <2>2 DEF ImportedInv, HasRow
    <2> QED BY <2>1, <2>3, <2>4 DEF KeptInv, AimedInv
  <1> QED BY <1>1, <1>2, <1>3, <1>4

(* The rows after a write of the HTTP thread. *)
LEMMA HttpWriteKept ==
  ASSUME BaseInv, TallyInv, KeptInv, Insert("http") \/ Update("http") \/ WriteFails("http")
  PROVE  KeptInv'
  <1> DEFINE d == arg["http"].d
             k == arg["http"].target
             n == Len(cddb)
             m == Len(cddb')
  <1>0. /\ "http" \in Threads /\ "job" \in Threads /\ "http" # "job"
        /\ IsTable(cddb) /\ n \in Nat /\ base \in Nat
    BY DEF Threads, BaseInv, IndexInv, CacheInv, IsTable
  <1>1. pc["http"] = "write" /\ Storing(pc["http"]) /\ base' = base /\ \E ok : AfterStore("http", ok)
    BY <1>0, WriteIs DEF Storing
  <1>2. IsDriveHash(d.lookup) /\ arg["http"].method # "temp"
    BY <1>0, <1>1, InHand
  <1>3. pc'["job"] = pc["job"] /\ arg'["job"] = arg["job"]
    BY <1>0, <1>1, AfterStoreIs
  <1>4. kept' = kept
    BY <1>1, <1>2 DEF AfterStore
  <1>5. CASE Inserted(d)
    <2> DEFINE secs == d.length \div Frames
               r == Row(d, secs)
    <2>1. r.lookup = d.lookup
      BY RowFieldsAre
    <2>2. m = n + 1 /\ cddb'[n + 1] = r /\ \A i \in 1..n : cddb'[i] = cddb[i]
      BY <1>5 DEF Inserted
    <2> HIDE DEF r, d, n, m
    <2>3. \A i \in 1..n : RowStays(i)
      BY <2>2 DEF RowStays
    <2>4. m \in Nat /\ m >= n /\ \A i \in base + 1 .. m : i \in 1..n \/ i = n + 1
      BY <1>0, <2>2
    <2>5. \A i \in base + 1 .. m : i \in 1..n \/ IsDriveHash(cddb'[i].lookup)
      BY <1>2, <2>1, <2>2, <2>4
    <2> QED BY <1>1, <1>3, <1>4, <2>3, <2>4, <2>5, KeptStays DEF TallyInv, n, m
  <1>6. CASE k \in 1..Len(cddb) /\ UpdatedOnly(k, d)
    <2>1. cddb[k].lookup = d.lookup
      <3>1. k # NoRow
        BY <1>0, <1>6 DEF NoRow
      <3> QED BY <1>0, <1>1, <3>1 DEF BaseInv, TargetRow
    <2>2. cddb'[k].lookup = cddb[k].lookup
      <3>1. DOMAIN cddb[k] = RowFields
        BY <1>0, <1>6 DEF IsTable
      <3> DEFINE r == cddb[k]
                 g == Header(r, d)
      <3>2. cddb'[k] = g
        BY <1>6 DEF UpdatedOnly
      <3>3. g.lookup = r.lookup
        <4> HIDE DEF d, r
        <4> QED BY <3>1, HeaderFields DEF r
      <3> HIDE DEF g
      <3> QED BY <3>2, <3>3
    <2>3. m = n /\ \A i \in 1..n : i # k => cddb'[i] = cddb[i]
      BY <1>6 DEF UpdatedOnly
    <2> HIDE DEF d, k, n, m
    <2>4. \A i \in 1..n : RowStays(i)
      BY <1>2, <2>1, <2>2, <2>3 DEF RowStays
    <2>5. m \in Nat /\ m >= n /\ \A i \in base + 1 .. m : i \in 1..n
      BY <1>0, <2>3
    <2> QED BY <1>1, <1>3, <1>4, <2>4, <2>5, KeptStays DEF TallyInv, n, m
  <1>7. CASE cddb' = cddb
    BY <1>1, <1>3, <1>4, <1>7, TableStays, KeptStays DEF TallyInv
  <1> QED BY <1>0, <1>5, <1>6, <1>7, WriteIs

(* The disc the rebuild has in hand. *)
LEMMA ImportInHand ==
  ASSUME BaseInv, Storing(pc["job"]), arg["job"].method = "temp"
  PROVE  /\ arg["job"].file \in Files /\ FileLike(arg["job"].d, arg["job"].file)
         /\ arg["job"].d.lookup = FileHash(arg["job"].file)
         /\ arg["job"].d.name = arg["job"].file.name
         /\ ~IsDriveHash(arg["job"].d.lookup)
  <1>1. "job" \in Threads
    BY DEF Threads
  <1>2. /\ Importing(arg["job"]) \/ Adopting(arg["job"])
        /\ ~IsDriveHash(arg["job"].d.lookup)
    BY <1>1, InHand
  <1>3. Importing(arg["job"])
    BY <1>2 DEF Adopting
  <1> QED BY <1>2, <1>3 DEF Importing, FileLike

(* A store of the rebuild that is done: its file has a row. *)
LEMMA StoredKept ==
  ASSUME BaseInv, pc'["job"] = "rebuild", base' = base,
         \A i \in base + 1 .. Len(cddb') : ImportedRow(cddb'[i]),
         \A f \in kept : HasRow(f)',
         NEW f, kept' = kept \/ (kept' = kept \cup {f} /\ HasRow(f)')
  PROVE  KeptInv'
  <1>1. Rebuilding' /\ ImportedInv' /\ AimedInv'
    BY DEF Rebuilding, ImportedInv, AimedInv
  <1>2. \A g \in kept' : HasRow(g)'
    OBVIOUS
  <1> QED BY <1>1, <1>2 DEF KeptInv

(* KeptInv after a write of the job. *)
LEMMA JobWriteKept ==
  ASSUME BaseInv, TallyInv, KeptInv, Insert("job") \/ Update("job") \/ WriteFails("job")
  PROVE  KeptInv'
  <1>f. PICK f : f = arg["job"].file
    OBVIOUS
  <1> DEFINE d == arg["job"].d
             k == arg["job"].target
             n == Len(cddb)
             m == Len(cddb')
  <1>0. /\ "job" \in Threads /\ IsTable(cddb) /\ n \in Nat /\ base \in 0..n
    BY DEF Threads, BaseInv, IndexInv, CacheInv, IsTable
  <1>1. /\ pc["job"] = "write" /\ Storing(pc["job"]) /\ base' = base
        /\ \E ok : AfterStore("job", ok)
    BY <1>0, WriteIs DEF Storing
  <1>2. pc'["job"] = IF arg["job"].method = "temp" THEN "rebuild" ELSE "complete"
    BY <1>0, <1>1, AfterStoreIs
  <1>3. CASE arg["job"].method # "temp"
    <2>1. ~Rebuilding /\ ~Rebuilding'
      BY <1>1, <1>2, <1>3 DEF Rebuilding, Storing
    <2>2. kept' = kept
      BY <1>1, <1>3 DEF AfterStore
    <2> QED BY <2>1, <2>2 DEF KeptInv
  <1>4. CASE arg["job"].method = "temp"
    <2>1. ImportedInv /\ (\A g \in kept : HasRow(g)) /\ AimedInv
      BY <1>1, <1>4 DEF KeptInv, Rebuilding
    <2>2. /\ f \in Files /\ FileLike(d, f) /\ d.lookup = FileHash(f) /\ d.name = f.name
          /\ ~IsDriveHash(d.lookup)
      BY <1>f, <1>1, <1>4, ImportInHand
    <2>3. kept \subseteq Files
      BY DEF TallyInv
    <2>4. kept' = kept \/ kept' = kept \cup {f}
      BY <1>f, <1>1, <1>4 DEF AfterStore
    <2>5. CASE Inserted(d)
      <3> DEFINE secs == d.length \div Frames
                 r == Row(d, secs)
      <3>1. r.lookup = d.lookup /\ r.name = d.name
        BY RowFieldsAre
      <3>2. FileRow(r, f)
        <4> HIDE DEF secs, d
        <4> QED BY <2>2, FileRowOf
      <3>3. m = n + 1 /\ cddb'[n + 1] = r /\ \A i \in 1..n : cddb'[i] = cddb[i]
        BY <2>5 DEF Inserted
      <3> HIDE DEF r, d, n, m
      <3>4. \A i \in 1..n : RowStays(i)
        BY <3>3 DEF RowStays
      <3>5. /\ m \in Nat /\ m >= n /\ n + 1 \in base + 1 .. m
            /\ \A i \in base + 1 .. m : i \in base + 1 .. n \/ i = n + 1
        BY <1>0, <3>3
      <3>6. /\ \A i \in base + 1 .. n : ImportedRow(cddb'[i])
            /\ \A g \in Files : HasRow(g) => HasRow(g)'
        BY <1>1, <2>1, <3>4, <3>5, RowsStay DEF n, m
      <3>7. \A i \in base + 1 .. m : ImportedRow(cddb'[i])
        BY <2>2, <3>2, <3>3, <3>5, <3>6 DEF ImportedRow
      <3>8. HasRow(f)'
        BY <1>1, <2>2, <3>1, <3>3, <3>5 DEF HasRow, m
      <3> QED BY <1>1, <1>2, <1>4, <2>1, <2>3, <2>4, <3>6, <3>7, <3>8, StoredKept DEF m
    <2>6. CASE k \in 1..Len(cddb) /\ UpdatedOnly(k, d)
      <3>1. cddb[k].lookup = d.lookup /\ k \in base + 1 .. n /\ cddb[k].name = d.name
        <4>1. k # NoRow
          BY <1>0, <2>6 DEF NoRow
        <4> QED BY <1>0, <1>1, <2>1, <4>1 DEF BaseInv, TargetRow, AimedInv, SameName
      <3>2. Storable(d)
        BY <1>0, <1>1, InHand
      <3>3. RowStays(k)
        <4>1. DOMAIN cddb[k] = RowFields /\ RowOk(cddb[k])
          BY <1>0, <2>6 DEF IsTable, BaseInv, RowsInv
        <4> DEFINE r == cddb[k]
                   g == Header(r, d)
        <4>2. cddb'[k] = g
          BY <2>6 DEF UpdatedOnly
        <4>3. /\ g.lookup = r.lookup /\ g.len = r.len /\ g.title = r.title /\ g.name = d.name
              /\ g.n = r.n
          <5>1. r.lookup = d.lookup
            BY <3>1
          <5> HIDE DEF d, r
          <5> QED BY <3>2, <4>1, <5>1, HeaderFields, HeaderOk DEF r
        <4> HIDE DEF g
        <4> QED BY <3>1, <4>2, <4>3 DEF RowStays
      <3>4. m = n /\ \A i \in 1..n : i # k => cddb'[i] = cddb[i]
        BY <2>6 DEF UpdatedOnly
      <3> HIDE DEF k, d, n, m
      <3>5. \A i \in 1..n : RowStays(i)
        BY <3>3, <3>4 DEF RowStays
      <3>6. m \in Nat /\ m >= n
        BY <1>0, <3>4
      <3>7. /\ \A i \in base + 1 .. m : ImportedRow(cddb'[i])
            /\ \A g \in Files : HasRow(g) => HasRow(g)'
        BY <1>1, <2>1, <3>4, <3>5, <3>6, RowsStay DEF n, m
      <3>8. HasRow(f)
        BY <2>2, <3>1 DEF HasRow, n
      <3> QED BY <1>1, <1>2, <1>4, <2>1, <2>2, <2>3, <2>4, <3>7, <3>8, StoredKept DEF m
    <2>7. CASE cddb' = cddb /\ AfterStore("job", FALSE)
      <3>1. kept' = kept
        BY <2>7 DEF AfterStore
      <3>2. /\ \A i \in base + 1 .. m : ImportedRow(cddb'[i])
            /\ \A g \in kept : HasRow(g)'
        BY <1>1, <2>1, <2>7 DEF ImportedInv, HasRow
      <3> QED BY <1>1, <1>2, <1>4, <3>1, <3>2, StoredKept DEF m
    <2> QED BY <1>0, <2>5, <2>6, <2>7, WriteIs
  <1> QED BY <1>3, <1>4

(* KeptInv after the decision of a store: a duplicate is counted too. *)
LEMMA DecideKept ==
  ASSUME BaseInv, TallyInv, KeptInv, NEW t \in Threads, Decide(t)
  PROVE  KeptInv'
  <1> DEFINE a == arg["job"]
             i == Target(a)
  <1>0. "job" \in Threads /\ "http" \in Threads /\ "http" # "job"
    BY DEF Threads
  <1>1. Storing(pc[t]) /\ UNCHANGED <<cddb, base>>
    BY DecideIs
  <1>2. CASE t = "http"
    <2>1. arg["http"].method # "temp"
      BY <1>1, <1>2, InHand
    <2>2. /\ pc'["job"] = pc["job"] /\ arg'["job"] = arg["job"] /\ kept' = kept
      <3>1. CASE AfterStore(t, TRUE)
        <4> DEFINE yes == TRUE
        <4>1. AfterStore(t, yes)
          BY <3>1
        <4> HIDE DEF yes
        <4>2. pc'["job"] = pc["job"] /\ arg'["job"] = arg["job"]
          BY <1>0, <1>1, <1>2, <4>1, AfterStoreIs
        <4> QED BY <1>2, <2>1, <3>1, <4>2 DEF AfterStore
      <3>2. CASE Decided(t)
        BY <1>0, <1>2, <3>2 DEF Decided
      <3> QED BY <3>1, <3>2, DecideIs
    <2> QED BY <1>1, <2>2, TableStays, KeptStays DEF TallyInv
  <1>3. CASE t = "job" /\ a.method # "temp"
    <2>1. kept' = kept /\ ~Rebuilding'
      <3>1. CASE AfterStore(t, TRUE)
        <4> DEFINE yes == TRUE
        <4>1. AfterStore(t, yes)
          BY <3>1
        <4> HIDE DEF yes
        <4>2. pc'["job"] = "complete"
          BY <1>1, <1>3, <4>1, AfterStoreIs
        <4> QED BY <1>3, <4>1, <4>2 DEF AfterStore, Rebuilding, Storing
      <3>2. CASE Decided(t)
        BY <1>3, <3>2 DEF Decided, Rebuilding
      <3> QED BY <3>1, <3>2, DecideIs
    <2>2. ~Rebuilding
      BY <1>1, <1>3 DEF Rebuilding, Storing
    <2> QED BY <2>1, <2>2 DEF KeptInv
  <1>4. CASE t = "job" /\ a.method = "temp"
    <2>1. ImportedInv /\ (\A g \in kept : HasRow(g))
      BY <1>1, <1>4 DEF KeptInv, Rebuilding
    <2>2. a.file \in Files /\ a.d.lookup = FileHash(a.file) /\ a.d.name = a.file.name
      BY <1>1, <1>4, ImportInHand
    <2>3. i # NoRow => i \in base + 1 .. Len(cddb) /\ cddb[i].lookup = a.d.lookup
      BY <1>4, TargetHasHash DEF BaseInv
    <2>4. /\ \A j \in base + 1 .. Len(cddb') : ImportedRow(cddb'[j])
          /\ \A g \in kept : HasRow(g)'
      BY <1>1, <2>1 DEF ImportedInv, HasRow
    <2>5. CASE i # NoRow /\ Duplicate(a.d, cddb[i]) /\ AfterStore(t, TRUE)
      <3> DEFINE yes == TRUE
      <3>f. PICK f : f = a.file
        OBVIOUS
      <3>1. AfterStore(t, yes)
        BY <2>5
      <3>2. cddb[i].name = a.d.name
        BY <2>5 DEF Duplicate, Same
      <3>3. kept' = kept \cup {f}
        BY <3>f, <1>4, <2>5 DEF AfterStore
      <3> HIDE DEF yes
      <3>4. pc'["job"] = "rebuild"
        BY <1>1, <1>4, <3>1, AfterStoreIs
      <3>5. HasRow(f)'
        BY <3>f, <1>1, <2>2, <2>3, <2>5, <3>2 DEF HasRow
      <3> QED BY <1>1, <2>4, <3>3, <3>4, <3>5, StoredKept
    <2>6. CASE Decided(t)
      <3>1. /\ pc'["job"] = "write" /\ arg'["job"].method = "temp" /\ kept' = kept
            /\ arg'["job"].target # NoRow
               => arg'["job"].target = i /\ i # NoRow /\ Same(a.d, cddb[i])
        BY <1>4, <2>6 DEF Decided
      <3>2. arg'["job"].d.name = a.d.name
        BY <1>1, <1>4, <2>6, DecidedDisc
      <3>3. AimedInv'
        BY <1>1, <2>3, <3>1, <3>2 DEF AimedInv, SameName, Same
      <3>4. Rebuilding' /\ ImportedInv' /\ \A g \in kept' : HasRow(g)'
        BY <1>1, <2>4, <3>1 DEF Rebuilding, Storing, ImportedInv
      <3> QED BY <3>3, <3>4 DEF KeptInv
    <2> QED BY <2>5, <2>6, DecideIs, <1>4
  <1> QED BY <1>2, <1>3, <1>4 DEF Threads

LEMMA InitKept == Init => KeptInv
  <1> SUFFICES ASSUME Init PROVE KeptInv
    OBVIOUS
  <1>1. pc["job"] = "idle" /\ kept = {}
    BY DEF Init, Threads
  <1> QED BY <1>1 DEF KeptInv, Rebuilding, Storing

LEMMA StepKept == BaseInv /\ TallyInv /\ KeptInv /\ [Next]_vars => KeptInv'
  <1> SUFFICES ASSUME BaseInv, TallyInv, KeptInv, [Next]_vars PROVE KeptInv'
    OBVIOUS
  <1>1. ASSUME NEW t \in Threads, Decide(t) \/ Insert(t) \/ Update(t) \/ WriteFails(t)
        PROVE  KeptInv'
    <2>1. CASE Decide(t)
      BY <2>1, DecideKept
    <2>2. CASE t = "http" /\ (Insert(t) \/ Update(t) \/ WriteFails(t))
      BY <2>2, HttpWriteKept
    <2>3. CASE t = "job" /\ (Insert(t) \/ Update(t) \/ WriteFails(t))
      BY <2>3, JobWriteKept
    <2> QED BY <1>1, <2>1, <2>2, <2>3 DEF Threads
  <1>2. CASE UNCHANGED vars
    BY <1>2, HttpKept
  <1>3. CASE Next
    BY <1>1, <1>3, HttpKept, JobKept DEF Next
  <1> QED BY <1>2, <1>3

(* While a rebuild runs, every file whose store was counted as stored or   *)
(* duplicate has a row among those of the rebuild, with its hash, its name *)
(* and its tracks, whatever the HTTP thread stores meanwhile               *)
(* (scan.c:1127-1133).                                                     *)
THEOREM KeptIsAlwaysThere == Spec => []KeptIsThere
  <1>1. BaseInv /\ TallyInv /\ KeptInv => KeptIsThere
    <2> SUFFICES ASSUME BaseInv, TallyInv, KeptInv, NEW f \in kept
                 PROVE  \E i \in base + 1 .. Len(cddb) :
                          LET r == cddb[i]
                          IN  /\ r.lookup = FileDisc[f].lookup /\ r.name = f.name
                              /\ r.n = Len(f.lens)
                              /\ \A k \in 1..r.n : Abs(r.len[k] - f.lens[k]) < Frames
                              /\ \E g \in Files : /\ FileDisc[g].lookup = r.lookup
                                                  /\ \A k \in 1..r.n : r.title[k] = g.titles[k]
      BY DEF KeptIsThere
    <2>1. Rebuilding /\ f \in Files
      BY DEF KeptInv, TallyInv
    <2>2. PICK i \in base + 1 .. Len(cddb) : cddb[i].lookup = FileHash(f) /\ cddb[i].name = f.name
      BY <2>1 DEF KeptInv, HasRow
    <2> DEFINE r == cddb[i]
    <2>3. ~IsDriveHash(r.lookup)
      BY <2>1, <2>2, FileNotDrive DEF IsDriveHash
    <2>4. PICK g \in Files : FileRow(r, g)
      BY <2>1, <2>3 DEF KeptInv, ImportedInv, ImportedRow
    <2>5. /\ FileHash(f) = FileHash(g) /\ r.n = Len(g.lens)
          /\ \A k \in 1..r.n : r.len[k] = FileLens(g)[k] /\ r.title[k] = g.titles[k]
      BY <2>2, <2>4 DEF FileRow
    <2>6. /\ r.n = Len(f.lens)
          /\ \A k \in 1..r.n : FileLens(g)[k] = FileLens(f)[k]
      BY <2>1, <2>5, SameFile
    <2>7. \A k \in 1..r.n : Abs(r.len[k] - f.lens[k]) < Frames
      <3>1. ASSUME NEW k \in 1..r.n PROVE Abs(r.len[k] - f.lens[k]) < Frames
        <4>1. r.len[k] = FileLens(f)[k] /\ k \in 1..Len(f.lens)
          BY <2>5, <2>6
        <4>2. Abs(FileLens(f)[k] - f.lens[k]) < Frames
          BY <2>1, <4>1, FileLensNear
        <4> QED BY <4>1, <4>2
      <3> QED BY <3>1
    <2>8. FileDisc[f].lookup = FileHash(f) /\ FileDisc[g].lookup = FileHash(g)
      BY <2>1, FileDiscIs
    <2> QED BY <2>2, <2>5, <2>6, <2>7, <2>8
  <1> QED BY <1>1, BaseAlways, InitTally, StepTally, InitKept, StepKept, PTL DEF Spec
=============================================================================
