------------------------------- MODULE DiscId -------------------------------
(***************************************************************************)
(* The disc information structure and the identity the program gives a     *)
(* disc: cde_alloc_disc, cde_prepare_disc_info and cde_set_hash of         *)
(* libcdextract.c, and hash.h.                                             *)
(*                                                                         *)
(* Artist and album title are one name; two names that differ only in case *)
(* are one value.  A title is the sequence of the pieces it was read in.   *)
(* The 40 bits of the hash over the track lengths are idealised: two discs *)
(* whose (masked) lengths differ do not collide.                           *)
(***************************************************************************)
EXTENDS Integers, Sequences, Functions

CONSTANT MaxTracks      \* CDE_MAX_TRACKS

ASSUME MaxTracksAssumption == MaxTracks \in Nat \ {0}

Frames == 75            \* CDE_CD_FRAMES: sectors in a second
MsfOffset == 150        \* CDE_CD_MSF_OFFSET: where track 1 starts
Unknown == "Unknown"    \* "Unknown Artist", "Unknown Album"
DefaultTitle == <<"Track">>
NoId == "NoId"
NoLookup == <<>>

Abs(x) == IF x < 0 THEN -x ELSE x

(* A structure with room for MaxTracks tracks and nothing known yet. *)
AllocDisc ==
  [id |-> NoId, cid |-> NoId, lookup |-> NoLookup, n |-> 0, length |-> 0,
   name |-> Unknown, year |-> 0, rev |-> 0, complete |-> FALSE,
   len |-> [i \in 1..MaxTracks |-> 0],
   title |-> [i \in 1..MaxTracks |-> DefaultTitle]]

(* cde_set_hash: tracks (8 bits), disc length (16 bits), last track in     *)
(* seconds, the other tracks in frames (19 bits each).                     *)
SetHash(d) ==
  [d EXCEPT !.lookup =
     <<d.n % 256, d.length % 65536>>
     \o (IF d.n > 0 THEN <<d.len[d.n] \div Frames>> ELSE <<>>)
     \o [i \in 1..(IF d.n > 0 THEN d.n - 1 ELSE 0) |-> d.len[i] % 524288]]

(* cde_prepare_disc_info: what the table of contents of the disc in the    *)
(* drive says, over the structure `old` an earlier call has left.  Length  *)
(* 0 stands for a data track: it is skipped, and keeps the length it had.  *)
Prepare(old, toc) ==
  SetHash([old EXCEPT !.id = toc.id,
                      !.n = Len(toc.lens),
                      !.length = SumFunctionOnSet(toc.lens, DOMAIN toc.lens),
                      !.len = [i \in 1..MaxTracks |->
                                 IF i <= Len(toc.lens) /\ toc.lens[i] # 0 THEN toc.lens[i]
                                 ELSE @[i]]])
=============================================================================
