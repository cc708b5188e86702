------------------------------ MODULE MCServer ------------------------------
(* Instance of Server: a track of each kind and one that cannot be read. *)
EXTENDS Server

MCLibrary == [t \in Tracks |->
  CASE t = "wav" -> [kind |-> "wav", ok |-> TRUE, len |-> 2, n |-> 2, there |-> TRUE]
    [] t = "flac" -> [kind |-> "flac", ok |-> TRUE, len |-> 2, n |-> 2, there |-> TRUE]
    [] t = "short" -> [kind |-> "flac", ok |-> FALSE, len |-> 2, n |-> 1, there |-> TRUE]
    [] OTHER -> [kind |-> "other", ok |-> TRUE, len |-> 1, n |-> 1, there |-> TRUE]]

(* One connection controls the extraction, the other plays tracks. *)
Audio(t, f) == [kind |-> "audio", track |-> t, format |-> f]
Cover(n) == [kind |-> "cover", length |-> n]
MCAsked == [c \in Conns |->
  IF c = "control"
  THEN {[kind |-> k] : k \in {"progress", "extract", "cancel", "close", "open"}}
         \cup {Cover(n) : n \in BodyLength}
  ELSE {Audio("wav", "wav"), Audio("wav", "flac"), Audio("wav", "pcm"), Audio("flac", "wav"),
        Audio("short", "wav"), [kind |-> "progress"]}]
=============================================================================
