------------------------------- MODULE Server -------------------------------
(***************************************************************************)
(* The HTTP server: the life of a request (server/handler.c, request.c),   *)
(* the streams of audio data and of extraction progress (server/api.c)     *)
(* with the FLAC and WAV conversions behind them (src/flac_reader.c,       *)
(* flac_writer.c, wav_reader.c), and the stop of the server (server.c).    *)
(*                                                                         *)
(* One thread serves all connections (server.c:65): it calls the handler   *)
(* and the content callbacks one after the other, so that a callback that  *)
(* waits or loops holds up every other connection.  The extraction thread  *)
(* reports its progress and writes the files the streams read.             *)
(*                                                                         *)
(* Audio is counted in blocks.  A file is its header, written 0, and its   *)
(* blocks 1, 2, ...; a FLAC frame holds one block.  An extraction writes   *)
(* one track, and the same audio each time.                                *)
(***************************************************************************)
EXTENDS Integers, SequencesExt

CONSTANTS
  Conns,      \* the connections
  Tracks,     \* the audio files of the library
  Library,    \* each track's file when the server starts
  Ripped,     \* the tracks an extraction may write
  NoTrack,    \* no track
  BodyLength, \* chunks in the body of a POST request
  Asked,      \* the requests each connection may make
  MaxPost,    \* MAX_POST_SIZE, in chunks
  MaxBlock,   \* bound: blocks the library asks a callback for at a time
  MaxRips     \* bound: POST /disc/extract requests

Formats == {"flac", "wav", "pcm", "none"}

\* A file: its kind, whether its header can be read, the blocks its header
\* announces, the blocks it has, and whether it is there.
FileRecord == [kind : {"flac", "wav", "other"}, ok : BOOLEAN, len : Nat, n : Nat,
               there : BOOLEAN]

Request ==
  [kind : {"audio"}, track : Tracks, format : Formats]
    \cup [kind : {"progress", "extract", "cancel", "close", "open"}]
    \cup [kind : {"cover"}, length : BodyLength]

ASSUME ServerAssumption ==
  /\ Library \in [Tracks -> FileRecord]
  /\ Ripped \subseteq Tracks /\ NoTrack \notin Tracks
  /\ BodyLength \subseteq Nat \ {0}
  /\ Asked \in [Conns -> SUBSET Request]
  /\ MaxPost \in Nat /\ MaxBlock \in Nat \ {0} /\ MaxRips \in Nat
  /\ "free" \notin Conns

NoRequest == [kind |-> "none"]

SIZE_UNKNOWN_RESPONSE == -1
Wrap == 16              \* bytes_left is unsigned and wraps, here at 16 blocks

(* A track has audio, less than its size in a file can tell, and its file  *)
(* holds no more than the header announces.                                *)
ASSUME LibraryAssumption ==
  \A t \in Tracks : Library[t].len \in 1..(Wrap - 1) /\ Library[t].n <= Library[t].len

VARIABLES
  phase,    \* of each connection: what has become of its request
  req,      \* its request
  body,     \* chunks stored of its body
  heap,     \* what is allocated or open on its behalf
  callback, \* the content callback of its response, "none" for a plain one
  stream,   \* what the content callback knows
  sent,     \* the audio the client has got
  call,     \* the callback that holds the HTTP thread
  file,     \* the audio files
  worker,   \* the extraction thread: "off", or what it does next
  ripping,  \* the track it writes
  status,   \* cde->status
  pending,  \* progress.last_request differs from progress.last_update
  server,   \* "up" or "stopped"
  rips,     \* bound counter
  overlap,  \* history: a track was written while a stream had it open
  lost      \* history: tracks whose failed conversion left its file open

conn == <<phase, req, body, heap, callback, stream, sent>>
ext  == <<file, worker, ripping, status, pending, rips>>
hist == <<overlap, lost>>
vars == <<phase, req, body, heap, callback, stream, sent, call, file, worker, ripping,
          status, pending, rips, server, overlap, lost>>

CLOSED == 1           \* below CDE_STATUS_IDLE
IDLE == 2
EXTRACTING == 4       \* or PREPARING
CANCEL == 5

Free == [by |-> "free", step |-> "none", out |-> <<>>, max |-> 0]

NoCut == -1
NoStream == [promise |-> 0, skip |-> 0, pos |-> 0, left |-> 0,
             size |-> 0, block |-> <<>>, enc |-> <<>>, eof |-> FALSE, cut |-> NoCut]

Init ==
  /\ phase = [c \in Conns |-> "idle"]
  /\ req = [c \in Conns |-> NoRequest]
  /\ body = [c \in Conns |-> 0]
  /\ heap = [c \in Conns |-> {}]
  /\ callback = [c \in Conns |-> "none"]
  /\ stream = [c \in Conns |-> NoStream]
  /\ sent = [c \in Conns |-> <<>>]
  /\ call = Free
  /\ file = Library
  /\ worker = "off" /\ ripping = NoTrack
  /\ status \in {CLOSED, IDLE}
  /\ pending = TRUE         \* api_init resets the progress
  /\ rips = 0
  /\ server = "up"
  /\ overlap = FALSE
  /\ lost = {}

Smaller(a, b) == IF a < b THEN a ELSE b

Become(c, p) == phase' = [phase EXCEPT ![c] = p]

-----------------------------------------------------------------------------
(* The life of a request. *)

Turn == server = "up" /\ call = Free

(* The first call of request_handler: a request structure, or a refusal    *)
(* when the announced body is too large.                                   *)
FirstCall(c, r) ==
  /\ Turn /\ phase[c] = "idle"
  /\ r.kind = "extract" => rips < MaxRips
  /\ IF r.kind = "cover" /\ r.length >= MaxPost
     THEN Become(c, "ended") /\ UNCHANGED <<req, heap>>
     ELSE /\ Become(c, IF r.kind = "cover" THEN "body" ELSE "ready")
          /\ req' = [req EXCEPT ![c] = r]
          /\ heap' = [heap EXCEPT ![c] = {"request"}]
  /\ UNCHANGED <<body, callback, stream, sent, call, ext, server, hist>>

(* A chunk of the body: store_request_data. *)
StoreData(c) ==
  /\ Turn /\ phase[c] = "body"
  /\ body' = [body EXCEPT ![c] = @ + 1]
  /\ heap' = [heap EXCEPT ![c] = @ \cup {"data"}]
  /\ Become(c, IF body[c] + 1 = req[c].length THEN "ready" ELSE "body")
  /\ UNCHANGED <<req, callback, stream, sent, call, ext, server, hist>>

(* What the cleanup callback of a stream releases, and                     *)
(* request_completed_handler.  Closing a decoder closes its file.          *)
CleanedButWav(by) ==     \* mutant: the encoder's input stays open
  CASE by = "file" -> {"file", "context"}
    [] by = "encoder" -> {"codec", "context"}
    [] by = "decoder" -> {"codec", "file", "context"}
    [] OTHER -> {}
Cleaned(by) ==
  CASE by = "file" -> {"file", "context"}
    [] by = "encoder" -> {"file", "codec", "context"}
    [] by = "decoder" -> {"codec", "file", "context"}
    [] OTHER -> {}
Completed == {"request", "data"}

Release(c) ==
  /\ Become(c, "idle")
  /\ req' = [req EXCEPT ![c] = NoRequest]
  /\ body' = [body EXCEPT ![c] = 0]
  /\ heap' = [heap EXCEPT ![c] = @ \ (Cleaned(callback[c]) \cup Completed)]
  /\ callback' = [callback EXCEPT ![c] = "none"]
  /\ stream' = [stream EXCEPT ![c] = NoStream]
  /\ sent' = [sent EXCEPT ![c] = <<>>]
  /\ UNCHANGED <<call, ext, server, hist>>

(* The response has been sent, or the server stopped. *)
Complete(c) == call = Free /\ phase[c] \in {"reply", "ended"} /\ Release(c)

(* The client has closed the connection. *)
Leave(c) == Turn /\ phase[c] \in {"body", "ready", "stream"} /\ Release(c)

(* MHD_stop_daemon joins the thread, which gives up every connection. *)
Stop ==
  /\ Turn
  /\ server' = "stopped"
  /\ phase' = [c \in Conns |-> IF phase[c] = "idle" THEN "idle" ELSE "ended"]
  /\ UNCHANGED <<req, body, heap, callback, stream, sent, call, ext, hist>>

-----------------------------------------------------------------------------
(* GET /disc/audio and /discs/<id>/audio: api_audio_response. *)

(* What converts a file of this kind to the format asked for. *)
Conversion(kind, format) ==
  IF kind = "other" THEN "none"
  ELSE IF format \in {"none", kind} \/ (kind = "wav" /\ format = "pcm") THEN "file"
  ELSE IF kind = "wav" THEN "encoder" ELSE "decoder"

(* The size of a file.  A WAV file without audio is too small to be        *)
(* served; the header of a FLAC file, with its tags, is enough.            *)
FileSize(f) == IF f.there /\ (f.n > 0 \/ f.kind = "flac") THEN f.n + 1 ELSE 0

(* The promised size of the response. *)
Promise(by, f) ==
  CASE by = "file" -> FileSize(f)
    [] by = "encoder" -> SIZE_UNKNOWN_RESPONSE
    [] by = "decoder" -> f.len + 1

(* An encoder has its metadata ready, and all of the file to read. *)
OpenStream(by, f, format) ==
  [NoStream EXCEPT
     !.promise = Promise(by, f),
     !.skip = IF format = "pcm" THEN 1 ELSE 0,
     !.pos = 1,
     !.left = IF by = "encoder" THEN f.n ELSE 0,
     !.size = f.n,
     !.block = IF by = "encoder" THEN <<0>> ELSE <<>>]

OpenedFor(by) ==
  IF by = "file" THEN {"file", "context"} ELSE {"file", "codec", "context"}

AudioStream(c) == callback[c] \in {"file", "encoder", "decoder"}

(* Streams that have this track open. *)
Readers(t) == {c \in Conns : AudioStream(c) /\ req[c].track = t}

Writing(t) == ripping = t /\ worker \in {"write", "check", "end"}

GetAudio(c) ==
  LET t == req[c].track
      f == file[t]
      by == Conversion(f.kind, req[c].format)
  IN  /\ IF by = "none" \/ FileSize(f) = 0 \/ (by # "file" /\ ~f.ok)
         THEN Become(c, "reply") /\ UNCHANGED <<heap, callback, stream, overlap>>
         ELSE /\ Become(c, "stream")
              /\ heap' = [heap EXCEPT ![c] = @ \cup OpenedFor(by)]
              /\ callback' = [callback EXCEPT ![c] = by]
              /\ stream' = [stream EXCEPT ![c] = OpenStream(by, f, req[c].format)]
              /\ overlap' = (overlap \/ Writing(t))
      /\ lost' = IF by = "decoder" /\ FileSize(f) > 0 /\ ~f.ok THEN lost \cup {t} ELSE lost
      /\ UNCHANGED <<req, body, sent, call, ext, server>>

(* What a stream can read of its file: a removed file stays as it was. *)
Have(c) == IF stream[c].cut # NoCut THEN stream[c].cut ELSE file[req[c].track].n

(* The blocks from p on, at most max, of a file that has n. *)
Blocks(p, max, n) == [i \in 1..Smaller(max, IF p > n THEN 0 ELSE n - p + 1) |-> p + i - 1]

(* The library asks for no more than the promised rest. *)
Ask(c) == 1..(IF stream[c].promise = SIZE_UNKNOWN_RESPONSE THEN MaxBlock
              ELSE Smaller(MaxBlock, stream[c].promise - Len(sent[c])))

Streaming(c, by) == phase[c] = "stream" /\ callback[c] = by

(* The client gets s; the response ends with the promised size. *)
Deliver(c, s) ==
  /\ sent' = [sent EXCEPT ![c] = @ \o s]
  /\ IF Len(sent[c]) + Len(s) = stream[c].promise
     THEN Become(c, "ended") ELSE UNCHANGED phase

(* api_callback_file_reader: 0 at the end of the file, which asks again. *)
ReadFile(c) ==
  /\ Turn /\ Streaming(c, "file")
  /\ \E max \in Ask(c) : Deliver(c, Blocks(Len(sent[c]) + stream[c].skip, max, Have(c)))
  /\ UNCHANGED <<req, body, heap, callback, stream, call, ext, server, hist>>

(* flac_decode_callback: the first frame comes with a wav header. *)
Decoded(c) ==
  LET s == stream[c]
  IN  IF s.eof \/ s.pos > Have(c) THEN <<>>
      ELSE IF s.pos = 1 /\ req[c].format = "wav" THEN <<0, 1>> ELSE <<s.pos>>

(* flac_read decodes a frame when the last one has been delivered. *)
NeedsFrameAlways(s) == TRUE        \* mutant: whatever is left of it
NeedsFrame(s) == s.block = <<>>

Decode(c) ==
  /\ Turn /\ Streaming(c, "decoder")
  /\ \E max \in Ask(c) :
       LET s == stream[c]
           read == NeedsFrame(s)
           block == IF read THEN Decoded(c) ELSE s.block
           k == Smaller(max, Len(block))
       IN  /\ Deliver(c, SubSeq(block, 1, k))
           /\ stream' = [stream EXCEPT ![c] =
                [s EXCEPT !.block = SubSeq(block, k + 1, Len(block)),
                          !.pos = IF read /\ block # <<>> THEN @ + 1 ELSE @,
                          !.eof = @ \/ block = <<>>]]
  /\ UNCHANGED <<req, body, heap, callback, call, ext, server, hist>>

(* write_flac_to_buffer: the end, or its loop, a step an iteration. *)
EncodeCall(c) ==
  /\ Turn /\ Streaming(c, "encoder")
  /\ IF stream[c].left = 0 /\ stream[c].block = <<>>
     THEN Become(c, "ended") /\ UNCHANGED call
     ELSE /\ \E max \in Ask(c) : call' = [by |-> c, step |-> "loop", out |-> <<>>, max |-> max]
          /\ UNCHANGED phase
  /\ UNCHANGED <<req, body, heap, callback, stream, sent, ext, server, hist>>

(* What fread takes from bytes_left: nothing at the end of the file, and   *)
(* possibly more than is left of a file that has grown.                    *)
Taken(c) ==
  IF stream[c].pos > Have(c) THEN {0}
  ELSE IF stream[c].left = 1 /\ Have(c) > stream[c].size THEN {1, 2} ELSE {1}

(* libFLAC gives the frames it has encoded when it chooses, and all of     *)
(* them when the encoding is finished.                                     *)
Emitted(enc, finish) == IF finish THEN {Len(enc)} ELSE {0, Len(enc)}

RemainingSigned(left, r) == left - r     \* mutant: a signed counter
Remaining(left, r) == (left - r) % Wrap

EncodeLoop(c) ==
  /\ call.by = c /\ call.step = "loop"
  /\ LET s == stream[c]
         k == Smaller(Len(s.block), call.max - Len(call.out))
         out == call.out \o SubSeq(s.block, 1, k)
         Return == call' = Free /\ Deliver(c, out)
     IN  IF k < Len(s.block) \/ s.left = 0
         THEN /\ Return
              /\ stream' = [stream EXCEPT ![c] =
                   [s EXCEPT !.block = SubSeq(s.block, k + 1, Len(s.block))]]
         ELSE /\ \E r \in Taken(c) :
                   LET enc == IF r = 0 THEN s.enc ELSE Append(s.enc, s.pos)
                       left == Remaining(s.left, r)
                   IN  \E e \in Emitted(enc, left = 0) :
                         stream' = [stream EXCEPT ![c] =
                           [s EXCEPT !.pos = IF r = 0 THEN @ ELSE @ + 1,
                                     !.left = left,
                                     !.block = SubSeq(enc, 1, e),
                                     !.enc = SubSeq(enc, e + 1, Len(enc))]]
              /\ IF Len(out) < call.max
                 THEN call' = [call EXCEPT !.out = out] /\ UNCHANGED <<phase, sent>>
                 ELSE Return
  /\ UNCHANGED <<req, body, heap, callback, ext, server, hist>>

-----------------------------------------------------------------------------
(* The extraction: GET, POST and DELETE /disc/extract, and the drive. *)

Reset == pending' = TRUE
StreamProgress(c) ==
  /\ Become(c, "stream")
  /\ callback' = [callback EXCEPT ![c] = "progress"]

GetProgress(c) ==
  /\ IF status < IDLE THEN Become(c, "reply") /\ UNCHANGED callback ELSE StreamProgress(c)
  /\ UNCHANGED <<req, body, heap, stream, sent, call, ext, server, hist>>

(* The reply is a stream when the request asks for it.  That no other      *)
(* extraction starts, and the drive stays, before the new thread reports   *)
(* PREPARING is assumed here; module Drive has those races.                *)
Extract(c) ==
  /\ status = IDLE => worker = "off"
  /\ \/ Become(c, "reply") /\ UNCHANGED <<callback, ext>>
     \/ /\ status = IDLE /\ rips < MaxRips
        /\ Reset
        /\ worker' = "start" /\ ripping' \in Ripped
        /\ rips' = rips + 1
        /\ \/ Become(c, "reply") /\ UNCHANGED callback
           \/ StreamProgress(c)
        /\ UNCHANGED <<file, status>>
  /\ UNCHANGED <<req, body, heap, stream, sent, call, server, hist>>

(* cde_cancel_extract waits for the thread. *)
CancelExtract(c) ==
  /\ IF status = EXTRACTING
     THEN /\ status' = CANCEL
          /\ call' = [Free EXCEPT !.by = c, !.step = "join"]
          /\ UNCHANGED phase
     ELSE Become(c, "reply") /\ UNCHANGED <<status, call>>
  /\ UNCHANGED <<req, body, heap, callback, stream, sent, file, worker, ripping, pending, rips,
                 server, hist>>

Joined(c) ==
  /\ call.by = c /\ call.step = "join" /\ worker = "off"
  /\ call' = Free
  /\ Reset
  /\ Become(c, "reply")
  /\ UNCHANGED <<req, body, heap, callback, stream, sent, file, worker, ripping, status, rips,
                 server, hist>>

CloseDrive(c) ==
  /\ status = IDLE => worker = "off"
  /\ status' = IF status = IDLE THEN CLOSED ELSE status
  /\ Become(c, "reply")
  /\ UNCHANGED <<req, body, heap, callback, stream, sent, call, file, worker, ripping, pending,
                 rips, server, hist>>

OpenDrive(c) ==
  /\ status' \in {status, IF status = CLOSED THEN IDLE ELSE status}
  /\ Become(c, "reply")
  /\ UNCHANGED <<req, body, heap, callback, stream, sent, call, file, worker, ripping, pending,
                 rips, server, hist>>

(* POST /disc/front and /disc/back: what they change is in the database. *)
PostCover(c) == Become(c, "reply")
                /\ UNCHANGED <<req, body, heap, callback, stream, sent, call, ext, server, hist>>

(* api_response: the handler of the request. *)
Answer(c) ==
  /\ Turn /\ phase[c] = "ready"
  /\ \/ req[c].kind = "audio" /\ GetAudio(c)
     \/ req[c].kind = "progress" /\ GetProgress(c)
     \/ req[c].kind = "extract" /\ Extract(c)
     \/ req[c].kind = "cancel" /\ CancelExtract(c)
     \/ req[c].kind = "close" /\ CloseDrive(c)
     \/ req[c].kind = "open" /\ OpenDrive(c)
     \/ req[c].kind = "cover" /\ PostCover(c)

(* api_callback_extract_disc_progress: it ends the stream when nothing is  *)
(* extracted and nothing new to tell, and else waits for an update, but    *)
(* not for ever.  rpt_type never is EXTRACT_CB_END_OF_DISC.                *)
NothingToTellClosed == status < IDLE     \* mutant: only a closed drive ends it
NothingToTell == status < IDLE \/ (status = IDLE /\ ~pending)

ProgressCall(c) ==
  /\ Turn /\ Streaming(c, "progress")
  /\ IF NothingToTell
     THEN Become(c, "ended") /\ UNCHANGED call
     ELSE call' = [Free EXCEPT !.by = c, !.step = "wait"] /\ UNCHANGED phase
  /\ UNCHANGED <<req, body, heap, callback, stream, sent, ext, server, hist>>

ProgressFormat(c) ==
  /\ call.by = c /\ call.step = "wait"
  /\ call' = [call EXCEPT !.step = "mark"]
  /\ UNCHANGED <<conn, ext, server, hist>>

ProgressMark(c) ==
  /\ call.by = c /\ call.step = "mark"
  /\ call' = Free
  /\ pending' = FALSE
  /\ UNCHANGED <<conn, file, worker, ripping, status, rips, server, hist>>

-----------------------------------------------------------------------------
(* The extraction thread: cde_extract_audio_t for one track. *)

Work(from, to) == worker = from /\ worker' = to

Report == pending' = TRUE

Rest == UNCHANGED <<phase, req, body, heap, callback, sent, call, rips, server, lost>>

StartRip ==
  /\ Work("start", "open")
  /\ status' = EXTRACTING
  /\ UNCHANGED <<file, ripping, pending, stream, overlap>> /\ Rest

(* fopen "wb": the file is emptied, or made again. *)
Emptied(f) == [kind |-> f.kind, ok |-> TRUE, len |-> f.len, n |-> 0, there |-> TRUE]

OpenTrack ==
  /\ Work("open", "write")
  /\ file' = [file EXCEPT ![ripping] = Emptied(@)]
  /\ overlap' = (overlap \/ Readers(ripping) # {})
  /\ UNCHANGED <<ripping, status, pending, stream>> /\ Rest

WriteTrack ==
  /\ Work("write", "check")
  /\ file' = [file EXCEPT ![ripping].n = @ + 1]
  /\ Report
  /\ UNCHANGED <<ripping, status, stream, overlap>> /\ Rest

CheckTrack ==
  /\ worker = "check" /\ status # CANCEL
  /\ worker' = IF file[ripping].n = file[ripping].len THEN "end" ELSE "write"
  /\ UNCHANGED <<file, ripping, status, pending, stream, overlap>> /\ Rest

(* The track is skipped after a read error, or the extraction cancelled:   *)
(* its file is removed, and streams keep what they have open.              *)
RemoveTrack ==
  /\ worker = "write" \/ (worker = "check" /\ status = CANCEL)
  /\ file' = [file EXCEPT ![ripping].there = FALSE]
  /\ stream' = [c \in Conns |-> IF c \in Readers(ripping) /\ stream[c].cut = NoCut
                                THEN [stream[c] EXCEPT !.cut = file[ripping].n]
                                ELSE stream[c]]
  /\ Report
  /\ \/ status = CANCEL /\ worker' = "leave"
     \/ status # CANCEL /\ worker' = "done"
  /\ UNCHANGED <<ripping, status, overlap>> /\ Rest

EndTrack ==
  /\ Work("end", "done")
  /\ Report
  /\ UNCHANGED <<file, ripping, status, stream, overlap>> /\ Rest

EndDisc ==
  /\ Work("done", "leave")
  /\ Report
  /\ UNCHANGED <<file, ripping, status, stream, overlap>> /\ Rest

LeaveRip ==
  /\ Work("leave", "off")
  /\ status' = IDLE
  /\ ripping' = NoTrack
  /\ UNCHANGED <<file, pending, stream, overlap>> /\ Rest

Rip == \/ StartRip \/ OpenTrack \/ WriteTrack \/ CheckTrack \/ RemoveTrack
       \/ EndTrack \/ EndDisc \/ LeaveRip

-----------------------------------------------------------------------------
(* What the HTTP thread does for a connection without its client. *)
Handle(c) ==
  \/ Answer(c) \/ Joined(c) \/ ReadFile(c) \/ Decode(c) \/ EncodeCall(c)
  \/ EncodeLoop(c) \/ ProgressCall(c) \/ ProgressFormat(c) \/ ProgressMark(c)
  \/ Complete(c)

Next ==
  \/ \E c \in Conns : \/ \E r \in Asked[c] : FirstCall(c, r)
                      \/ StoreData(c) \/ Leave(c) \/ Handle(c)
  \/ Rip
  \/ Stop

(* Every round of the library's event loop serves each ready connection,   *)
(* whose client reads; the extraction thread goes on.                      *)
Spec == Init /\ [][Next]_vars /\ (\A c \in Conns : SF_vars(Handle(c))) /\ WF_vars(Rip)

-----------------------------------------------------------------------------
(* Types of the state: a stream promises at most its file and its header,  *)
(* the HTTP thread is held by a connection that is being served, and the   *)
(* drive is busy only while there is an extraction thread.                 *)
TypeOK ==
  /\ phase \in [Conns -> {"idle", "body", "ready", "stream", "reply", "ended"}]
  /\ req \in [Conns -> Request \cup {NoRequest}]
  /\ callback \in [Conns -> {"none", "file", "encoder", "decoder", "progress"}]
  /\ heap \in [Conns -> SUBSET {"request", "data", "file", "codec", "context"}]
  /\ \A c \in Conns : /\ stream[c].left \in 0..(Wrap - 1)
                      /\ body[c] \in Nat
                      /\ call.by = c => phase[c] \in {"ready", "stream"}
  /\ file \in [Tracks -> FileRecord]
  /\ worker \in {"off", "start", "open", "write", "check", "end", "done", "leave"}
  /\ (worker = "off") = (ripping = NoTrack)
  /\ status \in {CLOSED, IDLE, EXTRACTING, CANCEL} /\ pending \in BOOLEAN
  /\ status > IDLE => worker # "off"
  /\ server \in {"up", "stopped"}
  /\ rips \in 0..MaxRips
  /\ overlap \in BOOLEAN /\ lost \subseteq Tracks

(* The blocks a client should get: raw audio has no header. *)
Content(format, len) ==
  [i \in 1..(IF format = "pcm" THEN len ELSE len + 1) |-> IF format = "pcm" THEN i ELSE i - 1]

(* Whatever conversion the three callbacks make of a file, in blocks of    *)
(* whatever size, over files that an extraction empties, removes and       *)
(* writes again, a client gets the blocks of the track in order, none      *)
(* missing and none twice; and a response that reaches its promised size   *)
(* over a file no extraction has touched holds all of it.                  *)
SentIsContent ==
  \A c \in Conns : AudioStream(c) =>
    LET all == Content(req[c].format, file[req[c].track].len)
    IN  /\ IsPrefix(sent[c], all)
        /\ Len(sent[c]) = stream[c].promise /\ ~overlap
             => sent[c] = Content(req[c].format, stream[c].size)

(* A connection that is done has released all that was allocated and       *)
(* opened on its behalf, whether its response was sent, its client left,   *)
(* its conversion failed or the server stopped; while it streams, what its *)
(* callback uses is there.  Only the conversion of a FLAC file that cannot *)
(* be read leaves the file open for good.                                  *)
NothingLeftOpen ==
  /\ \A c \in Conns :
       /\ phase[c] = "idle" => heap[c] = {}
       /\ AudioStream(c) =>
            OpenedFor(callback[c]) \cup {"request"} \subseteq heap[c]
  /\ \A t \in lost : Library[t].kind = "flac" /\ ~Library[t].ok

(* A request whose response ends by what the code does: not raw audio, and *)
(* not the decoding of a FLAC file shorter than it says.                   *)
Ends(c) ==
  req[c].kind = "audio" =>
    LET f == file[req[c].track]
    IN  /\ req[c].format # "pcm"
        /\ Conversion(f.kind, req[c].format) = "decoder" => f.n = f.len

(* Every complete request is answered and its response ends, in spite of   *)
(* raw audio streams that never do, of progress streams that hold the      *)
(* thread while they wait, and of a cancellation that joins the extraction *)
(* thread; unless an extraction writes a track that is being streamed.     *)
RequestsEnd ==
  \A c \in Conns : (phase[c] = "ready" /\ Ends(c))
                     ~> (phase[c] \in {"idle", "ended", "reply"} \/ overlap \/ server # "up")

=============================================================================
