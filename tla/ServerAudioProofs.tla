------------------------- MODULE ServerAudioProofs -------------------------
(***************************************************************************)
(* Proofs about the server, for any number of connections, tracks and      *)
(* requests.                                                               *)
(*                                                                         *)
(* First, that a connection that is done has released all that was opened  *)
(* on its behalf (THEOREM NothingLeftOpenAlways).  The invariant needs two *)
(* more parts to be inductive.  What a connection holds must be among what *)
(* its cleanup callback and the completion release, at every moment a      *)
(* client may leave (HeapInv); and a track's file must keep the kind and,  *)
(* once readable, the header it had, so that a failed conversion is one of *)
(* an unreadable file (FileInv).                                           *)
(*                                                                         *)
(* Then the types of the server's state (THEOREM ServerTypeCorrect) and    *)
(* what its clients get (THEOREM AudioAlwaysInOrder): the blocks of the    *)
(* track, in order, none missing and none twice.  What was sent says       *)
(* nothing of what is sent next.  The invariant (StreamInv) therefore      *)
(* follows a block from the file to the client: what was sent, what the    *)
(* call has gathered, what the buffer holds and what libFLAC holds count   *)
(* on from one another (InOrder, by Chain), up to the block the callback   *)
(* reads next (Positioned), which is never beyond the length the file's    *)
(* header announces (Bounded).  It says what a stream was opened with      *)
(* (Opened, Promised), and that no file outgrows its header (Lengths),     *)
(* although the extraction empties, writes and removes the files that are  *)
(* being streamed.                                                         *)
(***************************************************************************)
EXTENDS Server, SequenceTheorems, TLAPS


Phases == {"idle", "body", "ready", "stream", "reply", "ended"}

ShapeInv == /\ phase \in [Conns -> Phases]
            /\ DOMAIN heap = Conns /\ DOMAIN callback = Conns /\ DOMAIN req = Conns
            /\ \A c \in Conns : req[c].kind = "audio" => req[c].track \in Tracks

HeapInv == \A c \in Conns :
  /\ heap[c] \subseteq Cleaned(callback[c]) \cup Completed
  /\ AudioStream(c) => OpenedFor(callback[c]) \cup {"request"} \subseteq heap[c]
  /\ phase[c] = "idle" => heap[c] = {} /\ callback[c] = "none"
  /\ phase[c] \in {"body", "ready"} => callback[c] = "none" /\ "request" \in heap[c]

FileInv == /\ DOMAIN file = Tracks
           /\ \A t \in Tracks : /\ file[t] \in FileRecord
                                /\ file[t].kind = Library[t].kind
                                /\ Library[t].ok => file[t].ok
           /\ \A t \in lost : t \in Tracks /\ Library[t].kind = "flac" /\ ~Library[t].ok

ServerInv == ShapeInv /\ HeapInv /\ FileInv

(* The encoder's loop holds the thread for a connection that streams. *)
CallInv == \A c \in Conns : call.by = c /\ call.step = "loop" => phase[c] = "stream"

-----------------------------------------------------------------------------
LEMMA InitServerInv == Init => ServerInv
  BY ServerAssumption
  DEF Init, ServerInv, ShapeInv, HeapInv, FileInv, Phases, AudioStream, Cleaned, Completed,
      NoRequest

(* A step that leaves the connections alone, but for their phase after the *)
(* request has been read, and the files.                                   *)
LEMMA QuietStep ==
  ASSUME ServerInv, UNCHANGED <<req, heap, callback, file, lost>>,
         phase' \in [Conns -> Phases],
         \A c \in Conns : phase'[c] = phase[c] \/ phase'[c] \in {"reply", "ended"}
  PROVE  ServerInv'
  BY DEF ServerInv, ShapeInv, HeapInv, FileInv, AudioStream, Phases, Cleaned, Completed, OpenedFor

(* A step of a stream, which may end. *)
LEMMA StreamStep ==
  ASSUME ServerInv, NEW c \in Conns, UNCHANGED <<req, heap, callback, file, lost>>,
         phase[c] = "stream",
         phase' = phase \/ phase' = [phase EXCEPT ![c] = "ended"]
  PROVE  ServerInv'
  BY QuietStep DEF ServerInv, ShapeInv, Phases

LEMMA FirstStep ==
  ASSUME ServerInv, NEW c \in Conns, NEW r \in Asked[c], FirstCall(c, r)
  PROVE  ServerInv'
<1>1. r.kind = "audio" => r.track \in Tracks
  BY ServerAssumption DEF Request
<1>2. CASE r.kind = "cover" /\ r.length >= MaxPost
  <2>1. /\ phase' = [phase EXCEPT ![c] = "ended"]
        /\ UNCHANGED <<req, heap, callback, file, lost>>
    BY <1>2 DEF FirstCall, Become, ext, hist
  <2> QED BY <2>1, QuietStep DEF ServerInv, ShapeInv, Phases
<1>3. CASE ~(r.kind = "cover" /\ r.length >= MaxPost)
  <2>1. /\ phase' = [phase EXCEPT ![c] = IF r.kind = "cover" THEN "body" ELSE "ready"]
        /\ req' = [req EXCEPT ![c] = r]
        /\ heap' = [heap EXCEPT ![c] = {"request"}]
        /\ phase[c] = "idle"
        /\ UNCHANGED <<callback, file, lost>>
    BY <1>3 DEF FirstCall, Become, ext, hist
  <2>2. ShapeInv' BY <1>1, <2>1 DEF ServerInv, ShapeInv, Phases
  <2>3. HeapInv'
    BY <2>1 DEF ServerInv, ShapeInv, HeapInv, AudioStream, Cleaned, Completed, OpenedFor
  <2>4. FileInv' BY <2>1 DEF ServerInv, FileInv
  <2> QED BY <2>2, <2>3, <2>4 DEF ServerInv
<1> QED BY <1>2, <1>3

LEMMA DataStep ==
  ASSUME ServerInv, NEW c \in Conns, StoreData(c)
  PROVE  ServerInv'
<1>1. /\ phase' = [phase EXCEPT ![c] = IF body[c] + 1 = req[c].length THEN "ready" ELSE "body"]
      /\ heap' = [heap EXCEPT ![c] = @ \cup {"data"}]
      /\ phase[c] = "body"
      /\ UNCHANGED <<req, callback, file, lost>>
  BY DEF StoreData, Become, ext, hist
<1>2. ShapeInv' BY <1>1 DEF ServerInv, ShapeInv, Phases
<1>3. HeapInv'
  BY <1>1 DEF ServerInv, ShapeInv, HeapInv, AudioStream, Cleaned, Completed, OpenedFor
<1>4. FileInv' BY <1>1 DEF ServerInv, FileInv
<1> QED BY <1>2, <1>3, <1>4 DEF ServerInv

LEMMA ReleaseStep ==
  ASSUME ServerInv, NEW c \in Conns, Release(c)
  PROVE  ServerInv'
<1>1. /\ phase' = [phase EXCEPT ![c] = "idle"]
      /\ req' = [req EXCEPT ![c] = NoRequest]
      /\ heap' = [heap EXCEPT ![c] = heap[c] \ (Cleaned(callback[c]) \cup Completed)]
      /\ callback' = [callback EXCEPT ![c] = "none"]
      /\ UNCHANGED <<file, lost>>
  BY DEF Release, Become, ext, hist
<1>2. heap'[c] = {} BY <1>1 DEF ServerInv, ShapeInv, HeapInv
<1>3. NoRequest.kind = "none" BY DEF NoRequest
<1>4. ShapeInv' BY <1>1, <1>3 DEF ServerInv, ShapeInv, Phases
<1>5. HeapInv'
  BY <1>1, <1>2, <1>3 DEF ServerInv, ShapeInv, HeapInv, AudioStream, Cleaned, Completed, OpenedFor
<1>6. FileInv' BY <1>1 DEF ServerInv, FileInv
<1> QED BY <1>4, <1>5, <1>6 DEF ServerInv

LEMMA StopStep == ASSUME ServerInv, Stop PROVE ServerInv'
<1>1. /\ phase' = [c \in Conns |-> IF phase[c] = "idle" THEN "idle" ELSE "ended"]
      /\ UNCHANGED <<req, heap, callback, file, lost>>
  BY DEF Stop, ext, hist
<1>2. phase' \in [Conns -> Phases] BY <1>1 DEF Phases
<1>3. \A c \in Conns : phase'[c] = phase[c] \/ phase'[c] \in {"reply", "ended"} BY <1>1
<1> QED BY <1>1, <1>2, <1>3, QuietStep

LEMMA GetAudioStep ==
  ASSUME ServerInv, NEW c \in Conns, phase[c] = "ready", req[c].kind = "audio", GetAudio(c)
  PROVE  ServerInv'
<1> DEFINE t == req[c].track
           f == file[t]
           by == Conversion(f.kind, req[c].format)
<1>1. t \in Tracks /\ f \in FileRecord /\ f.kind = Library[t].kind
      /\ (Library[t].ok => f.ok)
  BY DEF ServerInv, ShapeInv, FileInv
<1>2. by \in {"none", "file", "encoder", "decoder"}
      /\ (by = "decoder" => f.kind = "flac")
  BY <1>1 DEF Conversion, FileRecord
<1>3. UNCHANGED <<req, file>> BY DEF GetAudio, ext
<1>4. lost' \in {lost, lost \cup {t}}
      /\ (lost' # lost => f.kind = "flac" /\ ~f.ok)
  BY <1>2 DEF GetAudio
<1>5. FileInv'
  BY <1>1, <1>3, <1>4 DEF ServerInv, FileInv
<1>6. CASE by = "none" \/ FileSize(f) = 0 \/ (by # "file" /\ ~f.ok)
  <2>1. phase' = [phase EXCEPT ![c] = "reply"] /\ UNCHANGED <<heap, callback>>
    BY <1>6 DEF GetAudio, Become
  <2>2. ShapeInv' BY <1>3, <2>1 DEF ServerInv, ShapeInv, Phases
  <2>3. HeapInv'
    BY <1>3, <2>1 DEF ServerInv, ShapeInv, HeapInv, AudioStream, Cleaned, Completed, OpenedFor
  <2> QED BY <1>5, <2>2, <2>3 DEF ServerInv
<1>7. CASE ~(by = "none" \/ FileSize(f) = 0 \/ (by # "file" /\ ~f.ok))
  <2>1. /\ phase' = [phase EXCEPT ![c] = "stream"]
        /\ heap' = [heap EXCEPT ![c] = heap[c] \cup OpenedFor(by)]
        /\ callback' = [callback EXCEPT ![c] = by]
    BY <1>7 DEF GetAudio, Become
  <2>3. ShapeInv' BY <1>3, <2>1 DEF ServerInv, ShapeInv, Phases
  <2>4. callback'[c] = by /\ callback[c] = "none"
    BY <2>1 DEF ServerInv, ShapeInv, HeapInv
  <2>5. heap[c] \subseteq Completed /\ "request" \in heap[c]
    BY <2>4 DEF ServerInv, HeapInv, Cleaned
  <2>6. OpenedFor(by) = Cleaned(by)
    BY <1>2, <1>7 DEF OpenedFor, Cleaned
  <2>7. \A d \in Conns \ {c} : /\ callback'[d] = callback[d] /\ heap'[d] = heap[d]
                               /\ phase'[d] = phase[d]
    BY <2>1 DEF ServerInv, ShapeInv
  <2>8. phase'[c] = "stream" /\ heap'[c] = heap[c] \cup OpenedFor(by)
    BY <2>1 DEF ServerInv, ShapeInv
  <2>9. HeapInv' BY <2>4, <2>5, <2>6, <2>7, <2>8 DEF ServerInv, HeapInv, AudioStream
  <2> QED BY <1>5, <2>3, <2>9 DEF ServerInv
<1> QED BY <1>6, <1>7

(* Turning a request into a stream of progress. *)
LEMMA ProgressStep ==
  ASSUME ServerInv, NEW c \in Conns, phase[c] = "ready", StreamProgress(c),
         UNCHANGED <<req, heap, file, lost>>
  PROVE  ServerInv'
<1>1. phase' = [phase EXCEPT ![c] = "stream"] /\ callback' = [callback EXCEPT ![c] = "progress"]
  BY DEF StreamProgress, Become
<1>3. ShapeInv' BY <1>1 DEF ServerInv, ShapeInv, Phases
<1>4. HeapInv'
  BY <1>1 DEF ServerInv, ShapeInv, HeapInv, AudioStream, Cleaned, Completed, OpenedFor
<1>5. FileInv' BY DEF ServerInv, FileInv
<1> QED BY <1>3, <1>4, <1>5 DEF ServerInv

LEMMA AnswerStep ==
  ASSUME ServerInv, NEW c \in Conns, Answer(c)
  PROVE  ServerInv'
<1>1. phase[c] = "ready" BY DEF Answer
<1>2. CASE req[c].kind = "audio" /\ GetAudio(c) BY <1>1, <1>2, GetAudioStep
<1>3. ASSUME phase' = phase \/ phase' = [phase EXCEPT ![c] = "reply"],
             UNCHANGED <<req, heap, callback, file, lost>>
      PROVE  ServerInv'
  <2>1. phase' \in [Conns -> Phases] BY <1>3 DEF ServerInv, ShapeInv, Phases
  <2>2. \A d \in Conns : phase'[d] = phase[d] \/ phase'[d] \in {"reply", "ended"}
    BY <1>3 DEF ServerInv, ShapeInv
  <2> QED BY <1>3, <2>1, <2>2, QuietStep
<1>4. CASE GetProgress(c)
  BY <1>1, <1>3, <1>4, ProgressStep DEF GetProgress, Become, ext, hist
<1>5. CASE Extract(c)
  BY <1>1, <1>3, <1>5, ProgressStep DEF Extract, Become, ext, hist
<1>6. CASE CancelExtract(c) BY <1>3, <1>6 DEF CancelExtract, Become, hist
<1>7. CASE CloseDrive(c) BY <1>3, <1>7 DEF CloseDrive, Become, hist
<1>8. CASE OpenDrive(c) BY <1>3, <1>8 DEF OpenDrive, Become, hist
<1>9. CASE PostCover(c) BY <1>3, <1>9 DEF PostCover, Become, ext, hist
<1> QED BY <1>2, <1>4, <1>5, <1>6, <1>7, <1>8, <1>9 DEF Answer

(* The loop of the encoder. *)
LEMMA EncodeStep ==
  ASSUME ServerInv, CallInv, NEW c \in Conns, EncodeLoop(c)
  PROVE  ServerInv'
<1>1. phase[c] = "stream" BY DEF CallInv, EncodeLoop
<1>2. /\ phase' = phase \/ phase' = [phase EXCEPT ![c] = "ended"]
      /\ UNCHANGED <<req, heap, callback, file, lost>>
  BY DEF EncodeLoop, Deliver, Become, ext, hist
<1> QED BY <1>1, <1>2, StreamStep

(* What the extraction thread does to files and streams. *)
LEMMA RipStep ==
  ASSUME ServerInv, Rip
  PROVE  ServerInv'
<1>1. UNCHANGED <<phase, req, heap, callback, lost>>
  BY DEF Rip, StartRip, OpenTrack, WriteTrack, CheckTrack, RemoveTrack, EndTrack, EndDisc,
         LeaveRip, Rest
<1>2. ShapeInv' /\ HeapInv'
  BY <1>1 DEF ServerInv, ShapeInv, HeapInv, AudioStream
<1>3. \/ file' = file
      \/ file' = [file EXCEPT ![ripping] = Emptied(file[ripping])]
      \/ file' = [file EXCEPT ![ripping].n = file[ripping].n + 1]
      \/ file' = [file EXCEPT ![ripping].there = FALSE]
  BY DEF Rip, StartRip, OpenTrack, WriteTrack, CheckTrack, RemoveTrack, EndTrack, EndDisc,
         LeaveRip
<1>4. ASSUME NEW g, file' = [file EXCEPT ![ripping] = g],
             ripping \in Tracks => /\ g \in FileRecord /\ g.kind = file[ripping].kind
                                   /\ file[ripping].ok => g.ok
      PROVE  FileInv'
  BY <1>1, <1>4 DEF ServerInv, FileInv
<1>5. ASSUME file' = file PROVE FileInv'
  BY <1>1, <1>5 DEF ServerInv, FileInv
<1>6. ripping \in Tracks => file[ripping] \in FileRecord BY DEF ServerInv, FileInv
<1>7. ASSUME file' = [file EXCEPT ![ripping] = Emptied(file[ripping])] PROVE FileInv'
  BY <1>4, <1>6, <1>7 DEF Emptied, FileRecord
<1>8. ASSUME file' = [file EXCEPT ![ripping].n = file[ripping].n + 1] PROVE FileInv'
  <2> DEFINE g == [file[ripping] EXCEPT !.n = file[ripping].n + 1]
  <2>1. file' = [file EXCEPT ![ripping] = g] BY <1>8
  <2>2. ripping \in Tracks => /\ g \in FileRecord /\ g.kind = file[ripping].kind
                              /\ g.ok = file[ripping].ok
    BY <1>6 DEF FileRecord
  <2> QED BY <1>4, <2>1, <2>2
<1>9. ASSUME file' = [file EXCEPT ![ripping].there = FALSE] PROVE FileInv'
  <2> DEFINE g == [file[ripping] EXCEPT !.there = FALSE]
  <2>1. file' = [file EXCEPT ![ripping] = g] BY <1>9
  <2>2. ripping \in Tracks => /\ g \in FileRecord /\ g.kind = file[ripping].kind
                              /\ g.ok = file[ripping].ok
    BY <1>6 DEF FileRecord
  <2> QED BY <1>4, <2>1, <2>2
<1> QED BY <1>2, <1>3, <1>5, <1>7, <1>8, <1>9 DEF ServerInv

LEMMA HandleStep ==
  ASSUME ServerInv, CallInv, NEW c \in Conns, Handle(c)
  PROVE  ServerInv'
<1>1. CASE Answer(c) BY <1>1, AnswerStep
<1>2. CASE Joined(c)
  <2>1. phase' = [phase EXCEPT ![c] = "reply"] /\ UNCHANGED <<req, heap, callback, file, lost>>
    BY <1>2 DEF Joined, Become, hist
  <2> QED BY <2>1, QuietStep DEF ServerInv, ShapeInv, Phases
<1>3. CASE ReadFile(c)
  <2>1. /\ phase[c] = "stream"
        /\ phase' = phase \/ phase' = [phase EXCEPT ![c] = "ended"]
        /\ UNCHANGED <<req, heap, callback, file, lost>>
    BY <1>3 DEF ReadFile, Streaming, Deliver, Become, ext, hist
  <2> QED BY <2>1, StreamStep
<1>4. CASE Decode(c)
  <2>1. /\ phase[c] = "stream"
        /\ phase' = phase \/ phase' = [phase EXCEPT ![c] = "ended"]
        /\ UNCHANGED <<req, heap, callback, file, lost>>
    BY <1>4 DEF Decode, Streaming, Deliver, Become, ext, hist
  <2> QED BY <2>1, StreamStep
<1>5. CASE EncodeCall(c)
  <2>1. /\ phase[c] = "stream"
        /\ phase' = phase \/ phase' = [phase EXCEPT ![c] = "ended"]
        /\ UNCHANGED <<req, heap, callback, file, lost>>
    BY <1>5 DEF EncodeCall, Streaming, Become, ext, hist
  <2> QED BY <2>1, StreamStep
<1>6. CASE EncodeLoop(c) BY <1>6, EncodeStep
<1>7. CASE ProgressCall(c)
  <2>1. /\ phase[c] = "stream"
        /\ phase' = phase \/ phase' = [phase EXCEPT ![c] = "ended"]
        /\ UNCHANGED <<req, heap, callback, file, lost>>
    BY <1>7 DEF ProgressCall, Streaming, Become, ext, hist
  <2> QED BY <2>1, StreamStep
<1>8. CASE ProgressFormat(c) \/ ProgressMark(c)
  <2>1. UNCHANGED <<phase, req, heap, callback, file, lost>>
    BY <1>8 DEF ProgressFormat, ProgressMark, conn, ext, hist
  <2> QED BY <2>1, QuietStep DEF ServerInv, ShapeInv
<1>9. CASE Complete(c) BY <1>9, ReleaseStep DEF Complete
<1> QED BY <1>1, <1>2, <1>3, <1>4, <1>5, <1>6, <1>7, <1>8, <1>9 DEF Handle

LEMMA NextStep == ServerInv /\ CallInv /\ [Next]_vars => ServerInv'
<1> SUFFICES ASSUME ServerInv, CallInv, [Next]_vars PROVE ServerInv'
  OBVIOUS
<1>1. ASSUME NEW c \in Conns, NEW r \in Asked[c], FirstCall(c, r) PROVE ServerInv'
  BY <1>1, FirstStep
<1>2. ASSUME NEW c \in Conns, StoreData(c) PROVE ServerInv' BY <1>2, DataStep
<1>3. ASSUME NEW c \in Conns, Leave(c) PROVE ServerInv' BY <1>3, ReleaseStep DEF Leave
<1>4. ASSUME NEW c \in Conns, Handle(c) PROVE ServerInv' BY <1>4, HandleStep
<1>5. CASE Rip BY <1>5, RipStep
<1>6. CASE Stop BY <1>6, StopStep
<1>7. CASE UNCHANGED vars
  BY <1>7, QuietStep DEF vars, ServerInv, ShapeInv
<1> QED BY <1>1, <1>2, <1>3, <1>4, <1>5, <1>6, <1>7 DEF Next

(* Only the encoder starts its loop, and while it runs no other step       *)
(* changes a phase.                                                        *)
LEMMA CallStep == CallInv /\ [Next]_vars => CallInv'
<1> SUFFICES ASSUME CallInv, [Next]_vars PROVE CallInv'
  OBVIOUS
<1>1. ASSUME call' = call, phase' = phase \/ call = Free PROVE CallInv'
  BY <1>1 DEF CallInv, Free
<1>2. ASSUME call'.step # "loop" PROVE CallInv' BY <1>2 DEF CallInv
<1>3. Free.step # "loop" BY DEF Free
<1>4. ASSUME NEW c \in Conns,
             \/ \E r \in Asked[c] : FirstCall(c, r)
             \/ StoreData(c) \/ Leave(c) \/ Complete(c)
      PROVE  CallInv'
  BY <1>1, <1>4 DEF FirstCall, StoreData, Leave, Complete, Release, Turn
<1>5. ASSUME NEW c \in Conns, Answer(c) PROVE CallInv'
  <2>1. \/ call' = call
        \/ call' = [Free EXCEPT !.by = c, !.step = "join"]
    BY <1>5 DEF Answer, GetAudio, GetProgress, Extract, CancelExtract, CloseDrive, OpenDrive,
                PostCover
  <2>2. call = Free BY <1>5 DEF Answer, Turn
  <2>3. [Free EXCEPT !.by = c, !.step = "join"].step # "loop" BY DEF Free
  <2> QED BY <1>1, <1>2, <2>1, <2>2, <2>3
<1>6. ASSUME NEW c \in Conns, Joined(c) \/ ProgressMark(c) PROVE CallInv'
  BY <1>2, <1>3, <1>6 DEF Joined, ProgressMark
<1>7. ASSUME NEW c \in Conns, ReadFile(c) \/ Decode(c) PROVE CallInv'
  BY <1>1, <1>7 DEF ReadFile, Decode, Turn
<1>8. ASSUME NEW c \in Conns, EncodeCall(c) PROVE CallInv'
  BY <1>1, <1>8 DEF CallInv, EncodeCall, Streaming, Turn
<1>9. ASSUME NEW c \in Conns, EncodeLoop(c) PROVE CallInv'
  <2>1. \/ call' = Free
        \/ phase' = phase /\ \E o : call' = [call EXCEPT !.out = o]
    BY <1>9 DEF EncodeLoop
  <2>2. ASSUME phase' = phase, NEW o, call' = [call EXCEPT !.out = o] PROVE CallInv'
    BY <2>2 DEF CallInv
  <2> QED BY <1>2, <1>3, <2>1, <2>2
<1>10. ASSUME NEW c \in Conns, ProgressCall(c) PROVE CallInv'
  <2>1. [Free EXCEPT !.by = c, !.step = "wait"].step # "loop" BY DEF Free
  <2> QED BY <1>1, <1>2, <1>10, <2>1 DEF ProgressCall, Turn
<1>11. ASSUME NEW c \in Conns, ProgressFormat(c) PROVE CallInv'
  <2>1. call' = [call EXCEPT !.step = "mark"] /\ call.step = "wait"
    BY <1>11 DEF ProgressFormat
  <2> QED BY <1>2, <2>1 DEF CallInv
<1>12. ASSUME Rip \/ UNCHANGED vars PROVE CallInv'
  <2>1. UNCHANGED <<call, phase>>
    BY <1>12 DEF Rip, StartRip, OpenTrack, WriteTrack, CheckTrack, RemoveTrack, EndTrack,
                 EndDisc, LeaveRip, Rest, vars
  <2> QED BY <1>1, <2>1
<1>13. CASE Stop BY <1>1, <1>13 DEF Stop, Turn
<1> QED
  BY <1>4, <1>5, <1>6, <1>7, <1>8, <1>9, <1>10, <1>11, <1>12, <1>13 DEF Next, Handle

-----------------------------------------------------------------------------
LEMMA InvMeansNothingLeftOpen == ServerInv => NothingLeftOpen
  BY DEF ServerInv, HeapInv, FileInv, NothingLeftOpen, AudioStream

(* Whatever connections, tracks and requests there are, a connection that  *)
(* is done holds nothing, a stream holds what its callback uses, and only  *)
(* the conversion of an unreadable FLAC file leaves that file open         *)
(* (handler.c, api.c's callbacks and their cleanup).                       *)
THEOREM NothingLeftOpenAlways == Spec => []NothingLeftOpen
<1>1. Init => ServerInv /\ CallInv
  BY InitServerInv DEF Init, CallInv, Free
<1>2. ServerInv /\ CallInv /\ [Next]_vars => (ServerInv /\ CallInv)'
  BY NextStep, CallStep
<1> QED BY <1>1, <1>2, InvMeansNothingLeftOpen, PTL DEF Spec


-----------------------------------------------------------------------------
(* The types of the state, and what the streams send.                      *)

Steps == {"none", "loop", "join", "wait", "mark"}

StreamRecord ==
  [promise : Int, skip : 0..1, pos : Nat, left : 0..(Wrap - 1), size : Nat, block : Seq(Nat),
   enc : Seq(Nat), eof : BOOLEAN, cut : Nat \cup {NoCut}]

(* What the callbacks know, and the callback that holds the thread: the    *)
(* one of a cancellation or of a stream.                                   *)
StreamTypes == /\ req \in [Conns -> Request \cup {NoRequest}]
               /\ callback \in [Conns -> {"none", "file", "encoder", "decoder", "progress"}]
               /\ heap \in [Conns -> SUBSET {"request", "data", "file", "codec", "context"}]
               /\ file \in [Tracks -> FileRecord]
               /\ body \in [Conns -> Nat]
               /\ stream \in [Conns -> StreamRecord]
               /\ sent \in [Conns -> Seq(Nat)]
CallTypes == /\ call \in [by : Conns \cup {"free"}, step : Steps, out : Seq(Nat), max : Nat]
             /\ call.step = "none" => call = Free
             /\ call # Free => call.by \in Conns
             /\ \A c \in Conns :
                  call.by = c => /\ phase[c] = IF call.step = "join" THEN "ready" ELSE "stream"
                                 /\ call.step = "loop" => /\ callback[c] = "encoder"
                                                          /\ Len(call.out) <= call.max

(* The extraction thread and the file it writes. *)
RipTypes == /\ worker \in {"off", "start", "open", "write", "check", "end", "done", "leave"}
            /\ ripping \in Tracks \cup {NoTrack}
            /\ (worker = "off") = (ripping = NoTrack)
            /\ status \in {CLOSED, IDLE, EXTRACTING, CANCEL} /\ pending \in BOOLEAN
            /\ status > IDLE => worker # "off"
            /\ server \in {"up", "stopped"}
            /\ rips \in 0..MaxRips
            /\ overlap \in BOOLEAN
Lengths == /\ \A t \in Tracks : /\ file[t].len = Library[t].len
                                /\ file[t].n <= file[t].len
           /\ worker = "write" => file[ripping].n < file[ripping].len

(* What a stream was opened with.  A file that was removed was no longer    *)
(* than announced, and one that no extraction wrote while it was open is   *)
(* as long as it was.                                                      *)
Announced(c) == Library[req[c].track].len
Opened(c) ==
  /\ req[c] \in [kind : {"audio"}, track : Tracks, format : Formats]
  /\ stream[c].cut \in {NoCut} \cup 0..Announced(c)
  /\ ~overlap => ~Writing(req[c].track) /\ Have(c) = stream[c].size
Promised(c) ==
  /\ stream[c].skip = IF req[c].format = "pcm" THEN 1 ELSE 0
  /\ callback[c] = "file" => stream[c].promise = stream[c].size + 1
  /\ callback[c] = "encoder" => stream[c].promise = SIZE_UNKNOWN_RESPONSE
                                /\ req[c].format = "flac"
  /\ callback[c] = "decoder" => stream[c].promise = Announced(c) + 1
                                /\ req[c].format \in {"wav", "pcm"}

(* A sequence counts on from first. *)
CountsFrom(s, first) == \A i \in 1..Len(s) : s[i] = first + i - 1

(* Four sequences that count on from k, each from where the last one ends, *)
(* and p is the number that follows.                                       *)
Chain(k, a, b, d, e, p) == /\ CountsFrom(a, k)
                           /\ CountsFrom(b, k + Len(a))
                           /\ CountsFrom(d, k + Len(a) + Len(b))
                           /\ CountsFrom(e, k + Len(a) + Len(b) + Len(d))
                           /\ p = k + Len(a) + Len(b) + Len(d) + Len(e)

(* What the loop of the encoder holds for a connection. *)
Out(c) == IF call.by = c /\ call.step = "loop" THEN call.out ELSE <<>>

(* The client has blocks of the track in order; those that the call, the   *)
(* buffer and libFLAC hold follow, up to the one that is read next.        *)
Following(c) == stream[c].skip + Len(sent[c]) + Len(Out(c)) + Len(stream[c].block)
                  + Len(stream[c].enc)
InOrder(c) ==
  Chain(stream[c].skip, sent[c], Out(c), stream[c].block, stream[c].enc, Following(c))
Positioned(c) ==
  /\ callback[c] = "file" => stream[c].block = <<>> /\ stream[c].enc = <<>>
  /\ callback[c] = "encoder" => stream[c].pos = Following(c)
  /\ callback[c] = "decoder" => /\ stream[c].enc = <<>> /\ stream[c].pos >= 1
                                /\ IF stream[c].pos = 1
                                   THEN sent[c] = <<>> /\ stream[c].block = <<>>
                                   ELSE stream[c].pos = Following(c)
Bounded(c) == /\ Following(c) <= Announced(c) + 1
              /\ ~overlap => Following(c) <= stream[c].size + 1

Sound(c) == Promised(c) /\ InOrder(c) /\ Positioned(c) /\ Bounded(c)
AudioOk(c) == IF AudioStream(c) THEN Opened(c) /\ Sound(c) ELSE sent[c] = <<>>
AudioInv == \A c \in Conns : AudioOk(c)

StreamInv == StreamTypes /\ CallTypes /\ RipTypes /\ Lengths /\ AudioInv

-----------------------------------------------------------------------------
(* Sequences that count on. *)

LEMMA EmptyCounts == ASSUME NEW b \in Nat PROVE CountsFrom(<<>>, b)
  BY DEF CountsFrom

LEMMA CountedConcat ==
  ASSUME NEW s \in Seq(Nat), NEW t \in Seq(Nat), NEW b \in Nat,
         CountsFrom(s, b), CountsFrom(t, b + Len(s))
  PROVE  /\ s \o t \in Seq(Nat) /\ Len(s \o t) = Len(s) + Len(t)
         /\ CountsFrom(s \o t, b)
<1>1. /\ s \o t \in Seq(Nat) /\ Len(s \o t) = Len(s) + Len(t)
      /\ \A i \in 1..Len(s) + Len(t) : (s \o t)[i] = IF i <= Len(s) THEN s[i] ELSE t[i - Len(s)]
  BY ConcatProperties
<1>2. Len(s) \in Nat /\ Len(t) \in Nat OBVIOUS
<1>3. ASSUME NEW i \in 1..Len(s) + Len(t) PROVE (s \o t)[i] = b + i - 1
  <2>1. CASE i <= Len(s) BY <1>1, <1>2, <2>1 DEF CountsFrom
  <2>2. CASE i > Len(s)
    <3>1. i - Len(s) \in 1..Len(t) BY <1>2, <2>2
    <3> QED BY <1>1, <1>2, <2>2, <3>1 DEF CountsFrom
  <2> QED BY <1>2, <2>1, <2>2
<1> QED BY <1>1, <1>3 DEF CountsFrom

LEMMA CountedSplit ==
  ASSUME NEW s \in Seq(Nat), NEW b \in Nat, NEW k \in 0..Len(s), CountsFrom(s, b)
  PROVE  /\ SubSeq(s, 1, k) \in Seq(Nat) /\ Len(SubSeq(s, 1, k)) = k
         /\ CountsFrom(SubSeq(s, 1, k), b)
         /\ SubSeq(s, k + 1, Len(s)) \in Seq(Nat)
         /\ Len(SubSeq(s, k + 1, Len(s))) = Len(s) - k
         /\ CountsFrom(SubSeq(s, k + 1, Len(s)), b + k)
<1>1. Len(s) \in Nat OBVIOUS
<1>2. \A i \in 1..Len(s) : s[i] \in Nat BY ElementOfSeq
<1>3. /\ SubSeq(s, 1, k) \in Seq(Nat) /\ Len(SubSeq(s, 1, k)) = k
      /\ \A i \in 1..k : SubSeq(s, 1, k)[i] = s[i]
  <2>1. \A i \in 1..k : s[i] \in Nat BY <1>1, <1>2
  <2>2. /\ SubSeq(s, 1, k) \in Seq(Nat)
        /\ Len(SubSeq(s, 1, k)) = IF 1 <= k THEN k - 1 + 1 ELSE 0
        /\ \A i \in 1..k - 1 + 1 : SubSeq(s, 1, k)[i] = s[1 + i - 1]
    BY <2>1, SubSeqProperties
  <2> QED BY <1>1, <2>2
<1>4. /\ SubSeq(s, k + 1, Len(s)) \in Seq(Nat)
      /\ Len(SubSeq(s, k + 1, Len(s))) = Len(s) - k
      /\ \A i \in 1..Len(s) - k : SubSeq(s, k + 1, Len(s))[i] = s[k + i]
  <2>1. \A i \in k + 1..Len(s) : s[i] \in Nat BY <1>1, <1>2
  <2>2. /\ SubSeq(s, k + 1, Len(s)) \in Seq(Nat)
        /\ Len(SubSeq(s, k + 1, Len(s)))
             = IF k + 1 <= Len(s) THEN Len(s) - (k + 1) + 1 ELSE 0
        /\ \A i \in 1..Len(s) - (k + 1) + 1 : SubSeq(s, k + 1, Len(s))[i] = s[k + 1 + i - 1]
    BY <2>1, <1>1, SubSeqProperties
  <2>3. Len(SubSeq(s, k + 1, Len(s))) = Len(s) - k BY <1>1, <2>2
  <2>4. ASSUME NEW i \in 1..Len(s) - k PROVE SubSeq(s, k + 1, Len(s))[i] = s[k + i]
    <3>1. i \in 1..Len(s) - (k + 1) + 1 /\ k + 1 + i - 1 = k + i BY <1>1
    <3> QED BY <2>2, <3>1
  <2> QED BY <2>2, <2>3, <2>4
<1>5. CountsFrom(SubSeq(s, 1, k), b) BY <1>1, <1>3 DEF CountsFrom
<1>6. ASSUME NEW i \in 1..Len(s) - k PROVE SubSeq(s, k + 1, Len(s))[i] = b + k + i - 1
  <2>1. k + i \in 1..Len(s) /\ b + (k + i) - 1 = b + k + i - 1 BY <1>1
  <2> QED BY <1>4, <2>1 DEF CountsFrom
<1> QED BY <1>3, <1>4, <1>5, <1>6 DEF CountsFrom

LEMMA CountedAppend ==
  ASSUME NEW s \in Seq(Nat), NEW b \in Nat, CountsFrom(s, b)
  PROVE  /\ Append(s, b + Len(s)) \in Seq(Nat) /\ Len(Append(s, b + Len(s))) = Len(s) + 1
         /\ CountsFrom(Append(s, b + Len(s)), b)
<1>1. Len(s) \in Nat /\ b + Len(s) \in Nat OBVIOUS
<1>2. /\ Append(s, b + Len(s)) \in Seq(Nat)
      /\ Len(Append(s, b + Len(s))) = Len(s) + 1
      /\ \A i \in 1..Len(s) : Append(s, b + Len(s))[i] = s[i]
      /\ Append(s, b + Len(s))[Len(s) + 1] = b + Len(s)
  BY <1>1, AppendProperties
<1>3. ASSUME NEW i \in 1..Len(s) + 1 PROVE Append(s, b + Len(s))[i] = b + i - 1
  <2>1. i \in 1..Len(s) \/ i = Len(s) + 1 BY <1>1
  <2> QED BY <1>1, <1>2, <2>1 DEF CountsFrom
<1> QED BY <1>2, <1>3 DEF CountsFrom

(* The blocks that are read of a file follow those that were, and are its. *)
LEMMA CountedBlocks ==
  ASSUME NEW p \in Nat, NEW max \in Nat, NEW n \in Nat
  PROVE  /\ Blocks(p, max, n) \in Seq(Nat) /\ CountsFrom(Blocks(p, max, n), p)
         /\ Len(Blocks(p, max, n)) \in Nat
         /\ Len(Blocks(p, max, n)) > 0 => p + Len(Blocks(p, max, n)) - 1 <= n
<1> DEFINE k == Smaller(max, IF p > n THEN 0 ELSE n - p + 1)
<1>1. k \in Nat /\ (k > 0 => p + k - 1 <= n) BY DEF Smaller
<1>2. Blocks(p, max, n) = [i \in 1..k |-> p + i - 1] BY DEF Blocks
<1> HIDE DEF k
<1>3. \A i \in 1..k : p + i - 1 \in Nat BY <1>1
<1>4. [i \in 1..k |-> p + i - 1] \in Seq(Nat) /\ Len([i \in 1..k |-> p + i - 1]) = k
  BY <1>1, <1>3
<1> QED BY <1>1, <1>2, <1>4 DEF CountsFrom

(* What moves from a sequence of a chain to the one before it is still     *)
(* counted, and the number that follows the chain is the same.             *)
LEMMA ChainBounds ==
  ASSUME NEW k \in 0..1, NEW a \in Seq(Nat), NEW b \in Seq(Nat), NEW d \in Seq(Nat),
         NEW e \in Seq(Nat), NEW p, Chain(k, a, b, d, e, p)
  PROVE  p \in Nat /\ k + Len(a) <= p
<1>1. \A x, y, z, w \in Nat : k + x + y + z + w \in Nat /\ k + x <= k + x + y + z + w
  OBVIOUS
<1>2. Len(a) \in Nat /\ Len(b) \in Nat /\ Len(d) \in Nat /\ Len(e) \in Nat OBVIOUS
<1> QED BY <1>1, <1>2 DEF Chain

LEMMA ChainOut ==
  ASSUME NEW k \in 0..1, NEW a \in Seq(Nat), NEW b \in Seq(Nat), NEW d \in Seq(Nat),
         NEW e \in Seq(Nat), NEW p, Chain(k, a, b, d, e, p), NEW j \in 0..Len(d)
  PROVE  /\ b \o SubSeq(d, 1, j) \in Seq(Nat) /\ SubSeq(d, j + 1, Len(d)) \in Seq(Nat)
         /\ Len(b \o SubSeq(d, 1, j)) = Len(b) + j
         /\ Chain(k, a, b \o SubSeq(d, 1, j), SubSeq(d, j + 1, Len(d)), e, p)
<1> DEFINE x == SubSeq(d, 1, j)
           y == SubSeq(d, j + 1, Len(d))
           base == k + Len(a)
<1>1. base \in Nat /\ Len(b) \in Nat /\ Len(d) \in Nat /\ Len(e) \in Nat OBVIOUS
<1>2. /\ CountsFrom(b, base) /\ CountsFrom(d, base + Len(b))
      /\ CountsFrom(e, base + Len(b) + Len(d)) /\ CountsFrom(a, k)
      /\ p = base + Len(b) + Len(d) + Len(e)
  BY DEF Chain
<1> HIDE DEF base
<1>3. /\ x \in Seq(Nat) /\ Len(x) = j /\ CountsFrom(x, base + Len(b))
      /\ y \in Seq(Nat) /\ Len(y) = Len(d) - j /\ CountsFrom(y, base + Len(b) + j)
  BY <1>1, <1>2, CountedSplit, SMTT(30)
<1> HIDE DEF x, y
<1>4. b \o x \in Seq(Nat) /\ Len(b \o x) = Len(b) + j /\ CountsFrom(b \o x, base)
  BY <1>1, <1>2, <1>3, CountedConcat
<1>5. CountsFrom(y, base + Len(b \o x)) BY <1>1, <1>3, <1>4
<1>6. base + Len(b \o x) + Len(y) = base + Len(b) + Len(d)
  BY <1>1, <1>3, <1>4
<1>7. CountsFrom(e, base + Len(b \o x) + Len(y)) BY <1>2, <1>6
<1> QED BY <1>2, <1>3, <1>4, <1>5, <1>6, <1>7 DEF Chain, base, x, y

LEMMA ChainSent ==
  ASSUME NEW k \in 0..1, NEW a \in Seq(Nat), NEW b \in Seq(Nat), NEW d \in Seq(Nat),
         NEW e \in Seq(Nat), NEW p, Chain(k, a, b, d, e, p)
  PROVE  a \o b \in Seq(Nat) /\ Chain(k, a \o b, <<>>, d, e, p)
<1>1. k \in Nat /\ Len(a) \in Nat /\ Len(b) \in Nat /\ Len(d) \in Nat /\ Len(e) \in Nat
  OBVIOUS
<1>2. a \o b \in Seq(Nat) /\ Len(a \o b) = Len(a) + Len(b) /\ CountsFrom(a \o b, k)
  BY <1>1, CountedConcat DEF Chain
<1>3. k + Len(a \o b) + Len(<<>>) = k + Len(a) + Len(b) BY <1>1, <1>2
<1>4. CountsFrom(<<>>, k + Len(a \o b)) BY DEF CountsFrom
<1> QED BY <1>2, <1>3, <1>4 DEF Chain

(* What a buffer gives to the client. *)
LEMMA ChainDelivered ==
  ASSUME NEW k \in 0..1, NEW a \in Seq(Nat), NEW d \in Seq(Nat), NEW e \in Seq(Nat), NEW p,
         Chain(k, a, <<>>, d, e, p), NEW j \in 0..Len(d)
  PROVE  /\ SubSeq(d, 1, j) \in Seq(Nat) /\ SubSeq(d, j + 1, Len(d)) \in Seq(Nat)
         /\ a \o SubSeq(d, 1, j) \in Seq(Nat)
         /\ Chain(k, a \o SubSeq(d, 1, j), <<>>, SubSeq(d, j + 1, Len(d)), e, p)
<1> DEFINE x == SubSeq(d, 1, j)
           y == SubSeq(d, j + 1, Len(d))
<1>0. <<>> \in Seq(Nat) OBVIOUS
<1>1. y \in Seq(Nat) /\ Chain(k, a, <<>> \o x, y, e, p) BY <1>0, ChainOut
<1>2. x \in Seq(Nat)
  <2>1. \A i \in 1..j : d[i] \in Nat BY ElementOfSeq
  <2> QED BY <2>1, SubSeqProperties
<1>3. <<>> \o x = x BY <1>2, ConcatEmptySeq
<1> HIDE DEF x, y
<1>4. Chain(k, a, x, y, e, p) BY <1>1, <1>3
<1>5. a \o x \in Seq(Nat) /\ Chain(k, a \o x, <<>>, y, e, p) BY <1>1, <1>2, <1>4, ChainSent
<1> QED BY <1>1, <1>2, <1>5 DEF x, y

LEMMA ChainEmitted ==
  ASSUME NEW k \in 0..1, NEW a \in Seq(Nat), NEW b \in Seq(Nat), NEW e \in Seq(Nat),
         NEW p, Chain(k, a, b, <<>>, e, p), NEW j \in 0..Len(e)
  PROVE  /\ SubSeq(e, 1, j) \in Seq(Nat) /\ SubSeq(e, j + 1, Len(e)) \in Seq(Nat)
         /\ Chain(k, a, b, SubSeq(e, 1, j), SubSeq(e, j + 1, Len(e)), p)
<1> DEFINE x == SubSeq(e, 1, j)
           y == SubSeq(e, j + 1, Len(e))
           base == k + Len(a) + Len(b)
<1>1. base \in Nat /\ Len(e) \in Nat /\ base + Len(<<>>) = base OBVIOUS
<1>2. CountsFrom(a, k) /\ CountsFrom(b, k + Len(a)) /\ CountsFrom(e, base)
      /\ p = base + Len(e)
  BY <1>1 DEF Chain
<1> HIDE DEF base
<1>3. /\ x \in Seq(Nat) /\ Len(x) = j /\ CountsFrom(x, base)
      /\ y \in Seq(Nat) /\ Len(y) = Len(e) - j /\ CountsFrom(y, base + j)
  BY <1>1, <1>2, CountedSplit
<1> HIDE DEF x, y
<1>4. CountsFrom(y, base + Len(x)) BY <1>3
<1>5. base + Len(x) + Len(y) = p BY <1>1, <1>2, <1>3
<1> QED BY <1>2, <1>3, <1>4, <1>5 DEF Chain, base, x, y

(* The next block is read. *)
LEMMA ChainRead ==
  ASSUME NEW k \in 0..1, NEW a \in Seq(Nat), NEW b \in Seq(Nat), NEW d \in Seq(Nat),
         NEW e \in Seq(Nat), NEW p, Chain(k, a, b, d, e, p)
  PROVE  Append(e, p) \in Seq(Nat) /\ Chain(k, a, b, d, Append(e, p), p + 1)
<1> DEFINE base == k + Len(a) + Len(b) + Len(d)
<1>1. base \in Nat /\ Len(e) \in Nat OBVIOUS
<1>2. p = base + Len(e) /\ CountsFrom(e, base) BY DEF Chain
<1> HIDE DEF base
<1>3. /\ Append(e, p) \in Seq(Nat) /\ Len(Append(e, p)) = Len(e) + 1
      /\ CountsFrom(Append(e, p), base)
  BY <1>1, <1>2, CountedAppend
<1>4. p + 1 = base + Len(Append(e, p)) BY <1>1, <1>2, <1>3
<1> QED BY <1>3, <1>4 DEF Chain, base

-----------------------------------------------------------------------------
(* What the invariant says of what was sent, and of the types.             *)

LEMMA CountedPrefix ==
  ASSUME NEW s \in Seq(Nat), NEW t \in Seq(Nat), NEW b \in Nat,
         CountsFrom(s, b), CountsFrom(t, b), Len(s) <= Len(t)
  PROVE  IsPrefix(s, t) /\ (Len(s) = Len(t) => s = t)
<1>1. Len(s) \in Nat /\ Len(t) \in Nat OBVIOUS
<1>2. /\ SubSeq(s, 1, Len(s)) \in Seq(Nat) /\ Len(SubSeq(s, 1, Len(s))) = Len(s)
      /\ CountsFrom(SubSeq(s, 1, Len(s)), b)
  BY <1>1, CountedSplit
<1>3. /\ SubSeq(t, 1, Len(s)) \in Seq(Nat) /\ Len(SubSeq(t, 1, Len(s))) = Len(s)
      /\ CountsFrom(SubSeq(t, 1, Len(s)), b)
  BY <1>1, CountedSplit
<1>4. ASSUME NEW u \in Seq(Nat), NEW v \in Seq(Nat), Len(u) = Len(v), CountsFrom(u, b),
             CountsFrom(v, b)
      PROVE  u = v
  <2>1. \A i \in 1..Len(u) : u[i] = v[i] BY <1>4 DEF CountsFrom
  <2> QED BY <1>4, <2>1, SeqEqual
<1>5. SubSeq(s, 1, Len(s)) = SubSeq(t, 1, Len(s)) BY <1>2, <1>3, <1>4
<1> QED BY <1>4, <1>5 DEF IsPrefix

LEMMA ContentCounts ==
  ASSUME NEW format, NEW len \in Nat, NEW k, k = IF format = "pcm" THEN 1 ELSE 0
  PROVE  /\ Content(format, len) \in Seq(Nat)
         /\ k + Len(Content(format, len)) = len + 1
         /\ CountsFrom(Content(format, len), k)
<1>1. CASE format = "pcm"
  <2>1. Content(format, len) = [i \in 1..len |-> i] BY <1>1 DEF Content
  <2>2. [i \in 1..len |-> i] \in Seq(Nat) /\ Len([i \in 1..len |-> i]) = len OBVIOUS
  <2> QED BY <1>1, <2>1, <2>2 DEF CountsFrom
<1>2. CASE format # "pcm"
  <2>1. Content(format, len) = [i \in 1..(len + 1) |-> i - 1] BY <1>2 DEF Content
  <2>2. [i \in 1..(len + 1) |-> i - 1] \in Seq(Nat) /\ Len([i \in 1..(len + 1) |-> i - 1]) = len + 1
    OBVIOUS
  <2> QED BY <1>2, <2>1, <2>2 DEF CountsFrom
<1> QED BY <1>1, <1>2

(* The types of what a stream knows. *)
LEMMA StreamParts ==
  ASSUME StreamInv, NEW c \in Conns
  PROVE  /\ stream[c] \in StreamRecord
         /\ stream[c].skip \in 0..1 /\ stream[c].size \in Nat /\ stream[c].pos \in Nat
         /\ stream[c].block \in Seq(Nat) /\ stream[c].enc \in Seq(Nat)
         /\ sent[c] \in Seq(Nat) /\ Out(c) \in Seq(Nat)
  BY DEF StreamInv, StreamTypes, CallTypes, StreamRecord, Out

(* A track of the library, and what a stream can read of it. *)
LEMMA TrackParts ==
  ASSUME ServerInv, StreamInv, NEW t \in Tracks
  PROVE  /\ file[t] \in FileRecord /\ file[t].len = Library[t].len
         /\ file[t].n \in Nat /\ file[t].n <= Library[t].len
         /\ Library[t].len \in 1..(Wrap - 1) /\ Library[t].len \in Nat
  BY LibraryAssumption DEF ServerInv, FileInv, FileRecord, StreamInv, Lengths, Wrap

LEMMA HaveBounds ==
  ASSUME ServerInv, StreamInv, NEW c \in Conns, AudioStream(c)
  PROVE  /\ req[c].track \in Tracks /\ Announced(c) \in 1..(Wrap - 1)
         /\ Announced(c) = file[req[c].track].len
         /\ Have(c) \in Nat /\ Have(c) <= Announced(c)
<1>1. Opened(c) BY DEF StreamInv, AudioInv, AudioOk
<1>2. req[c].track \in Tracks BY <1>1 DEF Opened
<1>3. /\ Announced(c) = Library[req[c].track].len
      /\ stream[c].cut = NoCut \/ stream[c].cut \in 0..Announced(c)
  BY <1>1 DEF Announced, Opened
<1>4. Announced(c) \in Nat BY <1>2, <1>3, TrackParts
<1> QED BY <1>2, <1>3, <1>4, TrackParts DEF Have

LEMMA InvMeansSentIsContent == ServerInv /\ StreamInv => SentIsContent
<1> SUFFICES ASSUME ServerInv, StreamInv, NEW c \in Conns, AudioStream(c)
             PROVE  LET all == Content(req[c].format, file[req[c].track].len)
                    IN  /\ IsPrefix(sent[c], all)
                        /\ Len(sent[c]) = stream[c].promise /\ ~overlap
                             => sent[c] = Content(req[c].format, stream[c].size)
  BY DEF SentIsContent
<1> DEFINE skip == stream[c].skip
           size == stream[c].size
           len == Announced(c)
           all == Content(req[c].format, len)
<1>1. Opened(c) /\ Promised(c) /\ InOrder(c) /\ Bounded(c)
  BY DEF StreamInv, AudioInv, AudioOk, Sound
<1>2. /\ sent[c] \in Seq(Nat) /\ Len(sent[c]) \in Nat
      /\ skip \in 0..1 /\ size \in Nat
  BY StreamParts
<1>3. skip = IF req[c].format = "pcm" THEN 1 ELSE 0 BY <1>1 DEF Promised
<1>4. len \in 1..(Wrap - 1) /\ len \in Nat /\ len = file[req[c].track].len
  BY HaveBounds DEF Wrap
<1>5. CountsFrom(sent[c], skip) BY <1>1 DEF InOrder, Chain
<1>6. /\ Following(c) \in Nat /\ skip + Len(sent[c]) <= Following(c)
      /\ Following(c) <= len + 1
      /\ ~overlap => Following(c) <= size + 1
  BY <1>1, StreamParts, ChainBounds DEF InOrder, Bounded
<1> HIDE DEF skip, size, len
<1>7. skip + Len(sent[c]) <= len + 1 BY <1>2, <1>4, <1>6
<1>8. IsPrefix(sent[c], all)
  <2>1. all \in Seq(Nat) /\ skip + Len(all) = len + 1 /\ CountsFrom(all, skip)
    BY <1>3, <1>4, ContentCounts
  <2> HIDE DEF all
  <2>2. Len(sent[c]) <= Len(all) BY <1>2, <1>7, <2>1
  <2> QED BY <1>2, <1>5, <2>1, <2>2, CountedPrefix
<1>9. ASSUME Len(sent[c]) = stream[c].promise, ~overlap
      PROVE  sent[c] = Content(req[c].format, size)
  <2>1. skip + Len(sent[c]) <= size + 1 BY <1>2, <1>6, <1>9
  <2>2. \/ Len(sent[c]) = size + 1
        \/ Len(sent[c]) = len + 1 /\ size <= len
    <3>1. Len(sent[c]) # SIZE_UNKNOWN_RESPONSE BY <1>2 DEF SIZE_UNKNOWN_RESPONSE
    <3>2. callback[c] \in {"file", "decoder"}
      BY <1>1, <1>9, <3>1 DEF Promised, AudioStream
    <3>3. size <= len BY <1>1, <1>9, HaveBounds DEF Opened, size, len
    <3> QED BY <1>1, <1>9, <3>2, <3>3 DEF Promised, size, len
  <2>3. skip + Len(sent[c]) = size + 1 BY <1>2, <1>4, <2>1, <2>2
  <2>4. LET whole == Content(req[c].format, size)
        IN  /\ whole \in Seq(Nat) /\ CountsFrom(whole, skip)
            /\ skip + Len(whole) = size + 1
    BY <1>2, <1>3, ContentCounts
  <2>5. Len(sent[c]) = Len(Content(req[c].format, size))
    BY <1>2, <2>3, <2>4
  <2> QED BY <1>2, <1>5, <2>4, <2>5, CountedPrefix
<1> QED BY <1>4, <1>8, <1>9 DEF size, len

LEMMA InvMeansTypeOK == ServerInv /\ StreamInv => TypeOK
<1> SUFFICES ASSUME ServerInv, StreamInv PROVE TypeOK
  OBVIOUS
<1>1. /\ heap \in [Conns -> SUBSET {"request", "data", "file", "codec", "context"}]
      /\ \A c \in Conns : stream[c].left \in 0..(Wrap - 1) /\ body[c] \in Nat
  BY DEF StreamInv, StreamTypes, StreamRecord
<1>2. \A c \in Conns : call.by = c => phase[c] \in {"ready", "stream"}
  BY DEF StreamInv, CallTypes
<1>3. file \in [Tracks -> FileRecord] /\ lost \subseteq Tracks
  BY DEF ServerInv, FileInv, StreamInv, StreamTypes
<1>4. phase \in [Conns -> Phases] BY DEF ServerInv, ShapeInv
<1>5. StreamTypes /\ RipTypes BY DEF StreamInv
<1>6. /\ phase \in [Conns -> {"idle", "body", "ready", "stream", "reply", "ended"}]
      /\ req \in [Conns -> Request \cup {NoRequest}]
      /\ callback \in [Conns -> {"none", "file", "encoder", "decoder", "progress"}]
  BY <1>4, <1>5, Zenon DEF StreamTypes, Phases
<1>7. \A c \in Conns : /\ stream[c].left \in 0..(Wrap - 1)
                       /\ body[c] \in Nat
                       /\ call.by = c => phase[c] \in {"ready", "stream"}
  BY <1>1, <1>2, Zenon
<1> QED BY <1>1, <1>3, <1>5, <1>6, <1>7, Zenon DEF TypeOK, RipTypes

-----------------------------------------------------------------------------
(* The steps that leave what was sent to the streams of audio alone. *)

LEMMA OutUnlessLoop ==
  ASSUME NEW c \in Conns, call.by # c \/ call.step # "loop"
  PROVE  Out(c) = <<>>
  BY DEF Out

LEMMA SoundStays ==
  ASSUME NEW c \in Conns, Sound(c), stream[c] \in StreamRecord,
         req'[c] = req[c], callback'[c] = callback[c], sent'[c] = sent[c], Out(c)' = Out(c),
         stream'[c] = stream[c] \/ \E k : stream'[c] = [stream[c] EXCEPT !.cut = k],
         overlap => overlap'
  PROVE  Sound(c)'
<1>1. /\ stream'[c].skip = stream[c].skip /\ stream'[c].promise = stream[c].promise
      /\ stream'[c].size = stream[c].size /\ stream'[c].pos = stream[c].pos
      /\ stream'[c].block = stream[c].block /\ stream'[c].enc = stream[c].enc
  BY DEF StreamRecord
<1>2. Announced(c)' = Announced(c) BY DEF Announced
<1>3. Promised(c)' BY <1>1, <1>2 DEF Sound, Promised
<1>5. Following(c)' = Following(c) BY <1>1 DEF Following
<1>4. InOrder(c)' BY <1>1, <1>5 DEF Sound, InOrder
<1>6. Positioned(c)' BY <1>1, <1>5 DEF Sound, Positioned
<1>7. Bounded(c)' BY <1>1, <1>2, <1>5 DEF Sound, Bounded
<1> QED BY <1>3, <1>4, <1>6, <1>7 DEF Sound

LEMMA OpenedStays ==
  ASSUME NEW c \in Conns, Opened(c), req'[c] = req[c], stream'[c] = stream[c],
         UNCHANGED file, overlap => overlap', \A t : Writing(t)' => Writing(t)
  PROVE  Opened(c)'
<1>1. Announced(c)' = Announced(c) /\ Have(c)' = Have(c) BY DEF Announced, Have
<1> QED BY <1>1 DEF Opened

LEMMA AudioOkStays ==
  ASSUME StreamInv, NEW c \in Conns, req'[c] = req[c], callback'[c] = callback[c],
         stream'[c] = stream[c], sent'[c] = sent[c], Out(c)' = Out(c),
         UNCHANGED file, overlap => overlap', \A t : Writing(t)' => Writing(t)
  PROVE  AudioOk(c)'
<1>1. AudioOk(c) BY DEF StreamInv, AudioInv
<1>2. AudioStream(c)' <=> AudioStream(c) BY DEF AudioStream
<1>3. CASE AudioStream(c)
  <2>1. Opened(c) /\ Sound(c) /\ stream[c] \in StreamRecord
    BY <1>1, <1>3, StreamParts DEF AudioOk
  <2>2. Opened(c)' BY <2>1, OpenedStays
  <2>3. Sound(c)' BY <2>1, SoundStays
  <2> QED BY <1>2, <1>3, <2>2, <2>3 DEF AudioOk
<1>4. CASE ~AudioStream(c) BY <1>1, <1>2, <1>4 DEF AudioOk
<1> QED BY <1>3, <1>4

(* A step of a connection that is not a stream of audio, or of none. *)
LEMMA QuietAudio ==
  ASSUME StreamInv, UNCHANGED <<stream, sent, file, overlap>>, \A t : Writing(t)' => Writing(t),
         \A c \in Conns : /\ Out(c)' = Out(c)
                          /\ AudioStream(c) => req'[c] = req[c] /\ callback'[c] = callback[c]
                          /\ ~AudioStream(c) => ~AudioStream(c)'
  PROVE  AudioInv'
<1>1. ASSUME NEW c \in Conns PROVE AudioOk(c)'
  <2>1. CASE AudioStream(c) BY <2>1, AudioOkStays
  <2>2. CASE ~AudioStream(c) BY <2>2 DEF StreamInv, AudioInv, AudioOk
  <2> QED BY <2>1, <2>2
<1> QED BY <1>1 DEF AudioInv

(* A step of one stream. *)
LEMMA OneAudio ==
  ASSUME StreamInv, NEW c \in Conns, AudioOk(c)', UNCHANGED file, overlap => overlap',
         \A t : Writing(t)' => Writing(t),
         \A d \in Conns \ {c} : /\ req'[d] = req[d] /\ callback'[d] = callback[d]
                                /\ stream'[d] = stream[d] /\ sent'[d] = sent[d]
                                /\ Out(d)' = Out(d)
  PROVE  AudioInv'
<1>1. \A d \in Conns \ {c} : AudioOk(d)' BY AudioOkStays
<1> QED BY <1>1 DEF AudioInv

-----------------------------------------------------------------------------
(* The types are kept. *)

LEMMA NoStreamType == NoStream \in StreamRecord
  BY DEF NoStream, StreamRecord, NoCut, Wrap

LEMMA OpenStreamType ==
  ASSUME NEW f \in FileRecord, NEW by \in {"file", "encoder", "decoder"}, NEW format,
         f.n <= Wrap - 1
  PROVE  OpenStream(by, f, format) \in StreamRecord
<1>1. f.n \in Nat /\ f.len \in Nat BY DEF FileRecord
<1>2. Promise(by, f) \in Int BY <1>1 DEF Promise, FileSize, SIZE_UNKNOWN_RESPONSE
<1>3. (IF by = "encoder" THEN f.n ELSE 0) \in 0..(Wrap - 1) BY <1>1 DEF Wrap
<1>4. (IF by = "encoder" THEN <<0>> ELSE <<>>) \in Seq(Nat) OBVIOUS
<1>5. (IF format = "pcm" THEN 1 ELSE 0) \in 0..1 OBVIOUS
<1>6. ASSUME NEW pr \in Int, NEW k \in 0..1, NEW l \in 0..(Wrap - 1), NEW z \in Nat,
             NEW b \in Seq(Nat)
      PROVE  [NoStream EXCEPT !.promise = pr, !.skip = k, !.pos = 1, !.left = l, !.size = z,
                              !.block = b] \in StreamRecord
  <2>1. NoStream \in StreamRecord BY NoStreamType
  <2> QED BY <2>1 DEF StreamRecord
<1> QED BY <1>1, <1>2, <1>3, <1>4, <1>5, <1>6 DEF OpenStream

(* What a callback sends is a sequence of blocks. *)
LEMMA DeliverType ==
  ASSUME StreamInv, NEW c \in Conns, NEW s \in Seq(Nat), Deliver(c, s)
  PROVE  /\ sent' \in [Conns -> Seq(Nat)]
         /\ sent'[c] = sent[c] \o s
         /\ \A d \in Conns \ {c} : sent'[d] = sent[d]
         /\ phase' = phase \/ phase' = [phase EXCEPT ![c] = "ended"]
<1>1. sent \in [Conns -> Seq(Nat)] BY DEF StreamInv, StreamTypes
<1>2. sent[c] \o s \in Seq(Nat) BY <1>1, ConcatProperties
<1>3. sent' = [sent EXCEPT ![c] = sent[c] \o s] BY DEF Deliver
<1> HIDE DEF Deliver
<1>4. phase' = phase \/ phase' = [phase EXCEPT ![c] = "ended"] BY DEF Deliver, Become
<1> QED BY <1>1, <1>2, <1>3, <1>4

LEMMA AskType ==
  ASSUME StreamInv, NEW c \in Conns, NEW max \in Ask(c)
  PROVE  max \in Nat \ {0}
<1>1. Smaller(MaxBlock, stream[c].promise - Len(sent[c])) \in Int
  BY StreamParts, ServerAssumption DEF Smaller, StreamRecord
<1> QED BY <1>1, ServerAssumption DEF Ask

(* The three callbacks: what they send, and what they know afterwards. *)
LEMMA ReadFileStep ==
  ASSUME ServerInv, StreamInv, NEW c \in Conns, ReadFile(c)
  PROVE  \E s \in Seq(Nat) :
           /\ Deliver(c, s) /\ CountsFrom(s, stream[c].skip + Len(sent[c]))
           /\ Len(s) > 0 => stream[c].skip + Len(sent[c]) + Len(s) <= Have(c) + 1
<1>1. callback[c] = "file" /\ AudioStream(c) BY DEF ReadFile, Streaming, AudioStream
<1> DEFINE p == Len(sent[c]) + stream[c].skip
           n == Have(c)
<1>2. p \in Nat /\ p = stream[c].skip + Len(sent[c]) BY StreamParts
<1>3. n \in Nat BY <1>1, HaveBounds
<1>4. PICK max \in Ask(c) : Deliver(c, Blocks(p, max, n)) BY DEF ReadFile
<1>5. max \in Nat BY AskType
<1> HIDE DEF p, n
<1>6. /\ Blocks(p, max, n) \in Seq(Nat) /\ CountsFrom(Blocks(p, max, n), p)
      /\ Len(Blocks(p, max, n)) \in Nat
      /\ Len(Blocks(p, max, n)) > 0 => p + Len(Blocks(p, max, n)) - 1 <= n
  BY <1>2, <1>3, <1>5, CountedBlocks
<1>7. Len(Blocks(p, max, n)) > 0 => p + Len(Blocks(p, max, n)) <= n + 1
  BY <1>2, <1>3, <1>6
<1> QED BY <1>2, <1>4, <1>6, <1>7 DEF n

(* A callback that read up to a block its file has keeps the bounds. *)
LEMMA BoundedRead ==
  ASSUME ServerInv, StreamInv, NEW c \in Conns, AudioStream(c), NEW p \in Nat,
         p <= Have(c) + 1
  PROVE  p <= Announced(c) + 1 /\ (~overlap => p <= stream[c].size + 1)
<1>1. Have(c) \in Nat /\ Announced(c) \in Nat /\ Have(c) <= Announced(c)
  BY HaveBounds DEF Wrap
<1>2. ~overlap => Have(c) = stream[c].size BY DEF StreamInv, AudioInv, AudioOk, Opened
<1> QED BY <1>1, <1>2

(* The call returned, or the callback is not the encoder's. *)
LEMMA FreeOut == ASSUME NEW c \in Conns, call = Free PROVE Out(c) = <<>>
  BY DEF Free, Out

LEMMA ReadFileAudio ==
  ASSUME ServerInv, StreamInv, NEW c \in Conns, ReadFile(c)
  PROVE  StreamTypes' /\ AudioInv'
<1> DEFINE k == stream[c].skip
<1>1. /\ callback[c] = "file" /\ AudioStream(c) /\ call = Free
      /\ UNCHANGED <<req, body, heap, callback, stream, call, file, worker, ripping, overlap>>
  BY DEF ReadFile, Streaming, AudioStream, Turn, ext, hist
<1>2. PICK s \in Seq(Nat) :
        /\ Deliver(c, s) /\ CountsFrom(s, k + Len(sent[c]))
        /\ Len(s) > 0 => k + Len(sent[c]) + Len(s) <= Have(c) + 1
  BY ReadFileStep
<1>3. /\ sent' \in [Conns -> Seq(Nat)] /\ sent'[c] = sent[c] \o s
      /\ \A d \in Conns \ {c} : sent'[d] = sent[d]
  BY <1>2, DeliverType
<1>4. StreamTypes' BY <1>1, <1>3 DEF StreamInv, StreamTypes
<1>5. /\ Opened(c) /\ Promised(c) /\ InOrder(c) /\ Positioned(c) /\ Bounded(c)
      /\ k \in 0..1 /\ sent[c] \in Seq(Nat) /\ stream[c].size \in Nat
  BY <1>1, StreamParts DEF StreamInv, AudioInv, AudioOk, Sound
<1>6. /\ stream[c].block = <<>> /\ stream[c].enc = <<>> /\ Out(c) = <<>> /\ Out(c)' = <<>>
  BY <1>1, <1>5, FreeOut DEF Positioned, Out
<1>7. CountsFrom(sent[c], k) /\ Following(c) = k + Len(sent[c])
  BY <1>5, <1>6 DEF InOrder, Chain
<1> HIDE DEF k
<1>8. sent'[c] \in Seq(Nat) /\ Len(sent'[c]) = Len(sent[c]) + Len(s)
      /\ CountsFrom(sent'[c], k)
  <2>1. k \in Nat BY <1>5
  <2>2. /\ sent[c] \o s \in Seq(Nat) /\ Len(sent[c] \o s) = Len(sent[c]) + Len(s)
        /\ CountsFrom(sent[c] \o s, k)
    BY <1>2, <1>5, <1>7, <2>1, CountedConcat
  <2> QED BY <1>3, <2>2
<1>9. Chain(k, sent'[c], <<>>, <<>>, <<>>, k + Len(sent'[c]))
  BY <1>5, <1>8 DEF Chain, CountsFrom
<1>10. Following(c)' = k + Len(sent'[c])
  BY <1>1, <1>5, <1>6, <1>8 DEF Following, k
<1>12. Bounded(c)'
  <2>1. CASE Len(s) > 0
    <3>1. k + Len(sent'[c]) \in Nat /\ k + Len(sent'[c]) <= Have(c) + 1
      BY <1>2, <1>5, <1>8, <2>1
    <3>2. /\ Following(c)' <= Announced(c) + 1
          /\ ~overlap => Following(c)' <= stream[c].size + 1
      BY <1>1, <1>10, <3>1, BoundedRead
    <3>3. Announced(c)' = Announced(c) BY <1>1 DEF Announced
    <3> QED BY <1>1, <3>2, <3>3 DEF Bounded
  <2>2. CASE ~(Len(s) > 0)
    <3>1. Len(sent'[c]) = Len(sent[c]) BY <1>5, <1>8, <2>2
    <3>2. Following(c)' = Following(c) BY <1>7, <1>10, <3>1
    <3>3. Announced(c)' = Announced(c) BY <1>1 DEF Announced
    <3> QED BY <1>1, <1>5, <3>2, <3>3 DEF Bounded
  <2> QED BY <2>1, <2>2
<1>13. InOrder(c)' BY <1>1, <1>6, <1>9, <1>10 DEF InOrder, k
<1>14. Positioned(c)' BY <1>1, <1>6 DEF Positioned
<1>15. Announced(c)' = Announced(c) /\ Have(c)' = Have(c) BY <1>1 DEF Announced, Have
<1>16. Opened(c)' /\ Promised(c)' BY <1>1, <1>5, <1>15 DEF Opened, Promised, Writing
<1>17. AudioOk(c)'
  BY <1>1, <1>12, <1>13, <1>14, <1>16 DEF AudioOk, AudioStream, Sound
<1>18. \A d \in Conns \ {c} : Out(d)' = Out(d) BY <1>1 DEF Out
<1> QED BY <1>1, <1>3, <1>4, <1>17, <1>18, OneAudio DEF Writing

(* A step of a conversion: what is in its sequences has moved, and what it *)
(* was opened with is the same.                                            *)
LEMMA AudioMoves ==
  ASSUME ServerInv, StreamInv, NEW c \in Conns, AudioStream(c),
         stream'[c].skip = stream[c].skip, stream'[c].promise = stream[c].promise,
         stream'[c].size = stream[c].size, stream'[c].cut = stream[c].cut,
         UNCHANGED <<req, callback, file, worker, ripping, overlap>>,
         InOrder(c)', Positioned(c)', Bounded(c)',
         \A d \in Conns \ {c} : stream'[d] = stream[d] /\ sent'[d] = sent[d] /\ Out(d)' = Out(d)
  PROVE  AudioInv'
<1>1. Announced(c)' = Announced(c) /\ Have(c)' = Have(c) BY DEF Announced, Have
<1>2. Opened(c) /\ Promised(c) BY DEF StreamInv, AudioInv, AudioOk, Sound
<1>3. Opened(c)' /\ Promised(c)' BY <1>1, <1>2 DEF Opened, Promised, Writing
<1>4. AudioOk(c)' BY <1>3 DEF AudioOk, AudioStream, Sound
<1> QED BY <1>4, OneAudio DEF Writing

(* What is in the decoder's buffer when it is asked: what it had, or the   *)
(* next frame, with the header before the first.                           *)
LEMMA DecodedChain ==
  ASSUME ServerInv, StreamInv, NEW c \in Conns, callback[c] = "decoder", call = Free,
         NEW block, block = IF NeedsFrame(stream[c]) THEN Decoded(c) ELSE stream[c].block,
         NEW p, p = IF NeedsFrame(stream[c]) /\ block # <<>> THEN stream[c].pos + 1
                                                             ELSE stream[c].pos
  PROVE  /\ block \in Seq(Nat) /\ p \in Nat /\ p >= 1
         /\ p = 1 => sent[c] = <<>> /\ block = <<>>
         /\ \E q \in Nat : /\ Chain(stream[c].skip, sent[c], <<>>, block, <<>>, q)
                           /\ p # 1 => p = q
                           /\ q <= Announced(c) + 1
                           /\ ~overlap => q <= stream[c].size + 1
<1> DEFINE s == stream[c]
           k == stream[c].skip
           a == sent[c]
<1>1. AudioStream(c) BY DEF AudioStream
<1>2. Opened(c) /\ Promised(c) /\ InOrder(c) /\ Positioned(c) /\ Bounded(c)
  BY <1>1 DEF StreamInv, AudioInv, AudioOk, Sound
<1>3. /\ k \in 0..1 /\ a \in Seq(Nat) /\ s.block \in Seq(Nat) /\ s.pos \in Nat
      /\ Out(c) = <<>> /\ s.enc = <<>> /\ s.pos >= 1
      /\ IF s.pos = 1 THEN a = <<>> /\ s.block = <<>> ELSE s.pos = Following(c)
  BY <1>2, StreamParts, FreeOut DEF Positioned
<1>4. Chain(k, a, <<>>, s.block, <<>>, Following(c)) /\ Following(c) \in Nat
  BY <1>2, <1>3, ChainBounds, StreamParts DEF InOrder
<1>5. CASE ~(NeedsFrame(s) /\ Decoded(c) # <<>>)
  <2>1. block = s.block /\ p = s.pos BY <1>5 DEF NeedsFrame
  <2>2. Following(c) <= Announced(c) + 1 /\ (~overlap => Following(c) <= s.size + 1)
    BY <1>2 DEF Bounded
  <2> QED BY <1>3, <1>4, <2>1, <2>2
<1>6. CASE NeedsFrame(s) /\ Decoded(c) # <<>>
  <2>1. /\ block = Decoded(c) /\ p = s.pos + 1 /\ s.block = <<>>
        /\ ~(s.pos > Have(c)) BY <1>6 DEF NeedsFrame, Decoded
  <2>2. Have(c) \in Nat BY <1>1, HaveBounds
  <2>3. p \in Nat /\ p <= Have(c) + 1 /\ p # 1 /\ p >= 1 BY <1>3, <2>1, <2>2
  <2>4. p <= Announced(c) + 1 /\ (~overlap => p <= s.size + 1)
    BY <1>1, <2>3, BoundedRead
  <2>5. block \in Seq(Nat) /\ Chain(k, a, <<>>, block, <<>>, p)
    <3>1. CASE s.pos = 1 /\ req[c].format = "wav"
      <4>1. a = <<>> /\ p = 2 /\ k = 0 /\ block = <<0, 1>>
        BY <1>2, <1>3, <1>6, <2>1, <3>1 DEF Promised, Decoded
      <4>2. Chain(0, <<>>, <<>>, <<0, 1>>, <<>>, 2) /\ <<0, 1>> \in Seq(Nat)
        BY DEF Chain, CountsFrom
      <4> QED BY <4>1, <4>2
    <3>2. CASE s.pos = 1 /\ req[c].format # "wav"
      <4>1. a = <<>> /\ p = 2 /\ k = 1 /\ block = <<1>>
        BY <1>2, <1>3, <1>6, <2>1, <3>2 DEF Promised, Decoded
      <4>2. Chain(1, <<>>, <<>>, <<1>>, <<>>, 2) /\ <<1>> \in Seq(Nat)
        BY DEF Chain, CountsFrom
      <4> QED BY <4>1, <4>2
    <3>3. CASE s.pos # 1
      <4>1. block = <<s.pos>> /\ Chain(k, a, <<>>, <<>>, <<>>, s.pos)
        BY <1>3, <1>4, <1>6, <2>1, <3>3 DEF Decoded
      <4>2. Len(a) \in Nat /\ s.pos = k + Len(a) BY <1>3, <4>1 DEF Chain
      <4>3. <<s.pos>> \in Seq(Nat) /\ Len(<<s.pos>>) = 1 BY <1>3
      <4>4. Chain(k, a, <<>>, <<s.pos>>, <<>>, s.pos + 1)
        BY <1>3, <4>1, <4>2, <4>3 DEF Chain, CountsFrom
      <4> QED BY <2>1, <4>1, <4>3, <4>4
    <3> QED BY <3>1, <3>2, <3>3
  <2> QED BY <2>3, <2>4, <2>5
<1> QED BY <1>5, <1>6

(* What a conversion keeps of a stream. *)
Kept(t, s) == /\ t \in StreamRecord
              /\ t.skip = s.skip /\ t.promise = s.promise /\ t.size = s.size /\ t.cut = s.cut

DecoderAfter(s, d, p, o) == [s EXCEPT !.block = d, !.pos = p, !.eof = o]
BufferAfter(s, d) == [s EXCEPT !.block = d]
EncoderAfter(s, d, e, p, l) == [s EXCEPT !.pos = p, !.left = l, !.block = d, !.enc = e]

LEMMA DecoderMoved ==
  ASSUME NEW s \in StreamRecord, NEW d \in Seq(Nat), NEW p \in Nat, NEW o \in BOOLEAN,
         NEW t, t = DecoderAfter(s, d, p, o)
  PROVE  Kept(t, s) /\ t.pos = p /\ t.block = d /\ t.enc = s.enc
<1>1. t \in StreamRecord BY DEF StreamRecord, DecoderAfter
<1>2. /\ t.skip = s.skip /\ t.promise = s.promise /\ t.size = s.size /\ t.cut = s.cut
      /\ t.pos = p /\ t.block = d /\ t.enc = s.enc
  BY DEF StreamRecord, DecoderAfter
<1> QED BY <1>1, <1>2 DEF Kept

LEMMA BufferMoved ==
  ASSUME NEW s \in StreamRecord, NEW d \in Seq(Nat), NEW t, t = BufferAfter(s, d)
  PROVE  Kept(t, s) /\ t.pos = s.pos /\ t.block = d /\ t.enc = s.enc
<1>1. t \in StreamRecord BY DEF StreamRecord, BufferAfter
<1>2. /\ t.skip = s.skip /\ t.promise = s.promise /\ t.size = s.size /\ t.cut = s.cut
      /\ t.pos = s.pos /\ t.block = d /\ t.enc = s.enc
  BY DEF StreamRecord, BufferAfter
<1> QED BY <1>1, <1>2 DEF Kept

LEMMA EncoderMoved ==
  ASSUME NEW s \in StreamRecord, NEW d \in Seq(Nat), NEW e \in Seq(Nat), NEW p \in Nat,
         NEW l \in 0..(Wrap - 1), NEW t, t = EncoderAfter(s, d, e, p, l)
  PROVE  Kept(t, s) /\ t.pos = p /\ t.block = d /\ t.enc = e
<1>1. t \in StreamRecord BY DEF StreamRecord, EncoderAfter
<1>2. /\ t.skip = s.skip /\ t.promise = s.promise /\ t.size = s.size /\ t.cut = s.cut
      /\ t.pos = p /\ t.block = d /\ t.enc = e
  BY DEF StreamRecord, EncoderAfter
<1> QED BY <1>1, <1>2 DEF Kept

LEMMA DecodeAudio ==
  ASSUME ServerInv, StreamInv, NEW c \in Conns, Decode(c)
  PROVE  StreamTypes' /\ AudioInv'
<1> DEFINE s == stream[c]
           k == stream[c].skip
           a == sent[c]
           read == NeedsFrame(s)
           block == IF read THEN Decoded(c) ELSE s.block
           p == IF read /\ block # <<>> THEN s.pos + 1 ELSE s.pos
<1>1. /\ callback[c] = "decoder" /\ AudioStream(c) /\ call = Free
      /\ UNCHANGED <<req, body, heap, callback, call, file, worker, ripping, overlap>>
  BY DEF Decode, Streaming, AudioStream, Turn, ext, hist
<1>2. PICK max \in Ask(c) :
        LET j == Smaller(max, Len(block))
        IN  /\ Deliver(c, SubSeq(block, 1, j))
            /\ stream' = [stream EXCEPT ![c] =
                 [s EXCEPT !.block = SubSeq(block, j + 1, Len(block)),
                           !.pos = p, !.eof = s.eof \/ block = <<>>]]
  BY DEF Decode
<1>3. max \in Nat BY AskType
<1>4. /\ block \in Seq(Nat) /\ p \in Nat /\ p >= 1
      /\ p = 1 => a = <<>> /\ block = <<>>
      /\ \E q \in Nat : /\ Chain(k, a, <<>>, block, <<>>, q)
                        /\ p # 1 => p = q
                        /\ q <= Announced(c) + 1
                        /\ ~overlap => q <= s.size + 1
  BY <1>1, DecodedChain
<1>q. PICK q \in Nat : /\ Chain(k, a, <<>>, block, <<>>, q)
                       /\ p # 1 => p = q
                       /\ q <= Announced(c) + 1
                       /\ ~overlap => q <= s.size + 1
  BY <1>4
<1>5. /\ s \in StreamRecord /\ k \in 0..1 /\ a \in Seq(Nat) /\ s.left \in 0..(Wrap - 1)
      /\ s.enc = <<>> /\ s.eof \in BOOLEAN
  BY <1>1, StreamParts DEF StreamInv, AudioInv, AudioOk, Sound, Positioned, StreamRecord
<1> HIDE DEF block, p
<1> DEFINE j == Smaller(max, Len(block))
           x == SubSeq(block, 1, j)
           y == SubSeq(block, j + 1, Len(block))
           eof == s.eof \/ block = <<>>
           new == DecoderAfter(s, y, p, eof)
<1>6. j \in 0..Len(block) BY <1>3, <1>4 DEF Smaller
<1>7. /\ x \in Seq(Nat) /\ y \in Seq(Nat) /\ a \o x \in Seq(Nat)
      /\ Chain(k, a \o x, <<>>, y, <<>>, q)
  <2>1. <<>> \in Seq(Nat) OBVIOUS
  <2>2. block \in Seq(Nat) /\ Chain(k, a, <<>>, block, <<>>, q) BY <1>4, <1>q
  <2>3. k \in 0..1 /\ a \in Seq(Nat) BY <1>5
  <2> HIDE DEF j, k, a
  <2> QED BY ONLY <1>6, <2>1, <2>2, <2>3, ChainDelivered, Zenon
<1>8. Kept(new, s) /\ new.pos = p /\ new.block = y /\ new.enc = <<>>
  <2>1. eof \in BOOLEAN OBVIOUS
  <2> HIDE DEF eof, y
  <2> QED BY <1>4, <1>5, <1>7, <2>1, DecoderMoved
<1>9. Deliver(c, x) /\ stream' = [stream EXCEPT ![c] = new] BY <1>2 DEF DecoderAfter
<1> HIDE DEF x, y, new
<1>10. stream'[c] = new /\ \A d \in Conns \ {c} : stream'[d] = stream[d]
  BY <1>9 DEF StreamInv, StreamTypes
<1>11. /\ sent' \in [Conns -> Seq(Nat)] /\ sent'[c] = a \o x
       /\ \A d \in Conns \ {c} : sent'[d] = sent[d]
  BY <1>7, <1>9, DeliverType
<1>12. StreamTypes'
  <2>1. stream' \in [Conns -> StreamRecord] BY <1>8, <1>9 DEF Kept, StreamInv, StreamTypes
  <2> QED BY <1>1, <1>11, <2>1 DEF StreamInv, StreamTypes
<1>13. Out(c) = <<>> /\ \A d \in Conns : Out(d)' = Out(d) BY <1>1, FreeOut DEF Out
<1>14. Following(c)' = q
  BY <1>7, <1>8, <1>10, <1>11, <1>13 DEF Following, Kept, Chain
<1>15. InOrder(c)' BY <1>7, <1>8, <1>10, <1>11, <1>13, <1>14 DEF InOrder, Kept
<1>16. Announced(c)' = Announced(c) BY <1>1 DEF Announced
<1>17. Bounded(c)' BY <1>1, <1>q, <1>8, <1>10, <1>14, <1>16 DEF Bounded, Kept
<1>18. Positioned(c)'
  <2>1. callback'[c] = "decoder" /\ stream'[c].enc = <<>> /\ stream'[c].pos = p
    BY <1>1, <1>8, <1>10
  <2>2. p = 1 => sent'[c] = <<>> /\ stream'[c].block = <<>>
    <3> SUFFICES ASSUME p = 1 PROVE sent'[c] = <<>> /\ y = <<>>
      BY <1>8, <1>10
    <3>1. a = <<>> /\ block = <<>> BY <1>4
    <3>2. j = 0 /\ x = <<>> /\ y = <<>> BY <1>6, <3>1, SubSeqEmpty DEF x, y
    <3> QED BY <1>11, <3>1, <3>2
  <2>3. p # 1 => p = Following(c)' BY <1>q, <1>14
  <2> QED BY <1>4, <2>1, <2>2, <2>3 DEF Positioned
<1> QED BY <1>1, <1>8, <1>10, <1>11, <1>12, <1>13, <1>15, <1>17, <1>18, AudioMoves DEF Kept

(* One round of the encoder's loop: what it holds for the client, and what *)
(* it knows then.                                                          *)
LEMMA EncodeRound ==
  ASSUME ServerInv, StreamInv, NEW c \in Conns, EncodeLoop(c)
  PROVE  \E o \in Seq(Nat), t \in StreamRecord :
           /\ stream' = [stream EXCEPT ![c] = t]
           /\ Kept(t, stream[c])
           /\ Chain(stream[c].skip, sent[c], o, t.block, t.enc, t.pos)
           /\ t.pos <= Announced(c) + 1 /\ (~overlap => t.pos <= stream[c].size + 1)
           /\ \/ call' = Free /\ Deliver(c, o)
              \/ call' = [call EXCEPT !.out = o] /\ Len(o) < call.max /\ UNCHANGED <<phase, sent>>
<1> DEFINE s == stream[c]
           a == sent[c]
           k == Smaller(Len(s.block), call.max - Len(call.out))
           x == SubSeq(s.block, 1, k)
           y == SubSeq(s.block, k + 1, Len(s.block))
           out == call.out \o x
<1>1. call.by = c /\ call.step = "loop" BY DEF EncodeLoop
<1>2. /\ callback[c] = "encoder" /\ AudioStream(c) /\ Out(c) = call.out
      /\ call.out \in Seq(Nat) /\ call.max \in Nat /\ Len(call.out) <= call.max
  BY <1>1 DEF StreamInv, CallTypes, AudioStream, Out
<1>3. /\ s \in StreamRecord /\ s.skip \in 0..1 /\ a \in Seq(Nat) /\ s.block \in Seq(Nat)
      /\ s.enc \in Seq(Nat) /\ s.pos \in Nat /\ s.left \in 0..(Wrap - 1)
  BY StreamParts DEF StreamRecord
<1>4. /\ Chain(s.skip, a, call.out, s.block, s.enc, s.pos)
      /\ s.pos <= Announced(c) + 1 /\ (~overlap => s.pos <= s.size + 1)
  BY <1>2 DEF StreamInv, AudioInv, AudioOk, Sound, InOrder, Positioned, Bounded
<1>5. k \in 0..Len(s.block) BY <1>2, <1>3 DEF Smaller
<1>6. /\ out \in Seq(Nat) /\ y \in Seq(Nat) /\ Chain(s.skip, a, out, y, s.enc, s.pos)
  BY <1>2, <1>3, <1>4, <1>5, ChainOut
<1>7. CASE k < Len(s.block) \/ s.left = 0
  <2> DEFINE t == BufferAfter(s, y)
  <2>1. call' = Free /\ Deliver(c, out) /\ stream' = [stream EXCEPT ![c] = t]
    BY <1>7 DEF EncodeLoop, BufferAfter
  <2> HIDE DEF x, y, t, out
  <2>2. Kept(t, s) /\ t.pos = s.pos /\ t.block = y /\ t.enc = s.enc
    BY <1>3, <1>6, BufferMoved DEF t
  <2>3. t \in StreamRecord BY <2>2 DEF Kept
  <2> QED BY <1>4, <1>6, <2>1, <2>2, <2>3
<1>8. CASE ~(k < Len(s.block) \/ s.left = 0)
  <2>1. k = Len(s.block) BY <1>5, <1>3, <1>8
  <2>2. y = <<>> BY <1>3, <2>1, SubSeqEmpty
  <2>3. PICK r \in Taken(c) :
          LET enc == IF r = 0 THEN s.enc ELSE Append(s.enc, s.pos)
              left == Remaining(s.left, r)
          IN  \E e \in Emitted(enc, left = 0) :
                stream' = [stream EXCEPT ![c] =
                  EncoderAfter(s, SubSeq(enc, 1, e), SubSeq(enc, e + 1, Len(enc)),
                               IF r = 0 THEN s.pos ELSE s.pos + 1, left)]
    BY <1>8 DEF EncodeLoop, EncoderAfter
  <2>4. \/ call' = Free /\ Deliver(c, out)
        \/ call' = [call EXCEPT !.out = out] /\ Len(out) < call.max /\ UNCHANGED <<phase, sent>>
    BY <1>8 DEF EncodeLoop
  <2> DEFINE enc == IF r = 0 THEN s.enc ELSE Append(s.enc, s.pos)
             left == Remaining(s.left, r)
             p == IF r = 0 THEN s.pos ELSE s.pos + 1
  <2>5. PICK e \in Emitted(enc, left = 0) :
          stream' = [stream EXCEPT ![c] =
            EncoderAfter(s, SubSeq(enc, 1, e), SubSeq(enc, e + 1, Len(enc)), p, left)]
    BY <2>3
  <2>6. r \in 0..2 /\ (r # 0 => s.pos <= Have(c)) BY <1>2, <1>3, HaveBounds DEF Taken
  <2>7. left \in 0..(Wrap - 1)
    <3>0. s.left \in 0..(Wrap - 1) BY <1>3
    <3>1. s.left - r \in Int /\ Wrap \in Nat \ {0} BY <2>6, <3>0 DEF Wrap
    <3>2. \A i \in Int, n \in Nat \ {0} : i % n \in 0..(n - 1) OBVIOUS
    <3> QED BY <3>1, <3>2 DEF Remaining
  <2>8. Chain(s.skip, a, out, <<>>, s.enc, s.pos) BY <1>6, <2>2
  <2> HIDE DEF out
  <2>9. enc \in Seq(Nat) /\ Chain(s.skip, a, out, <<>>, enc, p) /\ p \in Nat
    <3>1. CASE r = 0 BY <1>3, <2>8, <3>1
    <3>2. CASE r # 0
      <4>1. <<>> \in Seq(Nat) OBVIOUS
      <4>2. Append(s.enc, s.pos) \in Seq(Nat)
            /\ Chain(s.skip, a, out, <<>>, Append(s.enc, s.pos), s.pos + 1)
        BY <1>3, <1>6, <2>8, <4>1, ChainRead
      <4> QED BY <1>3, <3>2, <4>2
    <3> QED BY <3>1, <3>2
  <2>10. p <= Announced(c) + 1 /\ (~overlap => p <= s.size + 1)
    <3>1. CASE r = 0 BY <1>4, <3>1
    <3>2. CASE r # 0
      <4>1. p \in Nat /\ p <= Have(c) + 1 BY <1>2, <1>3, <2>6, <3>2, HaveBounds
      <4> QED BY <1>2, <4>1, BoundedRead
    <3> QED BY <3>1, <3>2
  <2> HIDE DEF enc, left, p
  <2>11. e \in 0..Len(enc) BY <2>9 DEF Emitted
  <2> DEFINE d2 == SubSeq(enc, 1, e)
             e2 == SubSeq(enc, e + 1, Len(enc))
             t == EncoderAfter(s, d2, e2, p, left)
  <2>12. d2 \in Seq(Nat) /\ e2 \in Seq(Nat) /\ Chain(s.skip, a, out, d2, e2, p)
    <3> HIDE DEF s, a
    <3> QED BY <1>3, <1>6, <2>9, <2>11, ChainEmitted
  <2>13. stream' = [stream EXCEPT ![c] = t] BY <2>5
  <2> HIDE DEF d2, e2, t
  <2>14. Kept(t, s) /\ t.pos = p /\ t.block = d2 /\ t.enc = e2
    <3>1. t = EncoderAfter(s, d2, e2, p, left) BY DEF t
    <3>2. s \in StreamRecord /\ d2 \in Seq(Nat) /\ e2 \in Seq(Nat) /\ p \in Nat
      BY <1>3, <2>9, <2>12
    <3> HIDE DEF s
    <3> QED BY <2>7, <3>1, <3>2, EncoderMoved
  <2>15. t \in StreamRecord BY <2>14 DEF Kept
  <2> QED BY <1>6, <2>4, <2>10, <2>12, <2>13, <2>14, <2>15
<1> QED BY <1>7, <1>8

LEMMA EncodeAudio ==
  ASSUME ServerInv, StreamInv, NEW c \in Conns, EncodeLoop(c)
  PROVE  StreamTypes' /\ AudioInv'
<1> DEFINE s == stream[c]
           a == sent[c]
<1>1. /\ call.by = c /\ call.step = "loop"
      /\ UNCHANGED <<req, body, heap, callback, file, worker, ripping, overlap>>
  BY DEF EncodeLoop, ext, hist
<1>2. callback[c] = "encoder" /\ AudioStream(c)
  BY <1>1 DEF StreamInv, CallTypes, AudioStream
<1>3. s \in StreamRecord /\ s.skip \in 0..1 /\ a \in Seq(Nat) BY StreamParts
<1>4. PICK o \in Seq(Nat), t \in StreamRecord :
           /\ stream' = [stream EXCEPT ![c] = t]
           /\ Kept(t, stream[c])
           /\ Chain(stream[c].skip, sent[c], o, t.block, t.enc, t.pos)
           /\ t.pos <= Announced(c) + 1 /\ (~overlap => t.pos <= stream[c].size + 1)
           /\ \/ call' = Free /\ Deliver(c, o)
              \/ call' = [call EXCEPT !.out = o] /\ Len(o) < call.max /\ UNCHANGED <<phase, sent>>
  BY EncodeRound
<1>5. /\ stream'[c] = t /\ \A d \in Conns \ {c} : stream'[d] = stream[d]
      /\ stream' \in [Conns -> StreamRecord]
  BY <1>4 DEF StreamInv, StreamTypes
<1>6. t.block \in Seq(Nat) /\ t.enc \in Seq(Nat) BY DEF StreamRecord
<1>7. /\ sent' \in [Conns -> Seq(Nat)] /\ \A d \in Conns \ {c} : sent'[d] = sent[d]
      /\ Chain(s.skip, sent'[c], Out(c)', t.block, t.enc, t.pos)
  <2>1. CASE call' = Free /\ Deliver(c, o)
    <3>1. /\ sent' \in [Conns -> Seq(Nat)] /\ sent'[c] = a \o o
          /\ \A d \in Conns \ {c} : sent'[d] = sent[d]
      BY <2>1, DeliverType
    <3>2. Chain(s.skip, a \o o, <<>>, t.block, t.enc, t.pos) BY <1>3, <1>4, <1>6, ChainSent
    <3>3. Out(c)' = <<>> BY <2>1 DEF Out, Free
    <3> QED BY <3>1, <3>2, <3>3
  <2>2. CASE call' = [call EXCEPT !.out = o] /\ UNCHANGED <<phase, sent>>
    <3>1. Out(c)' = o BY <1>1, <2>2 DEF Out, StreamInv, CallTypes
    <3> QED BY <1>4, <2>2, <3>1 DEF StreamInv, StreamTypes
  <2> QED BY <1>4, <2>1, <2>2
<1>8. StreamTypes' BY <1>1, <1>5, <1>7 DEF StreamInv, StreamTypes
<1>9. \A d \in Conns \ {c} : Out(d)' = Out(d)
  <2>1. call' = Free \/ call'.by = c BY <1>1, <1>4 DEF StreamInv, CallTypes
  <2> QED BY <1>1, <2>1 DEF Out, Free
<1>10. Following(c)' = t.pos BY <1>5, <1>7, <1>4 DEF Following, Kept, Chain
<1>11. InOrder(c)' BY <1>4, <1>5, <1>7, <1>10 DEF InOrder, Kept
<1>12. Positioned(c)' BY <1>1, <1>2, <1>5, <1>10 DEF Positioned
<1>13. Announced(c)' = Announced(c) BY <1>1 DEF Announced
<1>14. Bounded(c)' BY <1>1, <1>4, <1>5, <1>10, <1>13 DEF Bounded, Kept
<1> QED BY <1>1, <1>2, <1>4, <1>5, <1>7, <1>8, <1>9, <1>11, <1>12, <1>14, AudioMoves DEF Kept

-----------------------------------------------------------------------------
(* The opening and the release of a stream. *)

LEMMA ReleaseAudio ==
  ASSUME ServerInv, StreamInv, NEW c \in Conns, Release(c), call = Free
  PROVE  StreamTypes' /\ AudioInv'
<1>1. /\ req' = [req EXCEPT ![c] = NoRequest] /\ body' = [body EXCEPT ![c] = 0]
      /\ heap' = [heap EXCEPT ![c] = heap[c] \ (Cleaned(callback[c]) \cup Completed)]
      /\ callback' = [callback EXCEPT ![c] = "none"]
      /\ stream' = [stream EXCEPT ![c] = NoStream]
      /\ sent' = [sent EXCEPT ![c] = <<>>]
      /\ UNCHANGED <<call, file, worker, ripping, overlap>>
  BY DEF Release, ext, hist
<1>2. StreamTypes'
  <2>1. <<>> \in Seq(Nat) OBVIOUS
  <2>2. req' \in [Conns -> Request \cup {NoRequest}]
        /\ body' \in [Conns -> Nat]
        /\ callback' \in [Conns -> {"none", "file", "encoder", "decoder", "progress"}]
    BY <1>1 DEF StreamInv, StreamTypes
  <2>3. heap' \in [Conns -> SUBSET {"request", "data", "file", "codec", "context"}]
    BY <1>1 DEF StreamInv, StreamTypes
  <2>4. stream' \in [Conns -> StreamRecord] BY <1>1, NoStreamType DEF StreamInv, StreamTypes
  <2>5. sent' \in [Conns -> Seq(Nat)] BY <1>1, <2>1 DEF StreamInv, StreamTypes
  <2>6. file' \in [Tracks -> FileRecord] BY <1>1 DEF StreamInv, StreamTypes
  <2> QED BY <2>2, <2>3, <2>4, <2>5, <2>6 DEF StreamTypes
<1>3. callback'[c] = "none" /\ sent'[c] = <<>> BY <1>1 DEF StreamInv, StreamTypes
<1>4. AudioOk(c)' BY <1>3 DEF AudioOk, AudioStream
<1>5. \A d \in Conns \ {c} : /\ req'[d] = req[d] /\ callback'[d] = callback[d]
                             /\ stream'[d] = stream[d] /\ sent'[d] = sent[d]
                             /\ Out(d)' = Out(d)
  BY <1>1 DEF StreamInv, StreamTypes, Out
<1> QED BY <1>1, <1>2, <1>4, <1>5, OneAudio DEF Writing

(* What a stream knows when it is opened. *)
LEMMA OpenStreamParts ==
  ASSUME NEW f \in FileRecord, NEW by \in {"file", "encoder", "decoder"}, NEW format,
         f.n <= Wrap - 1, NEW t, t = OpenStream(by, f, format)
  PROVE  /\ t \in StreamRecord
         /\ t.promise = Promise(by, f) /\ t.skip = IF format = "pcm" THEN 1 ELSE 0
         /\ t.pos = 1 /\ t.size = f.n /\ t.enc = <<>> /\ t.cut = NoCut
         /\ t.block = IF by = "encoder" THEN <<0>> ELSE <<>>
<1>1. t \in StreamRecord BY OpenStreamType
<1>2. \A pr, k, l, z, b :
        LET r == [NoStream EXCEPT !.promise = pr, !.skip = k, !.pos = 1, !.left = l, !.size = z,
                                  !.block = b]
        IN  /\ r.promise = pr /\ r.skip = k /\ r.pos = 1 /\ r.size = z /\ r.block = b
            /\ r.enc = <<>> /\ r.cut = NoCut
  BY DEF NoStream
<1> QED BY <1>1, <1>2 DEF OpenStream

LEMMA AudioRequest ==
  ASSUME NEW r \in Request \cup {NoRequest}, r.kind = "audio"
  PROVE  r \in [kind : {"audio"}, track : Tracks, format : Formats]
<1>1. ASSUME r \in [kind : {"progress", "extract", "cancel", "close", "open"}] PROVE FALSE
  BY <1>1
<1>2. ASSUME r \in [kind : {"cover"}, length : BodyLength] PROVE FALSE
  BY <1>2
<1>3. r # NoRequest BY DEF NoRequest
<1> QED BY <1>1, <1>2, <1>3 DEF Request

LEMMA GetAudioAudio ==
  ASSUME ServerInv, StreamInv, NEW c \in Conns, phase[c] = "ready", req[c].kind = "audio",
         call = Free, GetAudio(c)
  PROVE  StreamTypes' /\ AudioInv'
<1> DEFINE t == req[c].track
           f == file[t]
           format == req[c].format
           by == Conversion(f.kind, format)
           new == OpenStream(by, f, format)
           refused == by = "none" \/ FileSize(f) = 0 \/ (by # "file" /\ ~f.ok)
<1>1. req[c] \in [kind : {"audio"}, track : Tracks, format : Formats]
  BY AudioRequest DEF StreamInv, StreamTypes
<1>2. /\ t \in Tracks /\ format \in Formats /\ f \in FileRecord
      /\ f.n \in Nat /\ f.n <= Wrap - 1 /\ Announced(c) \in Nat
  BY <1>1, TrackParts DEF Announced, Wrap
<1>3. callback[c] = "none" /\ ~AudioStream(c) /\ sent[c] = <<>>
  BY DEF ServerInv, HeapInv, AudioStream, StreamInv, AudioInv, AudioOk
<1>4. UNCHANGED <<req, body, sent, call, file, worker, ripping>> BY DEF GetAudio, ext
<1>5. overlap => overlap' BY DEF GetAudio
<1>6. \A d \in Conns : Out(d)' = Out(d) /\ Out(d) = <<>> BY <1>4, FreeOut DEF Out
<1>7. CASE refused
  <2>1. UNCHANGED <<heap, callback, stream, overlap>> BY <1>7 DEF GetAudio
  <2>2. StreamTypes' BY <1>4, <2>1 DEF StreamInv, StreamTypes
  <2>3. \A d \in Conns : /\ AudioStream(d) => req'[d] = req[d] /\ callback'[d] = callback[d]
                         /\ ~AudioStream(d) => ~AudioStream(d)'
    BY <1>4, <2>1 DEF AudioStream
  <2> QED BY <1>4, <1>6, <2>1, <2>2, <2>3, QuietAudio DEF Writing
<1>8. CASE ~refused
  <2>1. /\ heap' = [heap EXCEPT ![c] = heap[c] \cup OpenedFor(by)]
        /\ callback' = [callback EXCEPT ![c] = by]
        /\ stream' = [stream EXCEPT ![c] = new]
        /\ overlap' = (overlap \/ Writing(t))
    BY <1>8 DEF GetAudio
  <2>2. /\ by \in {"file", "encoder", "decoder"} /\ FileSize(f) = f.n + 1
        /\ by = "encoder" => format = "flac"
        /\ by = "decoder" => format \in {"wav", "pcm"}
    BY <1>2, <1>8 DEF Conversion, FileSize, FileRecord, Formats
  <2>n. new = OpenStream(by, f, format) OBVIOUS
  <2> HIDE DEF new, by, format
  <2>3. /\ new \in StreamRecord
        /\ new.promise = Promise(by, f) /\ new.skip = IF format = "pcm" THEN 1 ELSE 0
        /\ new.pos = 1 /\ new.size = f.n /\ new.enc = <<>> /\ new.cut = NoCut
        /\ new.block = IF by = "encoder" THEN <<0>> ELSE <<>>
    BY <1>2, <2>2, <2>n, OpenStreamParts
  <2>4. /\ callback'[c] = by /\ stream'[c] = new
        /\ \A d \in Conns \ {c} : callback'[d] = callback[d] /\ stream'[d] = stream[d]
    BY <2>1 DEF StreamInv, StreamTypes
  <2>5. StreamTypes'
    <3>1. OpenedFor(by) \subseteq {"request", "data", "file", "codec", "context"}
      BY DEF OpenedFor
    <3>2. heap' \in [Conns -> SUBSET {"request", "data", "file", "codec", "context"}]
      BY <2>1, <3>1 DEF StreamInv, StreamTypes
    <3>3. callback' \in [Conns -> {"none", "file", "encoder", "decoder", "progress"}]
      BY <2>1, <2>2 DEF StreamInv, StreamTypes
    <3>4. stream' \in [Conns -> StreamRecord] BY <2>1, <2>3 DEF StreamInv, StreamTypes
    <3> QED BY <1>4, <3>2, <3>3, <3>4 DEF StreamInv, StreamTypes
  <2>6. Opened(c)'
    <3>1. Have(c)' = f.n BY <1>4, <2>3, <2>4 DEF Have
    <3>2. ~overlap' => ~Writing(t)' BY <1>4, <2>1 DEF Writing
    <3> QED BY <1>1, <1>4, <2>3, <2>4, <3>1, <3>2 DEF Opened
  <2>7. Promised(c)'
    <3>1. Announced(c)' = f.len BY <1>2, <1>4, TrackParts DEF Announced
    <3> QED BY <1>4, <2>2, <2>3, <2>4, <3>1 DEF Promised, Promise, format
  <2>8. sent'[c] = <<>> /\ Out(c)' = <<>> /\ stream'[c].enc = <<>>
    BY <1>3, <1>4, <1>6, <2>3, <2>4
  <2>9. InOrder(c)' /\ Positioned(c)' /\ Following(c)' \in 0..1
    <3>1. CASE by = "encoder"
      <4>1. stream'[c].block = <<0>> /\ stream'[c].skip = 0 BY <2>2, <2>3, <2>4, <3>1
      <4>2. Chain(0, <<>>, <<>>, <<0>>, <<>>, 1) BY DEF Chain, CountsFrom
      <4>3. Following(c)' = 1 BY <2>8, <4>1 DEF Following
      <4>4. InOrder(c)' BY <2>8, <4>1, <4>2, <4>3 DEF InOrder
      <4> QED BY <2>3, <2>4, <3>1, <4>3, <4>4 DEF Positioned
    <3>2. CASE by # "encoder"
      <4>1. stream'[c].block = <<>> /\ stream'[c].skip \in 0..1 BY <2>3, <2>4, <3>2
      <4>2. \A k \in 0..1 : Chain(k, <<>>, <<>>, <<>>, <<>>, k) BY DEF Chain, CountsFrom
      <4>3. Following(c)' = stream'[c].skip BY <2>8, <4>1 DEF Following
      <4>4. InOrder(c)' BY <2>8, <4>1, <4>2, <4>3 DEF InOrder
      <4> QED BY <2>3, <2>4, <2>8, <3>2, <4>1, <4>3, <4>4 DEF Positioned
    <3> QED BY <3>1, <3>2
  <2>10. Bounded(c)'
    <3>1. Announced(c)' \in Nat /\ stream'[c].size \in Nat
      BY <1>2, <1>4, <2>3, <2>4 DEF Announced
    <3> QED BY <2>9, <3>1 DEF Bounded
  <2>11. AudioOk(c)'
    BY <2>2, <2>4, <2>6, <2>7, <2>9, <2>10 DEF AudioOk, AudioStream, Sound
  <2> QED BY <1>4, <1>5, <1>6, <2>4, <2>5, <2>11, OneAudio DEF Writing
<1> QED BY <1>7, <1>8

-----------------------------------------------------------------------------
(* The steps that neither send nor write audio. *)

LEMMA QuietOut ==
  ASSUME call.step # "loop", call'.step # "loop" \/ call'.out = <<>>
  PROVE  \A c \in Conns : Out(c)' = Out(c)
  BY DEF Out

LEMMA SameOut == ASSUME UNCHANGED call PROVE \A c \in Conns : Out(c)' = Out(c)
  BY DEF Out

LEMMA FirstAudio ==
  ASSUME ServerInv, StreamInv, NEW c \in Conns, NEW r \in Asked[c], FirstCall(c, r)
  PROVE  StreamTypes' /\ AudioInv'
<1>1. /\ UNCHANGED <<body, callback, stream, sent, call, file, worker, ripping, overlap>>
      /\ req' = req \/ req' = [req EXCEPT ![c] = r]
      /\ heap' = heap \/ heap' = [heap EXCEPT ![c] = {"request"}]
      /\ phase[c] = "idle"
  BY DEF FirstCall, ext, hist
<1>2. r \in Request BY ServerAssumption
<1>3. StreamTypes'
  <2>1. req' \in [Conns -> Request \cup {NoRequest}]
    BY <1>1, <1>2 DEF StreamInv, StreamTypes
  <2>2. heap' \in [Conns -> SUBSET {"request", "data", "file", "codec", "context"}]
    <3>1. heap \in [Conns -> SUBSET {"request", "data", "file", "codec", "context"}]
      BY DEF StreamInv, StreamTypes
    <3>2. heap' = heap \/ heap' = [heap EXCEPT ![c] = {"request"}] BY <1>1
    <3> QED BY <3>1, <3>2
  <2>3. UNCHANGED <<body, callback, stream, sent, file>> BY <1>1
  <2> QED BY <2>1, <2>2, <2>3 DEF StreamInv, StreamTypes
<1>4. callback[c] = "none" BY <1>1 DEF ServerInv, HeapInv
<1>5. \A d \in Conns : /\ AudioStream(d) => req'[d] = req[d] /\ callback'[d] = callback[d]
                       /\ ~AudioStream(d) => ~AudioStream(d)'
  BY <1>1, <1>4 DEF AudioStream, StreamInv, StreamTypes
<1> QED BY <1>1, <1>3, <1>5, SameOut, QuietAudio DEF Writing

(* The connections stay what they are, but for their phases. *)
LEMMA SameConnAudio ==
  ASSUME StreamInv, UNCHANGED <<req, body, heap, callback, stream, sent, file, overlap>>,
         \A t : Writing(t)' => Writing(t), \A c \in Conns : Out(c)' = Out(c)
  PROVE  StreamTypes' /\ AudioInv'
<1>1. StreamTypes' BY DEF StreamInv, StreamTypes
<1>2. \A d \in Conns : /\ AudioStream(d) => req'[d] = req[d] /\ callback'[d] = callback[d]
                       /\ ~AudioStream(d) => ~AudioStream(d)'
  BY DEF AudioStream
<1> QED BY <1>1, <1>2, QuietAudio

LEMMA DataAudio ==
  ASSUME ServerInv, StreamInv, NEW c \in Conns, StoreData(c)
  PROVE  StreamTypes' /\ AudioInv'
<1>1. /\ UNCHANGED <<req, callback, stream, sent, call, file, worker, ripping, overlap>>
      /\ body' = [body EXCEPT ![c] = body[c] + 1]
      /\ heap' = [heap EXCEPT ![c] = heap[c] \cup {"data"}]
  BY DEF StoreData, ext, hist
<1>2. body' \in [Conns -> Nat] BY <1>1 DEF StreamInv, StreamTypes
<1>3. heap' \in [Conns -> SUBSET {"request", "data", "file", "codec", "context"}]
  BY <1>1 DEF StreamInv, StreamTypes
<1>4. StreamTypes' BY <1>1, <1>2, <1>3 DEF StreamInv, StreamTypes
<1>5. \A d \in Conns : /\ AudioStream(d) => req'[d] = req[d] /\ callback'[d] = callback[d]
                       /\ ~AudioStream(d) => ~AudioStream(d)'
  BY <1>1 DEF AudioStream
<1> QED BY <1>1, <1>4, <1>5, SameOut, QuietAudio DEF Writing

(* A request becomes a stream of progress. *)
LEMMA ProgressAudio ==
  ASSUME ServerInv, StreamInv, NEW c \in Conns, phase[c] = "ready", StreamProgress(c),
         UNCHANGED <<req, body, heap, stream, sent, call, file, overlap>>,
         \A t : Writing(t)' => Writing(t)
  PROVE  StreamTypes' /\ AudioInv'
<1>1. callback' = [callback EXCEPT ![c] = "progress"] BY DEF StreamProgress
<1>2. callback[c] = "none" BY DEF ServerInv, HeapInv
<1>3. StreamTypes' BY <1>1 DEF StreamInv, StreamTypes
<1>4. \A d \in Conns : /\ AudioStream(d) => req'[d] = req[d] /\ callback'[d] = callback[d]
                       /\ ~AudioStream(d) => ~AudioStream(d)'
  BY <1>1, <1>2 DEF AudioStream, StreamInv, StreamTypes
<1> QED BY <1>3, <1>4, SameOut, QuietAudio

LEMMA AnswerAudio ==
  ASSUME ServerInv, StreamInv, NEW c \in Conns, Answer(c)
  PROVE  StreamTypes' /\ AudioInv'
<1>1. phase[c] = "ready" /\ call = Free BY DEF Answer, Turn
<1>2. call.step # "loop" BY <1>1 DEF Free
<1>3. CASE req[c].kind = "audio" /\ GetAudio(c) BY <1>1, <1>3, GetAudioAudio
<1>4. CASE GetProgress(c)
  <2>1. /\ UNCHANGED <<req, body, heap, stream, sent, call, file, worker, ripping, overlap>>
        /\ UNCHANGED callback \/ StreamProgress(c)
    BY <1>4 DEF GetProgress, ext, hist
  <2> QED BY <1>1, <2>1, SameOut, SameConnAudio, ProgressAudio DEF Writing
<1>5. CASE Extract(c)
  <2>1. /\ UNCHANGED <<req, body, heap, stream, sent, call, file, overlap>>
        /\ UNCHANGED callback \/ StreamProgress(c)
        /\ UNCHANGED <<worker, ripping>> \/ worker' = "start"
    BY <1>5 DEF Extract, ext, hist
  <2>2. \A t : Writing(t)' => Writing(t) BY <2>1 DEF Writing
  <2> QED BY <1>1, <2>1, <2>2, SameOut, SameConnAudio, ProgressAudio
<1>6. CASE CancelExtract(c)
  <2>1. /\ UNCHANGED <<req, body, heap, callback, stream, sent, file, worker, ripping, overlap>>
        /\ call' = call \/ call' = [Free EXCEPT !.by = c, !.step = "join"]
    BY <1>6 DEF CancelExtract, hist
  <2>2. call' = call \/ call'.step # "loop" BY <2>1 DEF Free
  <2>3. \A d \in Conns : Out(d)' = Out(d) BY <1>2, <2>2, QuietOut, SameOut
  <2> QED BY <2>1, <2>3, SameConnAudio DEF Writing
<1>7. CASE CloseDrive(c) \/ OpenDrive(c) \/ PostCover(c)
  <2>1. UNCHANGED <<req, body, heap, callback, stream, sent, call, file, worker, ripping, overlap>>
    BY <1>7 DEF CloseDrive, OpenDrive, PostCover, ext, hist
  <2> QED BY <2>1, SameOut, SameConnAudio DEF Writing
<1> QED BY <1>3, <1>4, <1>5, <1>6, <1>7 DEF Answer

LEMMA HandleAudio ==
  ASSUME ServerInv, StreamInv, NEW c \in Conns, Handle(c)
  PROVE  StreamTypes' /\ AudioInv'
<1>1. CASE Answer(c) BY <1>1, AnswerAudio
<1>2. CASE ReadFile(c) BY <1>2, ReadFileAudio
<1>3. CASE Decode(c) BY <1>3, DecodeAudio
<1>4. CASE EncodeLoop(c) BY <1>4, EncodeAudio
<1>5. CASE Complete(c) BY <1>5, ReleaseAudio DEF Complete
<1>6. CASE EncodeCall(c) \/ Joined(c) \/ ProgressCall(c) \/ ProgressFormat(c) \/ ProgressMark(c)
  <2>1. UNCHANGED <<req, body, heap, callback, stream, sent, file, worker, ripping, overlap>>
    BY <1>6 DEF EncodeCall, Joined, ProgressCall, ProgressFormat, ProgressMark, conn, ext, hist
  <2>2. Free.step # "loop" /\ [Free EXCEPT !.by = c, !.step = "wait"].step # "loop"
    BY DEF Free
  <2>3. \/ call' = call
        \/ call.step # "loop" /\ (call'.step # "loop" \/ call'.out = <<>>)
    <3>1. CASE EncodeCall(c) BY <2>2, <3>1 DEF EncodeCall, Turn
    <3>2. CASE Joined(c) BY <2>2, <3>2 DEF Joined
    <3>3. CASE ProgressCall(c) BY <2>2, <3>3 DEF ProgressCall, Turn
    <3>4. CASE ProgressFormat(c)
      BY <3>4 DEF ProgressFormat, StreamInv, CallTypes
    <3>5. CASE ProgressMark(c) BY <2>2, <3>5 DEF ProgressMark
    <3> QED BY <1>6, <3>1, <3>2, <3>3, <3>4, <3>5
  <2>4. \A d \in Conns : Out(d)' = Out(d) BY <2>3, QuietOut, SameOut
  <2> QED BY <2>1, <2>4, SameConnAudio DEF Writing
<1> QED BY <1>1, <1>2, <1>3, <1>4, <1>5, <1>6 DEF Handle

-----------------------------------------------------------------------------
(* The extraction thread. *)

(* It sends nothing: the streams stay sound, when what they have opened is *)
(* still what they can read.                                               *)
LEMMA RipKeepsStreams ==
  ASSUME StreamInv, UNCHANGED <<req, callback, sent, call>>, overlap => overlap',
         \A c \in Conns : /\ \/ stream'[c] = stream[c]
                             \/ \E k : stream'[c] = [stream[c] EXCEPT !.cut = k]
                          /\ AudioStream(c) => Opened(c)'
  PROVE  AudioInv'
<1>1. ASSUME NEW c \in Conns PROVE AudioOk(c)'
  <2>1. AudioStream(c)' <=> AudioStream(c) BY DEF AudioStream
  <2>2. CASE AudioStream(c)
    <3>1. Sound(c) BY <2>2 DEF StreamInv, AudioInv, AudioOk
    <3>2. stream[c] \in StreamRecord BY StreamParts
    <3>3. Out(c)' = Out(c) BY SameOut
    <3>4. Sound(c)' BY <3>1, <3>2, <3>3, SoundStays
    <3> QED BY <2>1, <2>2, <3>4 DEF AudioOk
  <2>3. CASE ~AudioStream(c) BY <2>1, <2>3 DEF StreamInv, AudioInv, AudioOk
  <2> QED BY <2>2, <2>3
<1> QED BY <1>1 DEF AudioInv

(* What is opened is there as long as its track is not written. *)
LEMMA OpenedUnlessWritten ==
  ASSUME StreamInv, NEW c \in Conns, AudioStream(c), UNCHANGED <<req, ripping>>,
         stream'[c] = stream[c], overlap => overlap',
         file'[req[c].track].n = file[req[c].track].n \/ stream[c].cut # NoCut \/ overlap',
         \/ overlap' \/ req[c].track # ripping
         \/ Writing(req[c].track)' => Writing(req[c].track)
  PROVE  Opened(c)'
<1>1. Opened(c) BY DEF StreamInv, AudioInv, AudioOk
<1>2. Announced(c)' = Announced(c) BY DEF Announced
<1>3. CASE overlap' BY <1>1, <1>2, <1>3 DEF Opened
<1>4. CASE ~overlap'
  <2>1. Have(c)' = Have(c) BY <1>4 DEF Have
  <2>2. Writing(req[c].track)' => Writing(req[c].track) BY <1>4 DEF Writing
  <2> QED BY <1>1, <1>2, <1>4, <2>1, <2>2 DEF Opened
<1> QED BY <1>3, <1>4

LEMMA OpenTrackAudio ==
  ASSUME ServerInv, StreamInv, OpenTrack
  PROVE  AudioInv'
<1>1. /\ UNCHANGED <<req, callback, sent, call, ripping, stream>>
      /\ file' = [file EXCEPT ![ripping] = Emptied(file[ripping])]
      /\ overlap' = (overlap \/ Readers(ripping) # {})
  BY DEF OpenTrack, Rest
<1>2. ASSUME NEW c \in Conns, AudioStream(c) PROVE Opened(c)'
  <2>1. CASE req[c].track = ripping
    <3>1. overlap' BY <1>1, <1>2, <2>1 DEF Readers
    <3> QED BY <1>1, <1>2, <3>1, OpenedUnlessWritten
  <2>2. CASE req[c].track # ripping
    <3>1. req[c].track \in Tracks BY <1>2, HaveBounds
    <3>2. file'[req[c].track] = file[req[c].track]
      BY <1>1, <2>2, <3>1 DEF StreamInv, StreamTypes
    <3> QED BY <1>1, <1>2, <2>2, <3>2, OpenedUnlessWritten
  <2> QED BY <2>1, <2>2
<1> QED BY <1>1, <1>2, RipKeepsStreams

(* A stream of the track that is written was there when the writing began, *)
(* or opened it since.                                                     *)
LEMMA WritingOverlaps ==
  ASSUME StreamInv, NEW c \in Conns, AudioStream(c), req[c].track = ripping,
         worker \in {"write", "check", "end"}
  PROVE  overlap
<1>1. Opened(c) BY DEF StreamInv, AudioInv, AudioOk
<1> QED BY <1>1 DEF Opened, Writing

LEMMA WriteTrackAudio ==
  ASSUME ServerInv, StreamInv, WriteTrack
  PROVE  AudioInv'
<1>1. /\ UNCHANGED <<req, callback, sent, call, ripping, stream, overlap>>
      /\ file' = [file EXCEPT ![ripping].n = file[ripping].n + 1]
      /\ worker = "write"
  BY DEF WriteTrack, Work, Rest
<1>2. ASSUME NEW c \in Conns, AudioStream(c) PROVE Opened(c)'
  <2>1. CASE req[c].track = ripping
    <3>1. overlap' BY <1>1, <1>2, <2>1, WritingOverlaps
    <3> QED BY <1>1, <1>2, <3>1, OpenedUnlessWritten
  <2>2. CASE req[c].track # ripping
    <3>1. req[c].track \in Tracks BY <1>2, HaveBounds
    <3>2. file'[req[c].track] = file[req[c].track]
      BY <1>1, <2>2, <3>1 DEF StreamInv, StreamTypes
    <3> QED BY <1>1, <1>2, <2>2, <3>2, OpenedUnlessWritten
  <2> QED BY <2>1, <2>2
<1> QED BY <1>1, <1>2, RipKeepsStreams

LEMMA RemoveTrackAudio ==
  ASSUME ServerInv, StreamInv, RemoveTrack
  PROVE  AudioInv'
<1>1. /\ UNCHANGED <<req, callback, sent, call, ripping, overlap>>
      /\ file' = [file EXCEPT ![ripping].there = FALSE]
      /\ stream' = [c \in Conns |-> IF c \in Readers(ripping) /\ stream[c].cut = NoCut
                                     THEN [stream[c] EXCEPT !.cut = file[ripping].n]
                                     ELSE stream[c]]
      /\ worker \in {"write", "check"}
  BY DEF RemoveTrack, Rest
<1>2. ASSUME NEW c \in Conns, AudioStream(c) PROVE Opened(c)'
  <2>0. req[c].track \in Tracks BY <1>2, HaveBounds
  <2>1. CASE req[c].track = ripping
    <3>1. overlap' BY <1>1, <1>2, <2>1, WritingOverlaps
    <3>2. Opened(c) BY <1>2 DEF StreamInv, AudioInv, AudioOk
    <3>3. stream'[c].cut = stream[c].cut \/ stream'[c].cut = file[ripping].n
      BY <1>1, StreamParts DEF StreamRecord
    <3>4. file[ripping].n \in 0..Announced(c)
      BY <2>0, <2>1, TrackParts DEF Announced
    <3>5. Announced(c)' = Announced(c) BY <1>1 DEF Announced
    <3> QED BY <1>1, <3>1, <3>2, <3>3, <3>4, <3>5 DEF Opened
  <2>2. CASE req[c].track # ripping
    <3>1. file'[req[c].track] = file[req[c].track]
      BY <1>1, <2>0, <2>2 DEF StreamInv, StreamTypes
    <3>2. stream'[c] = stream[c] BY <1>1, <2>2 DEF Readers
    <3> QED BY <1>1, <1>2, <2>2, <3>1, <3>2, OpenedUnlessWritten
  <2> QED BY <2>1, <2>2
<1> QED BY <1>1, <1>2, RipKeepsStreams

LEMMA RipAudio ==
  ASSUME ServerInv, StreamInv, Rip
  PROVE  StreamTypes' /\ AudioInv'
<1>1. AudioInv'
  <2>1. CASE StartRip \/ CheckTrack \/ EndTrack \/ EndDisc \/ LeaveRip
    <3>1. /\ UNCHANGED <<req, callback, sent, call, stream, file, overlap>>
          /\ \A t : Writing(t)' => Writing(t)
      BY <2>1 DEF StartRip, CheckTrack, EndTrack, EndDisc, LeaveRip, Rest, Work, Writing
    <3>2. \A d \in Conns : /\ AudioStream(d) => req'[d] = req[d] /\ callback'[d] = callback[d]
                           /\ ~AudioStream(d) => ~AudioStream(d)'
      BY <3>1 DEF AudioStream
    <3> QED BY <3>1, <3>2, SameOut, QuietAudio
  <2> QED BY <2>1, OpenTrackAudio, WriteTrackAudio, RemoveTrackAudio DEF Rip
<1>2. /\ UNCHANGED <<req, callback, heap, body, sent>>
  BY DEF Rip, StartRip, OpenTrack, WriteTrack, CheckTrack, RemoveTrack, EndTrack, EndDisc,
         LeaveRip, Rest
<1>3. file' \in [Tracks -> FileRecord]
  <2>1. ServerInv' BY RipStep
  <2>2. \/ file' = file
        \/ \E g : file' = [file EXCEPT ![ripping] = g]
        \/ file' = [file EXCEPT ![ripping].n = file[ripping].n + 1]
        \/ file' = [file EXCEPT ![ripping].there = FALSE]
    BY DEF Rip, StartRip, OpenTrack, WriteTrack, CheckTrack, RemoveTrack, EndTrack, EndDisc,
           LeaveRip
  <2>3. file' = [t \in Tracks |-> file'[t]] BY <2>2 DEF StreamInv, StreamTypes
  <2> QED BY <2>1, <2>3 DEF ServerInv, FileInv
<1>4. stream' \in [Conns -> StreamRecord]
  <2>1. CASE RemoveTrack
    <3>1. ripping \in Tracks
      BY <2>1 DEF RemoveTrack, StreamInv, RipTypes
    <3>2. file[ripping].n \in Nat BY <3>1, TrackParts
    <3>3. \A c \in Conns : [stream[c] EXCEPT !.cut = file[ripping].n] \in StreamRecord
      BY <3>2, StreamParts DEF StreamRecord
    <3> QED BY <2>1, <3>3, StreamParts DEF RemoveTrack
  <2>2. CASE ~RemoveTrack
    <3>1. UNCHANGED stream
      BY <2>2 DEF Rip, StartRip, OpenTrack, WriteTrack, CheckTrack, EndTrack, EndDisc, LeaveRip
    <3> QED BY <3>1 DEF StreamInv, StreamTypes
  <2> QED BY <2>1, <2>2
<1> QED BY <1>1, <1>2, <1>3, <1>4 DEF StreamInv, StreamTypes

-----------------------------------------------------------------------------
(* The callback that holds the thread, the extraction thread and the       *)
(* lengths of its files.                                                   *)

LEMMA FreeCall == ASSUME call' = Free PROVE CallTypes'
<1>1. Free \in [by : Conns \cup {"free"}, step : Steps, out : Seq(Nat), max : Nat]
  <2>1. <<>> \in Seq(Nat) OBVIOUS
  <2> QED BY <2>1 DEF Free, Steps
<1>2. \A c \in Conns : Free.by # c BY ServerAssumption DEF Free
<1> QED BY <1>1, <1>2 DEF CallTypes

(* A callback takes the thread, or goes on with it. *)
LEMMA HeldCall ==
  ASSUME NEW c \in Conns, NEW step \in Steps \ {"none"}, NEW out \in Seq(Nat), NEW max \in Nat,
         call' = [by |-> c, step |-> step, out |-> out, max |-> max],
         phase'[c] = IF step = "join" THEN "ready" ELSE "stream",
         step = "loop" => callback'[c] = "encoder" /\ Len(out) <= max
  PROVE  CallTypes'
<1>1. call' \in [by : Conns \cup {"free"}, step : Steps, out : Seq(Nat), max : Nat]
  OBVIOUS
<1>2. call'.by = c /\ call'.step = step /\ call'.out = out /\ call'.max = max OBVIOUS
<1> QED BY <1>1, <1>2 DEF CallTypes

LEMMA SameCall ==
  ASSUME CallTypes, UNCHANGED call,
         call = Free \/ UNCHANGED <<phase, callback>>
  PROVE  CallTypes'
<1>1. CASE call = Free BY <1>1, FreeCall
<1>2. CASE UNCHANGED <<phase, callback>> BY <1>2 DEF CallTypes
<1> QED BY <1>1, <1>2

LEMMA AnswerCall ==
  ASSUME StreamInv, NEW c \in Conns, Answer(c)
  PROVE  CallTypes'
<1>1. CallTypes /\ call = Free /\ phase[c] = "ready" BY DEF StreamInv, Answer, Turn
<1>2. CASE CancelExtract(c) /\ status = EXTRACTING
  <2>1. call' = [Free EXCEPT !.by = c, !.step = "join"] /\ phase' = phase
    BY <1>2 DEF CancelExtract
  <2>2. call' = [by |-> c, step |-> "join", out |-> <<>>, max |-> 0] BY <2>1 DEF Free
  <2>3. <<>> \in Seq(Nat) /\ "join" \in Steps \ {"none"} BY DEF Steps
  <2> QED BY <1>1, <2>1, <2>2, <2>3, HeldCall
<1>3. CASE ~(CancelExtract(c) /\ status = EXTRACTING)
  <2>1. UNCHANGED call
    BY <1>3 DEF Answer, GetAudio, GetProgress, Extract, CancelExtract, CloseDrive, OpenDrive,
                PostCover
  <2> QED BY <1>1, <2>1, SameCall
<1> QED BY <1>2, <1>3

LEMMA HandleCall ==
  ASSUME ServerInv, StreamInv, NEW c \in Conns, Handle(c)
  PROVE  CallTypes'
<1>0. CallTypes BY DEF StreamInv
<1>1. CASE Answer(c) BY <1>1, AnswerCall
<1>2. CASE Joined(c) \/ ProgressMark(c)
  BY <1>2, FreeCall DEF Joined, ProgressMark
<1>3. CASE ReadFile(c) \/ Decode(c) \/ Complete(c)
  <2>1. call = Free /\ UNCHANGED call
    BY <1>3 DEF ReadFile, Decode, Complete, Release, Turn
  <2> QED BY <1>0, <2>1, SameCall
<1>4. CASE EncodeCall(c)
  <2>1. phase[c] = "stream" /\ callback[c] = "encoder" /\ call = Free /\ UNCHANGED callback
    BY <1>4 DEF EncodeCall, Streaming, Turn
  <2>2. \/ UNCHANGED call
        \/ /\ UNCHANGED phase
           /\ \E max \in Ask(c) : call' = [by |-> c, step |-> "loop", out |-> <<>>, max |-> max]
    BY <1>4 DEF EncodeCall
  <2>3. ASSUME UNCHANGED phase, NEW max \in Ask(c),
               call' = [by |-> c, step |-> "loop", out |-> <<>>, max |-> max]
        PROVE  CallTypes'
    <3>1. max \in Nat BY AskType
    <3>2. <<>> \in Seq(Nat) /\ Len(<<>>) <= max /\ "loop" \in Steps \ {"none"}
      BY <3>1 DEF Steps
    <3> QED BY <2>1, <2>3, <3>1, <3>2, HeldCall
  <2> QED BY <1>0, <2>1, <2>2, <2>3, SameCall
<1>5. CASE EncodeLoop(c)
  <2>1. call.by = c /\ call.step = "loop" /\ UNCHANGED callback BY <1>5 DEF EncodeLoop
  <2>2. phase[c] = "stream" /\ callback[c] = "encoder" /\ call.max \in Nat
    BY <1>0, <2>1 DEF CallTypes
  <2>3. PICK o \in Seq(Nat) :
          \/ call' = Free
          \/ call' = [call EXCEPT !.out = o] /\ Len(o) < call.max /\ UNCHANGED phase
    BY <1>5, EncodeRound
  <2>4. ASSUME call' = [call EXCEPT !.out = o], Len(o) < call.max, UNCHANGED phase
        PROVE  CallTypes'
    <3>1. call' = [by |-> c, step |-> "loop", out |-> o, max |-> call.max]
      BY <1>0, <2>1, <2>4 DEF CallTypes
    <3>2. Len(o) <= call.max /\ "loop" \in Steps \ {"none"} BY <2>2, <2>4 DEF Steps
    <3> QED BY <2>1, <2>2, <2>4, <3>1, <3>2, HeldCall
  <2> QED BY <2>3, <2>4, FreeCall
<1>6. CASE ProgressCall(c)
  <2>1. phase[c] = "stream" /\ call = Free BY <1>6 DEF ProgressCall, Streaming, Turn
  <2>2. \/ UNCHANGED call
        \/ UNCHANGED phase /\ call' = [Free EXCEPT !.by = c, !.step = "wait"]
    BY <1>6 DEF ProgressCall
  <2>3. ASSUME UNCHANGED phase, call' = [Free EXCEPT !.by = c, !.step = "wait"]
        PROVE  CallTypes'
    <3>1. call' = [by |-> c, step |-> "wait", out |-> <<>>, max |-> 0] BY <2>3 DEF Free
    <3>2. <<>> \in Seq(Nat) /\ "wait" \in Steps \ {"none"} /\ 0 \in Nat BY DEF Steps
    <3>3. phase'[c] = IF "wait" = "join" THEN "ready" ELSE "stream" BY <2>1, <2>3
    <3>4. "wait" # "loop" OBVIOUS
    <3> QED BY <3>1, <3>2, <3>3, <3>4, HeldCall
  <2> QED BY <1>0, <2>1, <2>2, <2>3, SameCall
<1>7. CASE ProgressFormat(c)
  <2>1. /\ call.by = c /\ call.step = "wait" /\ call' = [call EXCEPT !.step = "mark"]
        /\ UNCHANGED phase
    BY <1>7 DEF ProgressFormat, conn
  <2>2. phase[c] = "stream" /\ call.out \in Seq(Nat) /\ call.max \in Nat
    BY <1>0, <2>1 DEF CallTypes
  <2>3. call' = [by |-> c, step |-> "mark", out |-> call.out, max |-> call.max]
    BY <1>0, <2>1 DEF CallTypes
  <2>4. "mark" \in Steps \ {"none"} BY DEF Steps
  <2> QED BY <2>1, <2>2, <2>3, <2>4, HeldCall
<1> QED BY <1>1, <1>2, <1>3, <1>4, <1>5, <1>6, <1>7 DEF Handle

LEMMA CallTypesStep ==
  ASSUME ServerInv, StreamInv, [Next]_vars
  PROVE  CallTypes'
<1>0. CallTypes BY DEF StreamInv
<1>1. ASSUME NEW c \in Conns,
             (\E r \in Asked[c] : FirstCall(c, r)) \/ StoreData(c) \/ Leave(c)
      PROVE  CallTypes'
  <2>1. call = Free /\ UNCHANGED call
    BY <1>1 DEF FirstCall, StoreData, Leave, Release, Turn
  <2> QED BY <1>0, <2>1, SameCall
<1>2. ASSUME NEW c \in Conns, Handle(c) PROVE CallTypes' BY <1>2, HandleCall
<1>3. CASE Rip \/ UNCHANGED vars
  <2>1. UNCHANGED <<call, phase, callback>>
    BY <1>3 DEF Rip, StartRip, OpenTrack, WriteTrack, CheckTrack, RemoveTrack, EndTrack,
                EndDisc, LeaveRip, Rest, vars
  <2> QED BY <1>0, <2>1, SameCall
<1>4. CASE Stop
  <2>1. call = Free /\ UNCHANGED call BY <1>4 DEF Stop, Turn
  <2> QED BY <1>0, <2>1, SameCall
<1> QED BY <1>1, <1>2, <1>3, <1>4 DEF Next

(* A step that writes no file. *)
LEMMA SameRip ==
  ASSUME StreamInv, UNCHANGED <<file, worker, ripping, status, server, rips>>,
         pending' \in BOOLEAN, overlap' \in BOOLEAN
  PROVE  RipTypes' /\ Lengths'
<1>1. Lengths' BY DEF StreamInv, Lengths
<1>2. RipTypes' BY DEF StreamInv, RipTypes
<1> QED BY <1>1, <1>2

LEMMA StatusRip ==
  ASSUME StreamInv, UNCHANGED <<file, worker, ripping, pending, server, rips, overlap>>,
         status' \in {CLOSED, IDLE, EXTRACTING, CANCEL},
         status' > IDLE => worker # "off"
  PROVE  RipTypes' /\ Lengths'
<1>1. Lengths' BY DEF StreamInv, Lengths
<1>2. RipTypes' BY DEF StreamInv, RipTypes
<1> QED BY <1>1, <1>2

LEMMA ExtractRip ==
  ASSUME StreamInv, NEW c \in Conns, Extract(c)
  PROVE  RipTypes' /\ Lengths'
<1>0. pending \in BOOLEAN /\ overlap \in BOOLEAN BY DEF StreamInv, RipTypes
<1>1. CASE UNCHANGED ext
  <2>1. UNCHANGED <<file, worker, ripping, status, server, rips, pending, overlap>>
    BY <1>1 DEF Extract, ext, hist
  <2> QED BY <1>0, <2>1, SameRip
<1>2. CASE ~UNCHANGED ext
  <2>1. /\ status = IDLE /\ rips < MaxRips /\ pending' = TRUE /\ worker' = "start"
        /\ ripping' \in Ripped /\ rips' = rips + 1 /\ UNCHANGED <<file, status, server, overlap>>
    BY <1>2 DEF Extract, Reset, hist
  <2>2. ripping' \in Tracks /\ ripping' # NoTrack BY <2>1, ServerAssumption
  <2>3. rips' \in 0..MaxRips BY <2>1, ServerAssumption DEF StreamInv, RipTypes
  <2>4. Lengths' BY <2>1 DEF StreamInv, Lengths
  <2>5. RipTypes' BY <1>0, <2>1, <2>2, <2>3 DEF StreamInv, RipTypes
  <2> QED BY <2>4, <2>5
<1> QED BY <1>1, <1>2

LEMMA AnswerRip ==
  ASSUME StreamInv, NEW c \in Conns, Answer(c)
  PROVE  RipTypes' /\ Lengths'
<1>0. /\ pending \in BOOLEAN /\ overlap \in BOOLEAN
      /\ status \in {CLOSED, IDLE, EXTRACTING, CANCEL}
      /\ status > IDLE => worker # "off"
  BY DEF StreamInv, RipTypes
<1>1. CASE GetAudio(c)
  <2>1. UNCHANGED <<file, worker, ripping, status, pending, server, rips>>
        /\ (overlap' = overlap \/ \E t : overlap' = (overlap \/ Writing(t)))
    BY <1>1 DEF GetAudio, ext
  <2>2. overlap' \in BOOLEAN BY <1>0, <2>1
  <2> QED BY <1>0, <2>1, <2>2, SameRip
<1>2. CASE GetProgress(c) \/ PostCover(c)
  <2>1. UNCHANGED <<file, worker, ripping, status, pending, server, rips, overlap>>
    BY <1>2 DEF GetProgress, PostCover, ext, hist
  <2> QED BY <1>0, <2>1, SameRip
<1>3. CASE Extract(c) BY <1>3, ExtractRip
<1>4. CASE CancelExtract(c) \/ CloseDrive(c) \/ OpenDrive(c)
  <2>1. UNCHANGED <<file, worker, ripping, pending, server, rips, overlap>>
    BY <1>4 DEF CancelExtract, CloseDrive, OpenDrive, hist
  <2>2. \/ status' = status \/ status' \in {CLOSED, IDLE}
        \/ status' = CANCEL /\ status = EXTRACTING
    BY <1>4 DEF CancelExtract, CloseDrive, OpenDrive
  <2>3. /\ status' \in {CLOSED, IDLE, EXTRACTING, CANCEL}
        /\ status' > IDLE => worker # "off"
    BY <1>0, <2>2 DEF CLOSED, IDLE, EXTRACTING, CANCEL
  <2> QED BY <2>1, <2>3, StatusRip
<1> QED BY <1>1, <1>2, <1>3, <1>4 DEF Answer

LEMMA RipRip ==
  ASSUME ServerInv, StreamInv, Rip
  PROVE  RipTypes' /\ Lengths'
<1>0. RipTypes /\ Lengths BY DEF StreamInv
<1>1. UNCHANGED <<server, rips>> /\ pending' \in BOOLEAN /\ overlap' \in BOOLEAN
  BY <1>0 DEF Rip, StartRip, OpenTrack, WriteTrack, CheckTrack, RemoveTrack, EndTrack, EndDisc,
              LeaveRip, Rest, Report, RipTypes
<1>2. CASE LeaveRip
  <2>1. worker' = "off" /\ status' = IDLE /\ ripping' = NoTrack /\ UNCHANGED file
    BY <1>2 DEF LeaveRip, Work
  <2>2. ~(status' > IDLE) /\ status' \in {CLOSED, IDLE, EXTRACTING, CANCEL}
    BY <2>1 DEF IDLE
  <2>3. UNCHANGED <<server, rips>> BY <1>1
  <2>4. RipTypes' BY <1>0, <1>1, <2>1, <2>2, <2>3 DEF RipTypes
  <2>5. Lengths' BY <1>0, <2>1 DEF Lengths
  <2> QED BY <2>4, <2>5
<1>3. CASE ~LeaveRip
  <2>1. /\ worker # "off" /\ UNCHANGED ripping
        /\ worker' \in {"open", "write", "check", "end", "done", "leave"}
    BY <1>3 DEF Rip, StartRip, OpenTrack, WriteTrack, CheckTrack, RemoveTrack, EndTrack, EndDisc,
                Work
  <2>2. ripping \in Tracks BY <1>0, <2>1 DEF RipTypes
  <2>3. status' = status \/ status' = EXTRACTING
    BY <1>3 DEF Rip, StartRip, OpenTrack, WriteTrack, CheckTrack, RemoveTrack, EndTrack, EndDisc
  <2>4. RipTypes' BY <1>0, <1>1, <2>1, <2>2, <2>3 DEF RipTypes
  <2>5. /\ file \in [Tracks -> FileRecord]
        /\ \A t \in Tracks : /\ file[t].len = Library[t].len /\ file[t].n <= file[t].len
                              /\ file[t].n \in Nat /\ Library[t].len \in Nat /\ file[t].len >= 1
    BY TrackParts DEF StreamInv, StreamTypes
  <2>6. ASSUME UNCHANGED file,
               worker' = "write" => file[ripping].n < file[ripping].len
        PROVE  Lengths'
    BY <1>0, <2>1, <2>6 DEF Lengths
  <2>7. ASSUME NEW g, file' = [file EXCEPT ![ripping] = g],
               g.len = file[ripping].len, g.n <= g.len, worker' = "write" => g.n < g.len
        PROVE  Lengths'
    <3>1. file'[ripping] = g /\ \A t \in Tracks \ {ripping} : file'[t] = file[t]
      BY <2>2, <2>5, <2>7
    <3> QED BY <2>1, <2>2, <2>5, <2>7, <3>1 DEF Lengths
  <2>8. CASE StartRip \/ EndTrack \/ EndDisc
    <3>1. UNCHANGED file /\ worker' # "write"
      BY <2>8 DEF StartRip, EndTrack, EndDisc, Work
    <3> QED BY <2>4, <2>6, <3>1
  <2>9. CASE OpenTrack
    <3> DEFINE g == Emptied(file[ripping])
    <3>1. file' = [file EXCEPT ![ripping] = g] BY <2>9 DEF OpenTrack
    <3>2. g.len = file[ripping].len /\ g.n = 0 BY DEF Emptied
    <3>3. g.n <= g.len /\ g.n < g.len BY <2>2, <2>5, <3>2
    <3> HIDE DEF g
    <3> QED BY <2>4, <2>7, <3>1, <3>2, <3>3
  <2>10. CASE WriteTrack
    <3> DEFINE f == file[ripping]
               g == [f EXCEPT !.n = f.n + 1]
    <3>1. file' = [file EXCEPT ![ripping] = g] /\ worker' = "check" /\ worker = "write"
      BY <2>10 DEF WriteTrack, Work
    <3>2. g.len = f.len /\ g.n = f.n + 1 BY <2>2, <2>5 DEF FileRecord
    <3>3. f.n < f.len BY <1>0, <3>1 DEF Lengths
    <3>4. f.n \in Nat /\ f.len \in Nat BY <2>2, <2>5
    <3> HIDE DEF f, g
    <3>5. g.n <= g.len BY <3>2, <3>3, <3>4
    <3> QED BY <2>4, <2>7, <3>1, <3>2, <3>5 DEF f
  <2>11. CASE CheckTrack
    <3>1. UNCHANGED file /\ (worker' = "write" => file[ripping].n # file[ripping].len)
      BY <2>11 DEF CheckTrack
    <3>2. worker' = "write" => file[ripping].n < file[ripping].len BY <2>2, <2>5, <3>1
    <3> QED BY <2>4, <2>6, <3>1, <3>2
  <2>12. CASE RemoveTrack
    <3> DEFINE f == file[ripping]
               g == [f EXCEPT !.there = FALSE]
    <3>1. file' = [file EXCEPT ![ripping] = g] /\ worker' # "write"
      BY <2>12 DEF RemoveTrack
    <3>2. g.len = f.len /\ g.n = f.n BY <2>2, <2>5 DEF FileRecord
    <3>3. f.n <= f.len BY <2>2, <2>5
    <3> HIDE DEF g
    <3> QED BY <2>4, <2>7, <3>1, <3>2, <3>3
  <2> QED BY <1>3, <2>8, <2>9, <2>10, <2>11, <2>12 DEF Rip
<1> QED BY <1>2, <1>3

LEMMA RipTypesStep ==
  ASSUME ServerInv, StreamInv, [Next]_vars
  PROVE  RipTypes' /\ Lengths'
<1>0. pending \in BOOLEAN /\ overlap \in BOOLEAN BY DEF StreamInv, RipTypes
<1>1. ASSUME NEW c \in Conns,
             \/ (\E r \in Asked[c] : FirstCall(c, r)) \/ StoreData(c) \/ Leave(c)
             \/ Complete(c) \/ ReadFile(c) \/ Decode(c) \/ EncodeCall(c) \/ EncodeLoop(c)
             \/ ProgressCall(c) \/ ProgressFormat(c)
      PROVE  RipTypes' /\ Lengths'
  <2>1. UNCHANGED <<file, worker, ripping, status, pending, server, rips, overlap>>
    BY <1>1 DEF FirstCall, StoreData, Leave, Complete, Release, ReadFile, Decode, EncodeCall,
                EncodeLoop, ProgressCall, ProgressFormat, ext, hist
  <2> QED BY <1>0, <2>1, SameRip
<1>2. ASSUME NEW c \in Conns, Joined(c) \/ ProgressMark(c) PROVE RipTypes' /\ Lengths'
  <2>1. /\ UNCHANGED <<file, worker, ripping, status, server, rips, overlap>>
        /\ pending' \in BOOLEAN
    BY <1>2 DEF Joined, ProgressMark, Reset, hist
  <2> QED BY <1>0, <2>1, SameRip
<1>3. ASSUME NEW c \in Conns, Answer(c) PROVE RipTypes' /\ Lengths' BY <1>3, AnswerRip
<1>4. CASE Rip BY <1>4, RipRip
<1>5. CASE Stop
  <2>1. UNCHANGED <<file, worker, ripping, status, pending, rips, overlap>> /\ server' = "stopped"
    BY <1>5 DEF Stop, ext, hist
  <2>2. Lengths' BY <2>1 DEF StreamInv, Lengths
  <2>3. RipTypes' BY <2>1 DEF StreamInv, RipTypes
  <2> QED BY <2>2, <2>3
<1>6. CASE UNCHANGED vars
  <2>1. UNCHANGED <<file, worker, ripping, status, pending, server, rips, overlap>>
    BY <1>6 DEF vars
  <2> QED BY <1>0, <2>1, SameRip
<1> QED BY <1>1, <1>2, <1>3, <1>4, <1>5, <1>6 DEF Next, Handle

-----------------------------------------------------------------------------
LEMMA InitStreamInv == Init => StreamInv
<1> SUFFICES ASSUME Init PROVE StreamInv
  OBVIOUS
<1>1. StreamTypes
  <2>1. <<>> \in Seq(Nat) OBVIOUS
  <2> QED BY <2>1, NoStreamType, ServerAssumption DEF Init, StreamTypes
<1>2. CallTypes
  <2>1. \A c \in Conns : call.by # c BY ServerAssumption DEF Init, Free
  <2>2. <<>> \in Seq(Nat) OBVIOUS
  <2>3. call \in [by : Conns \cup {"free"}, step : Steps, out : Seq(Nat), max : Nat]
    BY <2>2 DEF Init, Free, Steps
  <2> QED BY <2>1, <2>3 DEF CallTypes, Init
<1>3. RipTypes
  <2>1. status \in {CLOSED, IDLE} /\ ~(status > IDLE) BY DEF Init, CLOSED, IDLE
  <2>2. rips \in 0..MaxRips BY ServerAssumption DEF Init
  <2> QED BY <2>1, <2>2 DEF Init, RipTypes
<1>4. Lengths BY ServerAssumption, LibraryAssumption DEF Init, Lengths
<1>5. AudioInv BY DEF Init, AudioInv, AudioOk, AudioStream
<1> QED BY <1>1, <1>2, <1>3, <1>4, <1>5 DEF StreamInv

LEMMA StreamInvStep == ServerInv /\ StreamInv /\ [Next]_vars => StreamInv'
<1> SUFFICES ASSUME ServerInv, StreamInv, [Next]_vars PROVE StreamInv'
  OBVIOUS
<1>1. CallTypes' /\ RipTypes' /\ Lengths' BY CallTypesStep, RipTypesStep
<1>2. StreamTypes' /\ AudioInv'
  <2>1. ASSUME NEW c \in Conns, NEW r \in Asked[c], FirstCall(c, r)
        PROVE  StreamTypes' /\ AudioInv'
    BY <2>1, FirstAudio
  <2>2. ASSUME NEW c \in Conns, StoreData(c) PROVE StreamTypes' /\ AudioInv'
    BY <2>2, DataAudio
  <2>3. ASSUME NEW c \in Conns, Leave(c) PROVE StreamTypes' /\ AudioInv'
    BY <2>3, ReleaseAudio DEF Leave, Turn
  <2>4. ASSUME NEW c \in Conns, Handle(c) PROVE StreamTypes' /\ AudioInv'
    BY <2>4, HandleAudio
  <2>5. CASE Rip BY <2>5, RipAudio
  <2>6. CASE Stop \/ UNCHANGED vars
    <3>1. UNCHANGED <<req, body, heap, callback, stream, sent, call, file, worker, ripping, overlap>>
      BY <2>6 DEF Stop, ext, hist, vars
    <3> QED BY <3>1, SameOut, SameConnAudio DEF Writing
  <2> QED BY <2>1, <2>2, <2>3, <2>4, <2>5, <2>6 DEF Next
<1> QED BY <1>1, <1>2 DEF StreamInv

LEMMA StreamInvAlways == Spec => [](ServerInv /\ StreamInv)
<1>1. Init => ServerInv /\ CallInv /\ StreamInv
  BY InitServerInv, InitStreamInv DEF Init, CallInv, Free
<1>2. (ServerInv /\ CallInv /\ StreamInv) /\ [Next]_vars => (ServerInv /\ CallInv /\ StreamInv)'
  BY NextStep, CallStep, StreamInvStep
<1> QED BY <1>1, <1>2, PTL DEF Spec

(* The state of the server has its types: the thread is held only for a    *)
(* connection that is being served, bytes_left stays within its width, and *)
(* the drive is busy only while there is an extraction thread.             *)
THEOREM ServerTypeCorrect == Spec => []TypeOK
  BY StreamInvAlways, InvMeansTypeOK, PTL

(* Whatever connections stream whatever tracks in whatever formats, read   *)
(* in blocks of whatever size, and however the extraction thread empties,  *)
(* writes and removes the files meanwhile: a client gets the blocks of the *)
(* track in order, none missing and none twice, and a response that        *)
(* reached its size over a file nobody wrote is whole                      *)
(* (api_callback_file_reader, flac_read, write_flac_to_buffer).            *)
THEOREM AudioAlwaysInOrder == Spec => []SentIsContent
  BY StreamInvAlways, InvMeansSentIsContent, PTL

=============================================================================
