---------------------------- MODULE DriveProofs ----------------------------
(***************************************************************************)
(* Proofs about Drive, for any number of discs and extraction threads.     *)
(***************************************************************************)
EXTENDS Drive, TLAPS

----------------------------------------------------------------------------
(* Records keep their type under the updates the model makes. *)

LEMMA InfoFields ==
  ASSUME NEW i \in DiscInfo
  PROVE  i.toc \in Discs /\ i.complete \in BOOLEAN /\ i.extracted \in BOOLEAN
  BY DEF DiscInfo

LEMMA PreparedType ==
  ASSUME info = None \/ info \in DiscInfo, drv \in Discs
  PROVE  Prepared \in DiscInfo
  BY DEF Prepared, DiscInfo

LEMMA FetchedType ==
  ASSUME NEW i \in DiscInfo, NEW c \in BOOLEAN
  PROVE  Fetched(i, c) \in DiscInfo
  BY DEF Fetched, DiscInfo

LEMMA ReadBackType ==
  ASSUME NEW i \in DiscInfo, NEW c \in BOOLEAN
  PROVE  ReadBack(i, c) \in DiscInfo
  BY DEF ReadBack, DiscInfo

LEMMA ExtractedType ==
  ASSUME NEW i \in DiscInfo
  PROVE  Extracted(i) \in DiscInfo
  BY DEF Extracted, DiscInfo

LEMMA ThreadStarted ==
  ASSUME NEW t \in Workers
  PROVE  [id |-> t, joined |-> FALSE] \in ThreadRef
  BY DEF ThreadRef

LEMMA ThreadJoined ==
  ASSUME NEW r \in ThreadRef
  PROVE  [r EXCEPT !.joined = TRUE] \in ThreadRef
  BY DEF ThreadRef

LEMMA StoredType ==
  ASSUME library \in [Discs -> {"absent", "known", "extracted"}],
         NEW i \in DiscInfo, NEW o \in BOOLEAN
  PROVE  Stored(i, o) \in [Discs -> {"absent", "known", "extracted"}]
  BY DEF Stored

----------------------------------------------------------------------------
(* Types *)

\* The disc_info a lookup works on is there: only the HTTP thread frees it.
LookupHasInfo == http \in {"lookup", "query"} => info # None

TypeInv == TypeOK /\ LookupHasInfo

LEMMA InitTypeInv == Init => TypeInv
  BY DEF Init, TypeInv, TypeOK, LookupHasInfo, HttpPlaces, WorkerPlaces, Codes,
     ThreadRef,
     CDE_STATUS_INITIALIZED, CDE_STATUS_CANCEL

LEMMA NextTypeInv == TypeInv /\ [Next]_vars => TypeInv'
<1> SUFFICES ASSUME TypeInv, [Next]_vars
             PROVE  TypeInv'
  OBVIOUS
<1> USE DistinctPointers
    DEF TypeInv, TypeOK, LookupHasInfo, HttpPlaces, WorkerPlaces,
        Codes, Reply, Crash, Goto, Opened, DriveFound, CloseDrv, cde, world,
        front, CDE_STATUS_INITIALIZED, CDE_STATUS_IDLE, CDE_STATUS_PREPARING,
        CDE_STATUS_EXTRACTING, CDE_STATUS_CANCEL
<1>1. CASE UserLoadsDisc
  BY <1>1 DEF UserLoadsDisc
<1>2. CASE OpenDrive
  BY <1>2 DEF OpenDrive, Ready
<1>3. CASE CloseDrive
  BY <1>3 DEF CloseDrive, Ready
<1>4. CASE GetDisc
  BY <1>4, PreparedType DEF GetDisc, Ready, AnswerGetDisc, Preparable, NeedsInfo
<1>5. CASE EjectDisc
  BY <1>5 DEF EjectDisc, Ready, Ejectable
<1>6. CASE ExtractDisc
  BY <1>6, ThreadStarted DEF ExtractDisc, Ready
<1>7. CASE CancelDisc
  BY <1>7 DEF CancelDisc, Ready, Cancellable
<1>8. CASE LookupDisc
  BY <1>8, ReadBackType DEF LookupDisc
<1>9. CASE QueryDisc
  BY <1>9, FetchedType, StoredType DEF QueryDisc
<1>10. CASE CancelRequest
  BY <1>10 DEF CancelRequest, Cancellable
<1>11. CASE CancelJoined
  BY <1>11, ThreadJoined DEF CancelJoined, JoinReturns
<1>12. ASSUME NEW t \in Workers, Worker(t)
       PROVE  TypeInv'
  <2>1. CASE WorkerStart(t)
    BY <2>1 DEF WorkerStart, At, FreeGarbage
  <2>2. CASE WorkerOpenDrive(t)
    BY <2>2 DEF WorkerOpenDrive, At
  <2>3. CASE WorkerPrepare(t)
    BY <2>3, PreparedType DEF WorkerPrepare, At, Preparable
  <2>4. CASE WorkerFetch(t)
    BY <2>4 DEF WorkerFetch, At
  <2>5. CASE WorkerFetched(t)
    BY <2>5, FetchedType DEF WorkerFetched, At
  <2>6. CASE WorkerCheckCancel(t)
    BY <2>6 DEF WorkerCheckCancel, At
  <2>7. CASE WorkerGo(t)
    BY <2>7 DEF WorkerGo, At
  <2>8. CASE WorkerSetup(t)
    BY <2>8 DEF WorkerSetup, At
  <2>9. CASE WorkerRip(t)
    BY <2>9 DEF WorkerRip, At
  <2>10. CASE WorkerDone(t)
    <3>1. CASE info = None
      BY <2>10, <3>1 DEF WorkerDone, At
    <3>2. CASE info # None
      <4>1. /\ info' = Extracted(info)
            /\ Goto(t, "finish")
            /\ UNCHANGED <<status, drv, media, front, rip, server>>
        BY ONLY <2>10, <3>2 DEF WorkerDone, At
      <4>2. info' \in DiscInfo
        BY <3>2, <4>1, ExtractedType
      <4>3. library' = Stored(info', TRUE) \/ library' = library
        BY ONLY <2>10, <3>2 DEF WorkerDone, At
      <4>4. Stored(info', TRUE) \in [Discs -> {"absent", "known", "extracted"}]
        BY <4>2, StoredType
      <4>5. library \in [Discs -> {"absent", "known", "extracted"}]
        OBVIOUS
      <4>6. library' \in [Discs -> {"absent", "known", "extracted"}]
        BY ONLY <4>3, <4>4, <4>5, Zenon
      <4> QED
        BY <3>2, <4>1, <4>2, <4>6
    <3> QED
      BY <3>1, <3>2
  <2>11. CASE WorkerFinish(t)
    BY <2>11 DEF WorkerFinish, At
  <2> QED
    BY <1>12, <2>1, <2>2, <2>3, <2>4, <2>5, <2>6, <2>7, <2>8, <2>9, <2>10,
       <2>11 DEF Worker
<1>13. CASE UNCHANGED vars
  BY <1>13 DEF vars
<1> QED
  BY <1>1, <1>2, <1>3, <1>4, <1>5, <1>6, <1>7, <1>8, <1>9, <1>10, <1>11,
     <1>12, <1>13 DEF Next, Handler, HttpStep

\* Every variable of the drive model keeps its type, and a lookup keeps the
\* disc_info it works on.
THEOREM TypeInvCorrect == Spec => []TypeInv
  BY InitTypeInv, NextTypeInv, PTL DEF Spec

\* Type correctness of the drive, its disc_info, the HTTP thread and the
\* extraction threads.
THEOREM TypeCorrect == Spec => []TypeOK
<1>1. TypeInv => TypeOK
  BY DEF TypeInv
<1> QED
  BY <1>1, TypeInvCorrect, PTL

----------------------------------------------------------------------------
(* A locked drive has an owner *)

LEMMA InitBusyHasOwner == Init => BusyHasOwner
  BY DEF Init, BusyHasOwner, Busy, CDE_STATUS_INITIALIZED, CDE_STATUS_IDLE

LEMMA NextBusyHasOwner ==
  TypeOK /\ BusyHasOwner /\ [Next]_vars => BusyHasOwner'
<1> SUFFICES ASSUME TypeOK, BusyHasOwner, [Next]_vars
             PROVE  BusyHasOwner'
  OBVIOUS
<1>0. status \in 1 .. 5 /\ pc \in [Workers -> WorkerPlaces]
  BY DEF TypeOK, CDE_STATUS_INITIALIZED, CDE_STATUS_CANCEL
<1> USE <1>0
    DEF BusyHasOwner, Busy, Owned, OwnerPlaces, Goto, CDE_STATUS_INITIALIZED,
        CDE_STATUS_IDLE, CDE_STATUS_PREPARING, CDE_STATUS_EXTRACTING,
        CDE_STATUS_CANCEL
<1>1. ASSUME UNCHANGED <<status, http, pc>>
      PROVE  BusyHasOwner'
  BY <1>1
<1>2. ASSUME Crash
      PROVE  BusyHasOwner'
  BY <1>1, <1>2 DEF Crash, cde, front
<1>3. CASE UserLoadsDisc
  BY <1>1, <1>3 DEF UserLoadsDisc, cde, front
<1>4. CASE Handler
  <2>1. CASE OpenDrive
    BY <2>1 DEF OpenDrive, Ready
  <2>2. CASE CloseDrive
    BY <2>2 DEF CloseDrive, Ready, CloseDrv
  <2>3. CASE GetDisc
    BY <2>3 DEF GetDisc, Ready, AnswerGetDisc
  <2>4. CASE EjectDisc
    BY <2>4 DEF EjectDisc, Ready, CloseDrv, cde
  <2>5. CASE ExtractDisc
    BY <2>5 DEF ExtractDisc, Ready, cde
  <2>6. CASE CancelDisc
    BY <2>6 DEF CancelDisc, Ready, cde
  <2> QED
    BY <1>4, <2>1, <2>2, <2>3, <2>4, <2>5, <2>6 DEF Handler
<1>5. CASE HttpStep
  <2>1. CASE LookupDisc
    BY <2>1 DEF LookupDisc
  <2>2. CASE QueryDisc
    BY <2>2 DEF QueryDisc
  <2>3. CASE CancelRequest
    BY <2>3 DEF CancelRequest, Cancellable
  <2>4. CASE CancelJoined
    BY <1>2, <2>4 DEF CancelJoined, cde
  <2> QED
    BY <1>5, <2>1, <2>2, <2>3, <2>4 DEF HttpStep
<1>6. ASSUME NEW t \in Workers, Worker(t)
      PROVE  BusyHasOwner'
  <2>1. CASE WorkerStart(t)
    BY <1>2, <2>1 DEF WorkerStart, At, FreeGarbage, cde, front
  <2>2. CASE WorkerOpenDrive(t)
    BY <1>2, <2>2 DEF WorkerOpenDrive, At, cde, front
  <2>3. CASE WorkerPrepare(t)
    BY <2>3 DEF WorkerPrepare, At, front
  <2>4. CASE WorkerFetch(t)
    BY <1>2, <2>4 DEF WorkerFetch, At, front
  <2>5. CASE WorkerFetched(t)
    BY <1>2, <2>5 DEF WorkerFetched, At, front
  <2>6. CASE WorkerCheckCancel(t)
    BY <2>6 DEF WorkerCheckCancel, At, cde, front
  <2>7. CASE WorkerGo(t)
    BY <2>7 DEF WorkerGo, At, front
  <2>8. CASE WorkerSetup(t)
    BY <1>2, <2>8 DEF WorkerSetup, At, cde, front
  <2>9. CASE WorkerRip(t)
    BY <1>2, <2>9 DEF WorkerRip, At, cde, front
  <2>10. CASE WorkerDone(t)
    BY <1>2, <2>10 DEF WorkerDone, At, front
  <2>11. CASE WorkerFinish(t)
    BY <2>11 DEF WorkerFinish, At, front
  <2> QED
    BY <1>6, <2>1, <2>2, <2>3, <2>4, <2>5, <2>6, <2>7, <2>8, <2>9, <2>10,
       <2>11 DEF Worker
<1>7. CASE UNCHANGED vars
  BY <1>1, <1>7 DEF vars
<1> QED
  BY <1>3, <1>4, <1>5, <1>6, <1>7 DEF Next

\* Whatever the interleaving of requests and extraction threads, PREPARING,
\* EXTRACTING and CANCEL have somebody behind them who will reset them.
THEOREM BusyAlwaysHasOwner == Spec => []BusyHasOwner
  BY InitBusyHasOwner, NextBusyHasOwner, TypeCorrect, PTL DEF Spec
----------------------------------------------------------------------------
(* No crash, when requests wait until a new thread has set the status *)

Starting == {"created", "armed", "go"}
Ripping  == {"setup", "ripping", "ripped", "finish"}

\* The inductive invariant: there is at most one extraction thread, which is
\* cde->thread and not joined; while it starts, the drive is idle and open
\* and the HTTP thread waits; while it rips, the status keeps every handler
\* from the drive and the disc_info.
PromptInv ==
    /\ server = "up"
    /\ \A t \in Workers : Running(t) =>
         /\ pc[t] \in Starting \cup Ripping
         /\ thread.id = t /\ ~thread.joined
         /\ drv \in Discs /\ info # None
         /\ http \notin {"lookup", "query"}
         /\ \A u \in Workers : Running(u) => u = t
    /\ \A t \in Workers : pc[t] \in Starting =>
         status = CDE_STATUS_IDLE /\ http = "ready"
    /\ \A t \in Workers : pc[t] \in Ripping =>
         status \in {CDE_STATUS_EXTRACTING, CDE_STATUS_CANCEL}
    /\ \A t \in Workers : pc[t] \in {"ripping", "ripped"} => rip[t] = drv
    /\ http \in {"request", "cancelled", "refused"} => ~thread.joined

LEMMA InitPromptInv == Init => PromptInv
  BY DEF Init, PromptInv, Running, Starting, Ripping

\* A step of the only extraction thread, to a place x whose status it holds,
\* keeps the invariant.
LEMMA OnlyThreadSteps ==
  ASSUME pc \in [Workers -> WorkerPlaces], PromptInv,
         NEW t \in Workers, pc[t] \in Starting \cup Ripping,
         NEW x, Goto(t, x),
         UNCHANGED <<drv, http, thread, server>>,
         info' # None,
         x \in Starting => status' = CDE_STATUS_IDLE /\ http = "ready",
         x \in Ripping => status' \in {CDE_STATUS_EXTRACTING, CDE_STATUS_CANCEL},
         x \in {"ripping", "ripped"} => rip'[t] = drv,
         x \in Starting \cup Ripping \cup {"ended"}
  PROVE  PromptInv'
<1>1. Running(t)
  BY DEF Running, Starting, Ripping
<1>2. /\ server = "up" /\ thread.id = t /\ ~thread.joined /\ drv \in Discs
      /\ http \notin {"lookup", "query"}
      /\ \A u \in Workers \ {t} : pc[u] = "ended"
  BY <1>1 DEF PromptInv, Running
<1>3. /\ pc'[t] = x
      /\ \A u \in Workers \ {t} : pc'[u] = "ended"
  BY <1>2 DEF Goto
<1>4. /\ server' = "up" /\ thread'.id = t /\ ~thread'.joined /\ drv' \in Discs
      /\ drv' = drv /\ http' = http
  BY <1>2
<1>5. \A u \in Workers : pc'[u] # "ended" => u = t /\ x # "ended"
  BY <1>3
<1> QED
  BY <1>2, <1>3, <1>4, <1>5 DEF PromptInv, Running, Starting, Ripping

LEMMA NextPromptInv ==
  PromptStart /\ TypeInv /\ BusyHasOwner /\ PromptInv /\ [Next]_vars
    => PromptInv'
<1> SUFFICES ASSUME PromptStart, TypeInv, BusyHasOwner, PromptInv, [Next]_vars
             PROVE  PromptInv'
  OBVIOUS
<1>0. /\ status \in 1 .. 5
      /\ pc \in [Workers -> WorkerPlaces]
      /\ rip \in [Workers -> Discs \cup {None, Freed}]
      /\ drv \in Discs \cup {None, Unopened}
      /\ thread \in ThreadRef
  BY DEF TypeInv, TypeOK, CDE_STATUS_INITIALIZED, CDE_STATUS_CANCEL
<1> USE <1>0, DistinctPointers
    DEF PromptInv, Running, Starting, Ripping, Goto, cde, front, world,
        CDE_STATUS_INITIALIZED, CDE_STATUS_IDLE, CDE_STATUS_PREPARING,
        CDE_STATUS_EXTRACTING, CDE_STATUS_CANCEL
<1>1. CASE UserLoadsDisc
  BY <1>1 DEF UserLoadsDisc
<1>2. CASE Handler
  <2>1. CASE OpenDrive
    BY <2>1 DEF OpenDrive, Ready, DriveFound, Opened
  <2>2. CASE CloseDrive
    BY <2>2 DEF CloseDrive, Ready, CloseDrv
  <2>3. CASE GetDisc
    BY <2>3 DEF GetDisc, Ready, AnswerGetDisc, NeedsInfo, Preparable, Opened
  <2>4. CASE EjectDisc
    BY <2>4 DEF EjectDisc, Ready, CloseDrv, Ejectable
  <2>5. CASE ExtractDisc
    BY <2>5 DEF ExtractDisc, Ready, Opened
  <2>6. CASE CancelDisc
    BY <2>6 DEF CancelDisc, Ready, Cancellable, Opened, BusyHasOwner, Busy,
       Owned, OwnerPlaces
  <2> QED
    BY <1>2, <2>1, <2>2, <2>3, <2>4, <2>5, <2>6 DEF Handler
<1>3. CASE HttpStep
  <2>1. CASE LookupDisc
    BY <2>1 DEF LookupDisc
  <2>2. CASE QueryDisc
    BY <2>2 DEF QueryDisc
  <2>3. CASE CancelRequest
    BY <2>3 DEF CancelRequest, Cancellable
  <2>4. CASE CancelJoined
    BY <2>4 DEF CancelJoined, JoinReturns
  <2> QED
    BY <1>3, <2>1, <2>2, <2>3, <2>4 DEF HttpStep
<1>4. ASSUME NEW t \in Workers, Worker(t)
      PROVE  PromptInv'
  <2>1. pc[t] \in Starting \cup Ripping
    BY <1>4 DEF Worker, At, WorkerStart, WorkerOpenDrive, WorkerPrepare,
       WorkerFetch, WorkerFetched, WorkerCheckCancel, WorkerGo, WorkerSetup,
       WorkerRip, WorkerDone, WorkerFinish
  <2>2. /\ drv \in Discs /\ drv # None /\ info # None
        /\ pc[t] \in Starting => status = CDE_STATUS_IDLE /\ http = "ready"
        /\ pc[t] \in Ripping =>
             status \in {CDE_STATUS_EXTRACTING, CDE_STATUS_CANCEL}
        /\ pc[t] \in {"ripping", "ripped"} => rip[t] = drv /\ rip[t] # Freed
    BY <2>1
  <2> HIDE DEF PromptInv, Goto
  <2>3. CASE WorkerStart(t)
    <3>1. Goto(t, "armed") /\ UNCHANGED <<cde, world, front, rip, server>>
      BY <2>2, <2>3 DEF WorkerStart, At
    <3>2. pc[t] \in Starting
      BY <2>3 DEF WorkerStart, At
    <3> QED
      BY <2>1, <2>2, <3>1, <3>2, OnlyThreadSteps
  <2>4. CASE WorkerCheckCancel(t)
    <3>1. PICK x \in {"finish", "go"} : Goto(t, x) /\ (x = "finish" => status = CDE_STATUS_CANCEL)
      BY <2>4 DEF WorkerCheckCancel, At
    <3>2. pc[t] \in Starting /\ UNCHANGED <<cde, world, front, rip, server>>
      BY <2>4 DEF WorkerCheckCancel, At
    <3> QED
      BY <2>1, <2>2, <3>1, <3>2, OnlyThreadSteps
  <2>5. CASE WorkerGo(t)
    <3>1. /\ Goto(t, "setup") /\ status' = CDE_STATUS_EXTRACTING
          /\ UNCHANGED <<drv, info, world, front, rip, server>>
      BY <2>5 DEF WorkerGo, At
    <3> QED
      BY <2>1, <2>2, <3>1, OnlyThreadSteps
  <2>6. CASE WorkerSetup(t)
    <3>1. /\ UNCHANGED <<cde, world, front, server>>
          /\ Goto(t, "finish") \/ (Goto(t, "ripping") /\ rip' = [rip EXCEPT ![t] = drv])
      BY <2>2, <2>6 DEF WorkerSetup, At
    <3>2. pc[t] \in Ripping
      BY <2>6 DEF WorkerSetup, At
    <3> QED
      BY <2>1, <2>2, <3>1, <3>2, OnlyThreadSteps
  <2>7. CASE WorkerRip(t)
    <3>1. pc[t] \in Ripping /\ pc[t] \in {"ripping", "ripped"}
      BY <2>7 DEF WorkerRip, At
    <3>2. /\ UNCHANGED <<cde, world, front, rip, server>>
          /\ Goto(t, "finish") \/ Goto(t, "ripped")
      BY <2>2, <2>7, <3>1 DEF WorkerRip, At
    <3> QED
      BY <2>1, <2>2, <3>1, <3>2, OnlyThreadSteps
  <2>8. CASE WorkerDone(t)
    <3>1. /\ info' = Extracted(info) /\ Goto(t, "finish")
          /\ UNCHANGED <<status, drv, media, front, rip, server>>
      BY <2>2, <2>8 DEF WorkerDone, At
    <3>2. info \in DiscInfo
      BY <2>2 DEF TypeInv, TypeOK
    <3>3. info' # None
      BY <3>1, <3>2, ExtractedType
    <3>4. pc[t] \in Ripping
      BY <2>8 DEF WorkerDone, At
    <3> QED
      BY <2>1, <2>2, <3>1, <3>3, <3>4, OnlyThreadSteps
  <2>9. CASE WorkerFinish(t)
    <3>1. /\ Goto(t, "ended")
          /\ UNCHANGED <<drv, info, world, front, server>>
      BY <2>9 DEF WorkerFinish, At
    <3> QED
      BY <2>1, <2>2, <3>1, OnlyThreadSteps
  <2>10. ~(WorkerOpenDrive(t) \/ WorkerPrepare(t) \/ WorkerFetch(t) \/ WorkerFetched(t))
    BY <2>1 DEF At, WorkerOpenDrive, WorkerPrepare, WorkerFetch, WorkerFetched
  <2> QED
    BY <1>4, <2>3, <2>4, <2>5, <2>6, <2>7, <2>8, <2>9, <2>10 DEF Worker
<1>5. CASE UNCHANGED vars
  BY <1>5 DEF vars
<1> QED
  BY <1>1, <1>2, <1>3, <1>4, <1>5 DEF Next

\* The inductive invariant holds when no request arrives before a new thread
\* reports EXTRACTING.
THEOREM PromptInvCorrect ==
  ASSUME PromptStart
  PROVE  Spec => []PromptInv
<1>1. PromptStart
  OBVIOUS
<1>2. TypeInv /\ BusyHasOwner /\ PromptInv /\ [Next]_vars => PromptInv'
  BY <1>1, NextPromptInv
<1> QED
  BY <1>2, InitPromptInv, TypeInvCorrect, BusyAlwaysHasOwner, PTL DEF Spec

\* No thread uses a drive or a disc_info that a handler has freed.
THEOREM PromptNoCrash ==
  ASSUME PromptStart
  PROVE  Spec => []NoCrash
<1>1. PromptInv => NoCrash
  BY DEF PromptInv, NoCrash
<1> QED
  BY <1>1, PromptInvCorrect, PTL

\* The thread that reads the disc is the only one, holds the lock the
\* handlers look at, and reads the drive cde->drv points to.
THEOREM PromptHoldsLock ==
  ASSUME PromptStart
  PROVE  Spec => []ExtractionHoldsLock
<1>1. PromptInv => ExtractionHoldsLock
  BY DEF PromptInv, ExtractionHoldsLock, Running, Ripping
<1> QED
  BY <1>1, PromptInvCorrect, PTL

\* Once DELETE /disc/extract is answered no extraction thread is left, and
\* the drive is not locked.
THEOREM PromptCancelLeavesNone ==
  ASSUME PromptStart
  PROVE  Spec => CancelLeavesNone
<1>1. PromptInv /\ BusyHasOwner /\ [Next]_vars =>
        [CancelJoined => ~Busy /\ \A t \in Workers : ~Running(t)]_vars
  <2> SUFFICES ASSUME PromptInv, BusyHasOwner, CancelJoined
               PROVE  ~Busy /\ \A t \in Workers : ~Running(t)
    OBVIOUS
  <2>1. http \in {"cancelled", "refused"} /\ pc[thread.id] = "ended"
    BY DEF CancelJoined, JoinReturns
  <2>2. \A t \in Workers : ~Running(t)
    BY <2>1 DEF PromptInv, Running
  <2> QED
    BY <2>1, <2>2 DEF BusyHasOwner, Owned, OwnerPlaces, Running
<1> QED
  BY <1>1, PromptInvCorrect, BusyAlwaysHasOwner, PTL DEF Spec, CancelLeavesNone
=============================================================================
