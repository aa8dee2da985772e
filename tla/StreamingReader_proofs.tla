----------------------- MODULE StreamingReader_proofs -----------------------
(* That nobody who waits in the streaming reader misses a wake-up, that    *)
(* the downloader is served by one thread at a time, and that what it asks *)
(* for is seen, for any number of parts, slices, starts and downloads.     *)
EXTENDS StreamingReader, TLAPS

-----------------------------------------------------------------------------
(* What the long operations change of what the invariant is about.         *)

LEMMA WithResultsHeader ==
    ASSUME NEW sl, "header" \in DOMAIN sl, NEW found
    PROVE  /\ "header" \in DOMAIN WithResults(sl, found)
           /\ sl.header # "loading" =>
                WithResults(sl, found).header = sl.header
<1>1. ASSUME NEW other, "header" \in DOMAIN other
      PROVE  /\ "header" \in DOMAIN WithSlices(other, found)
             /\ WithSlices(other, found).header = other.header
    BY <1>1 DEF WithSlices
<1>2. ASSUME NEW parts
      PROVE  /\ "header" \in DOMAIN WithHeader(sl, parts)
             /\ sl.header # "loading" => WithHeader(sl, parts) = sl
    BY DEF WithHeader
<1> QED
    BY <1>1, <1>2 DEF WithResults

LEMMA ServeDownloaderEffect ==
    ASSUME CountInv, NoCacheInv, NEW queue, NEW queued, NEW done,
           ServeDownloader(queue, queued, done)
    PROVE  /\ MutexIsFree /\ results' = <<>> /\ requests' = <<>>
           /\ "header" \in DOMAIN slices'
           /\ ~UseCache => slices'.header = "noCache" /\ cacheReads' = {}
<1> DEFINE sl == IF error THEN slices ELSE WithResults(slices, results)
<1>1. /\ MutexIsFree /\ results' = <<>> /\ requests' = <<>>
      /\ slices' = sl
    BY DEF ServeDownloader
<1>2. "header" \in DOMAIN sl /\ (~UseCache => sl.header = "noCache")
    BY WithResultsHeader DEF CountInv, NoCacheInv
<1>3. ASSUME ~UseCache
      PROVE  cacheReads' = {}
    BY <1>3 DEF ServeDownloader, NoCacheInv
<1> QED
    BY <1>1, <1>2, <1>3

LEMMA CheckReceivedEffect ==
    ASSUME CountInv, NoCacheInv, CheckReceived
    PROVE  /\ MutexIsFree /\ results' = <<>>
           /\ "header" \in DOMAIN slices'
           /\ ~UseCache => slices'.header = "noCache"
           /\ error => error'
           /\ ~error => arrived' = {}
<1>1. CASE error
    BY <1>1 DEF CheckReceived, readVars, CountInv, NoCacheInv
<1>2. CASE ~error
    <2>1. PICK new : slices' = WithParts(WithResults(slices, results), new)
        BY <1>2 DEF CheckReceived
    <2>2. /\ "header" \in DOMAIN WithResults(slices, results)
          /\ ~UseCache => WithResults(slices, results).header = "noCache"
        BY WithResultsHeader DEF CountInv, NoCacheInv
    <2>3. /\ "header" \in DOMAIN slices'
          /\ ~UseCache => slices'.header = "noCache"
        BY <2>1, <2>2 DEF WithParts
    <2> QED
        BY <1>2, <2>3 DEF CheckReceived
<1> QED
    BY <1>1, <1>2

LEMMA FillFromSlicesEffect ==
    ASSUME CountInv, NoCacheInv, FillFromSlices
    PROVE  /\ "header" \in DOMAIN slices' /\ slices'.header = slices.header
           /\ ~UseCache => cacheReads' = {}
           /\ reading' \in {"run", "register"}
<1>1. "header" \in DOMAIN slices' /\ slices'.header = slices.header
    BY DEF FillFromSlices, CountInv
<1>2. reading' \in {"run", "register"}
    BY DEF FillFromSlices
<1>3. ASSUME ~UseCache
      PROVE  cacheReads' = {}
    BY <1>3 DEF FillFromSlices, NoCacheInv, CacheNotLoaded
<1> QED
    BY <1>1, <1>2, <1>3

\* What continueDownloaderFromMainThread() may change of what the invariant
\* is about.
Continued(next) ==
    /\ main' \in {"wake", next} /\ after' \in {"idle", "push"}
    /\ requests' \in {requests, <<>>}
    /\ results' \in {results, <<>>}
    /\ "header" \in DOMAIN slices'
    /\ ~UseCache => slices'.header = "noCache" /\ cacheReads' = {}

LEMMA ContinueDownloaderEffect ==
    ASSUME CountInv, NoCacheInv, NEW next \in {"idle", "push"}, NEW queue,
           NEW done, ContinueDownloader(next, queue, done)
    PROVE  Continued(next)
<1>1. CASE streamingActive
    BY <1>1 DEF ContinueDownloader, Continued, CountInv, NoCacheInv
<1>2. CASE ~streamingActive
    <2>1. /\ main' = next /\ after' = after
          /\ ServeDownloader(queue, requests, done)
        BY <1>2 DEF ContinueDownloader
    <2> QED
        BY <2>1, ServeDownloaderEffect DEF Continued, CountInv
<1> QED
    BY <1>1, <1>2

LEMMA SavePartEffect ==
    ASSUME CountInv, NoCacheInv, NEW next \in {"idle", "push"}, NEW queue,
           NEW p, SavePart(p, next, queue)
    PROVE  Continued(next)
<1>1. CASE ~attached \/ p \in saved
    BY <1>1 DEF SavePart, Continued, CountInv, NoCacheInv
<1>2. CASE ~(~attached \/ p \in saved) /\ attached'
    BY <1>2, ContinueDownloaderEffect DEF SavePart
<1>3. CASE ~(~attached \/ p \in saved) /\ ~attached'
    BY <1>3 DEF SavePart, Continued, CountInv, NoCacheInv
<1> QED
    BY <1>1, <1>2, <1>3

-----------------------------------------------------------------------------
(* The steps of the streaming thread.                                      *)

LEMMA ReadsStep ==
    ASSUME IInv, Reads
    PROVE  IInv'
<1> USE ReaderAssumption
<1> USE DEF IInv, CountInv, NoCacheInv, StopInv, StaleInv, AddressInv,
            InterruptInv, RequestInv, OnlyOneThreadWorks, BlockedIsWoken,
            Waits, Outside, Stopping, Released, MutexIsFree, contextVars,
            addressVars, mainVars, cacheVars, readVars, downloaderVars,
            servedVars
<1>1. CASE FirstCheck
    BY <1>1, CheckReceivedEffect DEF FirstCheck
<1>2. CASE Fill
    BY <1>2, FillFromSlicesEffect DEF Fill
<1>3. CASE StartWaiting
    BY <1>3 DEF StartWaiting
<1>4. CASE SecondCheck
    BY <1>4, CheckReceivedEffect DEF SecondCheck, SomethingReceived
<1>5. CASE Acquire
    BY <1>5 DEF Acquire
<1> QED
    BY <1>1, <1>2, <1>3, <1>4, <1>5 DEF Reads

LEMMA SleepsStep ==
    ASSUME IInv, Sleeps
    PROVE  IInv'
<1> USE ReaderAssumption
<1> USE DEF IInv, CountInv, NoCacheInv, StopInv, StaleInv, AddressInv,
            InterruptInv, RequestInv, OnlyOneThreadWorks, BlockedIsWoken,
            Waits, Outside, Stopping, Released, MutexIsFree, contextVars,
            addressVars, mainVars, cacheVars, readVars, downloaderVars,
            servedVars
<1>1. CASE StartSleep
    BY <1>1 DEF StartSleep
<1>2. CASE Serve
    BY <1>2, ServeDownloaderEffect DEF Serve
<1>3. CASE WakeUp
    BY <1>3 DEF WakeUp
<1> QED
    BY <1>1, <1>2, <1>3 DEF Sleeps

LEMMA LeavesStep ==
    ASSUME IInv, Leaves \/ Finish \/ HeaderDone \/ \E p \in Parts : BeginRead(p)
    PROVE  IInv'
<1> USE ReaderAssumption
<1> USE DEF IInv, CountInv, NoCacheInv, StopInv, StaleInv, AddressInv,
            InterruptInv, RequestInv, OnlyOneThreadWorks, BlockedIsWoken,
            Waits, Outside, Stopping, Released, MutexIsFree, contextVars,
            addressVars, mainVars, cacheVars, readVars, downloaderVars,
            servedVars
<1>1. CASE StopStreamingAsync
    BY <1>1 DEF StopStreamingAsync
<1>2. CASE PostStop
    BY <1>2 DEF PostStop, Post
<1>3. CASE Finish
    BY <1>3 DEF Finish
<1>4. CASE HeaderDone
    BY <1>4 DEF HeaderDone
<1>5. CASE \E p \in Parts : BeginRead(p)
    BY <1>5 DEF BeginRead
<1> QED
    BY <1>1, <1>2, <1>3, <1>4, <1>5 DEF Leaves

-----------------------------------------------------------------------------
(* The steps of the main thread.                                           *)

LEMMA PartsStep ==
    ASSUME NEW p \in Parts, IInv, PartArrives(p) \/ PartFails(p)
    PROVE  IInv'
<1> USE ReaderAssumption
<1> USE DEF IInv, CountInv, NoCacheInv, StopInv, StaleInv, AddressInv,
            InterruptInv, RequestInv, OnlyOneThreadWorks, BlockedIsWoken,
            Waits, Outside, Stopping, Released, MutexIsFree, contextVars,
            addressVars, mainVars, cacheVars, readVars, downloaderVars,
            servedVars
<1>1. CASE PartArrives(p)
    BY <1>1, SavePartEffect DEF PartArrives, Continued
<1>2. CASE PartFails(p)
    BY <1>2 DEF PartFails
<1> QED
    BY <1>1, <1>2

LEMMA HandlePostedStep ==
    ASSUME IInv, HandlePosted
    PROVE  IInv'
<1> USE ReaderAssumption
<1> USE DEF IInv, CountInv, NoCacheInv, StopInv, StaleInv, AddressInv,
            InterruptInv, RequestInv, OnlyOneThreadWorks, BlockedIsWoken,
            Waits, Outside, Stopping, Released, MutexIsFree, contextVars,
            addressVars, mainVars, cacheVars, readVars, downloaderVars,
            servedVars
<1>1. CASE main = "idle" /\ LoadPosted
    BY <1>1 DEF LoadPosted
<1>2. CASE main = "idle" /\ CancelPosted
    BY <1>2 DEF CancelPosted
<1>3. CASE main = "idle" /\ FirePosted
    BY <1>3, SavePartEffect DEF FirePosted, Continued
<1>4. CASE main = "idle" /\ CheckPosted
    BY <1>4, ContinueDownloaderEffect DEF CheckPosted, Continued
<1>5. CASE main = "idle" /\ StopPosted
    BY <1>5 DEF StopPosted
<1> QED
    BY <1>1, <1>2, <1>3, <1>4, <1>5 DEF HandlePosted

LEMMA BringsStep ==
    ASSUME IInv, Brings \/ Wakes
    PROVE  IInv'
<1> USE ReaderAssumption
<1> USE DEF IInv, CountInv, NoCacheInv, StopInv, StaleInv, AddressInv,
            InterruptInv, RequestInv, OnlyOneThreadWorks, BlockedIsWoken,
            Waits, Outside, Stopping, Released, MutexIsFree, contextVars,
            addressVars, mainVars, cacheVars, readVars, downloaderVars,
            servedVars
<1>1. CASE Push
    BY <1>1 DEF Push
<1>2. CASE Look
    BY <1>2 DEF Look
<1>3. CASE ClearWaiting
    BY <1>3 DEF ClearWaiting
<1>4. CASE Release
    BY <1>4 DEF Release
<1>5. CASE ClearSleeping
    BY <1>5 DEF ClearSleeping
<1>6. CASE ReleaseSleeping
    BY <1>6 DEF ReleaseSleeping
<1> QED
    BY <1>1, <1>2, <1>3, <1>4, <1>5, <1>6 DEF Brings, Wakes

LEMMA StopsStep ==
    ASSUME IInv, Stops
    PROVE  IInv'
<1> USE ReaderAssumption
<1> USE DEF IInv, CountInv, NoCacheInv, StopInv, StaleInv, AddressInv,
            InterruptInv, RequestInv, OnlyOneThreadWorks, BlockedIsWoken,
            Waits, Outside, Stopping, Released, MutexIsFree, contextVars,
            addressVars, mainVars, cacheVars, readVars, downloaderVars,
            servedVars
<1>1. CASE Interrupt
    BY <1>1 DEF Interrupt
<1>2. CASE Join
    BY <1>2 DEF Join
<1>3. CASE StopStreaming
    BY <1>3 DEF StopStreaming
<1>4. CASE ClearCacheWaiting
    BY <1>4 DEF ClearCacheWaiting
<1>5. CASE StoppedForGood
    BY <1>5, ServeDownloaderEffect DEF StoppedForGood
<1>6. CASE StoppedToStart
    <2>1. stale' => worker' # "none"
        BY <1>6 DEF StoppedToStart
    <2>2. CountInv' /\ NoCacheInv' /\ StopInv'
        BY <1>6 DEF StoppedToStart
    <2>3. AddressInv' /\ InterruptInv' /\ RequestInv'
        BY <1>6 DEF StoppedToStart
    <2>4. OnlyOneThreadWorks' /\ BlockedIsWoken'
        BY <1>6 DEF StoppedToStart
    <2>5. StaleInv'
        BY <1>6, <2>1 DEF StoppedToStart
    <2> QED
        BY <2>2, <2>3, <2>4, <2>5
<1> QED
    BY <1>1, <1>2, <1>3, <1>4, <1>5, <1>6 DEF Stops

LEMMA MainStep ==
    ASSUME IInv,
           Start \/ Stop \/ Pause \/ Resume \/ StartDownload \/ CancelDownload
    PROVE  IInv'
<1> USE ReaderAssumption
<1> USE DEF IInv, CountInv, NoCacheInv, StopInv, StaleInv, AddressInv,
            InterruptInv, RequestInv, OnlyOneThreadWorks, BlockedIsWoken,
            Waits, Outside, Stopping, Released, MutexIsFree, contextVars,
            addressVars, mainVars, cacheVars, readVars, downloaderVars,
            servedVars
<1>1. CASE Start
    BY <1>1 DEF Start, BeginStop
<1>2. CASE Stop
    BY <1>2 DEF Stop, BeginStop
<1>3. CASE Pause
    BY <1>3 DEF Pause
<1>4. CASE Resume
    BY <1>4 DEF Resume
<1>5. CASE StartDownload
    BY <1>5, ServeDownloaderEffect DEF StartDownload
<1>6. CASE CancelDownload
    BY <1>6 DEF CancelDownload
<1> QED
    BY <1>1, <1>2, <1>3, <1>4, <1>5, <1>6

-----------------------------------------------------------------------------
(* The steps of the workers of the cache.                                  *)

LEMMA WorkerStep ==
    ASSUME IInv,
           (\E r \in cacheReads : CacheAnswers(r)) \/ WorkerClears
             \/ WorkerReleases
    PROVE  IInv'
<1> USE ReaderAssumption
<1> USE DEF IInv, CountInv, NoCacheInv, StopInv, StaleInv, AddressInv,
            InterruptInv, RequestInv, OnlyOneThreadWorks, BlockedIsWoken,
            Waits, Outside, Stopping, Released, MutexIsFree, contextVars,
            addressVars, mainVars, cacheVars, readVars, downloaderVars,
            servedVars
<1>1. CASE \E r \in cacheReads : CacheAnswers(r)
    BY <1>1 DEF CacheAnswers, Post
<1>2. CASE WorkerClears
    BY <1>2 DEF WorkerClears
<1>3. CASE WorkerReleases
    BY <1>3 DEF WorkerReleases
<1> QED
    BY <1>1, <1>2, <1>3

-----------------------------------------------------------------------------
(* The results.                                                            *)

LEMMA IInvInit == Init => IInv
<1> SUFFICES ASSUME Init PROVE IInv
    OBVIOUS
<1>1. slices.header = (IF UseCache THEN "loading" ELSE "noCache")
      /\ "header" \in DOMAIN slices
    BY DEF Init
<1>2. CountInv
    BY <1>1, ReaderAssumption DEF Init, CountInv
<1>3. NoCacheInv
    BY <1>1 DEF Init, NoCacheInv
<1>4. StopInv /\ StaleInv /\ AddressInv /\ InterruptInv /\ RequestInv
    BY DEF Init, StopInv, StaleInv, AddressInv, InterruptInv, RequestInv,
           Waits, Outside, Stopping
<1>5. OnlyOneThreadWorks /\ BlockedIsWoken
    BY DEF Init, OnlyOneThreadWorks, BlockedIsWoken
<1> QED
    BY <1>2, <1>3, <1>4, <1>5 DEF IInv

LEMMA IInvStep == IInv /\ [Next]_vars => IInv'
<1> SUFFICES ASSUME IInv, [Next]_vars PROVE IInv'
    OBVIOUS
<1>1. CASE Next
    BY <1>1, ReadsStep, SleepsStep, LeavesStep, PartsStep, HandlePostedStep,
       BringsStep, StopsStep, MainStep, WorkerStep DEF Next
<1>2. CASE UNCHANGED vars
    BY <1>2 DEF vars, IInv, CountInv, NoCacheInv, StopInv, StaleInv,
                AddressInv, InterruptInv, RequestInv, OnlyOneThreadWorks,
                BlockedIsWoken, Waits, Outside, Stopping, contextVars,
                addressVars, mainVars, cacheVars, readVars, downloaderVars,
                servedVars
<1> QED
    BY <1>1, <1>2

\* The inductive invariant holds in every state of the reader.
THEOREM Inductive == Spec => []IInv
    BY IInvInit, IInvStep, PTL DEF Spec

\* A streaming thread that waits for a part, for the cache or for an order to
\* stop has left its address where the one who brings it finds it: no wake-up
\* is lost between fill() and the threads that bring what it waits for.
THEOREM NoWakeUpIsLost == Spec => []BlockedIsWoken
<1>1. IInv => BlockedIsWoken
    BY DEF IInv
<1> QED
    BY Inductive, <1>1, PTL

\* While a streaming thread is at work the main thread leaves what both use
\* for the downloader alone, however stops that were posted, withdrawn or
\* overtaken by another start arrive.
THEOREM OneThreadServes == Spec => []OnlyOneThreadWorks
<1>1. IInv => OnlyOneThreadWorks
    BY DEF IInv
<1> QED
    BY Inductive, <1>1, PTL

\* What the downloader asks for is not left lying: a thread that sleeps over
\* it is on the way to be woken.
THEOREM RequestsAreSeen == Spec => []DownloaderIsSeen
<1>1. IInv => DownloaderIsSeen
    BY DEF IInv, RequestInv, DownloaderIsSeen
<1> QED
    BY Inductive, <1>1, PTL
=============================================================================
