--------------------------- MODULE StreamingReader ---------------------------
(***************************************************************************)
(* Streaming of a file that is being downloaded: Media::Streaming::Reader, *)
(* the thread of a Media::Streaming::File that reads from it, the loader   *)
(* and the downloader of the same file.  Three kinds of threads meet here. *)
(*                                                                         *)
(* The streaming thread reads parts.  What it does not find in memory it   *)
(* asks the cache or the loader for, and then it waits on a semaphore      *)
(* whose address it has left in _waiting and in the cache helper.  When    *)
(* enough is read it sleeps on the same semaphore, left in _sleeping.      *)
(*                                                                         *)
(* The main thread brings the loaded parts, starts and stops the streaming *)
(* thread, and saves the parts for the downloader.  While streaming is     *)
(* active the requests of the downloader are served by the streaming       *)
(* thread when it goes to sleep, otherwise by the main thread.             *)
(*                                                                         *)
(* A worker brings each answer of the cache, under the mutex of the helper.*)
(*                                                                         *)
(* One step is one access to what the threads share.  Parts are numbers in *)
(* the order of their offsets, reads take one part, and the header of the  *)
(* file matters only as the set of parts the cache has for it.             *)
(***************************************************************************)
EXTENDS Naturals, Sequences, FiniteSets, SequencesExt

CONSTANTS
  Parts,          \* the parts of the file
  Slices,         \* the slices, 1 .. the number of them
  SliceOf,        \* the slice that a part lies in
  SlicesInMemory, \* kSlicesInMemory
  RequestsLimit,  \* kDownloaderRequestsLimit
  Cached,         \* the sets of parts that may be in the cache at first
  CachedHeaders,  \* the sets of parts that may be in the cached header
  UseCache,       \* whether the file has a key in the cache
  CanFail,        \* whether loading of a part may fail
  MaxStarts,      \* how many times streaming is started
  MaxDownloads,   \* how many times a download of the file is started
  MaxReleases,    \* where the count of the semaphore stops
  MaxPosted       \* how long the queue of the main thread may be for more

ASSUME ReaderAssumption ==
  /\ Parts \subseteq Nat \ {0}
  /\ IsFiniteSet(Parts)
  /\ Slices \subseteq Nat \ {0}
  /\ SliceOf \in [Parts -> Slices]
  /\ SlicesInMemory \in Nat \ {0}
  /\ RequestsLimit \in Nat \ {0}
  /\ Cached \subseteq SUBSET Parts
  /\ CachedHeaders \subseteq SUBSET Parts
  /\ UseCache \in BOOLEAN
  /\ CanFail \in BOOLEAN
  /\ MaxStarts \in Nat
  /\ MaxDownloads \in Nat
  /\ MaxReleases \in Nat \ {0}
  /\ MaxPosted \in Nat

Failed == 0        \* LoadedPart::kFailedOffset
Header == 0        \* the number of the header among the slices
NoPart == 0

VARIABLES
  \* The streaming thread and what belongs to its File::Context.
  reading,         \* where the thread is
  want,            \* the part it reads, if it reads one
  opened,          \* whether the file is opened (headerDone() was called)
  interrupted,     \* _interrupted
  failed,          \* _failed
  semaphore,       \* the count of _semaphore
  paused,          \* Player::_pauseReading
  \* Where the address of the semaphore is left.
  waiting,         \* Reader::_waiting
  cacheWaiting,    \* CacheHelper::waiting
  sleeping,        \* Reader::_sleeping
  \* The main thread.
  main,            \* where it is
  after,           \* where it goes on after it has woken a sleeping thread
  bringing,        \* the part it brings
  goal,            \* why streaming is stopped
  starts,          \* how many times it was started
  posted,          \* what is posted to it by crl::on_main, in order
  \* The cache.
  worker,          \* where the worker that holds the mutex is
  stale,           \* whether the semaphore it has read the address of is gone
  results,         \* CacheHelper::results
  cacheReads,      \* the reads on their way: the slice and what is read
  cached,          \* what the cache has
  \* The reader.
  streamingActive, \* _streamingActive
  stopAsync,       \* _stopStreamingAsync
  error,           \* _streamingError
  arrived,         \* _loadedParts
  loading,         \* _loadingOffsets
  urgent,          \* those of them with the current priority
  slices,          \* _slices
  asked,           \* what the loader is asked for and has not brought
  dead,            \* what of it has failed to load
  \* The downloader.
  attached,        \* _attachedDownloader, whether there is one
  saved,           \* the parts that it has (_partIsSaved), while it is there
  downloads,       \* how many downloads were started
  requests,        \* _downloaderOffsetRequests
  acks,            \* _downloaderOffsetAcks
  offsets,         \* _offsetsForDownloader
  requested,       \* _downloaderOffsetsRequested
  readCache        \* _downloaderReadCache

contextVars == <<opened, interrupted, failed, semaphore>>
addressVars == <<waiting, cacheWaiting, sleeping>>
mainVars == <<main, after, bringing, goal, starts>>
cacheVars == <<worker, stale, results, cacheReads, cached>>
readVars == <<error, arrived, loading, urgent, slices>>
downloaderVars == <<attached, saved, downloads, requests, acks>>
servedVars == <<offsets, requested, readCache>>
vars == <<reading, want, paused, contextVars, addressVars, mainVars, posted,
          cacheVars, streamingActive, stopAsync, readVars, asked,
          dead, downloaderVars, servedVars>>

-----------------------------------------------------------------------------
(***************************************************************************)
(* The slices.  A slice is "absent", or being loaded from the cache, or    *)
(* loaded; until the header is known nothing else is read from the cache.  *)
(***************************************************************************)

PartsOf(s) == {p \in Parts : SliceOf[p] = s}

InMemory(p) == p \in slices.parts[SliceOf[p]]

\* cacheNotLoaded(): the cache is to be read before the loader is asked.
CacheNotLoaded(s) == slices.header = "known" /\ slices.state[s] # "loaded"

\* Slices::processPart().
WithParts(sl, new) ==
  [sl EXCEPT
    !.parts = [s \in Slices |-> @[s] \cup (new \cap PartsOf(s))],
    !.changed = @ \cup {s \in Slices : sl.state[s] = "loaded" /\ new \cap PartsOf(s) # {}}]

\* Slices::processCacheResult() for the header: its parts are given to their
\* slices, and if there are any the header is done.
WithHeader(sl, found) ==
  IF sl.header # "loading" THEN sl
  ELSE [sl EXCEPT
         !.header = IF found = {} THEN "unknown" ELSE "known",
         !.inHeader = found,
         !.parts = [s \in Slices |-> @[s] \cup (found \cap PartsOf(s))]]

\* Slices::processCacheResult(): what is not waited for any more is dropped.
WithSlices(sl, found) ==
  LET taken == {s \in DOMAIN found \ {Header} : sl.state[s] = "loading"}
  IN  [sl EXCEPT
        !.parts = [s \in Slices |-> IF s \in taken THEN @[s] \cup found[s] ELSE @[s]],
        !.state = [s \in Slices |-> IF s \in taken THEN "loaded" ELSE @[s]]]

WithResults(sl, found) ==
  WithSlices(IF Header \in DOMAIN found THEN WithHeader(sl, found[Header]) ELSE sl, found)

\* Slices::markSliceUsed().
Used(s) == Append(SelectSeq(slices.used, LAMBDA other : other # s), s)

\* Slices::serializeAndUnloadUnused(): the slice that is unloaded when s is
\* used, if one is.
Unloaded(s) ==
  IF slices.header = "unknown" \/ Len(Used(s)) <= SlicesInMemory THEN {}
  ELSE {u \in {Head(Used(s))} : slices.state[u] = "loaded"}

\* The list of used slices after it.
StillUsed(s) ==
  IF slices.header = "unknown" \/ Len(Used(s)) <= SlicesInMemory
  THEN Used(s) ELSE Tail(Used(s))

\* Slices::prepareFill(): the parts to ask the loader for, ahead of the read
\* as far as the slice reaches.
ToLoad(p) ==
  IF CacheNotLoaded(SliceOf[p]) THEN {}
  ELSE {q \in PartsOf(SliceOf[p]) : q >= p /\ ~InMemory(q)}

-----------------------------------------------------------------------------
(***************************************************************************)
(* Posting to the main thread, and the reads of the cache.                 *)
(***************************************************************************)

Least(S) == CHOOSE p \in S : \A q \in S : p <= q

InOrder(S) == SetToSortSeq(S, LAMBDA p, q : p < q)

Message(what, p) == [do |-> what, part |-> p]

Messages(what, S) == [i \in DOMAIN InOrder(S) |-> Message(what, InOrder(S)[i])]

Post(what) == posted' = Append(posted, Message(what, NoPart))

\* Reader::readFromCache(): what is read is what was put before.
Read(s) == [slice |-> s, parts |-> cached[s]]

\* A slice that the downloader has not read from the cache.
NotRead == [state |-> "none", parts |-> {}]

\* crl::semaphore::release(), counted up to MaxReleases.
Released == IF semaphore < MaxReleases THEN semaphore + 1 ELSE semaphore

-----------------------------------------------------------------------------
(***************************************************************************)
(* What the streaming thread does, and for the downloader the main thread. *)
(***************************************************************************)

MutexIsFree == worker = "none"

\* processCacheResults() for the slices that the downloader waits for.
CacheForDownloader(read) ==
  [s \in Slices |->
    IF read[s].state = "reading" /\ s \in DOMAIN results
    THEN [state |-> "read", parts |-> results[s]] ELSE read[s]]

\* checkForSomethingMoreReceived(): processCacheResults() and then
\* processLoadedParts().  After a part that has failed to load the others of
\* the batch are left; what came before it is taken.
CheckReceived ==
  /\ MutexIsFree
  /\ results' = <<>>
  /\ readCache' = CacheForDownloader(readCache)
  /\ IF error
     THEN UNCHANGED readVars
     ELSE \E taken \in SUBSET (arrived \ {Failed}) :
            LET new == taken \cap loading
            IN  /\ Failed \in arrived \/ taken = arrived
                /\ error' = (Failed \in arrived)
                /\ arrived' = {}
                /\ loading' = loading \ new
                /\ urgent' = urgent \ new
                /\ slices' = WithParts(WithResults(slices, results), new)

\* What it returns.
SomethingReceived ==
  /\ ~error
  /\ \/ DOMAIN results # {}
     \/ arrived # {} /\ Failed \notin arrived

\* checkLoadWillBeFirst(): what is needed first must be at the front, or
\* else what is being loaded becomes less urgent.
WillBeFirst(need, left) ==
  \/ left = {}
  \/ Least(need) = Least(IF urgent \cap left # {} THEN urgent \cap left ELSE left)

\* loadAtOffset() for each of the parts, with what is left of _loadingOffsets:
\* a part is asked for again when it was less urgent.
AskLoader(need, left) ==
  LET now == IF need = {} \/ WillBeFirst(need, left) THEN urgent \cap left ELSE {}
  IN  [loading |-> left \cup need,
       urgent |-> now \cup need,
       messages |-> Messages("load", need \ now)]

\* Reader::fillFromSlices() with startWaiting() or clearWaiting() to follow:
\* a part that is in memory is read, which may unload another slice, and with
\* it what of it is still being loaded when it is saved to the cache.  Without
\* a header in the cache it is kept for one, of which the header has the room.
FillFromSlices ==
  LET s == SliceOf[want]
      known == slices.header # "loading"
      ready == known /\ InMemory(want)
      unloaded == IF ready THEN Unloaded(s) ELSE {}
      saving == unloaded \cap slices.changed
      left == {p \in loading : SliceOf[p] \notin saving}
      ask == AskLoader(IF known THEN ToLoad(want) ELSE {}, left)
      read == IF known /\ ~ready /\ CacheNotLoaded(s) /\ slices.state[s] = "absent"
              THEN {s} ELSE {}
  IN  /\ slices' = [slices EXCEPT
           !.used = IF ready THEN StillUsed(s) ELSE @,
           !.parts = [u \in Slices |-> IF u \in unloaded THEN {} ELSE @[u]],
           !.state = [u \in Slices |-> IF u \in unloaded THEN "absent"
                                       ELSE IF u \in read THEN "loading" ELSE @[u]],
           !.changed = @ \ unloaded,
           !.inHeader = IF ready /\ slices.header = "unknown" THEN @ \cup {want} ELSE @]
      /\ cached' = [u \in DOMAIN cached |-> IF u \in saving THEN slices.parts[u] ELSE cached[u]]
      /\ cacheReads' = cacheReads \cup {Read(u) : u \in read}
      /\ loading' = ask.loading
      /\ urgent' = ask.urgent
      /\ posted' = posted \o Messages("cancel", (loading \ left) \ requested) \o ask.messages
      /\ IF ready
         THEN reading' = "run" /\ want' = NoPart /\ waiting' = FALSE /\ cacheWaiting' = FALSE
         ELSE reading' = "register" /\ UNCHANGED <<want, waiting, cacheWaiting>>

\* processDownloaderRequests() with what is queued of requests and acks, and
\* what it posts behind the queue of the main thread.  Ready parts are fired
\* up to the first that is not; of the others the first RequestsLimit are
\* asked for, unless the cache has to be read first.
ServeDownloader(queue, queued, done) ==
  LET sl == IF error THEN slices ELSE WithResults(slices, results)
      \* enqueueDownloaderOffsets() and checkForDownloaderChange(): offsets
      \* that go back mean another downloader, but only after older ones.
      all == offsets \o queued
      turns == {i \in 1..(Len(all) - 1) : i >= Len(offsets) /\ all[i + 1] <= all[i]}
      changed == offsets # <<>> /\ queued # <<>> /\ turns # {}
      wanted == IF changed THEN SubSeq(all, Least(turns) + 1, Len(all)) ELSE all
      known == CacheForDownloader(readCache)
      read == [s \in Slices |-> IF changed THEN NotRead ELSE known[s]]
      acked == IF changed THEN {} ELSE done
      \* checkForDownloaderReadyOffsets().
      Loaded(p) == p \in sl.inHeader \cup sl.parts[SliceOf[p]]
      Ready(p) == Loaded(p) \/ p \in read[SliceOf[p]].parts
      count == CHOOSE n \in 0..Len(wanted) :
                 /\ \A i \in 1..n : Ready(wanted[i])
                 /\ n = Len(wanted) \/ ~Ready(wanted[n + 1])
      fired == SubSeq(wanted, 1, count)
      \* pruneDoneDownloaderRequests().
      rest == SelectSeq(SubSeq(wanted, count + 1, Len(wanted)), LAMBDA p : p \notin acked)
      sent == requested \ acked
      \* pruneDownloaderCache() and sendDownloaderRequests().
      next == {rest[i] : i \in 1..Len(rest) \cap 1..RequestsLimit}
      pruned == [s \in Slices |->
        IF rest # <<>> /\ s < SliceOf[Head(rest)] THEN NotRead
        ELSE [read[s] EXCEPT !.parts = {p \in @ : p \notin ToSet(fired) \/ Loaded(p)}]]
      reads == IF ~UseCache \/ sl.header = "loading" THEN {}
               ELSE {s \in {SliceOf[p] : p \in next} :
                      sl.state[s] # "loaded" /\ pruned[s].state = "none"}
      asking == [s \in Slices |->
        IF s \notin reads THEN pruned[s]
        ELSE [pruned[s] EXCEPT !.state = IF sl.header = "unknown" THEN "read" ELSE "reading"]]
      Waits(p) == /\ UseCache
                  /\ \/ sl.header = "loading"
                     \/ /\ sl.state[SliceOf[p]] # "loaded"
                        /\ asking[SliceOf[p]].state = "reading"
      load == {p \in next : ~Waits(p)} \ sent
  IN  /\ MutexIsFree
      /\ results' = <<>>
      /\ slices' = sl
      /\ requests' = <<>>
      /\ acks' = {}
      /\ offsets' = rest
      /\ requested' = sent \cup load
      /\ readCache' = asking
      /\ cacheReads' = cacheReads \cup
           {Read(s) : s \in {t \in reads : sl.header # "unknown"}}
      /\ posted' = queue \o [i \in DOMAIN fired |-> Message("fire", fired[i])]
                         \o Messages("load", load)

-----------------------------------------------------------------------------
(***************************************************************************)
(* The streaming thread.                                                   *)
(***************************************************************************)

\* File::Context::read(): the player needs a part.  Context::start() reads
\* before it calls headerDone().
BeginRead(p) ==
  /\ reading = "run"
  /\ ~interrupted /\ ~failed
  /\ reading' = "fill"
  /\ want' = p
  /\ UNCHANGED <<paused, contextVars, addressVars, mainVars, posted, cacheVars,
                 streamingActive, stopAsync, readVars, asked, dead,
                 downloaderVars, servedVars>>

\* File::Context::start() goes on to Reader::headerDone(): what is not in
\* the cached header is taken not to be in the cache at all.
HeaderDone ==
  /\ reading = "run"
  /\ ~interrupted /\ ~failed /\ ~opened
  /\ opened' = TRUE
  /\ slices' = IF slices.header # "unknown" THEN slices
               ELSE [slices EXCEPT !.header = "known",
                                   !.state = [s \in Slices |-> "loaded"]]
  /\ UNCHANGED <<reading, want, paused, interrupted, failed, semaphore,
                 addressVars, mainVars, posted, cacheVars, streamingActive,
                 stopAsync, error, arrived, loading, urgent, asked, dead,
                 downloaderVars, servedVars>>

\* Reader::fill() up to the loop.  An error that is found here returns
\* without a release, and read() acquires the semaphore all the same.
FirstCheck ==
  /\ reading = "fill"
  /\ CheckReceived
  /\ reading' = IF error' THEN "blocked" ELSE "slices"
  /\ UNCHANGED <<want, paused, contextVars, addressVars, mainVars, posted,
                 worker, stale, cacheReads, cached, streamingActive,
                 stopAsync, asked, dead, downloaderVars, offsets, requested>>

\* The body of the loop: fillFromSlices(), and done() when it succeeds.
Fill ==
  /\ reading = "slices"
  /\ FillFromSlices
  /\ UNCHANGED <<paused, contextVars, sleeping, mainVars, worker, stale,
                 results, streamingActive, stopAsync, error, arrived, asked,
                 dead, downloaderVars, servedVars>>

\* Mutant: without another look at what has come meanwhile.
StartWaitingOnly ==
  /\ reading = "register"
  /\ reading' = "blocked"
  /\ cacheWaiting' = UseCache
  /\ waiting' = TRUE
  /\ UNCHANGED <<want, paused, contextVars, sleeping, mainVars, posted,
                 cacheVars, streamingActive, stopAsync, readVars, asked, dead,
                 downloaderVars, servedVars>>

\* Mutant: the address is not left in the helper of the cache.
StartWaitingForLoader ==
  /\ reading = "register"
  /\ reading' = "again"
  /\ waiting' = TRUE
  /\ UNCHANGED <<want, paused, contextVars, cacheWaiting, sleeping, mainVars,
                 posted, cacheVars, streamingActive, stopAsync, readVars, asked,
                 dead, downloaderVars, servedVars>>

\* startWaiting().
StartWaiting ==
  /\ reading = "register"
  /\ reading' = "again"
  /\ cacheWaiting' = UseCache
  /\ waiting' = TRUE
  /\ UNCHANGED <<want, paused, contextVars, sleeping, mainVars, posted,
                 cacheVars, streamingActive, stopAsync, readVars, asked, dead,
                 downloaderVars, servedVars>>

\* The condition of the loop, and failed() behind it.
SecondCheck ==
  /\ reading = "again"
  /\ CheckReceived
  /\ IF SomethingReceived
     THEN reading' = "slices" /\ UNCHANGED <<waiting, cacheWaiting, semaphore>>
     ELSE /\ reading' = "blocked"
          /\ IF error'
             THEN waiting' = FALSE /\ cacheWaiting' = FALSE /\ semaphore' = Released
             ELSE UNCHANGED <<waiting, cacheWaiting, semaphore>>
  /\ UNCHANGED <<want, paused, opened, interrupted, failed, sleeping, mainVars,
                 posted, worker, stale, cacheReads, cached, streamingActive,
                 stopAsync, asked, dead, downloaderVars, offsets, requested>>

\* _semaphore.acquire() in read() and what is looked at after it.
Acquire ==
  /\ reading = "blocked"
  /\ semaphore > 0
  /\ semaphore' = semaphore - 1
  /\ IF interrupted \/ error
     THEN reading' = "run" /\ want' = NoPart
     ELSE reading' = "fill" /\ UNCHANGED want
  /\ failed' = (failed \/ (~interrupted /\ error))
  /\ UNCHANGED <<paused, opened, interrupted, addressVars, mainVars,
                 posted, cacheVars, streamingActive, stopAsync, readVars,
                 asked, dead, downloaderVars, servedVars>>

\* processQueuedPackets() with enough read: startSleep() leaves the address.
StartSleep ==
  /\ \/ reading = "run" /\ ~interrupted /\ ~failed /\ opened /\ paused
     \/ reading = "sleepAgain"
  /\ sleeping' = TRUE
  /\ reading' = "serve"
  /\ UNCHANGED <<want, paused, contextVars, waiting, cacheWaiting, mainVars,
                 posted, cacheVars, streamingActive, stopAsync, readVars,
                 asked, dead, downloaderVars, servedVars>>

\* startSleep() goes on to processDownloaderRequests().
Serve ==
  /\ reading = "serve"
  /\ ServeDownloader(posted, requests, acks)
  /\ reading' = "asleep"
  /\ UNCHANGED <<want, paused, contextVars, addressVars, mainVars, worker,
                 stale, cached, streamingActive, stopAsync, error, arrived,
                 loading, urgent, asked, dead, attached, saved, downloads>>

\* acquire(), stopSleep() and the condition of the loop.
WakeUp ==
  /\ reading = "asleep"
  /\ semaphore > 0
  /\ semaphore' = semaphore - 1
  /\ sleeping' = FALSE
  /\ reading' = IF interrupted \/ ~paused THEN "run" ELSE "sleepAgain"
  /\ UNCHANGED <<want, paused, opened, interrupted, failed, waiting,
                 cacheWaiting, mainVars, posted, cacheVars, streamingActive,
                 stopAsync, readVars, asked, dead, downloaderVars, servedVars>>

\* The thread leaves its loop: it has to, or the file is read till its end
\* or cannot be decoded.  If nobody interrupted it, it asks the main thread
\* to stop streaming, in two steps.
Finish ==
  /\ reading = "run"
  /\ reading' = IF interrupted THEN "ended" ELSE "leaving"
  /\ UNCHANGED <<want, paused, contextVars, addressVars, mainVars, posted,
                 cacheVars, streamingActive, stopAsync, readVars, asked, dead,
                 downloaderVars, servedVars>>

StopStreamingAsync ==
  /\ reading = "leaving"
  /\ IF interrupted
     THEN reading' = "ended" /\ UNCHANGED stopAsync
     ELSE reading' = "posting" /\ stopAsync' = TRUE
  /\ UNCHANGED <<want, paused, contextVars, addressVars, mainVars, posted,
                 cacheVars, streamingActive, readVars, asked, dead,
                 downloaderVars, servedVars>>

PostStop ==
  /\ reading = "posting"
  /\ Post("stop")
  /\ reading' = "ended"
  /\ UNCHANGED <<want, paused, contextVars, addressVars, mainVars, cacheVars,
                 streamingActive, stopAsync, readVars, asked, dead,
                 downloaderVars, servedVars>>

\* What the thread does by itself once it is reading, asleep or done.
Reads == FirstCheck \/ Fill \/ StartWaiting \/ SecondCheck \/ Acquire
Sleeps == StartSleep \/ Serve \/ WakeUp
Leaves == StopStreamingAsync \/ PostStop
Thread == Reads \/ Sleeps \/ Leaves \/ (reading = "run" /\ (interrupted \/ failed) /\ Finish)

-----------------------------------------------------------------------------
(***************************************************************************)
(* The main thread.                                                        *)
(***************************************************************************)

\* continueDownloaderFromMainThread() and wakeFromSleep() up to where it has
\* loaded the address.
ContinueDownloader(next, queue, done) ==
  IF streamingActive
  THEN /\ main' = IF sleeping THEN "wake" ELSE next
       /\ after' = IF sleeping THEN next ELSE "idle"
       /\ posted' = queue
       /\ acks' = done
       /\ UNCHANGED <<requests, cacheReads, results, slices, servedVars>>
  ELSE /\ main' = next
       /\ UNCHANGED after
       /\ ServeDownloader(queue, requests, done)

\* StreamedFileDownloader::savePart() for a part of partsForDownloader(); a
\* download that has all parts is finished and goes away.
SavePart(p, next, queue) ==
  IF ~attached \/ p \in saved
  THEN /\ main' = next
       /\ posted' = queue
       /\ UNCHANGED <<after, attached, saved, requests, acks, cacheReads,
                      results, slices, servedVars>>
  ELSE /\ attached' = (saved \cup {p} # Parts)
       /\ IF attached'
          THEN /\ saved' = saved \cup {p}
               /\ ContinueDownloader(next, queue, acks \cup {p})
          ELSE /\ saved' = {}
               /\ main' = next
               /\ posted' = queue
               /\ requests' = <<>>
               /\ acks' = acks \cup {p}
               /\ UNCHANGED <<after, cacheReads, results, slices, servedVars>>

\* The loader brings a part: first the downloader gets it.
PartArrives(p) ==
  /\ main = "idle"
  /\ p \in asked \ dead
  /\ asked' = asked \ {p}
  /\ bringing' = p
  /\ SavePart(p, "push", posted)
  /\ UNCHANGED <<reading, want, paused, contextVars, addressVars, goal, starts, worker,
                 stale, cached, streamingActive, stopAsync, error, arrived,
                 loading, urgent, dead, downloads>>

\* LoaderMtproto::cancelOnFail(): the failed request stays in its place, and
\* the downloader cancels itself.
PartFails(p) ==
  /\ CanFail
  /\ main = "idle"
  /\ p \in asked \ dead
  /\ dead' = dead \cup {p}
  /\ bringing' = Failed
  /\ main' = "push"
  /\ attached' = FALSE
  /\ saved' = {}
  /\ requests' = IF attached THEN <<>> ELSE requests
  /\ UNCHANGED <<reading, want, paused, contextVars, addressVars, after, goal, starts,
                 posted, cacheVars, streamingActive, stopAsync, readVars,
                 asked, downloads, acks, servedVars>>

\* Then the part is queued for the streaming thread, and the address it may
\* wait at is loaded, cleared and released.
Push ==
  /\ main = "push"
  /\ arrived' = IF streamingActive THEN arrived \cup {bringing} ELSE arrived
  /\ bringing' = NoPart
  /\ main' = "look"
  /\ UNCHANGED <<reading, want, paused, contextVars, addressVars, after, goal, starts,
                 posted, cacheVars, streamingActive, stopAsync, error, loading,
                 urgent, slices, asked, dead, downloaderVars, servedVars>>

Look ==
  /\ main = "look"
  /\ main' = IF waiting THEN "clear" ELSE "idle"
  /\ UNCHANGED <<reading, want, paused, contextVars, addressVars, after,
                 bringing, goal, starts, posted, cacheVars, streamingActive, stopAsync,
                 readVars, asked, dead, downloaderVars, servedVars>>

ClearWaiting ==
  /\ main = "clear"
  /\ waiting' = FALSE
  /\ main' = "release"
  /\ UNCHANGED <<reading, want, paused, contextVars, cacheWaiting, sleeping,
                 after, bringing, goal, starts, posted, cacheVars, streamingActive,
                 stopAsync, readVars, asked, dead, downloaderVars, servedVars>>

Release ==
  /\ main = "release"
  /\ semaphore' = Released
  /\ main' = "idle"
  /\ UNCHANGED <<reading, want, paused, opened, interrupted, failed,
                 addressVars, after, bringing, goal, starts, posted, cacheVars,
                 streamingActive, stopAsync, readVars, asked, dead,
                 downloaderVars, servedVars>>

\* wakeFromSleep() with the address loaded.
ClearSleeping ==
  /\ main = "wake"
  /\ sleeping' = FALSE
  /\ main' = "wakeRelease"
  /\ UNCHANGED <<reading, want, paused, contextVars, waiting, cacheWaiting,
                 after, bringing, goal, starts, posted, cacheVars, streamingActive,
                 stopAsync, readVars, asked, dead, downloaderVars, servedVars>>

ReleaseSleeping ==
  /\ main = "wakeRelease"
  /\ semaphore' = Released
  /\ main' = after
  /\ after' = "idle"
  /\ UNCHANGED <<reading, want, paused, opened, interrupted, failed,
                 addressVars, bringing, goal, starts, posted, cacheVars,
                 streamingActive, stopAsync, readVars, asked, dead,
                 downloaderVars, servedVars>>

\* LoaderMtproto::load(): what the downloader has is brought at once, what is
\* asked for already is not asked for again.
LoadPosted ==
  /\ posted # <<>> /\ Head(posted).do = "load"
  /\ posted' = Tail(posted)
  /\ LET p == Head(posted).part
     IN  IF attached /\ p \in saved
         THEN /\ asked' = asked \ {p}
              /\ dead' = dead \ {p}
              /\ bringing' = p
              /\ main' = "push"
         ELSE asked' = asked \cup {p} /\ UNCHANGED <<dead, bringing, main>>
  /\ UNCHANGED <<reading, want, paused, contextVars, addressVars, after, goal, starts,
                 cacheVars, streamingActive, stopAsync, readVars,
                 downloaderVars, servedVars>>

\* LoaderMtproto::cancel().
CancelPosted ==
  /\ posted # <<>> /\ Head(posted).do = "cancel"
  /\ posted' = Tail(posted)
  /\ asked' = asked \ {Head(posted).part}
  /\ dead' = dead \ {Head(posted).part}
  /\ UNCHANGED <<reading, want, paused, contextVars, addressVars, mainVars,
                 cacheVars, streamingActive, stopAsync, readVars,
                 downloaderVars, servedVars>>

\* A part that was in memory or in the cache is fired for the downloader.
FirePosted ==
  /\ posted # <<>> /\ Head(posted).do = "fire"
  /\ SavePart(Head(posted).part, "idle", Tail(posted))
  /\ UNCHANGED <<reading, want, paused, contextVars, addressVars, bringing,
                 goal, starts, worker, stale, cached, streamingActive, stopAsync,
                 error, arrived, loading, urgent, asked, dead, downloads>>

\* Mutant: the downloader is not told of what the cache has brought.
CheckPostedOnly ==
  /\ posted # <<>> /\ Head(posted).do = "check"
  /\ posted' = Tail(posted)
  /\ UNCHANGED <<reading, want, paused, contextVars, addressVars, mainVars,
                 cacheVars, streamingActive, stopAsync, readVars, asked, dead,
                 downloaderVars, servedVars>>

\* checkCacheResultsForDownloader().
CheckPosted ==
  /\ posted # <<>> /\ Head(posted).do = "check"
  /\ ContinueDownloader("idle", Tail(posted), acks)
  /\ UNCHANGED <<reading, want, paused, contextVars, addressVars, bringing,
                 goal, starts, worker, stale, cached, streamingActive, stopAsync,
                 error, arrived, loading, urgent, asked, dead, attached,
                 saved, downloads>>

\* Mutant: whether or not streaming was stopped since.
StopPostedAnyway ==
  /\ posted # <<>> /\ Head(posted).do = "stop"
  /\ posted' = Tail(posted)
  /\ main' = "stop" /\ goal' = "async"
  /\ UNCHANGED <<reading, want, paused, contextVars, addressVars, after,
                 bringing, starts, cacheVars, streamingActive, stopAsync, readVars,
                 asked, dead, downloaderVars, servedVars>>

\* The rest of stopStreamingAsync(): unless streaming was stopped since.
StopPosted ==
  /\ posted # <<>> /\ Head(posted).do = "stop"
  /\ posted' = Tail(posted)
  /\ IF stopAsync
     THEN main' = "stop" /\ goal' = "async"
     ELSE UNCHANGED <<main, goal, starts>>
  /\ UNCHANGED <<reading, want, paused, contextVars, addressVars, after,
                 bringing, starts, cacheVars, streamingActive, stopAsync, readVars,
                 asked, dead, downloaderVars, servedVars>>

HandlePosted ==
  /\ main = "idle"
  /\ LoadPosted \/ CancelPosted \/ FirePosted \/ CheckPosted \/ StopPosted

\* File::start() and File::stop(): a thread that was started is interrupted,
\* released and joined.
BeginStop(why) ==
  /\ main = "idle"
  /\ Len(posted) <= MaxPosted
  /\ goal' = why
  /\ IF reading # "none"
     THEN main' = "interrupt" /\ interrupted' = TRUE
     ELSE main' = "stop" /\ UNCHANGED interrupted
  /\ UNCHANGED <<reading, want, paused, opened, failed, semaphore,
                 addressVars, after, bringing, posted, cacheVars,
                 streamingActive, stopAsync, readVars, asked, dead,
                 downloaderVars, servedVars>>

Start ==
  /\ starts < MaxStarts
  /\ starts' = starts + 1
  /\ BeginStop("start")

Stop ==
  /\ reading # "none"
  /\ BeginStop("stop")
  /\ UNCHANGED starts

\* Mutant: the thread is interrupted but not woken.
InterruptOnly ==
  /\ main = "interrupt"
  /\ main' = "join"
  /\ UNCHANGED <<reading, want, paused, contextVars, addressVars, after,
                 bringing, goal, starts, posted, cacheVars, streamingActive,
                 stopAsync, readVars, asked, dead, downloaderVars, servedVars>>

\* File::stop() goes on to wake the thread, and to join it.
Interrupt ==
  /\ main = "interrupt"
  /\ semaphore' = Released
  /\ main' = "join"
  /\ UNCHANGED <<reading, want, paused, opened, interrupted, failed,
                 addressVars, after, bringing, goal, starts, posted, cacheVars,
                 streamingActive, stopAsync, readVars, asked, dead,
                 downloaderVars, servedVars>>

Join ==
  /\ main = "join"
  /\ reading = "ended"
  /\ main' = "stop"
  /\ UNCHANGED <<reading, want, paused, contextVars, addressVars, after,
                 bringing, goal, starts, posted, cacheVars, streamingActive,
                 stopAsync, readVars, asked, dead, downloaderVars, servedVars>>

\* stopStreaming() up to the mutex, which it takes when an address is left
\* in the cache helper.
StopStreaming ==
  /\ main = "stop"
  /\ stopAsync' = FALSE
  /\ waiting' = FALSE
  /\ main' = IF cacheWaiting THEN "lock" ELSE "stopped"
  /\ UNCHANGED <<reading, want, paused, contextVars, cacheWaiting, sleeping,
                 after, bringing, goal, starts, posted, cacheVars, streamingActive,
                 readVars, asked, dead, downloaderVars, servedVars>>

ClearCacheWaiting ==
  /\ main = "lock"
  /\ MutexIsFree
  /\ cacheWaiting' = FALSE
  /\ main' = "stopped"
  /\ UNCHANGED <<reading, want, paused, contextVars, waiting, sleeping, after,
                 bringing, goal, starts, posted, cacheVars, streamingActive,
                 stopAsync, readVars, asked, dead, downloaderVars, servedVars>>

\* The rest of stopStreaming(false): the downloader is served from here on.
StoppedForGood ==
  /\ main = "stopped" /\ goal # "start"
  /\ streamingActive' = FALSE
  /\ loading' = {} /\ urgent' = {}
  /\ ServeDownloader(posted, requests, acks)
  /\ main' = "idle" /\ goal' = "stop"
  /\ IF goal = "stop"
     THEN reading' = "none" /\ interrupted' = FALSE /\ failed' = FALSE
          /\ opened' = FALSE /\ semaphore' = 0 /\ paused' = FALSE
     ELSE UNCHANGED <<reading, contextVars, paused>>
  /\ UNCHANGED <<want, addressVars, after, bringing, starts, worker, stale,
                 cached, stopAsync, error, arrived, asked, dead, attached,
                 saved, downloads>>

\* The rest of File::start(): another context in the place of the one that
\* is gone, whose address a worker may still hold.
StoppedToStart ==
  /\ main = "stopped" /\ goal = "start"
  /\ streamingActive' = TRUE
  /\ stale' = (worker # "none")
  /\ reading' = "run"
  /\ interrupted' = FALSE /\ failed' = FALSE /\ opened' = FALSE
  /\ semaphore' = 0 /\ paused' = FALSE
  /\ main' = "idle" /\ goal' = "stop"
  /\ UNCHANGED <<want, addressVars, after, bringing, starts, posted, worker,
                 results, cacheReads, cached, stopAsync, readVars, asked, dead,
                 downloaderVars, servedVars>>

\* The player, which has tracks when the file is opened, has received enough for
\* now (trackReceivedTill()), or has played so much of it that it wakes the
\* thread (trackPlayedTill()).
Pause ==
  /\ main = "idle"
  /\ reading # "none" /\ opened /\ ~paused
  /\ paused' = TRUE
  /\ UNCHANGED <<reading, want, contextVars, addressVars, mainVars, posted,
                 cacheVars, streamingActive, stopAsync, readVars, asked, dead,
                 downloaderVars, servedVars>>

Resume ==
  /\ main = "idle"
  /\ reading # "none" /\ paused
  /\ paused' = FALSE
  /\ semaphore' = Released
  /\ UNCHANGED <<reading, want, opened, interrupted, failed, addressVars,
                 mainVars, posted, cacheVars, streamingActive, stopAsync,
                 readVars, asked, dead, downloaderVars, servedVars>>

\* A StreamedFileDownloader asks for all parts: loadForDownloader() for each
\* and continueDownloaderFromMainThread().
StartDownload ==
  /\ main = "idle"
  /\ ~attached /\ downloads < MaxDownloads
  /\ attached' = TRUE
  /\ downloads' = downloads + 1
  /\ IF streamingActive
     THEN /\ requests' = requests \o InOrder(Parts)
          /\ main' = IF sleeping THEN "wake" ELSE "idle"
          /\ UNCHANGED <<after, posted, acks, cacheReads, results, slices, servedVars>>
     ELSE /\ UNCHANGED <<main, after>>
          /\ ServeDownloader(posted, requests \o InOrder(Parts), acks)
  /\ UNCHANGED <<reading, want, paused, contextVars, addressVars, bringing,
                 goal, starts, worker, stale, cached, streamingActive, stopAsync,
                 error, arrived, loading, urgent, asked, dead, saved>>

\* cancelForDownloader().
CancelDownload ==
  /\ main = "idle"
  /\ attached
  /\ attached' = FALSE
  /\ saved' = {}
  /\ requests' = <<>>
  /\ UNCHANGED <<reading, want, paused, contextVars, addressVars, mainVars,
                 posted, cacheVars, streamingActive, stopAsync, readVars,
                 asked, dead, downloads, acks, servedVars>>

Brings == Push \/ Look \/ ClearWaiting \/ Release
Wakes == ClearSleeping \/ ReleaseSleeping
Stops == \/ Interrupt \/ Join \/ StopStreaming \/ ClearCacheWaiting
         \/ StoppedForGood \/ StoppedToStart

-----------------------------------------------------------------------------
(***************************************************************************)
(* The workers that bring what the cache has.                              *)
(***************************************************************************)

\* The lambda ready of readFromCache(): it takes the mutex, leaves the result
\* and loads the address.  It keeps the mutex until it has released.
CacheAnswers(r) ==
  /\ MutexIsFree
  /\ r \in cacheReads
  /\ cacheReads' = cacheReads \ {r}
  /\ results' = results @@ (r.slice :> r.parts)
  /\ IF cacheWaiting
     THEN worker' = "found" /\ UNCHANGED posted
     ELSE Len(posted) <= MaxPosted /\ Post("check") /\ UNCHANGED worker
  /\ UNCHANGED <<reading, want, paused, contextVars, addressVars, mainVars,
                 stale, cached, streamingActive, stopAsync, readVars, asked,
                 dead, downloaderVars, servedVars>>

WorkerClears ==
  /\ worker = "found"
  /\ worker' = "cleared"
  /\ cacheWaiting' = FALSE
  /\ UNCHANGED <<reading, want, paused, contextVars, waiting, sleeping,
                 mainVars, posted, stale, results, cacheReads, cached,
                 streamingActive, stopAsync, readVars, asked, dead,
                 downloaderVars, servedVars>>

\* The semaphore of a context that is gone lies where the next one has its
\* own: the release of it goes there or nowhere.
WorkerReleases ==
  /\ worker = "cleared"
  /\ worker' = "none"
  /\ stale' = FALSE
  /\ \/ semaphore' = Released
     \/ stale /\ UNCHANGED semaphore
  /\ UNCHANGED <<reading, want, paused, opened, interrupted, failed,
                 addressVars, mainVars, posted, results, cacheReads, cached,
                 streamingActive, stopAsync, readVars, asked, dead,
                 downloaderVars, servedVars>>

-----------------------------------------------------------------------------

Init ==
  /\ reading = "none" /\ want = NoPart /\ paused = FALSE
  /\ opened = FALSE /\ interrupted = FALSE /\ failed = FALSE /\ semaphore = 0
  /\ waiting = FALSE /\ cacheWaiting = FALSE /\ sleeping = FALSE
  /\ main = "idle" /\ after = "idle" /\ bringing = NoPart /\ goal = "stop" /\ starts = 0
  /\ posted = <<>>
  /\ worker = "none" /\ stale = FALSE /\ results = <<>>
  /\ \E found \in Cached, header \in CachedHeaders :
       cached = [s \in Slices |-> found \cap PartsOf(s)] @@ (Header :> header)
  /\ cacheReads = IF UseCache THEN {Read(Header)} ELSE {}
  /\ streamingActive = FALSE /\ stopAsync = FALSE
  /\ error = FALSE /\ arrived = {} /\ loading = {} /\ urgent = {}
  /\ slices = [parts |-> [s \in Slices |-> {}],
               state |-> [s \in Slices |-> "absent"],
               changed |-> {}, used |-> <<>>, inHeader |-> {},
               header |-> IF UseCache THEN "loading" ELSE "noCache"]
  /\ asked = {} /\ dead = {}
  /\ attached = FALSE /\ saved = {} /\ downloads = 0
  /\ requests = <<>> /\ acks = {}
  /\ offsets = <<>> /\ requested = {}
  /\ readCache = [s \in Slices |-> NotRead]

Next ==
  \/ \E p \in Parts : BeginRead(p)
  \/ HeaderDone \/ Finish
  \/ Reads \/ Sleeps \/ Leaves
  \/ \E p \in Parts : PartArrives(p) \/ PartFails(p)
  \/ HandlePosted
  \/ Brings \/ Wakes \/ Stops
  \/ Start \/ Stop \/ Pause \/ Resume
  \/ StartDownload \/ CancelDownload
  \/ \E r \in cacheReads : CacheAnswers(r)
  \/ WorkerClears \/ WorkerReleases

Spec == Init /\ [][Next]_vars

(***************************************************************************)
(* Fairness.  The threads run: each goes on with what it is doing.  The    *)
(* main thread comes to every event and every part that waits for it,      *)
(* whatever else it has to do, and the loader and the cache answer.  A     *)
(* thread that may go on need neither sleep nor come to an end: a file is  *)
(* played in a loop, or read as fast as it is played.                      *)
(***************************************************************************)
Fairness ==
  /\ WF_vars(Thread)
  /\ WF_vars(Brings \/ Wakes \/ Stops)
  /\ SF_vars(HandlePosted)
  /\ \A p \in Parts : SF_vars(PartArrives(p))
  /\ SF_vars(\E r \in cacheReads : CacheAnswers(r))
  /\ WF_vars(WorkerClears \/ WorkerReleases)

FairSpec == Spec /\ Fairness

-----------------------------------------------------------------------------

\* The places and values the program goes through.
TypeOK ==
  /\ reading \in {"none", "run", "fill", "slices", "register", "again", "blocked",
                  "serve", "asleep", "sleepAgain", "leaving", "posting", "ended"}
  /\ want \in Parts \cup {NoPart}
  /\ {opened, interrupted, failed, paused, waiting, cacheWaiting, sleeping, stale,
      streamingActive, stopAsync, error, attached} \subseteq BOOLEAN
  /\ semaphore \in 0..MaxReleases
  /\ main \in {"idle", "push", "look", "clear", "release", "wake", "wakeRelease",
               "interrupt", "join", "stop", "lock", "stopped"}
  /\ after \in {"idle", "push"}
  /\ bringing \in Parts \cup {NoPart}
  /\ goal \in {"start", "stop", "async"}
  /\ posted \in Seq([do : {"load", "cancel", "fire", "check", "stop"}, part : Parts \cup {NoPart}])
  /\ worker \in {"none", "found", "cleared"}
  /\ DOMAIN results \subseteq {Header} \cup Slices
  /\ arrived \subseteq Parts \cup {Failed}
  /\ loading \subseteq Parts /\ urgent \subseteq loading
  /\ asked \subseteq Parts /\ dead \subseteq asked
  /\ saved \subseteq Parts /\ downloads \in 0..MaxDownloads
  /\ requested \subseteq Parts /\ acks \subseteq Parts

\* Nobody misses a wake-up.  A streaming thread that waits for the release of
\* its semaphore has seen every part and every answer of the cache, and every
\* order to stop, or somebody is on the way to release it: the loops of fill()
\* and of read() (media_streaming_reader.cpp:1266, media_streaming_file.cpp:72)
\* look again after they have left the address, the others look for the address
\* after they have left what they bring.
BlockedIsWoken ==
  reading = "blocked" /\ semaphore = 0 /\ ~error =>
    /\ arrived # {} => main \in {"clear", "release"} \/ (main = "look" /\ waiting)
    /\ DOMAIN results # {} => worker \in {"found", "cleared"}
    /\ interrupted => main = "interrupt"

\* The downloader is served by one thread at a time: while a streaming thread
\* is at work streaming is active, so that the main thread leaves the slices,
\* the offsets and what was read from the cache alone: "In case only downloader
\* is active, all work is done on main thread" (media_streaming_reader.h:260).  A stop that the
\* thread has asked for itself may come when the next one runs already.
OnlyOneThreadWorks ==
  ~streamingActive => reading \in {"none", "posting", "ended"}

\* What the downloader asks for is seen: whoever serves it has, or is awake and
\* will before it sleeps again (startSleep(), media_streaming_reader.cpp:878).
DownloaderIsSeen ==
  /\ main = "idle"
  /\ ~streamingActive \/ (reading = "asleep" /\ semaphore = 0)
  => requests = <<>>

Reading == reading \in {"fill", "slices", "register", "again", "blocked"}

\* A read ends, with the part or with an error: what it asks for comes or fails,
\* by the loader or from the cache, though its slice may have been unloaded while
\* a part of it was on its way, which cancels that part (media_streaming_file.cpp:56).
\* After a part has failed a reader that starts again may wait for ever: the
\* loader keeps the failed request and takes no other for that part
\* (media_streaming_loader_mtproto.cpp:55), so this is about one start.
ReadEnds == []<>(~Reading \/ error)

\* The main thread does not wait for the streaming thread for ever when it
\* stops or restarts it (media_streaming_file.cpp:480).
StopReturns == []<>(main # "join")

\* The streaming thread comes to serve the downloader again and again, or leaves
\* it to the main thread.
Serves == reading = "asleep" \/ ~streamingActive

\* A download of the file ends, whether streaming sleeps, reads or stops beside
\* it, if it does not only read: what is asked for comes by the loader, from
\* the memory or from the cache, to whichever thread serves the downloader then
\* (streamed_file_downloader.cpp).
DownloadEnds == []<>Serves => []<>~attached

-----------------------------------------------------------------------------
(* What the code does not keep.                                            *)

\* The assertion of addPart(), "Expects(!parts.contains(offset))"
\* (media_streaming_reader.cpp:263): no part is loaded that is there.
LoadingIsMissing ==
  \A p \in loading : ~InMemory(p)

\* A download of the file ends also beside a thread that goes on reading.  False
\* in the code: the thread serves the downloader when it goes to sleep, which it
\* may not do "ever" (media_streaming_file.cpp:77-81), nor end when it plays in a
\* loop (line 386).
DownloadAlwaysEnds == attached ~> ~attached

\* A read that finds an error is told so.
ErrorIsReported == (reading = "blocked" /\ error) ~> reading # "blocked"
-----------------------------------------------------------------------------
(* Why nobody misses a wake-up and one thread works at a time: the inductive *)
(* invariant of the proof, conjunct by conjunct.                             *)

Waits == reading \in {"again", "blocked"} /\ semaphore = 0 /\ ~error

Outside == reading \in {"none", "posting", "ended"}

Stopping == main \in {"stop", "lock", "stopped"}

CountInv ==
  /\ semaphore \in 0..MaxReleases
  /\ after \in {"idle", "push"}
  /\ "header" \in DOMAIN slices

\* Without a key nothing is read from the cache.
NoCacheInv ==
  ~UseCache => /\ slices.header = "noCache"
               /\ cacheReads = {} /\ DOMAIN results = {}

\* A thread that asks for its own stop is on its way out, and so is one that
\* the main thread has joined; what it asks is withdrawn when it is stopped.
StopInv ==
  /\ stopAsync => Outside
  /\ Stopping => Outside /\ (reading = "posting" => goal = "async")
  /\ main \in {"lock", "stopped"} /\ goal # "async" => ~stopAsync

\* A worker that holds on to the address of a context that is gone also holds
\* the mutex, which the next thread takes before it can wait.
StaleInv ==
  stale => /\ worker # "none"
           /\ reading \notin {"slices", "register", "again", "blocked"}

\* Who waits can be found, or has just been found.
AddressInv ==
  /\ Waits => waiting \/ main = "release"
  /\ Waits /\ UseCache => cacheWaiting \/ worker = "cleared"
  /\ reading \in {"serve", "asleep"} /\ semaphore = 0 => sleeping \/ main = "wakeRelease"

\* The release that comes with an interruption is taken by what ends reading.
InterruptInv ==
  interrupted /\ semaphore = 0 =>
    Outside \/ reading \in {"run", "leaving"} \/ main = "interrupt"

\* What the downloader asks for while the thread sleeps wakes it.
RequestInv ==
  /\ ~streamingActive => requests = <<>>
  /\ reading = "asleep" /\ semaphore = 0 /\ requests # <<>> =>
       main \in {"wake", "wakeRelease"}

IInv ==
  /\ CountInv /\ NoCacheInv /\ StopInv /\ StaleInv /\ AddressInv
  /\ InterruptInv /\ RequestInv
  /\ OnlyOneThreadWorks /\ BlockedIsWoken
=============================================================================
