# A verification development for opengram

opengram is a Telegram client: a single-process C++ program that keeps a local
picture of an account whose truth is on a server. This directory holds TLA+
modules that model parts of that program, TLC configurations that check them on
small instances, and theorems about them that TLAPS has checked.

Paths below are relative to `src/Telegram/SourceFiles/`.

1. [Inventory](#inventory)
2. [What is modelled](#what-is-modelled)
3. [What the runs check](#what-the-runs-check)
4. [Fairness](#fairness)
5. [What is proved](#what-is-proved)
6. [Where code and comment differ](#where-code-and-comment-differ)
7. [What is not modelled](#what-is-not-modelled)
8. [What is left](#what-is-left)

To check a run: `tlc -config CommonOrder.cfg MCCommonUpdates.tla`; to check
the proofs: `tlapm CommonUpdates_proofs.tla`, and the same for the other
`…_proofs` modules.

## Inventory

The program has one main thread, which runs all handlers of data and interface
one at a time; one thread per MTProto session; and worker threads for files and
streaming. Handlers on the main thread are atomic with respect to each other but
call each other, and everything that has to do with the server happens between
them.

| component | state it keeps | operations | how it interacts | what makes it correct |
|---|---|---|---|---|
| Stream positions: `data/data_pts_waiter` | highest position heard of, sum of counts, position claimed, queue of early updates, two waiting flags, requesting flag | init, updateAndApply (3), setRequesting, setWaitingFor… | owned by `Api::Updates` and by each `ChannelData`; applies through `Api::Updates`, asks it for timers | claims a position only when everything up to it was applied; queues only for an open gap, and a gap is watched |
| Updates of the account: `api/api_updates` | its waiter, seq, date, qts, parked containers, timers | receive pushes and results, getDifference and its answers, three timers | pushes from the MTProto session, results from `apiwrap` | nothing missed, nothing applied twice, one difference at a time, never deaf for good |
| Updates of channels: `api/api_updates`, `data/data_channel.h` | per channel a waiter, entry in `_whenGetDiffByPts` and in `_whenGetDiffAfterFail`; open channels | receive updates and positions, getChannelDifference and its answers, polling | skipped while the account's difference is awaited; positions from history requests | as above, and an open channel is polled |
| MTProto session: `mtproto/session`, `session_private`, `details/mtproto_received_ids_manager` | requests to send, sent, acknowledged; received ids; containers; salts, session id | send, resend, acknowledge, ask for state, cancel, restart | main thread and session thread share maps under locks | a request is answered once or failed; no message is handled twice; acknowledged means handled |
| Key creation: `details/mtproto_dcenter`, `session`, `session_private`, `bound_key_creator`, `dc_key_binder` | keys of a dc, who is creating which | acquire, done, failed, bind, destroy | threads of all sessions of a dc | one creator per slot; what is in a slot is bound; nobody uses an unbound key; a waiting session is told |
| MTProto instance: `mtproto/mtp_instance` | requests, their dcs, delays, waiting for authorization, keys to destroy | send, cancel, delay, migrate, transfer authorization | on top of sessions, below everything | a request has one callback; it waits for nothing that cannot happen |
| Download manager: `storage/download_manager_mtproto` | sessions per dc, amounts requested, queue of tasks | take, finish, fail, time out, add and remove sessions, CDN redirect | callbacks may delete the task | amounts add up; no part is lost |
| Uploader: `storage/file_upload` | queue of files, bytes in flight per dc and session | send a part, part done, cancel, pause | histories, media | what is in flight is given back; parts complete once |
| Histories: `data/data_histories` | per chat: read till, requests sent and postponed, whether its entry is waited for | read, delete, request history or entry, cancel, postpone | main thread, iterated while changed; answers through `mtp_instance` | what is asked of the history and what deletes it exclude each other; postponed ones run once; reads never go back |
| Local files: `storage/details/storage_file_utilities`, `storage_account`, `storage_domain` | files with checksums, a scheduled write per name | write, write now, read | a crash between any two file operations | the reader finds the old or the new content |
| Streaming reader: `media/streaming/media_streaming_reader`, `_file`, `storage/streamed_file_downloader` | slices with parts, the part that is waited for, addresses of a sleeping semaphore, cache requests, offsets for the downloader | fill, sleep, wake, stop, load for the downloader | streaming thread, main thread, cache threads | whoever sleeps is woken when there is a reason; one thread at a time does the work; reads and downloads end |
| Sparse lists: `storage/storage_sparse_ids_list` | slices of known ids, total | add, remove, invalidate, snapshot | shared media | slices are disjoint, the total is the server's |
| Plugins bridge: `plugins/plugins_bridge`, `src/plugins` | process, menu items, pending requests | start, reload, request, event | child process over pipes | each event once, each request one response |
| Scheduled messages, calls, updater, configuration of connections, interface | | | | not considered further, see below |

The behaviours that are hard here: pushes overtake each other, are lost with
their session, or repeat what a difference has brought; handlers are re-entered
through each other (a fed container asks for a difference, which clears the
containers being drained); answers come when the state they were asked from is
old; two purposes share a timer; keys, downloads and uploads are shared between
sessions; files are written across crashes. `PROJECT.json` lists each of them
under `hazards` with the line where it bites.

## What is modelled

Update streams come first: every message the user sees goes through them, they
have the most subtle state of the program, and none of it has a test. Key
creation, the MTProto session and the instance come second: that is where
threads compete and where requests may get lost. Histories, local files and the
streaming reader follow, each for a difficulty of its own: callbacks in
callbacks, crashes, and three kinds of threads around a semaphore.

### `PtsWaiter`

The class `PtsWaiter` as a record and operators on it. `good`, `last`, `count`
are the fields of these names; `queue` stands for the queues of updates and
containers; `requesting`, `waitingForSkipped`, `waitingForShortPoll` are the
flags. A method that changes state is an operator that returns the new waiter,
what was applied, what the owner's timer was told, and the return value:
`InitAt`, `SetRequesting`, `StartShortPoll`/`StopShortPoll`,
`StopWaitingForSkipped`, `Check`, `Updated`, `ApplySkipped`, `UpdateAndApply`,
`UpdateAndApplyPosition`. An update is a pair [pts, count] and stands for the
positions pts-count+1..pts, which the code never computes: that the comparison
of two sums is enough is what is to be shown.

### `CommonUpdates`

The stream of the account. `client` is one record, the fields of `Api::Updates`,
because its handlers call each other; handlers are operators on it
(`GetDifference`, `FeedUpdate`, `ApplyContainer`, `SetState`, `StateDone`, …) and
one action is one event of the main loop: something arrives from the wire
(`Receive…`), or a timer runs out. `sending` collects the requests a handler
makes. The loop of `setState()` over
the parked containers is `DrainOne`, applied (`Drain`) as many times as there
are containers; a container fed in it may ask for a difference, which clears
`bySeq` in the middle.

The server and the network are external (`Issue`, `Send`, `Answer…`, `Drop`,
`LoseSession`), modelled from what the client's code relies on:

- the server numbers events consecutively and answers a difference with
  everything after the position it was asked from; the answer is empty only if
  there is nothing; slices end anywhere before the server's position;
- updates overtake each other before they are on the wire (`unsent`), not on it:
  the session hands what it received to the main thread through one queue
  (`session.cpp:542`);
- an update is sent once; a session that is lost loses its pushes, has its
  requests sent again, and is announced by `new_session_created`
  (`session_private.cpp:1889`).

Ghosts: `seen`, `seenSeq` (positions and containers applied) and `repeated`
(positions applied again by a handler not in the middle of a difference).

### `ChannelUpdates`

The streams of channels, one waiter each, in `local[ch]` along with its entries
in `_whenGetDiffByPts` (`timer`) and `_whenGetDiffAfterFail` (`retry`). Here the
network does not keep any order: `transit` is a set. Updates, results of the
client's own requests (`affected`), positions in history answers (`position`),
`updateChannelTooLong`, requests and their answers are messages; each handler is
an action. The account's difference appears as `common`, during which pushes are
ignored. Windows open and close channels, the user leaves them.

Ghosts: `base` (the position the client started from: the first it heard, or
that of a too long difference), `seen`, and `counted`, the positions counted in
since `good` last moved, which only the proof needs.

Assumptions on the server beyond those above: the dialog in a
`channelDifferenceTooLong` carries a position; a final answer ends at the
server's position; positions it reports are ones it has been at between events.

### `KeyCreation`

The sessions of one dc share its keys. Requests are encrypted with a temporary
key, which must have been bound to the persistent key, the authorization; a dc
has a slot for a regular temporary key and one for a key of its media cluster.
`dc` is `Dcenter` (`temporary`, `persistent`, and `creating` for the flags of
`_creatingKeys`). `session[s]` is what a `SessionPrivate` and its
`BoundKeyCreator` keep: `conn` (no connection, test connections, connected),
`type` (`_currentDcType`), `key` (`_keyId`), `creator` (the kind of key that was
acquired, which is also `Session::_myKeyCreation`), `phase` of the creator
(`working`: the handshake runs, `bound`: it has a binder), `perm` (the key it
binds to) and `bind` (the request and its answer). `main` is what threads of
sessions have queued for the main thread with `InvokeQueued`, `told` the calls
the main thread has queued for a session. `saved` is the entry of
`_keysForWrite`.

An action is what the thread of one session, or the main thread, does in one
turn: `Connect` (`connectToServer`), `Connected` (`checkAuthKey`),
`CreationDone` and `CreationFailed` (`unboundReady`), `SendBind`,
`BindSucceeded`, `BindOutdated`, `BindRefused`, `BindFailed`
(`handleBindResponse`), `KeyUnknown` (-404), `KeyNotBound`, `UpdateAuthKey`,
`RestartNow`, `Disconnect`, `Stop`, `Start`, and `Handle…` on the main thread.
Each takes the lock of `Dcenter` at most once in a way that another thread could
notice, with one exception: a media session in `applyAuthKey()` looks at the
slots and acquires a creation in two steps, and `AcquireMedia` is the second.
The server (`Bind`, `RefuseToBind`, `FailToBind`, `Forget`,
`DestroyPersistent`) is external: it knows which keys are bound to what
(`server.bound`), loses temporary keys, destroys persistent ones, and answers
when it likes.

The model keeps an oddity of the code that heals by itself: `AcquireMedia` may
find that the regular key is gone and acquire that one instead; the session
restarts in order to connect to the regular cluster (`session_private.cpp:2463`),
but `Connect` keeps the old type because there is a creator now (`:2509`), and
the regular key is created over the media cluster, refused by the regular one
(`Home`, `KeyUnknown`) and created again.

### `MtpSession`

One session of the MTProto client. Two threads work on its maps under a lock
each: the main thread puts requests into `toSend`, cancels them and takes
responses; the thread of the session moves them from `toSend` to `haveSent` and
back. Between two maps a request is in the hand of a thread, and this is what
the model keeps: `session.sending` between `toSend` and `haveSent` (`TakeToSend`,
`SendTaken`), `session.hand` on the way back (`TakeToResend`, `PutToResend`,
with the ids of `todo` still to come), `main.cancelling` between the two looks of
a cancel (`StartCancel`, `CancelQueued`, `CancelSent`). `buffer[r]` is the message id
in the buffer of a request, which all maps share; `acked` and `seen` are the
stores of ids of bounded size. The server executes a message
once as long as its session lives, answers, acknowledges, refuses single messages
and containers (`bad_msg_notification`), and may lose its session; the
connection may break. `server.failed` are the requests of which an attempt was
answered with an error, or refused with a code that the client takes for one:
what is sent for them again has a new id, and may be executed again.

### `MtpRequests`

`MTP::Instance::Private` above the sessions: `send()`, the map of requests,
their dcs (also the negative ones, `toMain`), delays, requests that wait for
another one (`invokeAfter`), migration of a user, a file or a phone number,
export of the authorization from the main dc and its import into another,
errors, `cancel()` at any moment. The sessions are the set of requests in
`flying`: that each is delivered once is the subject of `MtpSession`.

### `HistoryRequests`

`Histories`: requests for parts of the history, deletions and changes of one
chat, in `sent` and `postponed`; the entry of the chat and who waits for it;
`readTill`, what was sent of it and when the timer reports it. A request is
cancelled, called back by a deletion, and sent again from the answer of another
one (`finishSentRequest`), all of it inside one handler.

### `StorageFiles`

`WriteManager` and the reader of a file: `writeNow()` in single calls of the
file system (`Save`, `RemoveSimple`, `RemoveBackup`, `OpenPlain`, `FillPlain`,
`ClearBackup`, `Rename`, `RemoveSafe`), with a crash between any two and a
failure of each, the removals included, whose results nobody looks at
(`RemoveFile`). `lost` is not in the code: it records which last contents
`writeNow()` gave up, because they could not be written, or were written to a
plain copy behind an `s` that could be neither replaced nor removed. A file has
a safe name `s` and two plain copies, left from
earlier versions or written where `s` cannot be. A content is its number.

### `StreamingReader`

`Media::Streaming::Reader` at the grain of its atomic variables: the streaming
thread, the main thread and a worker of the cache each have a place (`reading`,
`main`, `worker`) and one step is one access to what they share: `waiting`,
`sleeping` and `cacheWaiting` (the addresses of the semaphore), `semaphore`,
`loading`, `offsets` of the downloader, the queue of the main thread. Slices are
sets of parts; they are unloaded, saved to the cache and read again.

### `UpdateFeed`

What the streams are for: a server issues positions, a client learns them and
claims a position only when it has everything below, and never takes a claim
back. `CommonUpdates!ImplementsFeed` says that `CommonUpdates` implements it,
with `issued <- server.pts`, `learned <- client.seen`, `claimed <-
client.waiter.good`.

### MC modules

`MCCommonUpdates`, `MCChannelUpdates`, `MCKeyCreation` and `MCStreamingReader`
give constants their values and hold the symmetry of keys. They define nothing
about the code.

Definitions commented with "Mutant:" are variants of the definition that
follows, each with a plausible bug. Nothing uses them; they record what change
of the code each property would notice.

## What the runs check

| run | instance | shows |
|---|---|---|
| `CommonOrder` | 3 events of one or two positions in containers that move seq by 0 or 1, one silently lost push, messages of unknown peers | `ClaimedPtsWasSeen`, `NothingIsRepeated`, `GapIsWatched`, `ClaimedSeqWasSeen` |
| `CommonRecovers` | 2 events in containers that move seq by 0 or 2; one each of: lost session, silently lost push, failed, refused and forced difference | `DifferenceIsAwaited`, the refinement `ImplementsFeed`; liveness: the client ends up with everything and listening unless a push was lost silently (`CaughtUp`), and a noticed gap closes even then (`GapIsHealed`) |
| `ChannelOrder` | one channel, known from the start or loaded later, browsed as well, positions to 3, 2 messages on their way | `ClaimedPtsWasSeen`, `DifferenceIsAwaited`, `NeverGoesBack`; liveness: a channel that was known from the start and stays open sees everything, infinitely often (`ActiveCatchesUp`) |
| `KeySlots` | a regular and a media session, one of them may be stopped, 3 temporary keys (one of the media cluster), 2 persistent keys that may be destroyed | `OneCreator`, `KeysBelongTogether`, `RequestsHaveBoundKeys`, `WaitingIsTold`, `AuthorizationIsKept` |
| `KeyAllCanSend` | two sessions for the regular slot, every temporary key may be forgotten | liveness: all sessions can send in the end |
| `SessionOrder` | 2 requests, one of which nobody waits for, both may be cancelled, one thing goes wrong, 2 received ids are remembered | `NothingIsForgotten`, `ExecutedOnce`, `AnswerIsItsOwn` |
| `SessionDelivers` | 1 request, 2 things go wrong | liveness: it is answered or cancelled (`EverythingIsAnswered`) |
| `HistoryServed` | 1 chat, 2 messages, 2 requests, 1 failed report | `HistoryWaitsForDeletes`, `ReadsGoForward`, `PostponedEntryIsRequested`; liveness: `HistoryIsLoaded`, `EntryIsLoaded`, `ReadIsReported` |
| `RequestsEnd` | 2 dcs, 2 requests, 2 troubles, exports and imports may be refused | `NothingIsStranded`, `CancelFindsIt`, `OneTransfer`; liveness: `EveryRequestEnds` |
| `StorageCrashes` | 2 files, one of them with plain copies, 3 contents each, 3 failures or crashes | the action properties `ContentGoesForward` and `SyncMeansWritten`; liveness: `LastIsWritten` |
| `ReaderWakes` | 2 parts, of which the downloader asks for one at a time, one of them in the cache; streaming beside a download, 2 starts | `BlockedIsWoken`, `OnlyOneThreadWorks`; liveness: `DownloadEnds` |
| `ReaderEnds` | 3 parts in 2 slices of which one stays in memory, one start, parts may fail, the third part is in the cache and its header: the first slice is unloaded with a prefetched part on its way | liveness: `ReadEnds`, `StopReturns` |

These configurations are beside them, for a reader who wants to see what the
sections below say; each but `RequestsOrder` ends with a counterexample:

| configuration (module) | shows |
|---|---|
| `CommonGapUnwatched`, `ChannelGapUnwatched` | `GapIsWatched` with updates or positions that have a count of zero |
| `ChannelUnpolled` | `ActiveIsPolled` for a channel that becomes known by browsing |
| `KeySlotLeaked`, `KeyNotCreated` | a slot that is taken while nobody creates its key |
| `SessionSendsTwice` | `NothingIsSentTwice`: a request the server refused with a fatal code is sent a second time while it is in `haveSent` |
| `SessionDropsAnswer` | `NothingIsForgotten` when more requests are acknowledged than the buffer of ids holds |
| `HistoryStuck` | `HistoryIsLoaded` beside the deletion of a channel |
| `RequestsStranded` | `NothingIsEverStranded`: with a refused transfer a request waits for nothing |
| `StorageLoses` | `ContentIsKept`: a torn plain copy takes the place of the file |
| `StorageHides` | `CopyIsRead`: a whole new plain copy behind an older `s` |
| `ReaderStarves` | `DownloadAlwaysEnds`: a download beside a thread that never sleeps nor ends |
| `ReaderLoadsTwice` | `LoadingIsMissing`: the assertion of `addPart()` |
| `ReaderHidesError` | `ErrorIsReported`: a reader that is not woken by an error |
| `RequestsOrder` | the invariants of `RequestsEnd` for 3 requests; passes, 2.3 million states |

Why the bounds are enough. Three events are what it takes for one to be lost,
one to be early and one to be stale; counts of 1 and 2 tell apart positions,
updates and sums that agree by accident; containers that move seq by 2 are
`updatesCombined`. Two messages on their way are an update and the answer that
overtakes it. Channels do not interact except through `common`, which is
nondeterministic, so one is enough. Two sessions are what competes for a slot;
a persistent key that is destroyed while a binding is on its way takes a second
one, and three temporary keys are one per session and one in a slot. Key ids
that are nowhere in use are as good as new, so the number of creations is not
bounded; the queue of the main thread is (`MaxQueued`). Two requests are what a
container holds, what one may wait for the other with, and what a transfer of
the authorization is shared by. Deletion, history request and entry exclude each
other with two requests in flight and one postponed. Three contents are one on
the disk, one being written, one in the queue; three failures are what it takes
to lose a file. Three parts in two slices are what makes a slice be unloaded
while a part of it is on its way; two starts are what a late stop needs. In
`CommonUpdates` failures are budgets, because an unlimited adversary makes every
liveness property false; in `ChannelUpdates` they are unlimited, under strong
fairness of the answer. For everything that is proved the bounds do not matter:
they are constants of the theorems.

Deadlock is not checked where a bounded environment stops, that is everywhere
but in the runs of `KeyCreation`.

`DifferenceIsAwaited` of `CommonUpdates` has one exception by name: after a
`differenceTooLong`, which the code only logs (`api_updates.cpp:515`), or an
error in answer to getState, which has no fail handler (`:263`), the client
awaits something that never comes.

## Fairness

`CommonUpdates!FairSpec`: the server sends and answers (`Serve`), the main
thread takes what arrives (`Receive`), each timer that stays armed runs out.
These are weak fairness conditions with the enabling condition written out,
since TLC would evaluate every handler twice to find it. The code justifies
them: timers are `base::Timer`s on the main loop, and requests are resent
until they are answered. Nothing is assumed about events, losses, failures.

`ChannelUpdates!FairSpec`: the same for answers and timers; the server's answer
is strongly fair, so that a request that is sent again and again succeeds at
last (the code retries with a growing delay and no limit, `api_updates.cpp:572`);
and an account difference does not stay awaited for ever. Pushes may all be lost.

`KeyCreation!FairSpec`: the main thread handles its queue, and each session does
what it can: connect, finish a handshake, bind, take a key (weak fairness of
`MainThread` and of `Progress(s)`). Everything that goes wrong is a
`Disturbance`, and `AllCanSend` is about behaviours with finitely many of them.
It is checked without a media cluster, destroyed authorizations and stops,
because with them it is false: the first two for the reasons of `KeyNotCreated`
and `KeySlotLeaked`; after a stop, sessions that wait are told nothing until
their connections break.

`MtpSession!SessionFairSpec`: the server, the receiving and the sending side, the main
thread, pings and the check of sent requests go on (weak fairness each). Without
the check nothing is sent again whose packet was lost with a connection
(`checkSentRequests()`, which runs on a timer).

`HistoryRequests!FairSpec` and `MtpRequests!FairSpec`: the server answers what
it is asked, timers and posted calls run. `StorageFiles!FairSpec`: the thread of
the manager goes on; nothing is assumed of crashes.

`StreamingReader!FairSpec`: weak fairness of each thread, strong fairness of what
another thread can disable for a while: handling a posted call, the arrival of a
part, the answer of the cache. Nothing is assumed of what the streaming thread
does between its reads: it may read again and again and neither sleep nor end,
as a file that plays in a loop does (`media_streaming_file.cpp:383`), and the
comment at `:77` says of the sleep that it may never come. `DownloadEnds` is
therefore conditional: it holds of behaviours in which the thread sleeps, or
streaming is off, again and again (`Serves`). Without the condition it is false
(`ReaderStarves`).

`ReadEnds` is checked with one start and `DownloadEnds` with one download of
which no part fails. With a second start a read may wait for ever for a part
that failed before, with a second download that download may hang, see below.

## What is proved

Each theorem is for every value of the constants that the module's assumption
allows, and each of the eight `…_proofs` modules follows one argument (`Mtp_proofs` two): an
inductive invariant, kept by every action, from which the properties follow.
Where the invariant is in the component's module (`IInv`), it can be added to a
configuration, and TLC agrees with it on the instances of the runs.

### `CommonUpdates_proofs`

For any containers, steps of seq and budgets (`BoundsAssumption`) it proves of
`CommonUpdates!Spec`:

- `ClaimsAreKept`: `[]ClaimedPtsWasSeen`; `SeqIsKept`: `[]ClaimedSeqWasSeen`;
- `NoRepetition`: `[]NothingIsRepeated`;
- `OneDifference`: `[]DifferenceIsAwaited`;
- `QueueIsForGaps`: `[]QueueWaitsForGap`, which no run checks by itself;
- `GapsAreWatched`: `[](CountsMove => GapIsWatched)`, that is, if no update has a
  count of zero. Without that condition it is false (`CommonGapUnwatched`);
- `Refinement`: `ImplementsFeed`;
- `TypeCorrectness` and `Invariance`, from which they follow.

`ClaimedPtsWasSeen` says nothing of what the sums of a waiter mean, nor of what
the parked containers still hold. `IInv` has a part for the client alone,
`Fine(c, us, e)`: a client `c` that may still be given the updates `us`, in an
environment `e` (how far the server is, whether an answer is outstanding, from
where it was asked). It says that what is claimed was applied (`Learned`), that
what is still to come was issued and is not above the claim if it was applied
(`Coming`), that parked containers have nothing in common (`ParkedApart`), that
the sums of the waiter are those of a set of positions, the claim splits no
update, and a queue waits for a watched gap (`Counting`), and that the client
ignores pushes exactly while something is outstanding (`Awaiting`). Because
`Fine` is about a value and not about the state, it can be carried through a
handler that calls others: each operator (`GetDifference`, `FeedUpdate`,
`ApplyContainer`, `DrainOne`, `SetState`, …) has a lemma that it keeps `Fine` and
only goes forward (`Handled`, `Follows`). Loops over a container and over the
parked containers are by induction on the turn, stated with a set of turns that
have the property (lemma `Induction`: a set of naturals that is not empty has a
smallest element), since the induction theorems of the library cannot be
instantiated. `HandlerStep` and `AnswerStep` lift this to actions. The rest of
`IInv` is about the network: no update is in two places (`OnceOnly`), there is
one question at a time (`OneQuestion`), it asks from where the client stands and
its answer ends between two updates (`Answering`). Steps of the server leave the
client alone (`ClientStays`, `OldTruths`, `IssuedKeeps`, `PutKeeps`,
`ReplyKeeps`). For the refinement, `Follows` is what a step of the feed needs.

### `ChannelUpdates_proofs`, `PtsWaiter_proofs`

For any channels, dialogs, browsed channels, counts and bounds
(`ChannelsAssumption`): `NothingIsMissed` (`[]ClaimedPtsWasSeen`),
`SkippingEnds` (`[]DifferenceIsAwaited`), `ClaimsGoForward` (`NeverGoesBack`),
`TypeCorrectness`, `Invariance`.

`IInv` says that the positions counted in since `good` last moved (`counted`)
are as many as `count - good`, lie between `good` and `last`, have been applied
or are queued (`Sound`); so when `last = count` they are all of `good+1..last`
(`CountedIsComplete`, by cardinality). For this no position may be counted
twice: updates on their way are disjoint from each other and from `counted`
(`UpdatesInv`, `InUse`), and since a position may fall in the middle of an update
that is wider than one, each position the client may be set to is one the server
has been at between two events (`Intact`). Then `AwaitedInv`: the position a
difference is asked from is still the client's when the answer comes, because a
waiter that is requesting hears nothing; so that an answer, too long or not,
never leads back.

`PtsWaiter_proofs` proves of the waiter alone that `UpdateAndApply` and
`UpdateAndApplyPosition` keep `Sound` and that the position they reach has been
applied. `CommonUpdates` uses it as well. The proofs of `ChannelUpdates` go
action by action (`…Keeps`, `…GoesForward`) over shared step lemmas (`QuietStep`,
`ReplyStep`, `AskStep`, `HearKeeps`, `AnswerStep`, `PollStep`).

### `KeyCreation_proofs`

For any sessions, keys and bounds (`KeysAssumption`): `CreationIsExclusive`
(`[]OneCreator`; this is also why the assertions in `releaseKeyCreationOnDone()`
and `releaseKeyCreationOnFail()` hold, `mtproto_dcenter.cpp:135`, `:159`),
`SlotsAreBound`, `RequestsAreBound`, `WaitingIsWokenUp` (the lost wake-up does
not happen), `AuthorizationIsSafe` (an action property), `KeyInvariance`.

The inductive invariant adds: a persistent key is created only where there is
none (`PersistentIsFirst`), so that a late creator cannot replace one; a key
that is being bound is nobody else's (`BindingIsPrivate`); keys in use otherwise
are bound (`UsedIsBound`); the answers and calls on their way were true when
they were given and stay so (`AnswersAreTrue`); and the wake-up also holds for a
session between the two looks of `AcquireMedia` (`WaitingOrAcquiringIsTold`).
Steps of a session that touch nothing shared are one lemma (`LocalStep`).

### `HistoryRequests_proofs`

For any chats, messages and numbers of requests: `HistoryWaits`, `InOnePlace`
(`OpenIsInOnePlace`), `ReportsGoForward`, `EntryWaits`; the latter two are
assertions of the code. The invariant is one of each chat (`Sound`): exclusive
types exclude (`Exclusive`), ids are new, reports go forward (`Forward`), whoever
waits for the entry waits for one that is asked for (`EntryOK`); and what is open
has its place (`Placed`). Handlers that call themselves back
(`finishSentRequest`) are operators on a chat, with a lemma each.

### `Mtp_proofs`

The two modules of MTProto, one after the other; it extends both, and therefore
the specification of `MtpSession` is called `SessionSpec`, its steps `SessionNext`.

**Requests.** For any dcs, requests, troubles and refusals: `RequestsHaveAPlace`
(`[]NothingIsStranded`), `CancelReaches` (`[]CancelFindsIt`), `TransfersAreSingle`
(`[]OneTransfer`). The invariant relates the maps of the instance: what is in a
session is registered with its dc (`Good`), a request is in one place (`Alone`),
and a dc that something waits for has exactly one transfer, unless it was
refused (`Transfers`).

**Session.** For any requests, limits of the stores of ids and numbers of
disturbances:

- `AnswersAreOwn`: `[]AnswerIsItsOwn`;
- `RequestsRunOnce`: `[]ExecutedOnce`;
- `NothingForgotten`: `[]AnswersAreRecent => []NothingIsForgotten`. The hypothesis
  says that no message is out for longer than `AckedLimit` answered ones; it is
  needed (`SessionDropsAnswer`), and it holds throughout `SessionOrder`, where no
  more than `AckedLimit` messages are ever answered. In the code the limit is
  `kIdsBufferSize`;
- `SessionTypes`: `[]TypeOK`, with the limits of the two stores of ids;
- `SessionInvariance`, from which they follow.

`SessionInv` is about what a message id stands for. All places where an id stands
next to a request (the buffers, `haveSent`, what is to be resent or in the hand of
a thread, the acknowledged ids, a cancel that has begun, the wire in both
directions, what the server has done) agree, and a new id is greater than all of
them (`Owned`); hence a response finds the request it is the response to
(`OwnAnswers`). What the server may still execute for a request has the id that is
in its buffer, unless the request failed (`Current`), since `SendTaken` gives an
id anew only in a new session of the server, when nothing of the old one can be
executed any more (`NewStart`), or after an error (`Failing`), and `Keyed` says
that the server does not execute an id twice. The maps of the main thread go
with those of the session (`MainFits`). Most steps move entries between places
and reset buffers; what such a step keeps is proved once, as lemmas on the
values (`…Keeps`), and cited by the steps of the actions. `NothingIsForgotten`
is an invariant on top of that (`Remembered`), `TypeOK` another (`SessionFits`),
where the limits are by cardinality.

The proof found `ExecutedOnce` false as it had been stated and checked: an
attempt may be answered with an error in one session of the server, which is
then lost while the request waits for its second attempt under the old id, so
that the errors of the present session do not tell. It takes three disturbances,
where the run allows one. The property now names `server.failed`, which outlives
the server's session.

### `StorageFiles_proofs`

For any files, contents and faults: `FilesGoForward` (`ContentGoesForward`) and
`WaitedIsWritten` (`SyncMeansWritten`), both action properties. The invariant
puts the contents of a file in order on their way: what is written is newer than
what can be read and older than what is queued; the last one can be read, is on
its way, or was given up (`Followed`). What the plain copies hold at each step
of `writeNow()` is part of it, since a failure may end it anywhere; a copy `1`
may outlive a removal that failed, so the invariant speaks of what is readable
and not of which files are there. `WaitedIsWritten` excepts contents that were
given up (`lost`), which happens at three places of the code: the plain copy cannot be
opened, cannot be filled, or stays behind an `s` that can be neither replaced nor
removed. Nobody is told in any of them.

### `StreamingReader_proofs`

For any parts, slices, limits and numbers of starts and downloads:
`NoWakeUpIsLost` (`[]BlockedIsWoken`), `OneThreadServes` (`[]OnlyOneThreadWorks`),
`RequestsAreSeen`. The invariant: who waits has left its address or was just
found (`AddressInv`); an address a worker holds on to is protected by the mutex
(`StaleInv`); the release of an interruption is taken by what ends the read
(`InterruptInv`); what the downloader asks for wakes a sleeper (`RequestInv`); a
thread that asks for its own stop is on its way out (`StopInv`).

### Only model-checked

- All liveness, and everything that needs ENABLED: `CaughtUp`, `GapIsHealed`,
  `ActiveCatchesUp`, `AllCanSend`, `EverythingIsAnswered`, `HistoryIsLoaded`,
  `EntryIsLoaded`, `ReadIsReported`, `EveryRequestEnds`, `LastIsWritten`,
  `ReadEnds`, `StopReturns`, `DownloadEnds`. The prover has no rule for them.
- `NothingIsForgotten` of `MtpSession` without `AnswersAreRecent`, which is false
  where `AckedLimit` is small (`SessionDropsAnswer`).
- `TypeOK` of `StreamingReader`, which no run lists; TLC finds it true when it is
  added to `ReaderWakes.cfg`.
- `GapIsWatched` where updates have counts of zero, because it is false.

## Where code and comment differ

- `data_pts_waiter.h:23` promises a "1s wait for skipped seq or pts in updates".
  A position or update with a count of zero that arrives during a gap (an
  affected-messages result that moved nothing, `ptsReceived()` from any history
  request) is reported as applicable by `check()` (`data_pts_waiter.cpp:186`), so
  the queue is applied and the wait cancelled with the gap still open. Nothing
  asks for the difference until the next update comes. `CommonGapUnwatched`,
  `ChannelGapUnwatched`.
- `api_updates.cpp:78` promises a "1s wait after show channel history before
  sending getChannelDifference". If the channel has no position when the second
  is over, the entry is removed and nothing is sent (`:642`, `:722`), and when
  the position comes nothing starts the poll. `ChannelUnpolled`; this is why
  `ActiveCatchesUp` is about channels known from the start.
- The log calls what a session without key and slot does "someone is creating
  already, waiting" (`mtproto/session_private.cpp:2477`). Two ways lead to a slot
  that is taken while nobody creates its key. When the persistent key has changed
  during a binding, `releaseKeyCreationOnDone()` returns without freeing the slot
  (`mtproto_dcenter.cpp:142`), and its callers have forgotten by then that they
  had it (`session.cpp:470`, `session_private.cpp:2007`): `KeySlotLeaked`. And a
  session that reconnects with a key of its own acquires a missing one (`:1026`),
  but `checkAuthKey()` keeps the key it has (`:2393`) and never starts the
  creator: `KeyNotCreated`.
- A session that is stopped while it creates a key frees the slot and tells
  nobody (`session.cpp:268`).
- `tryToSend()` has an assertion that what it puts into `haveSent` is not there
  yet, commented out (`session_private.cpp:923`). It would fail: a request that
  the server refused with a fatal code stays in `haveSent` and is sent again
  (`SessionSendsTwice`). A comment near by (`:486`) says that `haveSentMutex()`
  was locked in `tryToSend()`, which is so for containers only; the timer that
  checks sent requests is set in that branch only, too, and not set again.
- The ids of acknowledged requests are trimmed (`kIdsBufferSize`); an answer that
  comes after its request was trimmed finds nobody (`SessionDropsAnswer`).
- A request that is sent after one that is delayed overtakes it
  (`mtp_instance.cpp:1035`). After `importFail()` everything a dc refuses waits
  for an import that nobody asks for (`:1303`), and `exportFail()` forgets what
  waits: `RequestsStranded`.
- The deletion of a channel is never marked as finished
  (`data_histories.cpp:820`), so that a history request behind it waits for ever
  (`HistoryStuck`). The late answer of an older request for entries completes an
  entry that was asked for again.
- Where the safe copy of a file cannot be written the plain copy is emptied
  before it is filled, and is renamed over the safe file, or the safe one is
  removed, whether all of it was written or not: three failing calls lose the
  content (`StorageLoses`). `ContentGoesForward` names this exception
  (`TornInPlace`).
- Nor does `writeNow()` look whether that safe one could be removed
  (`storage_file_utilities.cpp:131`): where `s` can be neither written, nor
  renamed over, nor removed, the new content lies whole in the plain copy and
  every later reader gets the old one (`StorageHides`). `SyncMeansWritten` and
  `LastIsWritten` count it as given up.
- In the streaming reader: `fill()` that finds an error by its first check
  returns without a wake-up for who waits (`ReaderHidesError`). A slice that is
  unloaded without being saved leaves its parts in `_loadingOffsets`; when it is
  read from the cache again, a part is added twice, against the assertion of
  `addPart()` (`media_streaming_reader.cpp:263`, `ReaderLoadsTwice`). A part that
  failed is never asked for again, also not after streaming was started anew,
  since `partFailed()` leaves its request in `_sentRequests`
  (`download_manager_mtproto.cpp:944`), and a read of it waits for ever then. A
  download waits for as long as the streaming thread neither sleeps nor ends
  (`ReaderStarves`);
  the acknowledgement of the last part of a download stays in its queue and
  removes that part from the next download of the file, which hangs;
  `_downloaderOffsetsRequested` is not cleared when the downloader changes;
  `checkForDownloaderChange()` is called with the size of a container it has just
  moved from. Without a cache key slices are never marked as loaded from it and
  never unloaded. The worker's clear and release race with
  `stopStreaming(stillActive)`, which skips the mutex when the address is gone
  already; `stale` stands for that.

## What is not modelled

In the modelled parts:

- of updates: what they do to the data; the date and qts, which only select the
  content of a difference; online status, pings; the growth of retry delays and
  all of time (a timer that is armed may fire at any moment, which includes every
  timing); 32-bit overflow of positions; the request that revalidates a loaded
  range after a too long difference;
- of key creation: CDN dcs, whose keys are not bound; the instance that only
  destroys keys; a dc whose type changes; the arithmetic of the handshake; the
  age of a key. `Stop` destroys the private part of a session at once, where the
  code defers it to the session's thread;
- of the session: the acknowledgements it sends itself, salts and clock
  corrections, `initConnection`, http;
- of the instance: migration of the main dc (`mtp_instance.cpp:1406`), shifts of
  dcs, requests without a handler, the doubling of delays, logging out; what
  `hasCallback()` answers while a callback is called;
- of histories: topics, drafts, unread marks, reports of deliveries, folders;
- of local files: `ClearKey`, the map of files, serialised formats, encryption;
- of the reader: reads that cross slices, files whose parts all fit in the
  header, the merged first slice, what is saved at the end (`finalizeCache`), files
  that turn out not to be streamable, sizes.

Assumptions on the server of channels: the dialog in a
`channelDifferenceTooLong` carries a position; a final answer ends at the
server's position; positions it reports are ones it has been at between events.

Not modelled: calls (their state machine is that of a library outside of the
repository), the updater and the sockets (I/O), the interface, serialised
formats, vendored and generated code, scheduled messages and request senders
(no protocol of their own), and the components in the next section.

## What is left

1. `ChannelUpdates` refines `UpdateFeed` for each channel between two too long
   differences.
2. `DownloadBalance` and `Uploader`: amounts in flight add up.
3. `SparseIds`: slices against a reference set; `PluginsBridge`.
