--------------------------- MODULE HistoryRequests ---------------------------
(* The requests of a chat that must not overlap (data/data_histories.cpp):  *)
(* parts of the history wait for the deletion of messages, the entry of the *)
(* chat in the list of chats waits for everything that changes the chat,    *)
(* and what the user has read is reported to the server now or later.       *)
(*                                                                          *)
(* Everything runs in the main thread.  A request is on its way exactly     *)
(* while it is among those sent.  Left out: what requests ask for, unread   *)
(* counts, drafts, topics and reports of deliveries, and that states which  *)
(* are as good as new are erased.                                           *)
EXTENDS Naturals, FiniteSets

CONSTANTS
  Chats,          \* histories; nothing else is a chat here
  MaxMessage,     \* ids of messages are 1 .. MaxMessage
  MaxRequests,    \* bound on the requests for one chat that are asked for
  MaxFails,       \* bound on the reports of reading that fail
  MaxAsked,       \* bound on the requests for entries on their way at once
  ChannelDeletes  \* channels the user may delete as a whole

ASSUME HistoryRequestsAssumption ==
  /\ MaxMessage \in Nat \ {0}
  /\ MaxRequests \in Nat
  /\ MaxFails \in Nat
  /\ MaxAsked \in Nat
  /\ ChannelDeletes \subseteq Chats

VARIABLES
  chat,      \* what Histories and History know of each chat
  posted,    \* sendDialogRequests() is posted to the main thread
  asked,     \* requests for entries that are on their way
  timer,     \* _readRequestsTimer runs
  server,    \* up to where the server knows that a chat is read
  fails,     \* reports of reading that failed
  open       \* history requests that are neither answered nor cancelled

vars == <<chat, posted, asked, timer, server, fails, open>>

Tills == 1 .. MaxMessage
Later(a, b) == IF a < b THEN b ELSE a

FreshChat ==
  [postponed             |-> {},     \* ids of requests of type History
   sent                  |-> {},     \* [id, type, till]
   willReadTill          |-> 0,
   willReadLater         |-> FALSE,  \* willReadWhen # 0
   sentReadTill          |-> 0,
   sentReadDone          |-> FALSE,
   postponedRequestEntry |-> FALSE,
   last                  |-> 0,      \* its own _requestAutoincrement
   byRequest             |-> {},     \* its ids in _historyByRequest
   pending               |-> FALSE,  \* it is in _dialogRequestsPending
   requested             |-> FALSE,  \* it is in _dialogRequests
   callback              |-> FALSE,  \* with a callback of readInbox()
   read                  |-> 0]      \* inboxReadTillId()

Deletes == {"Delete", "DeleteChannel"}

PostponeHistoryRequest(m) == \E e \in m.sent : e.type \in Deletes
PostponeEntryRequest(m) == \E e \in m.sent : e.type # "History"

-----------------------------------------------------------------------------
(* What a handler does with one chat is a function from a chat to a chat.  *)

\* Mutant: what is on its way stays there.
CallNothingBack(m) == m

\* A deletion calls the history requests back that are on their way.
CallBack(m) ==
  LET back == {e \in m.sent : e.type = "History"}
  IN IF PostponeHistoryRequest(m)
       THEN [m EXCEPT !.sent = @ \ back,
                      !.postponed = @ \cup {e.id : e \in back}]
       ELSE m

\* Mutant: no matter whether an entry is on its way.
OutdateAnyEntry(m) ==
  [m EXCEPT !.postponedRequestEntry = @ \/ PostponeEntryRequest(m)]

\* An entry that is on its way will be older than what is sent now.
OutdateEntry(m) ==
  [m EXCEPT !.postponedRequestEntry =
              @ \/ (m.requested /\ PostponeEntryRequest(m))]

\* sendRequest(); till is the argument of a report of reading.
SendRequest(m, type, till) ==
  LET id == m.last + 1
      numbered == [m EXCEPT !.last = id, !.byRequest = @ \cup {id}]
  IN IF type = "History" /\ PostponeHistoryRequest(m)
       THEN [numbered EXCEPT !.postponed = @ \cup {id}]
       ELSE CallBack(OutdateEntry(
              [numbered EXCEPT !.sent =
                 @ \cup {[id |-> id, type |-> type, till |-> till]}]))

\* Mutant: the position is taken from where it has been zeroed.
SendZeroReadRequest(m) ==
  SendRequest([m EXCEPT !.sentReadTill = m.willReadTill,
                        !.willReadTill = 0,
                        !.willReadLater = FALSE,
                        !.sentReadDone = FALSE],
              "ReadInbox", 0)

SendReadRequest(m) ==
  SendRequest([m EXCEPT !.sentReadTill = m.willReadTill,
                        !.willReadTill = 0,
                        !.willReadLater = FALSE,
                        !.sentReadDone = FALSE],
              "ReadInbox", m.willReadTill)

Due(m) == m.willReadTill # 0 /\ ~m.willReadLater

\* requestDialogEntry(); callbacks join those that wait already.
RequestDialogEntry(m) == [m EXCEPT !.pending = @ \/ ~m.requested]

\* Mutant: what is sent again stays among what waits.
SendPostponedCopy(m) ==
  IF PostponeHistoryRequest(m) THEN m
  ELSE [m EXCEPT !.sent =
          @ \cup {[id |-> n, type |-> "History", till |-> 0] :
                    n \in m.postponed}]

\* What waited for deletions is sent, all of it.
SendPostponed(m) ==
  IF PostponeHistoryRequest(m) THEN m
  ELSE [m EXCEPT !.postponed = {},
                 !.sent = @ \cup {[id |-> n, type |-> "History", till |-> 0] :
                                    n \in m.postponed}]

\* Mutant: nobody asks for the entry that waited.
RequestNoEntry(m) == m

\* The entry that waited is asked for, again or for the first time.
RequestPostponedEntry(m) ==
  IF m.postponedRequestEntry /\ ~PostponeEntryRequest(m)
    THEN [m EXCEPT !.postponedRequestEntry = FALSE,
                   !.requested = FALSE,
                   !.pending = TRUE]
    ELSE m

\* Mutant: history requests wait for the next deletion to finish.
FinishOnly(m, id) ==
  RequestPostponedEntry([m EXCEPT !.byRequest = @ \ {id},
                                  !.sent = {e \in @ : e.id # id}])

FinishSentRequest(m, id) ==
  RequestPostponedEntry(SendPostponed(
    [m EXCEPT !.byRequest = @ \ {id},
              !.sent = {e \in @ : e.id # id}]))

\* readInboxTill() but for sendReadRequests() in it.  What
\* countStillUnreadLocal() finds is unknown, none, some, or the same as what
\* is unread already.
Still == {"unknown", "none", "some", "same"}

\* Mutant: what was sent already does not count.
ReadBeforeUnsent(m, till, force) ==
  \/ till <= m.read /\ ~force
  \/ till <= m.read /\ m.willReadTill = 0

\* Nothing is to be done about what was read or sent before.
ReadBefore(m, till, force) ==
  \/ till <= m.read /\ ~force
  \/ m.sentReadTill >= till
  \/ till <= m.read /\ m.willReadTill = 0

ReadInboxTill(m, till, force, still) ==
  LET willRead == [m EXCEPT
                     !.willReadTill = till,
                     !.willReadLater = ~(force \/ still \in {"unknown", "none"}),
                     !.read = IF still = "unknown" THEN @ ELSE Later(@, till)]
  IN IF ReadBefore(m, till, force) THEN m
     ELSE IF m.willReadTill >= till
       THEN [m EXCEPT !.willReadLater = @ /\ ~force]
     ELSE IF still = "same" /\ ~force
       THEN [m EXCEPT !.read = Later(@, till)]
     ELSE willRead

\* What finished() does first, when a report of reading is answered.
ReadFinished(m, till, countKnown) ==
  IF m.sentReadTill # till THEN m
  ELSE IF countKnown /\ till <= m.read
    THEN [m EXCEPT !.sentReadDone = TRUE, !.sentReadTill = 0]
  ELSE RequestDialogEntry([m EXCEPT !.sentReadDone = TRUE])

\* dialogEntryApplied(): the callbacks know now up to where to read.
DialogEntryApplied(m, till, still) ==
  LET taken  == [m EXCEPT !.pending = FALSE, !.requested = FALSE,
                          !.callback = FALSE]
      noted  == IF m.callback THEN ReadInboxTill(taken, till, FALSE, still)
                ELSE taken
      called == IF Due(noted) THEN SendReadRequest(noted) ELSE noted
  IN IF m.postponedRequestEntry THEN m
     ELSE IF called.sentReadTill # 0 /\ called.sentReadDone
       THEN [called EXCEPT !.read = Later(@, called.sentReadTill),
                           !.sentReadTill = 0]
     ELSE called

-----------------------------------------------------------------------------
(* The whole client: functions from chats to what they are.                *)

With(m, c) == [chat EXCEPT ![c] = m]
Pending(cs) == {c \in Chats : cs[c].pending}
WillReadLater(cs) == {c \in Chats : cs[c].willReadLater}

\* sendReadRequests(), when the time of the chats in expired has come.
SendReadRequests(cs, expired) ==
  [c \in Chats |->
     IF cs[c].willReadTill # 0 /\ (Due(cs[c]) \/ c \in expired)
       THEN SendReadRequest(cs[c]) ELSE cs[c]]

\* postponeCall() goes with the first entry that is pending.
Become(cs) ==
  /\ chat' = cs
  /\ posted' = (posted \/ (Pending(chat) = {} /\ Pending(cs) # {}))

\* sendReadRequests() sets the timer anew.
BecomeAndSend(cs) ==
  \E expired \in SUBSET WillReadLater(cs) :
    LET after == SendReadRequests(cs, expired)
    IN /\ Become(after)
       /\ timer' = (WillReadLater(after) # {})

\* It is called only if something is to be sent at once.
Noted(cs) ==
  IF \E c \in Chats : Due(cs[c]) THEN BecomeAndSend(cs)
  ELSE /\ Become(cs)
       /\ timer' = (timer \/ \E c \in Chats : /\ cs[c].willReadLater
                                              /\ ~chat[c].willReadLater)

Init ==
  /\ chat = [c \in Chats |-> FreshChat]
  /\ posted = FALSE
  /\ asked = {}
  /\ timer = FALSE
  /\ server = [c \in Chats |-> 0]
  /\ fails = 0
  /\ open = {}

-----------------------------------------------------------------------------
(* What the rest of the program asks for.                                  *)

MayAsk(c) == chat[c].last < MaxRequests

Request(c, type) ==
  /\ MayAsk(c)
  /\ Become(With(SendRequest(chat[c], type, 0), c))
  /\ open' = open \cup IF type = "History" THEN {<<c, chat[c].last + 1>>}
                       ELSE {}
  /\ UNCHANGED <<asked, timer, server, fails>>

\* cancelRequest(); only history requests are ever cancelled.
Cancel(c, id) ==
  /\ id \in chat[c].byRequest
  /\ <<c, id>> \in open
  /\ Become(With(FinishSentRequest([chat[c] EXCEPT !.postponed = @ \ {id}],
                                   id), c))
  /\ open' = open \ {<<c, id>>}
  /\ UNCHANGED <<asked, timer, server, fails>>

ReadTill(c, till, force, still) ==
  /\ MayAsk(c)
  /\ Noted(With(ReadInboxTill(chat[c], till, force, still), c))
  /\ UNCHANGED <<asked, server, fails, open>>

RequestEntry(c, callback) ==
  /\ Cardinality(asked) < MaxAsked
  /\ MayAsk(c)
  /\ Become(With([RequestDialogEntry(chat[c]) EXCEPT
                    !.callback = @ \/ callback], c))
  /\ UNCHANGED <<asked, timer, server, fails, open>>

-----------------------------------------------------------------------------
(* Timers, posted calls, answers.                                          *)

ReadRequestsTimer ==
  /\ timer
  /\ \E expired \in SUBSET WillReadLater(chat) \ {{}} :
       LET after == SendReadRequests(chat, expired)
       IN /\ Become(after)
          /\ timer' = (WillReadLater(after) # {})
  /\ UNCHANGED <<asked, server, fails, open>>

SendDialogRequests ==
  LET pending == Pending(chat)
      now == {c \in pending : ~PostponeEntryRequest(chat[c])}
      number == CHOOSE n \in 1 .. Cardinality(asked) + 1 :
                  \A d \in asked : d.number # n
  IN /\ posted
     /\ posted' = FALSE
     /\ chat' = [c \in Chats |->
                   IF c \in pending
                     THEN [chat[c] EXCEPT !.pending = FALSE,
                                          !.requested = TRUE,
                                          !.postponedRequestEntry =
                                             @ \/ c \notin now]
                     ELSE chat[c]]
     /\ asked' = asked \cup IF now = {} THEN {}
                            ELSE {[number |-> number, chats |-> now]}
     /\ UNCHANGED <<timer, server, fails, open>>

\* applyDialog() with what the server knew at some time; then the callbacks.
EntryApplied(c, known, till, still) ==
  DialogEntryApplied([chat[c] EXCEPT !.read = Later(@, known)], till, still)

EntriesAnswered(d) ==
  /\ asked' = asked \ {d}
  /\ \E known \in [d.chats -> 0 .. MaxMessage],
        till \in Tills, still \in Still :
       /\ \A c \in d.chats : known[c] <= server[c]
       /\ Noted([c \in Chats |->
                   IF c \in d.chats
                     THEN EntryApplied(c, known[c], till, still)
                     ELSE chat[c]])
  /\ UNCHANGED <<server, fails, open>>

\* An entry comes with a part of the list of chats.
EntryLoaded(c, known, till, still) ==
  /\ known <= server[c]
  /\ Noted(With(EntryApplied(c, known, till, still), c))
  /\ UNCHANGED <<asked, server, fails, open>>

\* History requests and requests to send.
Answered(c, e) ==
  /\ e.type \in {"History", "Send"}
  /\ Become(With(FinishSentRequest(chat[c], e.id), c))
  /\ open' = open \ {<<c, e.id>>}
  /\ UNCHANGED <<asked, timer, server, fails>>

\* What is to be deleted may be more than the server deletes at once.
Deleted(c, e, again) ==
  /\ e.type = "Delete"
  /\ again => MayAsk(c)
  /\ LET m == IF again THEN SendRequest(chat[c], "Delete", 0) ELSE chat[c]
     IN Become(With(FinishSentRequest(m, e.id), c))
  /\ UNCHANGED <<asked, timer, server, fails, open>>

\* The server has noted what was read, or refuses; nobody tries again.
ReadAnswered(c, e, ok, countKnown) ==
  /\ e.type = "ReadInbox"
  /\ \E expired \in SUBSET WillReadLater(chat) :
       LET first == SendReadRequests(
                      With(ReadFinished(chat[c], e.till, countKnown), c),
                      expired)
           after == [first EXCEPT ![c] = FinishSentRequest(@, e.id)]
       IN /\ Become(after)
          /\ timer' = (WillReadLater(after) # {})
  /\ IF ok THEN /\ server' = [server EXCEPT ![c] = Later(@, e.till)]
                /\ UNCHANGED fails
     ELSE /\ fails < MaxFails
          /\ fails' = fails + 1
          /\ UNCHANGED server
  /\ UNCHANGED <<asked, open>>

\* The user reads with another client, and this one is told or not.
ReadElsewhere(c, till) ==
  /\ till > server[c]
  /\ server' = [server EXCEPT ![c] = till]
  /\ UNCHANGED <<chat, posted, asked, timer, fails, open>>

InboxRead(c, till, countKnown) ==
  /\ till > chat[c].read
  /\ till <= server[c]
  /\ Cardinality(asked) < MaxAsked
  /\ LET m == IF countKnown THEN chat[c] ELSE RequestDialogEntry(chat[c])
     IN Become(With([m EXCEPT !.read = till], c))
  /\ UNCHANGED <<asked, timer, server, fails, open>>

-----------------------------------------------------------------------------
Types(c) ==
  {"History", "Delete", "Send"}
    \cup IF c \in ChannelDeletes THEN {"DeleteChannel"} ELSE {}

Ask(c) ==
  \/ \E type \in Types(c) : Request(c, type)
  \/ \E id \in chat[c].byRequest : Cancel(c, id)
  \/ \E till \in Tills, force \in BOOLEAN, still \in Still :
       ReadTill(c, till, force, still)
  \/ \E callback \in BOOLEAN : RequestEntry(c, callback)

Hear(c) ==
  \/ \E known \in 0 .. MaxMessage, till \in Tills, still \in Still :
       EntryLoaded(c, known, till, still)
  \/ \E till \in Tills : ReadElsewhere(c, till)
  \/ \E till \in Tills, known \in BOOLEAN : InboxRead(c, till, known)

HearAnswer(c) ==
  \E e \in chat[c].sent :
    \/ Answered(c, e)
    \/ \E again \in BOOLEAN : Deleted(c, e, again)
    \/ \E ok \in BOOLEAN, known \in BOOLEAN : ReadAnswered(c, e, ok, known)

HearEntries == \E d \in asked : EntriesAnswered(d)

Next ==
  \/ \E c \in Chats : Ask(c) \/ Hear(c) \/ HearAnswer(c)
  \/ HearEntries
  \/ ReadRequestsTimer
  \/ SendDialogRequests

Spec == Init /\ [][Next]_vars

\* Timers run out, posted calls are called, and the server answers whatever
\* it is asked.
FairSpec ==
  /\ Spec
  /\ WF_vars(ReadRequestsTimer)
  /\ WF_vars(SendDialogRequests)
  /\ \A c \in Chats : WF_vars(HearAnswer(c))
  /\ WF_vars(HearEntries)

-----------------------------------------------------------------------------
(* Properties.                                                             *)

SentIds(m) == {e.id : e \in m.sent}
HistoryIds(m) == {e.id : e \in {f \in m.sent : f.type = "History"}}

Requests ==
  [id : Nat, type : {"History", "ReadInbox", "Send"} \cup Deletes,
   till : 0 .. MaxMessage]

\* Ids are not used twice.
TypeOK ==
  /\ \A c \in Chats :
       /\ chat[c].sent \subseteq Requests
       /\ chat[c].postponed \cup SentIds(chat[c]) \subseteq 1 .. chat[c].last
       /\ \A e, f \in chat[c].sent : e.id = f.id => e = f
       /\ {chat[c].willReadTill, chat[c].sentReadTill, chat[c].read}
            \subseteq 0 .. MaxMessage
  /\ \A d \in asked : d.chats \subseteq Chats
  /\ server \in [Chats -> 0 .. MaxMessage]

\* A part of the history is not asked for while messages are deleted, and
\* waits for nothing else.
HistoryWaitsForDeletes ==
  \A c \in Chats :
    IF PostponeHistoryRequest(chat[c]) THEN HistoryIds(chat[c]) = {}
    ELSE chat[c].postponed = {}

\* However often a history request is called back and sent again, it is in
\* one place until it is answered or cancelled, where cancelRequest() finds
\* it, and in none after that.
OpenIsInOnePlace ==
  \A c \in Chats :
    /\ chat[c].postponed \cap SentIds(chat[c]) = {}
    /\ chat[c].byRequest = chat[c].postponed \cup SentIds(chat[c])
    /\ {o[2] : o \in {p \in open : p[1] = c}}
         = chat[c].postponed \cup HistoryIds(chat[c])

\* The assertions of sendReadRequest() and of the answer to it: later reports
\* of reading are about later messages.
ReadsGoForward ==
  \A c \in Chats :
    LET m == chat[c]
    IN /\ m.willReadTill # 0 => m.willReadTill > m.sentReadTill
       /\ \A e \in m.sent : e.type = "ReadInbox" =>
            m.sentReadTill = 0 \/ m.sentReadTill >= e.till

\* The assertions of finishSentRequest(): an entry that waits is among those
\* that were asked for, and only there; and it waits for something.
PostponedEntryIsRequested ==
  \A c \in Chats :
    /\ ~(chat[c].pending /\ chat[c].requested)
    /\ chat[c].postponedRequestEntry =>
         chat[c].requested /\ PostponeEntryRequest(chat[c])

\* A history request is answered or cancelled some time.
HistoryIsLoaded ==
  \A c \in Chats, id \in 1 .. MaxRequests :
    <<c, id>> \in open ~> <<c, id>> \notin open

\* Whoever waits for an entry gets it.
EntryIsLoaded ==
  \A c \in Chats : chat[c].pending \/ chat[c].requested
                     ~> ~(chat[c].pending \/ chat[c].requested)

\* What is to be reported as read gets to the server, unless a report fails.
ReadIsReported ==
  \A c \in Chats, till \in Tills :
    chat[c].willReadTill = till ~> server[c] >= till \/ fails > 0
=============================================================================
