----------------------------- MODULE MtpSession -----------------------------
(* One session of the MTProto client: how a request gets from the main     *)
(* thread to the server and its answer back (mtproto/session.cpp,          *)
(* session_private.cpp, details/mtproto_received_ids_manager.cpp, and the  *)
(* maps of requests in mtp_instance.cpp).                                  *)
(*                                                                         *)
(* Two threads work on the maps of a session.  The main thread puts        *)
(* requests into toSend, cancels them, and takes the responses; the thread *)
(* of the session moves them from toSend to haveSent and back.  Each map   *)
(* has a lock of its own, so between two maps a request is in nobody's map *)
(* but in the hand of a thread.  The buffer of a request, which holds its  *)
(* message id, is shared by all maps.                                      *)
(*                                                                         *)
(* Left out: times (a timer that runs may fire), the salt and the clock    *)
(* corrections, the acknowledgements the client sends, key creation (see   *)
(* KeyCreation), and the wrapping of requests that wait for another one.   *)
EXTENDS Naturals, Sequences, FiniteSets, SequencesExt

CONSTANTS
  Requests,      \* ids of requests; the maps are ordered by them
  Quiet,         \* requests that nobody waits for an answer of
  Cancellable,   \* requests the main thread may cancel
  AckedLimit,    \* kIdsBufferSize, for the ids of acknowledged requests
  SeenLimit,     \* kIdsBufferSize, for the ids of received messages
  MaxTrouble     \* bound on what goes wrong and on cancels, together

ASSUME MtpSessionAssumption ==
  /\ Requests \subseteq Nat \ {0}
  /\ Quiet \subseteq Requests
  /\ Cancellable \subseteq Requests
  /\ AckedLimit \in Nat \ {0}
  /\ SeenLimit \in Nat \ {0}
  /\ MaxTrouble \in Nat

VARIABLES
  buffer,    \* the message id in the buffer of a request; 0 before it is sent
  main,      \* what the main thread knows of requests
  session,   \* SessionData and SessionPrivate
  up, down,  \* what is on the wire
  server,    \* the session as the server knows it
  trouble    \* how much has gone wrong

sessionVars == <<buffer, main, session, up, down, server, trouble>>

\* A map from message ids to requests is a set of entries.
Entry(id, r) == [id |-> id, request |-> r]
IdsOf(map) == {e.id : e \in map}
RequestsOf(map) == {e.request : e \in map}
At(map, ids) == {e \in map : e.id \in ids}

\* flat_map::emplace() keeps what is there.
Emplace(map, entries) == map \cup {e \in entries : e.id \notin IdsOf(map)}

\* The elements of a set of ids from the smallest to the largest.
Ascending(ids) == SetToSortSeq(ids, <)

-----------------------------------------------------------------------------
(* ReceivedIdsManager: a buffer of the ids of received messages.           *)

Smallest(ids) == CHOOSE n \in ids : \A k \in ids : n <= k

Duplicate(seen, id) == id \in seen

TooOld(seen, id) ==
  /\ id \notin seen
  /\ Cardinality(seen) >= SeenLimit
  /\ id <= Smallest(seen)

\* registerMsgId() of a message that is neither, and shrink().
Register(seen, id) ==
  {n \in seen \cup {id} :
     Cardinality({k \in seen \cup {id} : k > n}) < SeenLimit}

-----------------------------------------------------------------------------
(* The thread of the session: functions from a session to a session.       *)

FreshSession ==
  [toSend     |-> {},     \* requests, by their ids
   haveSent   |-> {},     \* message id -> request
   received   |-> <<>>,   \* responses for the main thread
   resending  |-> {},     \* message id -> request that is to be sent again
   acked      |-> {},     \* message id -> request that was answered
   containers |-> {},     \* container id -> ids of its messages
   forced     |-> {},     \* requests with forceSendInContainer
   hand       |-> {},     \* entries between haveSent and toSend
   sending    |-> {},     \* requests between toSend and haveSent
   todo       |-> <<>>,   \* message ids that resend() still has to look at
   lastId     |-> 0,      \* of base::unixtime::mtproto_msg_id()
   started    |-> FALSE,  \* _sessionMarkedAsStarted
   forceNewId |-> FALSE,  \* forceNewMsgId of the tryToSend() that runs
   seen       |-> {},     \* _receivedMessageIds
   checkTimer |-> FALSE,  \* _checkSentRequestsTimer
   link       |-> FALSE]  \* there is a connection in ConnectedState

\* Only the newest ids of what was acknowledged are kept.
Trim(acked) ==
  {e \in acked : Cardinality({f \in acked : f.id > e.id}) < AckedLimit}

\* Mutant: an acknowledgement is enough for every request.
DoneWhenAcked(e, ids, byResponse, waited) == e.id \in ids

\* A request that somebody waits for is done only by its answer.
Done(e, ids, byResponse, waited) ==
  e.id \in ids /\ (byResponse \/ e.request \notin waited)

\* What is queued to be sent again does not have to be sent any more.
AckMessages(s, ids, byResponse, waited) ==
  LET sent     == {e \in s.haveSent : Done(e, ids, byResponse, waited)}
      queued   == {e \in s.resending : /\ Done(e, ids, byResponse, waited)
                                       /\ e.id \notin IdsOf(s.haveSent)}
      unqueued == {e \in queued : e.request \in s.toSend}
  IN [s EXCEPT !.haveSent = @ \ sent,
               !.resending = @ \ queued,
               !.toSend = @ \ RequestsOf(unqueued),
               !.acked = Trim(Emplace(@, sent \cup unqueued))]

\* An acknowledged container acknowledges what was in it.
RequestsAcked(s, ids, byResponse, waited) ==
  LET known == {c \in s.containers : c.id \in ids}
      inner == UNION {c.messages : c \in known}
      own   == AckMessages(s, ids \ IdsOf(known), byResponse, waited)
  IN IF known = {} THEN own
     ELSE AckMessages([own EXCEPT !.containers = @ \ known],
                      inner, FALSE, waited)

\* The request a message id stands for, in at most one element.
WasSent(s, id) ==
  IF id \in IdsOf(s.resending) THEN RequestsOf(At(s.resending, {id}))
  ELSE IF id \in IdsOf(s.acked) THEN RequestsOf(At(s.acked, {id}))
  ELSE RequestsOf(At(s.haveSent, {id}))

\* resend() of a message or of a container, up to its first lock.
Resend(s, id) ==
  LET known == {c \in s.containers : c.id = id}
  IN [s EXCEPT !.containers = @ \ known,
               !.todo = IF known = {} THEN <<id>>
                        ELSE Ascending(UNION {c.messages : c \in known})]

ResetSession(s) ==
  [s EXCEPT !.started = FALSE, !.seen = {}]

Restart(s) == [s EXCEPT !.link = FALSE]

\* The thread runs one handler at a time.
Idle(s) == s.hand = {} /\ s.sending = {} /\ s.todo = <<>>

-----------------------------------------------------------------------------
SessionInit ==
  /\ buffer = [r \in Requests |-> 0]
  /\ main = [handlers   |-> {},     \* _parserMap
             known      |-> {},     \* _requestMap
             delayed    |-> {},     \* _delayedRequests
             cancelling |-> {},     \* [request, id, step] of a cancel()
             issued     |-> {}]
  /\ session = [FreshSession EXCEPT !.link = TRUE, !.started = TRUE]
  /\ up = <<>>
  /\ down = <<>>
  /\ server = [alive  |-> TRUE,    \* it has a session for the client's
               done   |-> {},       \* what it has executed in it
               owed   |-> {},       \* ids it is going to answer
               failed |-> {},       \* requests it refused with a fatal code
                                    \* or answered with an error
               lastId |-> 0]        \* of its messages
  /\ trouble = 0

\* Something disturbs the course of things, of which there is not too much.
Trouble == trouble < MaxTrouble /\ trouble' = trouble + 1

NetworkUnchanged == UNCHANGED <<up, down, server, trouble>>
OthersUnchanged == UNCHANGED <<buffer, main>>

-----------------------------------------------------------------------------
(* tryToSend().                                                            *)

\* The requests of one container: all, or those up to the one that makes it
\* as long as kCutContainerOnSize.
Ranges(s) == {{r \in s.toSend : r <= q} : q \in s.toSend}

CanSend(s) == s.link /\ Idle(s) /\ s.toSend # {}

\* A request alone is taken from toSend under the lock of toSend ...
TakeToSend ==
  LET r == Smallest(session.toSend)
  IN /\ CanSend(session)
     /\ r \notin session.forced
     /\ session' = [session EXCEPT !.toSend = @ \ {r}, !.sending = {r},
                                   !.started = TRUE,
                                   !.forceNewId = ~session.started]
     /\ OthersUnchanged
     /\ NetworkUnchanged

\* Mutant: whatever is sent gets a new id.
RenumberedAlways(range, force) == range

\* Requests that have an id keep it, unless the session is a new one.
Renumbered(range, force) == {r \in range : buffer[r] = 0 \/ force}

\* Mutant: the id is not moved on inside of a container.
NewBufferSame(range, force) ==
  [r \in Requests |-> IF r \in Renumbered(range, force)
                        THEN session.lastId + 1 ELSE buffer[r]]

\* prepareToSend() and replaceMsgId().  Fresh ids ascend in the order of the
\* requests; nothing else has them yet.
NewBuffer(range, force) ==
  [r \in Requests |->
     LET fresh == Renumbered(range, force)
     IN IF r \in fresh
          THEN session.lastId + Cardinality({q \in fresh : q <= r})
          ELSE buffer[r]]

Renamed(map, range) ==
  {IF e.request \in range /\ e.id = buffer[e.request]
     THEN Entry(buffer'[e.request], e.request) ELSE e : e \in map}

\* The messages of the requests in range leave for the server.
Sent(s, range) ==
  LET messages == {Entry(buffer'[r], r) : r \in range}
      inner(ids) == {IF \E r \in range : n = buffer[r]
                       THEN buffer'[CHOOSE r \in range : n = buffer[r]]
                       ELSE n : n \in ids}
  IN [s EXCEPT
        !.resending = {e \in @ : ~(e.request \in range
                                     /\ e.id = buffer[e.request])},
        !.acked = Renamed(@, range),
        !.haveSent = Emplace(Renamed(@, range), messages),
        !.containers = {[c EXCEPT !.messages = inner(@)] : c \in @}]

Packet(id, messages, asked) ==
  [id |-> id, messages |-> messages, asked |-> asked]

\* ... and sent and put into haveSent after that, under the lock of haveSent.
SendTaken ==
  /\ session.sending # {}
  /\ buffer' = NewBuffer(session.sending, session.forceNewId)
  /\ session' =
       [Sent(session, session.sending) EXCEPT
          !.sending = {},
          !.lastId = @ + Cardinality(Renumbered(session.sending,
                                                session.forceNewId))]
  /\ LET messages == {Entry(buffer'[r], r) : r \in session.sending}
     IN up' = Append(up, Packet(Smallest(IdsOf(messages)), messages, {}))
  /\ UNCHANGED <<main, down, server, trouble>>

\* Several requests, or one with service messages or that is sent again, go
\* into a container, under both locks.
SendContainer(range) ==
  LET force == ~session.started
      last  == session.lastId + Cardinality(Renumbered(range, force)) + 1
  IN /\ CanSend(session)
     /\ buffer' = NewBuffer(range, force)
     /\ LET messages == {Entry(buffer'[r], r) : r \in range}
        IN /\ session' =
                [Sent(session, range) EXCEPT
                   !.toSend = @ \ range,
                   !.started = TRUE,
                   !.lastId = last,
                   !.checkTimer = TRUE,
                   !.containers =
                      @ \cup {[id |-> last, messages |-> IdsOf(messages)]}]
           /\ up' = Append(up, Packet(last, messages, {}))
     /\ UNCHANGED <<main, down, server, trouble>>

\* A ping takes part in what follows only when it makes the server open a
\* session.  The ids of pings and of requests for states are not counted.
Ping ==
  /\ session.link
  /\ Idle(session)
  /\ ~server.alive
  /\ up = <<>>
  /\ up' = <<Packet(session.lastId + 1, {}, {})>>
  /\ OthersUnchanged
  /\ UNCHANGED <<session, down, server, trouble>>

\* checkSentRequests() asks for the state of what was sent long enough ago,
\* by then all of it.  The timer does not go on after that.
CheckSentRequests ==
  /\ session.checkTimer
  /\ Idle(session)
  /\ session.link
  /\ session' = [session EXCEPT !.checkTimer = FALSE]
  /\ up' = IF session.haveSent = {} THEN up
           ELSE Append(up, Packet(session.lastId + 1, {},
                                  IdsOf(session.haveSent)))
  /\ OthersUnchanged
  /\ UNCHANGED <<down, server, trouble>>

-----------------------------------------------------------------------------
(* resend() and resendAll().                                               *)

\* What is to be resent is taken from haveSent under its lock ...
TakeToResend ==
  /\ session.todo # <<>>
  /\ session.hand = {}
  /\ LET taken == At(session.haveSent, {Head(session.todo)})
     IN session' = [session EXCEPT !.haveSent = @ \ taken, !.hand = taken,
                                   !.todo = Tail(@)]
  /\ OthersUnchanged
  /\ NetworkUnchanged

\* ... and put into toSend under the lock of that.
PutToResend ==
  /\ session.hand # {}
  /\ session' =
       [session EXCEPT !.resending = Emplace(@, session.hand),
                       !.forced = @ \cup RequestsOf(session.hand),
                       !.toSend = @ \cup RequestsOf(session.hand),
                       !.hand = {}]
  /\ OthersUnchanged
  /\ NetworkUnchanged

\* Mutant: the answers are expected to come by the new connection.
ConnectOnly ==
  /\ ~session.link
  /\ Idle(session)
  /\ session' = [session EXCEPT !.link = TRUE]
  /\ OthersUnchanged
  /\ NetworkUnchanged

\* A connection is there and its key is known: authKeyChecked().
Connect ==
  /\ ~session.link
  /\ Idle(session)
  /\ session' = [session EXCEPT !.link = TRUE, !.hand = session.haveSent,
                                !.haveSent = {}]
  /\ OthersUnchanged
  /\ NetworkUnchanged

\* The connection breaks, or a timer gives it up; what was on the wire is
\* lost.
Disconnect ==
  /\ session.link
  /\ Idle(session)
  /\ Trouble
  /\ session' = Restart(session)
  /\ up' = <<>>
  /\ down' = <<>>
  /\ OthersUnchanged
  /\ UNCHANGED server

\* clearOldContainers(): what a container of long ago had and what is still
\* not answered is sent again.
ClearOldContainer(c) ==
  /\ Idle(session)
  /\ Trouble
  /\ session' = Resend(session, c.id)
  /\ OthersUnchanged
  /\ UNCHANGED <<up, down, server>>

-----------------------------------------------------------------------------
(* handleReceived() and handleOneReceived().                               *)

Message == Head(down)

\* A message from the server that is neither old nor handled before.
Arrives(kind) ==
  /\ session.link
  /\ Idle(session)
  /\ down # <<>>
  /\ Message.kind = kind
  /\ ~Duplicate(session.seen, Message.id)
  /\ ~TooOld(session.seen, Message.id)
  /\ down' = Tail(down)
  /\ UNCHANGED <<buffer, main, up, server, trouble>>

Registered == [session EXCEPT !.seen = Register(@, Message.id)]

\* The response to a message is for the request it was sent for, if any.
Respond(received, requests) ==
  IF requests = {} THEN received
  ELSE Append(received, [request |-> CHOOSE r \in requests : TRUE,
                         of      |-> Message.of,
                         error   |-> Message.error])

\* rpc_result, also an rpc_error.
ReceiveResult ==
  /\ Arrives("result")
  /\ LET s == RequestsAcked(Registered, {Message.to}, TRUE, main.handlers)
     IN session' = [s EXCEPT !.received = Respond(@, WasSent(s, Message.to))]

ReceiveAck ==
  /\ Arrives("ack")
  /\ session' = RequestsAcked(Registered, {Message.to}, FALSE, main.handlers)

\* bad_msg_notification, and bad_server_salt, for what was sent recently.
IsKnown(s, id) ==
  WasSent(s, id) # {} \/ \E c \in s.containers : c.id = id

\* Codes 16, 17, 64: send it again.
ReceiveBadMessage ==
  /\ Arrives("resend")
  /\ session' = IF IsKnown(session, Message.to)
                  THEN Resend(Registered, Message.to) ELSE Registered

\* Other codes: the request fails, though it stays where it is.
ReceiveFatal ==
  /\ Arrives("fatal")
  /\ session' =
       [Registered EXCEPT !.received =
          Respond(@, WasSent(session, Message.to))]

\* msgs_state_info: what the server does not know is sent again, of the rest
\* it is known that it was received.
ReceiveStates ==
  /\ Arrives("states")
  /\ LET lost == (Message.asked \ Message.got) \cap IdsOf(session.haveSent)
     IN session' =
          [RequestsAcked(Registered, Message.got, FALSE, main.handlers)
             EXCEPT !.todo = Ascending(lost)]

\* new_session_created: the server knows nothing that was sent before the
\* first message of the new session.
ReceiveNewSession ==
  /\ Arrives("newSession")
  /\ session' =
       [Registered EXCEPT !.todo =
          Ascending({n \in IdsOf(session.haveSent) : n < Message.to})]

ReceiveDuplicate ==
  /\ session.link
  /\ Idle(session)
  /\ down # <<>>
  /\ Duplicate(session.seen, Message.id)
  /\ down' = Tail(down)
  /\ OthersUnchanged
  /\ UNCHANGED <<session, up, server, trouble>>

\* Codes 32, 33, and messages older than the buffer of received ids: the
\* client continues with a session and a connection that are new.
ReceiveReset ==
  /\ session.link
  /\ Idle(session)
  /\ down # <<>>
  /\ \/ TooOld(session.seen, Message.id)
     \/ /\ ~Duplicate(session.seen, Message.id)
        /\ Message.kind = "reset"
        /\ IsKnown(session, Message.to)
  /\ session' = ResetSession(Restart(session))
  /\ server' = [server EXCEPT !.alive = FALSE, !.done = {}, !.owed = {}]
  /\ up' = <<>>
  /\ down' = <<>>
  /\ OthersUnchanged
  /\ UNCHANGED trouble

ReceiveUnknownReset ==
  /\ Arrives("reset")
  /\ ~IsKnown(session, Message.to)
  /\ session' = Registered

-----------------------------------------------------------------------------
(* The main thread.                                                        *)

MainIdle == main.cancelling = {}

\* sendRequest() and Session::sendPrepared().
Issue(r) ==
  /\ MainIdle
  /\ r \notin main.issued
  /\ main' = [main EXCEPT !.issued = @ \cup {r},
                          !.known = @ \cup {r},
                          !.handlers = @ \cup ({r} \ Quiet)]
  /\ session' = [session EXCEPT !.toSend = @ \cup {r}]
  /\ buffer' = [buffer EXCEPT ![r] = 0]
  /\ NetworkUnchanged

\* processCallback() of a result, of an error its handler takes, or of a
\* response nobody waits for.
ProcessCallback ==
  /\ MainIdle
  /\ session.received # <<>>
  /\ LET r == Head(session.received).request
     IN main' = [main EXCEPT !.handlers = @ \ {r}, !.known = @ \ {r}]
  /\ session' = [session EXCEPT !.received = Tail(@)]
  /\ UNCHANGED buffer
  /\ NetworkUnchanged

\* An error after which the request is to be sent again, a while later.
DelayRequest ==
  /\ MainIdle
  /\ session.received # <<>>
  /\ Head(session.received).error
  /\ Head(session.received).request \in main.handlers
  /\ main' = [main EXCEPT !.delayed =
                            @ \cup {Head(session.received).request}]
  /\ session' = [session EXCEPT !.received = Tail(@)]
  /\ UNCHANGED buffer
  /\ NetworkUnchanged

\* checkDelayedRequests(): it is sent as if it were new, if it is still there.
SendDelayed(r) ==
  /\ MainIdle
  /\ r \in main.delayed
  /\ main' = [main EXCEPT !.delayed = @ \ {r}]
  /\ IF r \in main.known
       THEN /\ session' = [session EXCEPT !.toSend = @ \cup {r}]
            /\ buffer' = [buffer EXCEPT ![r] = 0]
       ELSE UNCHANGED <<session, buffer>>
  /\ NetworkUnchanged

\* Instance::Private::cancel() and Session::cancel(): the message id is read
\* first, the maps are cleaned one after the other.
StartCancel(r) ==
  /\ MainIdle
  /\ r \in Cancellable \cap main.known
  /\ main' = [main EXCEPT !.cancelling = {[request |-> r, id |-> buffer[r],
                                           queued |-> TRUE]},
                          !.known = @ \ {r}]
  /\ Trouble
  /\ UNCHANGED <<buffer, session, up, down, server>>

CancelQueued(c) ==
  /\ c.queued
  /\ main' = [main EXCEPT !.cancelling = {[c EXCEPT !.queued = FALSE]}]
  /\ session' = [session EXCEPT !.toSend = @ \ {c.request}]
  /\ UNCHANGED buffer
  /\ NetworkUnchanged

CancelSent(c) ==
  /\ ~c.queued
  /\ main' = [main EXCEPT !.cancelling = {}, !.handlers = @ \ {c.request}]
  /\ session' = [session EXCEPT !.haveSent = @ \ At(@, {c.id})]
  /\ UNCHANGED buffer
  /\ NetworkUnchanged

-----------------------------------------------------------------------------
(* The server.  Its steps and the half-done moves of the thread have no    *)
(* state in common, so the model lets it act only between such moves.      *)

Reply(kind, to) ==
  [kind |-> kind, id |-> 0, to |-> to, of |-> 0, error |-> FALSE,
   asked |-> {}, got |-> {}]

\* Replies get ids in the order they are sent.
Numbered(replies) ==
  [i \in 1 .. Len(replies) |-> [replies[i] EXCEPT !.id = server.lastId + i]]

\* It opens a session for the first packet of one, executes the messages it
\* does not know, and will answer, perhaps again, all of them.
Take(executed, failed, replies) ==
  LET packet == Head(up)
      fresh == {m \in executed : m.id \notin IdsOf(server.done)}
      done  == server.done \cup
                 {[id |-> m.id, request |-> m.request, answer |-> 0,
                   error |-> FALSE] : m \in fresh}
      news  == IF server.alive THEN <<>>
               ELSE <<Reply("newSession",
                            Smallest(IdsOf(packet.messages) \cup {packet.id}))>>
      states == IF packet.asked = {} THEN <<>>
                ELSE <<[Reply("states", 0) EXCEPT
                          !.asked = packet.asked,
                          !.got = packet.asked \cap IdsOf(done)]>>
      all   == news \o replies \o states
  IN /\ Idle(session)
     /\ up' = Tail(up)
     /\ down' = down \o Numbered(all)
     /\ server' = [server EXCEPT !.alive = TRUE,
                                 !.done = done,
                                 !.owed = @ \cup IdsOf(executed),
                                 !.failed = @ \cup failed,
                                 !.lastId = @ + Len(all)]
     /\ UNCHANGED <<buffer, main, session>>

Execute ==
  /\ Take(Head(up).messages, {}, <<>>)
  /\ UNCHANGED trouble

\* It may acknowledge the packet before it answers.
Acknowledge ==
  /\ Head(up).messages # {}
  /\ Trouble
  /\ Take(Head(up).messages, {}, <<Reply("ack", Head(up).id)>>)

RefuseMessage(m, kind) ==
  /\ m \in Head(up).messages
  /\ m.id \notin IdsOf(server.done)
  /\ Trouble
  /\ Take(Head(up).messages \ {m}, IF kind = "fatal" THEN {m.request} ELSE {},
          <<[Reply(kind, m.id) EXCEPT !.of = m.request,
                                      !.error = kind = "fatal"]>>)

RefuseContainer ==
  /\ Head(up).messages # {}
  /\ Head(up).id \notin IdsOf(Head(up).messages)
  /\ Trouble
  /\ Take({}, {}, <<Reply("resend", Head(up).id)>>)

\* An answer that is sent again is the same message.
AnswerMessage(d, error) ==
  LET id == IF d.answer = 0 THEN server.lastId + 1 ELSE d.answer
  IN /\ Idle(session)
     /\ d.id \in server.owed
     /\ IF d.answer = 0 /\ error THEN Trouble ELSE UNCHANGED trouble
     /\ d.answer # 0 => error = d.error
     /\ down' = Append(down, [Reply("result", d.id) EXCEPT
                                !.id = id, !.of = d.request, !.error = error])
     /\ server' =
          [server EXCEPT
             !.owed = @ \ {d.id},
             !.done = (@ \ {d}) \cup {[d EXCEPT !.answer = id,
                                                !.error = error]},
             !.failed = IF error THEN @ \cup {d.request} ELSE @,
             !.lastId = IF d.answer = 0 THEN id ELSE @]
     /\ UNCHANGED <<buffer, main, session, up>>

\* It forgets the session, though the connection stays.
LoseSession ==
  /\ Idle(session)
  /\ server.alive
  /\ Trouble
  /\ server' = [server EXCEPT !.alive = FALSE, !.done = {}, !.owed = {}]
  /\ UNCHANGED <<buffer, main, session, up, down>>

-----------------------------------------------------------------------------
ServeSession ==
  \/ up # <<>> /\ Execute
  \/ \E d \in server.done : AnswerMessage(d, d.error)

Disturb ==
  \/ Disconnect
  \/ \E c \in session.containers : ClearOldContainer(c)
  \/ up # <<>> /\ Acknowledge
  \/ /\ up # <<>>
     /\ \E m \in Head(up).messages, kind \in {"resend", "reset", "fatal"} :
          RefuseMessage(m, kind)
  \/ up # <<>> /\ RefuseContainer
  \/ \E d \in server.done : AnswerMessage(d, TRUE)
  \/ LoseSession

Receive ==
  \/ ReceiveResult
  \/ ReceiveAck
  \/ ReceiveBadMessage
  \/ ReceiveFatal
  \/ ReceiveStates
  \/ ReceiveNewSession
  \/ ReceiveDuplicate
  \/ ReceiveReset
  \/ ReceiveUnknownReset

Transfer ==
  \/ TakeToSend
  \/ SendTaken
  \/ \E range \in Ranges(session) : SendContainer(range)
  \/ TakeToResend
  \/ PutToResend
  \/ Connect

MainThread ==
  \/ ProcessCallback
  \/ DelayRequest
  \/ \E r \in main.delayed : SendDelayed(r)
  \/ \E c \in main.cancelling : CancelQueued(c) \/ CancelSent(c)

SessionNext ==
  \/ \E r \in Requests : Issue(r) \/ StartCancel(r)
  \/ ServeSession
  \/ Disturb
  \/ Receive
  \/ Transfer
  \/ MainThread
  \/ Ping
  \/ CheckSentRequests

SessionSpec == SessionInit /\ [][SessionNext]_sessionVars

\* Threads and the server go on, connections are made, timers run out.
SessionFairSpec ==
  /\ SessionSpec
  /\ WF_sessionVars(ServeSession)
  /\ WF_sessionVars(Receive)
  /\ WF_sessionVars(Transfer)
  /\ WF_sessionVars(MainThread)
  /\ WF_sessionVars(Ping)
  /\ WF_sessionVars(CheckSentRequests)

-----------------------------------------------------------------------------
(* What the session promises.                                              *)

Entries == [id : Nat, request : Requests]

\* A map from message ids is one.
IsMap(map) ==
  map \subseteq Entries /\ \A e, f \in map : e.id = f.id => e = f

\* The maps stay maps, ids of containers are no ids of messages, and there is
\* never more in the hand of a thread than it moves at a time.
TypeOK ==
  /\ buffer \in [Requests -> Nat]
  /\ main.known \subseteq main.issued
  /\ main.handlers \subseteq main.issued \ Quiet
  /\ main.delayed \subseteq main.issued
  /\ Cardinality(main.cancelling) <= 1
  /\ \A map \in {session.haveSent, session.resending, session.acked,
                 session.hand} : IsMap(map)
  /\ session.toSend \cup session.forced \subseteq main.issued
  /\ Cardinality(session.acked) <= AckedLimit
  /\ Cardinality(session.seen) <= SeenLimit
  /\ Cardinality(session.sending) <= 1
  /\ session.sending = {} \/ session.hand = {}
  /\ \A c \in session.containers :
       c.id \notin IdsOf(session.haveSent) /\ c.messages # {}
  /\ \A m \in server.done : buffer[m.request] <= session.lastId
  /\ server.owed \subseteq IdsOf(server.done)

\* The requests that a session has to send, or has sent and remembers.
WaitingIn(s) ==
  RequestsOf(s.haveSent) \cup RequestsOf(s.hand) \cup s.toSend \cup s.sending

Responses == {session.received[i] : i \in 1 .. Len(session.received)}

\* A request somebody waits for is to be sent, or was sent and is remembered,
\* or its response is there: no step of the two threads, of resending or of
\* acknowledging loses it.
NothingIsForgotten ==
  main.handlers \subseteq
    WaitingIn(session) \cup RequestsOf(Responses) \cup main.delayed
      \cup RequestsOf(main.cancelling)

\* No message that is out is older than all the answered ones the session
\* remembers, of which there are not more than AckedLimit.
AnswersAreRecent ==
  \A e \in session.haveSent \cup session.resending :
    Cardinality({f \in session.acked : f.id > e.id}) < AckedLimit

\* As long as the server keeps its session a request is executed only once,
\* however often it is sent, unless an attempt, in this session or an earlier
\* one, was answered with an error, or refused in a way that the client takes
\* for one.
ExecutedOnce ==
  \A d, e \in server.done :
    d.request = e.request => d = e \/ d.request \in server.failed

\* The response a request gets is the one to this request.
AnswerIsItsOwn == \A m \in Responses : m.of = m.request

\* What is queued has no id, or one that nothing that was sent has, as
\* tryToSend() would like to assert when it puts it into haveSent.
NothingIsSentTwice ==
  \A r \in session.toSend :
    buffer[r] # 0 => buffer[r] \notin IdsOf(session.haveSent)

\* Everybody who waits for an answer gets one or gives up.
EverythingIsAnswered ==
  \A r \in Requests : r \in main.handlers ~> r \notin main.handlers
=============================================================================
