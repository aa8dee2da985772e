---------------------------- MODULE MtpRequests ----------------------------
(***************************************************************************)
(* Requests in the main thread (MTP::Instance::Private, mtp_instance.cpp): *)
(* from send() to the call of a handler or to a cancel.  On the way the    *)
(* answer to a request may be an error that the instance handles itself:   *)
(* the request is sent to another dc, delayed, sent again, made to wait    *)
(* for the request it was to be invoked after, or made to wait until the   *)
(* authorization has been exported from the main dc and imported into the  *)
(* dc that has refused it.                                                 *)
(*                                                                         *)
(* A session delivers each request and its answer once (MtpSession is      *)
(* about that), so here it is a set of requests in flight, each with the   *)
(* answer the server has given, if any.                                    *)
(***************************************************************************)
EXTENDS Naturals, Functions

CONSTANTS
    Dcs,        \* the data centres
    MainDc,     \* the one the account lives in
    MaxUser,    \* bound: requests made by the rest of the program
    MaxTroubles,\* bound: answers that a working server need not give
    Refused     \* which steps of a transfer the server may refuse

ASSUME RequestsAssumption ==
    /\ Dcs \subseteq Nat
    /\ MainDc \in Dcs
    /\ MaxUser \in Nat
    /\ MaxTroubles \in Nat
    /\ Refused \subseteq {"export", "import"}

VARIABLES
    lastId,     \* the last request id given out
    mtp,        \* the maps of the instance and the requests in its sessions
    authorized, \* server: the dcs that know the account
    made,       \* how many requests the rest of the program has made
    troubles,   \* how many answers of MaxTroubles have been given
    refused     \* the dcs that an export or import has been refused for

vars == <<lastId, mtp, authorized, made, troubles, refused>>

\* The maps of the instance:
\*   requests   _requestMap, the request it is to be invoked after (0: none)
\*   parser     _parserMap, whose handlers they are
\*   byDc       _requestsByDc, a negative id is toMain
\*   delayed    _delayedRequests, in whatever order their times are
\*   dependent  _dependentRequests
\*   waiters    _authWaiters, exports _authExportRequests
\*   badGuest   _badGuestDcRequests
\* and flying, the requests in the sessions.
NoRequests ==
    LET Empty == [id \in {} |-> 0]
    IN [requests  |-> Empty,
        parser    |-> Empty,
        byDc      |-> Empty,
        delayed   |-> {},
        dependent |-> Empty,
        waiters   |-> [dc \in Dcs |-> {}],
        exports   |-> Empty,
        badGuest  |-> {},
        flying    |-> Empty]

Known(m) == DOMAIN m.requests

Handlers == {"user", "export", "import"}

Without(f, ids) == Restrict(f, DOMAIN f \ ids)

With(f, id, value) == [i \in DOMAIN f \cup {id} |-> IF i = id THEN value ELSE f[i]]

-----------------------------------------------------------------------------
(* Sending *)

\* Session::sendPrepared() of all of ids, each in the dc it is registered
\* with; a session wraps a request in invokeAfterMsg when the other one is
\* in flight in the same session.
SendPrepared(m, ids) ==
    LET sent == DOMAIN m.flying \cup ids
        DcOf(id) == IF id \in DOMAIN m.flying THEN m.flying[id].dc
                                              ELSE m.byDc[id].dc
        Waits(id) == /\ m.requests[id] \in sent
                     /\ DcOf(m.requests[id]) = DcOf(id)
    IN [m EXCEPT !.flying = [id \in sent |->
            IF id \in DOMAIN m.flying
            THEN m.flying[id]
            ELSE [dc |-> DcOf(id), waits |-> Waits(id), answer |-> "none"]]]

\* sendRequest() with storeRequest() and registerRequest(): a request after
\* one that waits for yet another one waits as well.
SendRequest(m, id, handler, toMain, dc, after) ==
    LET known == IF after \in Known(m) THEN after ELSE 0
        stored == [m EXCEPT
            !.requests = With(@, id, known),
            !.parser = With(@, id, handler),
            !.byDc = With(@, id, [toMain |-> toMain, dc |-> dc])]
    IN IF known \in DOMAIN m.dependent
       THEN [stored EXCEPT !.dependent = With(@, id, known)]
       ELSE SendPrepared(stored, {id})

\* Those that wait for a request, for one that waits for it, and so on: the
\* least set that nothing can be added to.
Dependents(m, id) ==
    LET Complete(ids) ==
            \A d \in DOMAIN m.dependent :
                m.dependent[d] \in ids \cup {id} => d \in ids
    IN {d \in DOMAIN m.dependent :
            \A ids \in SUBSET DOMAIN m.dependent : Complete(ids) => d \in ids}

\* Mutant: those that wait for the request are forgotten with it.
UnregisterRequestOnly(m, id) ==
    [m EXCEPT
        !.requests = Without(@, {id}),
        !.parser = Without(@, {id}),
        !.byDc = Without(@, {id}),
        !.dependent = Without(@, {id})]

\* unregisterRequest() of a request whose handler has been called: all that
\* wait for it are sent.
UnregisterRequest(m, id) ==
    LET toResend == Dependents(m, id)
        gone == [m EXCEPT
            !.requests = Without(@, {id}),
            !.parser = Without(@, {id}),
            !.byDc = Without(@, {id}),
            !.dependent = Without(@, toResend \cup {id})]
    IN SendPrepared(gone, toResend)

-----------------------------------------------------------------------------
(* Answers of the server *)

Troubles == {"temporary", "migrate", "bad_file", "not_inited"}

\* What the server may answer a request with; to a request of the program
\* "done" is a result or an error that only its handler knows about.  One that
\* is to be invoked after another is not executed before it.
Answers(id) ==
    LET flight == mtp.flying[id]
        handler == mtp.parser[id]
        after == mtp.requests[id]
        mayGo == \/ ~flight.waits
                 \/ after \notin DOMAIN mtp.flying
                 \/ mtp.flying[after].answer # "none"
    IN  {a \in {"done", "fail"} :
            \/ a = "done" /\ (handler = "user" => flight.dc \in authorized /\ mayGo)
            \/ a = "fail" /\ handler \in Refused}
        \cup {a \in {"unauthorized"} :
            handler = "user" /\ flight.dc \notin authorized}
        \cup {a \in {"msg_wait"} : flight.waits}
        \cup {a \in Troubles :
            /\ troubles < MaxTroubles
            /\ a = "migrate" => handler = "user" /\ ~mtp.byDc[id].toMain
            /\ a = "bad_file" => handler = "user"}

Serve(id) ==
    /\ id \in DOMAIN mtp.flying
    /\ mtp.flying[id].answer = "none"
    /\ \E a \in Answers(id) :
        /\ mtp' = [mtp EXCEPT !.flying[id].answer = a]
        /\ troubles' = IF a \in Troubles THEN troubles + 1 ELSE troubles
        /\ authorized' = IF mtp.parser[id] = "import" /\ a = "done"
                         THEN authorized \cup {mtp.flying[id].dc}
                         ELSE authorized
    /\ UNCHANGED <<lastId, made, refused>>

\* processCallback() has been called for an answer: the session has dropped
\* the request by then.
Answered(id, answer) ==
    /\ id \in DOMAIN mtp.flying
    /\ mtp.flying[id].answer = answer

Landed(id) == [mtp EXCEPT !.flying = Without(@, {id})]

\* The handler has been called.
End(id) == mtp' = UnregisterRequest(Landed(id), id)

UserDone(id) ==
    /\ Answered(id, "done")
    /\ mtp.parser[id] = "user"
    /\ End(id)
    /\ UNCHANGED <<lastId, authorized, made, troubles, refused>>

\* rpcErrorOccured(): a handler is asked first whether it takes a temporary
\* error.
UserFail(id) ==
    /\ Answered(id, "temporary")
    /\ mtp.parser[id] = "user"
    /\ End(id)
    /\ UNCHANGED <<lastId, authorized, made, troubles, refused>>

\* exportDone(): the import goes to the dc that refused the first request.
ExportDone(id) ==
    /\ Answered(id, "done")
    /\ mtp.parser[id] = "export"
    /\ LET import == lastId + 1
           sent == SendRequest(Landed(id), import, "import", FALSE,
                               mtp.exports[id], 0)
       IN /\ mtp' = UnregisterRequest(
                [sent EXCEPT !.exports = Without(@, {id})], id)
          /\ lastId' = import
    /\ UNCHANGED <<authorized, made, troubles, refused>>

\* exportFail(): whatever waits for the authorization is forgotten.
ExportFail(id) ==
    /\ Answered(id, "fail")
    /\ mtp.parser[id] = "export"
    /\ mtp' = UnregisterRequest(
            [Landed(id) EXCEPT !.waiters[mtp.exports[id]] = {}], id)
    /\ refused' = refused \cup {mtp.exports[id]}
    /\ UNCHANGED <<lastId, authorized, made, troubles>>

\* importDone(): whatever waits is sent again, but for what was cancelled.
ImportDone(id) ==
    /\ Answered(id, "done")
    /\ mtp.parser[id] = "import"
    /\ LET dc == mtp.byDc[id].dc
           waited == mtp.waiters[dc] \cap Known(mtp)
           sent == SendPrepared(Landed(id), waited)
       IN mtp' = UnregisterRequest([sent EXCEPT !.waiters[dc] = {}], id)
    /\ UNCHANGED <<lastId, authorized, made, troubles, refused>>

\* importFail()
ImportFail(id) ==
    /\ Answered(id, "fail")
    /\ mtp.parser[id] = "import"
    /\ End(id)
    /\ refused' = refused \cup {mtp.byDc[id].dc}
    /\ UNCHANGED <<lastId, authorized, made, troubles>>

-----------------------------------------------------------------------------
(* onErrorDefault() *)

\* Mutant: is sent before it is registered with its new dc.
MigratedLate(m, id, dc) ==
    [SendPrepared(m, {id}) EXCEPT !.byDc[id].dc = dc]

Migrated(m, id, dc) == SendPrepared([m EXCEPT !.byDc[id].dc = dc], {id})

Migrate(id) ==
    /\ Answered(id, "migrate")
    /\ \E dc \in Dcs \ {mtp.byDc[id].dc} : mtp' = Migrated(Landed(id), id, dc)
    /\ UNCHANGED <<lastId, authorized, made, troubles, refused>>

\* Mutant: does not look whether the other one has ended.
DependsAnyway(m, id) == m.requests[id] # 0

\* The request it was to be invoked after is still there, in the same dc.
Depends(m, id) ==
    /\ m.requests[id] \in Known(m)
    /\ m.byDc[m.requests[id]] = m.byDc[id]

\* MSG_WAIT_*: the request it was to be invoked after has failed or takes too
\* long.  This one waits for its end here, or is sent without waiting.
MsgWaitFailed(id) ==
    /\ Answered(id, "msg_wait")
    /\ LET m == Landed(id)
       IN mtp' = IF Depends(m, id)
                 THEN [m EXCEPT !.dependent = With(@, id, m.requests[id])]
                 ELSE SendPrepared([m EXCEPT !.requests[id] = 0], {id})
    /\ UNCHANGED <<lastId, authorized, made, troubles, refused>>

\* checkDelayedRequests(): those whose time has come are sent.
CheckDelayedRequests(m, due) ==
    SendPrepared([m EXCEPT !.delayed = @ \ due], due \cap Known(m))

Delay(id) ==
    /\ Answered(id, "temporary")
    /\ \E due \in SUBSET mtp.delayed :
        mtp' = CheckDelayedRequests(
                    [Landed(id) EXCEPT !.delayed = @ \cup {id}], due)
    /\ UNCHANGED <<lastId, authorized, made, troubles, refused>>

\* The timer of the first one that is delayed.
DelayTimer ==
    /\ \E due \in SUBSET mtp.delayed :
        /\ due # {}
        /\ mtp' = CheckDelayedRequests(mtp, due)
    /\ UNCHANGED <<lastId, authorized, made, troubles, refused>>

\* CONNECTION_NOT_INITED
SendAgain(id) ==
    /\ Answered(id, "not_inited")
    /\ mtp' = SendPrepared(Landed(id), {id})
    /\ UNCHANGED <<lastId, authorized, made, troubles, refused>>

\* A dc refuses a request, because it does not know the account, or once per
\* request because of a file it has not got: the request waits for the
\* authorization, which the first one asks for.
Unauthorized(id) ==
    /\ Answered(id, "unauthorized") \/ Answered(id, "bad_file")
    /\ LET m == Landed(id)
           dc == m.byDc[id].dc
           bad == mtp.flying[id].answer = "bad_file"
           waiting == [m EXCEPT
               !.waiters[dc] = @ \cup {id},
               !.badGuest = IF bad THEN @ \cup {id} ELSE @]
           export == lastId + 1
           exporting == SendRequest(
               [waiting EXCEPT !.exports = With(@, export, dc)],
               export, "export", TRUE, MainDc, 0)
       IN IF dc = MainDc \/ (bad /\ id \in m.badGuest)
          THEN /\ mtp' = UnregisterRequest(
                    [m EXCEPT !.badGuest = IF dc = MainDc THEN @ ELSE @ \ {id}],
                    id)
               /\ UNCHANGED lastId
          ELSE IF m.waiters[dc] = {}
          THEN /\ mtp' = exporting
               /\ lastId' = export
          ELSE /\ mtp' = waiting
               /\ UNCHANGED lastId
    /\ UNCHANGED <<authorized, made, troubles, refused>>

-----------------------------------------------------------------------------
(* The rest of the program *)

Send ==
    /\ made < MaxUser
    /\ \E dc \in Dcs, after \in 0..lastId :
        mtp' = SendRequest(mtp, lastId + 1, "user", dc = MainDc, dc, after)
    /\ lastId' = lastId + 1
    /\ made' = made + 1
    /\ UNCHANGED <<authorized, troubles, refused>>

\* Mutant: nor does it wait for the authorization any more.
CancelledEverywhere(m, id) ==
    LET gone == UnregisterRequest(m, id)
    IN [gone EXCEPT
            !.flying = IF id \in DOMAIN @ /\ @[id].dc = m.byDc[id].dc
                       THEN Without(@, {id}) ELSE @,
            !.waiters = [dc \in Dcs |-> @[dc] \ {id}]]

\* cancel(): the session it is registered with forgets the request.
Cancelled(m, id) ==
    LET gone == UnregisterRequest(m, id)
    IN [gone EXCEPT !.flying =
            IF id \in DOMAIN @ /\ @[id].dc = m.byDc[id].dc
            THEN Without(@, {id}) ELSE @]

Cancel(id) ==
    /\ id \in Known(mtp)
    /\ mtp.parser[id] = "user"
    /\ mtp' = Cancelled(mtp, id)
    /\ UNCHANGED <<lastId, authorized, made, troubles, refused>>

-----------------------------------------------------------------------------
Init ==
    /\ lastId = 0
    /\ mtp = NoRequests
    /\ authorized = {MainDc}
    /\ made = 0
    /\ troubles = 0
    /\ refused = {}

Answer(id) ==
    \/ UserDone(id) \/ UserFail(id)
    \/ ExportDone(id) \/ ExportFail(id)
    \/ ImportDone(id) \/ ImportFail(id)
    \/ Migrate(id) \/ MsgWaitFailed(id)
    \/ Delay(id) \/ SendAgain(id) \/ Unauthorized(id)

\* A request needs an export and an import for the first dc it is sent to, and
\* again when the server sends it on or has not got its file.
Ids == 1..(3 * MaxUser + 2 * MaxTroubles)

Next ==
    \/ Send
    \/ DelayTimer
    \/ \E id \in Ids :
        \/ Serve(id)
        \/ Answer(id)
        \/ Cancel(id)

Spec == Init /\ [][Next]_vars

\* The server answers, the event loop turns and the timer fires.
Fairness ==
    /\ WF_vars(\E id \in Ids : Serve(id))
    /\ WF_vars(\E id \in Ids : Answer(id))
    /\ WF_vars(DelayTimer)

FairSpec == Spec /\ Fairness

-----------------------------------------------------------------------------
(* Properties *)

\* The authorization for a dc is on its way.
Exporting(dc) == {id \in DOMAIN mtp.exports \cap Known(mtp) : mtp.exports[id] = dc}

Importing(dc) ==
    {id \in Known(mtp) : mtp.parser[id] = "import" /\ mtp.byDc[id].dc = dc}

\* Where a request may be: in a session, delayed, waiting for another one that
\* is known, or for an authorization that is on its way.
Places(id) ==
    {place \in {"session", "delay", "request", "transfer"} :
        CASE place = "session" -> id \in DOMAIN mtp.flying
          [] place = "delay" -> id \in mtp.delayed
          [] place = "request" -> /\ id \in DOMAIN mtp.dependent
                                  /\ mtp.dependent[id] \in Known(mtp)
          [] place = "transfer" -> \E dc \in Dcs :
                /\ id \in mtp.waiters[dc]
                /\ Exporting(dc) \cup Importing(dc) # {}}

\* A request that the program waits for is in one place, or it would be sent
\* twice, and in one at all, as long as the transfer of the authorization to
\* its dc has not been refused (the maps of Instance::Private, which no code
\* ever compares).
NothingIsStranded ==
    \A id \in Known(mtp) :
        /\ \A p, q \in Places(id) : p = q
        /\ Places(id) = {} => mtp.byDc[id].dc \in refused

\* The same whether a transfer has been refused or not.  False in the code:
\* exportFail() forgets what waits, and after importFail() everything that dc
\* refuses waits for an import that nobody asks for.
NothingIsEverStranded == \A id \in Known(mtp) : Places(id) # {}

\* A request in flight is in the session it is registered with, where cancel()
\* looks for it, and is still registered at all: nothing in a session outlives
\* its request (migration, transfers and cancels change one or the other).
CancelFindsIt ==
    \A id \in DOMAIN mtp.flying :
        /\ id \in Known(mtp)
        /\ mtp.flying[id].dc = mtp.byDc[id].dc

\* However many requests a dc refuses, and whichever of them are cancelled,
\* there is one export or import for it at a time (onErrorDefault() looks only
\* at whether anything waits for the dc).
OneTransfer ==
    \A dc \in Dcs : \A e, f \in Exporting(dc) \cup Importing(dc) : e = f

\* When the program makes no more requests, all of them end, whatever they wait
\* for: a handler is called or they are cancelled, unless a transfer is refused.
EveryRequestEnds == <>[](Known(mtp) = {} \/ refused # {})

=============================================================================
