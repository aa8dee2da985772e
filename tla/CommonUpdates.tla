--------------------------- MODULE CommonUpdates ---------------------------
(***************************************************************************)
(* api/api_updates: how a client keeps up with the update stream of an     *)
(* account.  Two numbers order that stream: pts, which counts the events   *)
(* that change mailbox state and which a PtsWaiter follows, and seq, which *)
(* counts the update containers of the account.  A container that skips    *)
(* ahead is parked (bySeq) and a gap starts a timer; when it runs out, or  *)
(* whenever the client has a reason to think it lost something, it asks    *)
(* the server for the difference from the position it claims, and ignores  *)
(* every push until the answer has come.                                   *)
(*                                                                         *)
(* The client is one value and a handler is an operator on it, because     *)
(* handlers call each other: a container that is fed can ask for a         *)
(* difference, which clears the parked containers that the caller is       *)
(* draining.  One action is one event of the main thread's loop.           *)
(*                                                                         *)
(* The server and the network are external.  The server issues updates     *)
(* with consecutive numbers and answers a difference with everything it    *)
(* issued after the position it was asked from.  Pushes may overtake each  *)
(* other; what is on the wire arrives in order, because the session hands  *)
(* what it received to the main thread through one queue.  A session can   *)
(* be lost with everything on its wire; the client is then told so         *)
(* (new_session_created) and its unanswered requests are sent again.       *)
(*                                                                         *)
(* Time is left out: an armed timer may fire at any moment.  So are qts    *)
(* and the date, which only select what a difference contains, the online  *)
(* status, pings, and the streams of channels.                             *)
(***************************************************************************)
EXTENDS PtsWaiter, Sequences

CONSTANTS
  MaxEvents,   \* updates the server issues
  Containers,  \* the lists of pts counts that one update container may carry
  SeqSteps,    \* by how much a container may move seq
  MaxLosses,   \* sessions lost
  MaxDrops,    \* pushes that get lost without the client being told
  MaxFailures, \* differences the server fails to answer
  MaxRefusals, \* requests that get an answer the client cannot use
  MaxForced    \* differences asked for because the session was reset

ASSUME BoundsAssumption ==
  /\ {MaxEvents, MaxLosses, MaxDrops, MaxFailures, MaxRefusals, MaxForced}
       \subseteq Nat
  /\ Containers \subseteq Seq(Nat)
  /\ SeqSteps \subseteq {0, 1, 2}

VARIABLES
  client,    \* the fields of Api::Updates, and what it has applied so far
  requests,  \* what the client asked for and the server has not answered
  server,    \* the pts and seq of the account
  unsent,    \* what the server has issued and not yet sent
  wire,      \* what is on its way to the main thread of the client
  budget     \* what is left of the bounds

vars == <<client, requests, server, unsent, wire, budget>>

Update(pts, count) == [pts |-> pts, count |-> count]

-----------------------------------------------------------------------------
(* The state of Api::Updates.                                              *)
(*                                                                         *)
(* sending holds the requests the handler in progress has sent.  seen and  *)
(* seenSeq are the positions of the updates and containers applied so far, *)
(* and repeated those that were applied again by a handler which was not   *)
(* in the middle of a difference.                                          *)

FreshClient ==
  [waiter |-> SetRequesting(FreshWaiter, TRUE), seq |-> 0,
   bySeq |-> {}, bySeqTimer |-> FALSE,
   byPtsTimer |-> FALSE, failTimer |-> FALSE,
   sending |-> <<>>, seen |-> {}, seenSeq |-> {}, repeated |-> {}]

RequestingDifference(c) == c.waiter.requesting

\* Mutant: a difference is asked for while another one is awaited.
GetAnotherDifference(c) ==
  [c EXCEPT !.byPtsTimer = FALSE, !.bySeq = {}, !.bySeqTimer = FALSE,
            !.failTimer = FALSE, !.waiter = SetRequesting(@, TRUE),
            !.sending = Append(@, [kind |-> "difference",
                                   pts |-> c.waiter.good])]

GetDifference(c) ==
  LET unhurried == [c EXCEPT !.byPtsTimer = FALSE]
  IN IF RequestingDifference(c)
       THEN unhurried
     ELSE [unhurried EXCEPT
             !.bySeq = {}, !.bySeqTimer = FALSE, !.failTimer = FALSE,
             !.waiter = SetRequesting(@, TRUE),
             !.sending = Append(@, [kind |-> "difference",
                                    pts |-> c.waiter.good])]

-----------------------------------------------------------------------------
(* Feeding updates.                                                        *)

\* What a call of the waiter did, carried over to its owner.
Absorb(c, result) ==
  LET positions == CoversAll(result.applied)
  IN [c EXCEPT
        !.waiter = result.waiter,
        !.byPtsTimer = TimerAfter(@, result.timer),
        !.seen = @ \cup positions,
        !.repeated = IF RequestingDifference(c)
                       THEN @ ELSE @ \cup (c.seen \cap positions)]

\* feedUpdate() of an update with a pts.  strangers are the updates that are
\* messages of a peer the client has not loaded.
FeedUpdate(c, u, strangers) ==
  IF u.pts \in strangers /\ ~RequestingDifference(c)
    THEN GetDifference(c)
    ELSE Absorb(c, UpdateAndApply(c.waiter, u))

\* The updates of one container, one after the other.
FeedContainer(c, m, strangers) ==
  LET fed[i \in 0 .. Len(m.list)] ==
        IF i = 0 THEN c ELSE FeedUpdate(fed[i - 1], m.list[i], strangers)
  IN fed[Len(m.list)]

\* Park a container that came too early, unless one with its number is
\* already there.
Park(c, m) ==
  [c EXCEPT !.bySeq = IF \E parked \in @ : parked.start = m.start
                        THEN @ ELSE @ \cup {m},
            !.bySeqTimer = TRUE]

\* The seq half of setState(), up to its loop.
MoveSeq(c, seq) ==
  IF seq \in {0, c.seq}
    THEN c ELSE [c EXCEPT !.seq = seq, !.bySeqTimer = FALSE]

\* One container is fed and its number becomes the current one.
TakeContainer(c, m, strangers) ==
  LET fed == FeedContainer(c, m, strangers)
  IN MoveSeq([fed EXCEPT !.seenSeq = @ \cup (m.start .. m.seq)], m.seq)

\* Mutant: the timer is not started again for what stays parked.
DrainOneOnly(c, strangers) ==
  LET first == CHOOSE m \in c.bySeq : \A n \in c.bySeq : m.start <= n.start
      rest  == [c EXCEPT !.bySeq = @ \ {first}]
  IN IF c.bySeq = {} \/ first.start > c.seq + 1
       THEN c
     ELSE IF first.start <= c.seq
       THEN rest
     ELSE TakeContainer(rest, first, strangers)

\* One turn of the loop of setState() over the parked containers.
DrainOne(c, strangers) ==
  LET first == CHOOSE m \in c.bySeq : \A n \in c.bySeq : m.start <= n.start
      rest  == [c EXCEPT !.bySeq = @ \ {first}]
  IN IF c.bySeq = {}
       THEN c
     ELSE IF first.start > c.seq + 1
       THEN [c EXCEPT !.bySeqTimer = TRUE]
     ELSE IF first.start <= c.seq
       THEN rest
     ELSE TakeContainer(rest, first, strangers)

\* The loop: no parked container takes more than one turn of it.
Drain(c, strangers) ==
  LET drained[i \in 0 .. Cardinality(c.bySeq)] ==
        IF i = 0 THEN c ELSE DrainOne(drained[i - 1], strangers)
  IN drained[Cardinality(c.bySeq)]

\* Mutant: a position of 0 is taken for a position.
SetStateAlways(c, pts, seq, strangers) ==
  LET positioned == [c EXCEPT !.waiter = InitAt(@, pts)]
  IN IF seq \in {0, c.seq}
       THEN positioned
     ELSE Drain(MoveSeq(positioned, seq), strangers)

\* setState(): a position of 0, or the current seq, says nothing new.  A
\* drained container calls setState() in its turn, which goes on draining
\* from its number: a loop that ends when nothing more fits.
SetState(c, pts, seq, strangers) ==
  LET positioned == IF pts = 0
                      THEN c ELSE [c EXCEPT !.waiter = InitAt(@, pts)]
  IN IF seq \in {0, c.seq}
       THEN positioned
     ELSE Drain(MoveSeq(positioned, seq), strangers)

\* Mutant: one missing container goes unnoticed.
ApplyContainerEarly(c, m, strangers) ==
  LET fed == [FeedContainer(c, m, strangers) EXCEPT
                !.seenSeq = @ \cup (m.start .. m.seq)]
  IN IF m.start = 0
       THEN FeedContainer(c, m, strangers)
     ELSE IF m.start <= c.seq
       THEN c
     ELSE IF m.start > c.seq + 2
       THEN Park(c, m)
     ELSE SetState(fed, 0, m.seq, strangers)

\* applyUpdates() of an update container.  Its seq is 0 when it has no number.
ApplyContainer(c, m, strangers) ==
  LET fed == [FeedContainer(c, m, strangers) EXCEPT
                !.seenSeq = @ \cup (m.start .. m.seq)]
  IN IF m.start = 0
       THEN FeedContainer(c, m, strangers)
     ELSE IF m.start <= c.seq
       THEN c
     ELSE IF m.start > c.seq + 1
       THEN Park(c, m)
     ELSE SetState(fed, 0, m.seq, strangers)

-----------------------------------------------------------------------------
(* The handlers of what arrives.                                           *)

\* mtpUpdateReceived(): pushes are ignored while a difference is awaited.
PushReceived(c, m, strangers) ==
  IF RequestingDifference(c) THEN c ELSE ApplyContainer(c, m, strangers)

TooLongReceived(c) == IF RequestingDifference(c) THEN c ELSE GetDifference(c)

\* applyAffectedMessages() and the like: the request that brought the
\* position has changed the local state already.
AffectedReceived(c, u) ==
  LET absorbed == Absorb(c, UpdateAndApplyPosition(c.waiter, u))
  IN [absorbed EXCEPT !.seen = @ \cup Covers(u)]

MtpNewSessionCreated(c) == GetDifference([c EXCEPT !.seq = 0])

\* What every good answer ends with: its state is taken over, which drains
\* the parked containers while the difference still counts as requested.
Finish(c, pts, seq, strangers) ==
  LET stated == SetState(c, pts, seq, strangers)
  IN [stated EXCEPT !.waiter = SetRequesting(@, FALSE)]

\* A difference brings everything after the position it was asked from.
FeedDifference(c, m) ==
  [c EXCEPT !.seen = @ \cup ((m.request.pts + 1) .. m.pts),
            !.seenSeq = @ \cup (1 .. m.seq)]

StateDone(c, m, strangers) ==
  Finish([c EXCEPT !.seen = @ \cup (1 .. m.pts),
                   !.seenSeq = @ \cup (1 .. m.seq)],
         m.pts, m.seq, strangers)

DifferenceDone(c, m, strangers) ==
  CASE m.kind = "empty" ->
         Finish([c EXCEPT !.seenSeq = @ \cup (1 .. m.seq)],
                c.waiter.good, m.seq, strangers)
    [] m.kind = "slice" ->
         GetDifference(Finish(FeedDifference(c, m), m.pts, m.seq, strangers))
    [] m.kind = "difference" ->
         Finish(FeedDifference(c, m), m.pts, m.seq, strangers)
    \* differenceTooLong, or getState() failed: a line in the log.
    [] m.kind = "refused" -> c

\* Mutant: a failed difference is not asked for again.
DifferenceFailIgnored(c) == c

DifferenceFail(c) == [c EXCEPT !.failTimer = TRUE]

GetDifferenceAfterFail(c) ==
  GetDifference([c EXCEPT !.waiter = SetRequesting(@, FALSE)])

-----------------------------------------------------------------------------
(* The server and the network.                                             *)

Init ==
  /\ client = FreshClient
  /\ requests = <<[kind |-> "state", pts |-> 0]>>
  /\ server = [pts |-> 1, seq |-> 1]
  /\ unsent = {}
  /\ wire = <<>>
  /\ budget = [events |-> MaxEvents, losses |-> MaxLosses,
               drops |-> MaxDrops, failures |-> MaxFailures,
               refusals |-> MaxRefusals, forced |-> MaxForced]

Spend(what) == /\ budget[what] > 0
               /\ budget' = [budget EXCEPT ![what] = @ - 1]

\* The pts of the i-th update of a container: the sum of the counts so far.
PtsAfter(pts, counts, i) ==
  LET sum[j \in 0 .. Len(counts)] ==
        IF j = 0 THEN pts ELSE sum[j - 1] + counts[j]
  IN sum[i]

\* Something happens in the account.  The container is pushed, or is the
\* result of a request of this client (rpc).
Issue(counts, step, rpc) ==
  LET updates == [i \in 1 .. Len(counts) |->
                    Update(PtsAfter(server.pts, counts, i), counts[i])]
      numbered == step > 0
  IN /\ Spend("events")
     /\ numbered \/ counts # <<>>
     /\ server' = [pts |-> PtsAfter(server.pts, counts, Len(counts)),
                   seq |-> server.seq + step]
     /\ unsent' = unsent \cup
          {[kind |-> "updates", rpc |-> rpc, list |-> updates,
            start |-> IF numbered THEN server.seq + 1 ELSE 0,
            seq |-> IF numbered THEN server'.seq ELSE 0]}
     /\ UNCHANGED <<client, requests, wire>>

\* A request of this client changes its mailbox and reports the position.
IssueAffected(count) ==
  /\ Spend("events")
  /\ server' = [server EXCEPT !.pts = @ + count]
  /\ unsent' = unsent \cup {[kind |-> "affected", rpc |-> TRUE,
                             upd |-> Update(server.pts + count, count)]}
  /\ UNCHANGED <<client, requests, wire>>

Send(m) ==
  /\ m \in unsent
  /\ unsent' = unsent \ {m}
  /\ wire' = Append(wire, m)
  /\ UNCHANGED <<client, requests, server, budget>>

\* The server gives up on its pushes and says so, or loses one silently.
SendTooLong ==
  /\ \E m \in unsent : ~m.rpc
  /\ unsent' = {m \in unsent : m.rpc}
  /\ wire' = Append(wire, [kind |-> "tooLong", rpc |-> FALSE])
  /\ UNCHANGED <<client, requests, server, budget>>

Drop(m) ==
  /\ Spend("drops")
  /\ m \in unsent
  /\ ~m.rpc
  /\ unsent' = unsent \ {m}
  /\ UNCHANGED <<client, requests, server, wire>>

Answer(kind, pts, seq) ==
  [kind |-> kind, rpc |-> TRUE, request |-> Head(requests),
   pts |-> pts, seq |-> seq]

Reply(answer) ==
  /\ wire' = Append(wire, answer)
  /\ requests' = Tail(requests)

AnswerGetState ==
  /\ requests # <<>>
  /\ Head(requests).kind = "state"
  /\ Reply(Answer("state", server.pts, server.seq))
  /\ UNCHANGED <<client, server, unsent, budget>>

\* An empty difference is the answer when no position was passed since.
AnswerGetDifference(pts) ==
  /\ requests # <<>>
  /\ Head(requests).kind = "difference"
  /\ pts \in Head(requests).pts .. server.pts
  /\ IF pts = server.pts
       THEN Reply(Answer(IF pts = Head(requests).pts
                           THEN "empty" ELSE "difference", pts, server.seq))
       ELSE /\ pts > Head(requests).pts
            /\ Reply(Answer("slice", pts, server.seq))
  /\ UNCHANGED <<client, server, unsent, budget>>

FailDifference ==
  /\ requests # <<>>
  /\ Head(requests).kind = "difference"
  /\ Spend("failures")
  /\ Reply(Answer("failed", 0, 0))
  /\ UNCHANGED <<client, server, unsent>>

\* differenceTooLong, or an error in answer to getState.
Refuse ==
  /\ requests # <<>>
  /\ Spend("refusals")
  /\ Reply(Answer("refused", 0, 0))
  /\ UNCHANGED <<client, server, unsent>>

\* The session is gone with what was on the wire.  Its pushes are lost, its
\* requests are made again, and the new session announces itself.
OnWire == {wire[i] : i \in 1 .. Len(wire)}

Answers == {"state", "empty", "slice", "difference", "failed", "refused"}

Answered == {i \in 1 .. Len(wire) : wire[i].kind \in Answers}

LoseSession ==
  LET nth(k) == CHOOSE i \in Answered :
                  Cardinality({j \in Answered : j <= i}) = k
  IN /\ Spend("losses")
     /\ wire' = <<[kind |-> "newSession", rpc |-> FALSE]>>
     /\ unsent' = {m \in unsent \cup OnWire :
                     m.rpc /\ m.kind \notin Answers}
     /\ requests' = [k \in 1 .. Cardinality(Answered) |->
                       wire[nth(k)].request] \o requests
     /\ UNCHANGED <<client, server>>

-----------------------------------------------------------------------------
(* The steps of the client.                                                *)

Handle(result) ==
  /\ client' = [result EXCEPT !.sending = <<>>]
  /\ requests' = requests \o result.sending

\* Which updates of one event are messages of a peer that is not loaded.
Strangers == {{}} \cup {{pts} : pts \in 1 .. server.pts}

Arrives(kinds) ==
  /\ wire # <<>>
  /\ Head(wire).kind \in kinds
  /\ wire' = Tail(wire)
  /\ UNCHANGED <<server, unsent, budget>>

ReceiveUpdates(strangers) ==
  /\ Arrives({"updates"})
  /\ Handle(IF Head(wire).rpc
              THEN ApplyContainer(client, Head(wire), strangers)
              ELSE PushReceived(client, Head(wire), strangers))

ReceiveAffected ==
  /\ Arrives({"affected"})
  /\ Handle(AffectedReceived(client, Head(wire).upd))

ReceiveTooLong ==
  /\ Arrives({"tooLong"})
  /\ Handle(TooLongReceived(client))

ReceiveNewSession ==
  /\ Arrives({"newSession"})
  /\ Handle(MtpNewSessionCreated(client))

ReceiveState(strangers) ==
  /\ Arrives({"state"})
  /\ Handle(StateDone(client, Head(wire), strangers))

ReceiveDifference(strangers) ==
  /\ Arrives({"empty", "slice", "difference", "refused"})
  /\ Handle(DifferenceDone(client, Head(wire), strangers))

ReceiveFailure ==
  /\ Arrives({"failed"})
  /\ Handle(DifferenceFail(client))

NetworkUnchanged == UNCHANGED <<server, unsent, wire, budget>>

ByPtsTimer ==
  /\ client.byPtsTimer
  /\ Handle(GetDifference(client))
  /\ NetworkUnchanged

BySeqTimer ==
  /\ client.bySeqTimer
  /\ Handle(GetDifference([client EXCEPT !.bySeqTimer = FALSE]))
  /\ NetworkUnchanged

FailDifferenceTimer ==
  /\ client.failTimer
  /\ Handle(GetDifferenceAfterFail(client))
  /\ NetworkUnchanged

\* The session was reset by the client, which then asks for a difference.
SessionReset ==
  /\ Spend("forced")
  /\ Handle(GetDifference(client))
  /\ UNCHANGED <<server, unsent, wire>>

-----------------------------------------------------------------------------
Serve ==
  \/ \E m \in unsent : Send(m)
  \/ AnswerGetState
  \/ \E pts \in 1 .. server.pts : AnswerGetDifference(pts)

Disturb ==
  \/ \E counts \in Containers, step \in SeqSteps, rpc \in BOOLEAN :
       Issue(counts, step, rpc)
  \/ \E counts \in Containers, n \in 0 .. 2 :
       counts = <<n>> /\ IssueAffected(n)
  \/ SendTooLong
  \/ \E m \in unsent : Drop(m)
  \/ FailDifference
  \/ Refuse
  \/ LoseSession
  \/ SessionReset

Receive ==
  \/ \E strangers \in Strangers : ReceiveUpdates(strangers)
  \/ ReceiveAffected
  \/ ReceiveTooLong
  \/ ReceiveNewSession
  \/ \E strangers \in Strangers : ReceiveState(strangers)
  \/ \E strangers \in Strangers : ReceiveDifference(strangers)
  \/ ReceiveFailure

Timers == ByPtsTimer \/ BySeqTimer \/ FailDifferenceTimer

Next == Serve \/ Disturb \/ Receive \/ Timers

Spec == Init /\ [][Next]_vars

\* The server sends and answers, the main thread takes what arrives, and a
\* timer that stays armed runs out.  Weak fairness, with the condition under
\* which each action is enabled spelled out: ENABLED would have TLC run
\* every handler once more in every state.
FairSpec ==
  /\ Spec
  /\ <>[](unsent # {} \/ requests # <<>>) => []<><<Serve>>_vars
  /\ <>[](wire # <<>>) => []<><<Receive>>_vars
  /\ <>[]client.byPtsTimer => []<><<ByPtsTimer>>_vars
  /\ <>[]client.bySeqTimer => []<><<BySeqTimer>>_vars
  /\ <>[]client.failTimer => []<><<FailDifferenceTimer>>_vars

-----------------------------------------------------------------------------
(* What the client promises.                                               *)

\* The fields have their types.
TypeOK ==
  /\ client.waiter \in Waiters(Nat)
  /\ client.seq \in Nat
  /\ \A m \in client.bySeq : m.kind = "updates" /\ m.start \in 1 .. m.seq
  /\ {client.bySeqTimer, client.byPtsTimer, client.failTimer} \subseteq BOOLEAN
  /\ client.sending = <<>>
  /\ client.seen \cup client.repeated \subseteq 1 .. server.pts
  /\ client.seenSeq \subseteq 1 .. server.seq
  /\ \A i \in 1 .. Len(requests) :
       requests[i] \in [kind : {"state", "difference"}, pts : Nat]
  /\ server \in [pts : Nat \ {0}, seq : Nat \ {0}]

\* The waiter adds up counts; it never looks at which updates they belong
\* to.  Still, every position up to the one the client claims (and would ask
\* a difference from) has been applied.
ClaimedPtsWasSeen == 1 .. client.waiter.good \subseteq client.seen

\* The same for the containers up to the current seq, which parked
\* containers and the answers of differences move.
ClaimedSeqWasSeen == 1 .. client.seq \subseteq client.seenSeq

\* Nothing that was applied is applied again by a handler outside of a
\* difference: not by an update that a difference has made stale, and not by
\* a parked container or a queued update that was overtaken.
NothingIsRepeated == client.repeated = {}

Outstanding == Len(requests) + Cardinality(Answered)

Refused == budget.refusals < MaxRefusals

\* A client that ignores pushes because it awaits a difference does await
\* one, exactly one: it is asked for, or the retry timer runs.  A refused
\* request is the exception: nothing is done about it.
DifferenceIsAwaited ==
  /\ Outstanding + (IF client.failTimer THEN 1 ELSE 0) <= 1
  /\ ~Refused =>
       (RequestingDifference(client) <=> Outstanding = 1 \/ client.failTimer)

\* Updates wait in the queue of the waiter only for a gap to close, and
\* none of them has been applied meanwhile.
QueueWaitsForGap ==
  client.waiter.queue # {} =>
    /\ HasGap(client.waiter)
    /\ ~RequestingDifference(client)
    /\ CoversAll(client.waiter.queue) \cap client.seen = {}

\* A gap in pts has a timer that will ask for the difference, and so has a gap
\* in seq that made the client park a container, however the loop over the
\* parked ones ends.
GapIsWatched ==
  ~RequestingDifference(client) =>
    /\ HasGap(client.waiter) => client.byPtsTimer
    /\ client.bySeq # {} => client.bySeqTimer

Feed == INSTANCE UpdateFeed WITH
  issued <- server.pts,
  learned <- client.seen,
  claimed <- client.waiter.good

\* The client is one of the abstract feed: it learns what was issued, claims a
\* position only when it has everything up to it, and never goes back.
ImplementsFeed == Feed!FeedSpec

\* Once the account is quiet, and unless a push was lost silently or a request
\* was refused, the client ends up with everything, and takes pushes again.
CaughtUp ==
  <>[](\/ budget.drops < MaxDrops
       \/ Refused
       \/ /\ 1 .. server.pts \subseteq client.seen
          /\ ~RequestingDifference(client))

\* A gap the client has noticed does not stay, even when no push follows.
GapIsHealed == HasGap(client.waiter) ~> ~HasGap(client.waiter) \/ Refused
-----------------------------------------------------------------------------
(* Why the client keeps its promises: an invariant that its steps preserve. *)
(*                                                                         *)
(* Most of it is said of a client c in the middle of a handler, with e for *)
(* what is around it: end and top are the pts and seq of the server, out   *)
(* says that a request is unanswered, deaf that one was refused, good and  *)
(* seen are what the client claimed and had applied when the handler began.*)
(* us are the updates that are still on their way to it.                   *)

\* No update has a count of zero.
CountsMove ==
  \A counts \in Containers : \A i \in 1 .. Len(counts) : counts[i] # 0

Bundles ==
  [kind : {"updates"}, rpc : BOOLEAN, list : Seq(Updates(Nat)),
   start : Nat, seq : Nat]

Reports == [kind : {"affected"}, rpc : {TRUE}, upd : Updates(Nat)]

Notices == [kind : {"tooLong", "newSession"}, rpc : {FALSE}]

Questions == [kind : {"state", "difference"}, pts : Nat]

Replies ==
  [kind : Answers, rpc : {TRUE}, request : Questions, pts : Nat, seq : Nat]

UpdatesOf(m) ==
  CASE m.kind = "updates"  -> {m.list[i] : i \in 1 .. Len(m.list)}
    [] m.kind = "affected" -> {m.upd}
    [] OTHER               -> {}

Disjoint(u, v) == Covers(u) \cap Covers(v) = {}

Apart(us, vs) == \A u \in us, v \in vs : Disjoint(u, v)

\* A container that has no number, or has one of its own, of updates that
\* have nothing in common.
Numbered(m, top) ==
  m.kind = "updates" =>
    /\ m.seq <= top
    /\ m.start \in 1 .. m.seq \/ (m.start = 0 /\ m.seq = 0)
    /\ \A i, j \in 1 .. Len(m.list) : i # j => Disjoint(m.list[i], m.list[j])

\* The updates that c may still be given.
Ahead(c, us) == us \cup UNION {UpdatesOf(m) : m \in c.bySeq}

\* A position is on a boundary of u.
Around(pts, u) == u.pts <= pts \/ pts <= u.pts - u.count

ClientTyped(c) ==
  /\ c \in [waiter : Waiters(Nat), seq : Nat, bySeq : SUBSET Bundles,
            bySeqTimer : BOOLEAN, byPtsTimer : BOOLEAN, failTimer : BOOLEAN,
            sending : Seq(Questions), seen : SUBSET Nat, seenSeq : SUBSET Nat,
            repeated : SUBSET Nat]
  /\ IsFiniteSet(c.bySeq)

\* What is claimed has been applied, in pts and in seq.
Learned(c, e) ==
  /\ c.seen \subseteq 1 .. e.end
  /\ c.seenSeq \subseteq 1 .. e.top
  /\ 1 .. c.waiter.good \subseteq c.seen
  /\ 1 .. c.seq \subseteq c.seenSeq
  /\ c.repeated = {}
  /\ e.good <= c.waiter.good
  /\ e.seen \subseteq c.seen

Issued(u, e) ==
  /\ u \in Updates(Nat)
  /\ u.count < u.pts
  /\ u.pts <= e.end

\* What is still to come has been issued, and is not applied unless a
\* difference has passed it.
Coming(c, us, e) ==
  \A u \in Ahead(c, us) :
    /\ Issued(u, e)
    /\ CountsMove => u.count # 0
    /\ Covers(u) \cap c.seen \subseteq 1 .. c.waiter.good

\* The parked containers have nothing in common with each other and with us.
ParkedApart(c, us, e) ==
  \A m \in c.bySeq :
    /\ m.start \in 1 .. m.seq
    /\ Numbered(m, e.top)
    /\ Apart(UpdatesOf(m), us)
    /\ \A n \in c.bySeq : n # m => Apart(UpdatesOf(m), UpdatesOf(n))

\* The sums of the waiter are right, the position is on a boundary of all
\* that is to come, what is queued waits for a gap, and the gap is watched.
Counting(c, us, e) ==
  LET w == c.waiter
  IN IF w.requesting
       THEN w.queue = {}
     ELSE /\ Inited(w)
          /\ \E k \in SUBSET (c.seen \cup CoversAll(w.queue)) :
               Sound(w, c.seen, k)
          /\ \A u \in Ahead(c, us) :
               Around(w.good, u) /\ \A q \in w.queue : Disjoint(q, u)
          /\ \A q \in w.queue : Issued(q, e) /\ Covers(q) \cap c.seen = {}
          /\ w.queue # {} => HasGap(w)
          /\ w.queue # {} \/ (CountsMove /\ HasGap(w)) => c.byPtsTimer

\* One request at a time, and exactly while the client skips what is pushed.
Awaiting(c, e) ==
  /\ c.sending # <<>> =>
       /\ c.waiter.requesting /\ Inited(c.waiter) /\ ~e.out /\ ~c.failTimer
       /\ c.sending = <<[kind |-> "difference", pts |-> c.waiter.good]>>
  /\ c.failTimer => c.waiter.requesting /\ Inited(c.waiter) /\ ~e.out
  /\ e.out => c.waiter.requesting
  /\ c.waiter.requesting => e.out \/ c.failTimer \/ c.sending # <<>> \/ e.deaf

Fine(c, us, e) ==
  /\ ClientTyped(c)
  /\ Learned(c, e)
  /\ Coming(c, us, e)
  /\ ParkedApart(c, us, e)
  /\ Counting(c, us, e)
  /\ Awaiting(c, e)

\* The parked containers are ahead, and a timer watches them.  This does not
\* hold while they are drained.
Timed(c) ==
  /\ \A m \in c.bySeq : c.seq < m.start
  /\ c.bySeq = {} \/ c.bySeqTimer \/ c.waiter.requesting

\* The updates on their way from the server.
OnTheWay == UNION {UpdatesOf(m) : m \in unsent \cup OnWire}

Unanswered == requests # <<>> \/ Answered # {}

Now ==
  [end |-> server.pts, top |-> server.seq, out |-> Unanswered,
   deaf |-> Refused, good |-> client.waiter.good, seen |-> client.seen]

NetworkTyped ==
  /\ requests \in Seq(Questions)
  /\ server \in [pts : Nat \ {0}, seq : Nat \ {0}]
  /\ unsent \subseteq Bundles \cup Reports
  /\ wire \in Seq(Bundles \cup Reports \cup Notices \cup Replies)
  /\ budget \in [{"events", "losses", "drops", "failures", "refusals",
                  "forced"} -> Nat]
  /\ budget.refusals <= MaxRefusals

\* No update is in two places.
OnceOnly ==
  /\ \A m \in unsent \cup OnWire : Numbered(m, server.seq)
  /\ \A m, n \in unsent : m # n => Apart(UpdatesOf(m), UpdatesOf(n))
  /\ \A m \in unsent, i \in 1 .. Len(wire) :
       Apart(UpdatesOf(m), UpdatesOf(wire[i]))
  /\ \A i, j \in 1 .. Len(wire) :
       i # j => Apart(UpdatesOf(wire[i]), UpdatesOf(wire[j]))

OneQuestion ==
  /\ Len(requests) <= 1
  /\ \A i, j \in Answered : i = j
  /\ requests # <<>> => Answered = {}

\* A question asks from where the client stands, which is nowhere only
\* before the first answer.
Sincere(q) ==
  /\ q.pts = client.waiter.good
  /\ q.kind = "difference" => q.pts > 0

\* An answer goes on from there.  But for a slice it ends between updates,
\* and its seq is not below the one of any container that comes before it.
Truthful(i) ==
  LET a == wire[i]
  IN /\ Sincere(a.request)
     /\ a.kind \in {"empty", "slice", "difference", "failed"} =>
          a.request.kind = "difference"
     /\ a.kind = "refused" => Refused
     /\ a.kind \in {"state", "empty", "slice", "difference"} =>
          /\ a.pts \in 1 .. server.pts
          /\ client.waiter.good <= a.pts
          /\ a.seq \in 1 .. server.seq
          /\ \A m \in client.bySeq : m.seq <= a.seq
          /\ \A j \in 1 .. i : wire[j].kind = "updates" => wire[j].seq <= a.seq
     /\ a.kind \in {"state", "empty", "difference"} =>
          \A u \in Ahead(client, OnTheWay) : Around(a.pts, u)
     /\ a.kind = "empty" => a.pts = client.waiter.good

Answering ==
  /\ \A i \in 1 .. Len(requests) : Sincere(requests[i])
  /\ \A i \in Answered : Truthful(i)

IInv ==
  /\ NetworkTyped
  /\ OnceOnly
  /\ OneQuestion
  /\ Fine(client, OnTheWay, Now)
  /\ client.sending = <<>>
  /\ Timed(client)
  /\ Answering
=============================================================================
