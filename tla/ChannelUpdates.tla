--------------------------- MODULE ChannelUpdates ---------------------------
(***************************************************************************)
(* api/api_updates and data/data_channel: how a client keeps up with the   *)
(* update streams of channels.  Every channel has a PtsWaiter of its own.  *)
(* A gap, an updateChannelTooLong or a channel that is open in a window    *)
(* (which is polled, because a channel one is not a member of gets no      *)
(* pushes) makes the client ask for the difference of that channel; until  *)
(* the answer has come, updates of that channel are skipped.  While the    *)
(* difference of the account is awaited (CommonUpdates) every push is.     *)
(*                                                                         *)
(* The server and the network are external.  Whatever is on its way is in  *)
(* transit, and may arrive in any order; pushes may get lost.  An update   *)
(* is sent once: as a push, in the result of a request, or inside the      *)
(* difference of the account.                                              *)
(*                                                                         *)
(* Left out: time (an armed timer may fire at any moment), the request     *)
(* that revalidates the loaded part of a history after a too long          *)
(* difference, which does not touch the stream, and what updates do to the *)
(* history.                                                                *)
(***************************************************************************)
EXTENDS PtsWaiter

CONSTANTS
  Channels,
  Dialogs,  \* the channels whose dialogs may be loaded from the start
  Browsed,  \* the channels whose history or dialog the client loads
  Counts,   \* by how much an event moves the position of its channel
  MaxPts,   \* bound on the positions of the server
  MaxTransit \* bound on what the server has on its way when it sends more

ASSUME ChannelsAssumption ==
  /\ Dialogs \subseteq Channels
  /\ Browsed \subseteq Channels
  /\ Counts \subseteq Nat
  /\ {MaxPts, MaxTransit} \subseteq Nat

VARIABLES
  local,     \* per channel: its waiter and what Api::Updates keeps for it
  known,     \* channels that are loaded
  active,    \* channels that are open in a window
  left,      \* channels the user has left
  common,    \* is the difference of the account awaited?
  minTimer,  \* _byMinChannelTimer
  pts,       \* the positions of the server
  transit,   \* messages on their way, both ways
  base,      \* per channel: the position the client started from
  seen,      \* per channel: the positions applied so far
  counted    \* per channel: the positions counted in since good moved

clientVars == <<local, known, active, left, common, minTimer>>
historyVars == <<base, seen, counted>>
vars == <<clientVars, pts, transit, historyVars>>

-----------------------------------------------------------------------------
(* What is on its way.                                                     *)

Update(p, count) == [pts |-> p, count |-> count]

UpdateMsg(ch, u)      == [kind |-> "update", ch |-> ch, upd |-> u]
AffectedMsg(ch, u)    == [kind |-> "affected", ch |-> ch, upd |-> u]
PositionMsg(ch, p)    == [kind |-> "position", ch |-> ch, pts |-> p]
TooLongMsg(ch, p)     == [kind |-> "tooLong", ch |-> ch, pts |-> p]
RequestMsg(ch, p)     == [kind |-> "request", ch |-> ch, pts |-> p]
FailureMsg(ch)        == [kind |-> "failure", ch |-> ch]
DifferenceMsg(ch, from, to, final) ==
  [kind |-> "difference", ch |-> ch, from |-> from, to |-> to,
   final |-> final]
DifferenceTooLongMsg(ch, p, final) ==
  [kind |-> "differenceTooLong", ch |-> ch, to |-> p, final |-> final]

Of(kinds) == {m \in transit : m.kind \in kinds}

-----------------------------------------------------------------------------
(* The part of Api::Updates that belongs to one channel: the waiter, the   *)
(* entry of the channel in _whenGetDiffByPts and the one in                *)
(* _whenGetDiffAfterFail.                                                  *)

\* Mutant: a difference is asked for while another one is awaited.
CanAlwaysAsk(c) == Inited(c.waiter)

CanAsk(c) == Inited(c.waiter) /\ ~c.waiter.requesting

\* getChannelDifference(), up to the request it sends when CanAsk.  Its
\* caller removes the entry of the timer when that is what it comes from.
Asking(c, from) ==
  LET unhurried == [c EXCEPT !.timer = FALSE]
  IN IF CanAsk(c)
       THEN [unhurried EXCEPT
               !.waiter = SetRequesting(@, TRUE),
               !.retry = IF from = "afterFail" THEN @ ELSE FALSE]
       ELSE unhurried

RequestOf(ch, c) ==
  IF CanAsk(c) THEN {RequestMsg(ch, c.waiter.good)} ELSE {}

GetChannelDifference(ch, c, from, rest) ==
  /\ local' = [local EXCEPT ![ch] = Asking(c, from)]
  /\ transit' = rest \cup RequestOf(ch, c)

\* What a call of the waiter did to its owner.
Absorb(c, result) ==
  [c EXCEPT !.waiter = result.waiter,
            !.timer = TimerAfter(@, result.timer)]

SetWaitingForShortPoll(c, waiting) ==
  Absorb(c, IF waiting THEN StartShortPoll(c.waiter)
                       ELSE StopShortPoll(c.waiter))

-----------------------------------------------------------------------------
Init ==
  /\ known \in SUBSET Dialogs
  /\ local = [ch \in Channels |->
                [waiter |-> IF ch \in known THEN InitAt(FreshWaiter, 1)
                                            ELSE FreshWaiter,
                 timer |-> FALSE, retry |-> FALSE]]
  /\ active = {}
  /\ left = {}
  /\ common = FALSE
  /\ minTimer = FALSE
  /\ pts = [ch \in Channels |-> 1]
  /\ transit = {}
  /\ base = [ch \in Channels |-> 1]
  /\ seen = [ch \in Channels |-> {}]
  /\ counted = [ch \in Channels |-> {}]

-----------------------------------------------------------------------------
(* The server and the network.                                             *)

Room == Cardinality(transit) < MaxTransit

\* Something happens in a channel: an update, or the effect of a request of
\* this client, which is answered with the position it led to.
Issue(ch, count) ==
  LET u == Update(pts[ch] + count, count)
  IN /\ Room
     /\ pts[ch] + count <= MaxPts
     /\ pts' = [pts EXCEPT ![ch] = @ + count]
     /\ \/ transit' = transit \cup {UpdateMsg(ch, u)}
        \/ ch \in known /\ transit' = transit \cup {AffectedMsg(ch, u)}
     /\ UNCHANGED <<clientVars, historyVars>>

\* A dialog or a part of the history is sent, along with the position.
SendPosition(ch) ==
  /\ Room
  /\ ch \in Browsed \cap known
  /\ transit' = transit \cup {PositionMsg(ch, pts[ch])}
  /\ UNCHANGED <<clientVars, pts, historyVars>>

\* updateChannelTooLong, with the position or without.
SendTooLong(ch) ==
  /\ Room
  /\ \E p \in {0, pts[ch]} : transit' = transit \cup {TooLongMsg(ch, p)}
  /\ UNCHANGED <<clientVars, pts, historyVars>>

\* A difference that is not final stops somewhere before the position.
AnswerDifference(m) ==
  /\ m \in Of({"request"})
  /\ \/ transit' = (transit \ {m}) \cup
                     {DifferenceMsg(m.ch, m.pts, pts[m.ch], TRUE)}
     \/ \E to \in (m.pts + 1) .. (pts[m.ch] - 1) :
          transit' = (transit \ {m}) \cup
                       {DifferenceMsg(m.ch, m.pts, to, FALSE)}
  /\ UNCHANGED <<clientVars, pts, historyVars>>

AnswerTooLong(m) ==
  /\ m \in Of({"request"})
  /\ m.pts < pts[m.ch]
  /\ \E final \in BOOLEAN :
       transit' = (transit \ {m}) \cup
                    {DifferenceTooLongMsg(m.ch, pts[m.ch], final)}
  /\ UNCHANGED <<clientVars, pts, historyVars>>

Fail(m) ==
  /\ m \in Of({"request"})
  /\ transit' = (transit \ {m}) \cup {FailureMsg(m.ch)}
  /\ UNCHANGED <<clientVars, pts, historyVars>>

Lose(m) ==
  /\ m \in Of({"update", "tooLong"})
  /\ transit' = transit \ {m}
  /\ UNCHANGED <<clientVars, pts, historyVars>>

-----------------------------------------------------------------------------
(* Updates and positions arrive.                                           *)

\* The positions the waiter has counted in since good last moved.
CountedAfter(ch, u, after) ==
  IF after.good = local[ch].waiter.good
    THEN counted[ch] \cup Covers(u) ELSE {}

\* The update is checked by the waiter of its channel.  handled is what the
\* client has applied before that, result what the waiter made of it.
Hear(ch, u, handled, result) ==
  LET before == local[ch].waiter
  IN /\ local' = [local EXCEPT ![ch] = Absorb(@, result)]
     /\ seen' = [seen EXCEPT ![ch] = @ \cup handled \cup
                                       CoversAll(result.applied)]
     /\ base' = [base EXCEPT ![ch] = IF Inited(before) THEN @ ELSE u.pts]
     /\ counted' = [counted EXCEPT ![ch] =
          IF before.requesting \/ IsStale(before, u)
            THEN @ ELSE CountedAfter(ch, u, result.waiter)]

Take(m, kind) ==
  /\ m \in Of({kind})
  /\ transit' = transit \ {m}
  /\ UNCHANGED pts

\* feedUpdate() of an update of a loaded channel.
HearUpdate(m) ==
  /\ Take(m, "update")
  /\ m.ch \in known
  /\ IF local[m.ch].waiter.requesting
       THEN UNCHANGED <<local, historyVars>>
       ELSE Hear(m.ch, m.upd, {}, UpdateAndApply(local[m.ch].waiter, m.upd))
  /\ UNCHANGED <<known, active, left, common, minTimer>>

\* feedUpdate() of an update of a channel that is not loaded.  A new message
\* is left to the difference of the account, asked for after a while, which
\* brings the channel too; in that difference, and whatever else the update
\* is, it is applied without a check.
HearUnknown(m) ==
  /\ Take(m, "update")
  /\ m.ch \notin known
  /\ \/ /\ seen' = [seen EXCEPT ![m.ch] = @ \cup Covers(m.upd)]
        /\ UNCHANGED minTimer
     \/ /\ ~common
        /\ minTimer' = TRUE
        /\ UNCHANGED seen
  /\ UNCHANGED <<local, known, active, left, common, base, counted>>

\* mtpUpdateReceived() while the difference of the account is awaited.
IgnorePush(m) ==
  /\ common
  /\ Take(m, m.kind)
  /\ m.kind \in {"update", "tooLong"}
  /\ UNCHANGED <<clientVars, historyVars>>

\* applyAffectedMessages(), applyAffectedHistory().
HearAffected(m) ==
  /\ Take(m, "affected")
  /\ Hear(m.ch, m.upd, Covers(m.upd),
          UpdateAndApplyPosition(local[m.ch].waiter, m.upd))
  /\ UNCHANGED <<known, active, left, common, minTimer>>

\* ptsReceived().
HearPosition(m) ==
  /\ Take(m, "position")
  /\ Hear(m.ch, Update(m.pts, 0), {},
          UpdateAndApplyPosition(local[m.ch].waiter, Update(m.pts, 0)))
  /\ UNCHANGED <<known, active, left, common, minTimer>>

HearTooLong(m) ==
  /\ m \in Of({"tooLong"})
  /\ IF /\ m.ch \in known
        /\ m.pts = 0 \/ local[m.ch].waiter.good < m.pts
       THEN GetChannelDifference(m.ch, local[m.ch], "unknown",
                                 transit \ {m})
       ELSE transit' = transit \ {m} /\ UNCHANGED local
  /\ UNCHANGED <<known, active, left, common, minTimer, pts, historyVars>>

-----------------------------------------------------------------------------
(* The answer of a difference arrives.                                     *)

\* Mutant: the poll ends with the first answer.
AfterDifferenceForgets(m) ==
  LET c    == local[m.ch]
      done == [c EXCEPT !.waiter = SetRequesting(InitAt(@, m.to), FALSE)]
      rest == transit \ {m}
  IN IF ~m.final
       THEN GetChannelDifference(m.ch, done, "unknown", rest)
       ELSE /\ local' = [local EXCEPT ![m.ch] = done]
            /\ transit' = rest

\* The end of channelDifferenceDone(): the next part, or the next poll.
AfterDifference(m) ==
  LET c    == local[m.ch]
      done == [c EXCEPT !.waiter = SetRequesting(InitAt(@, m.to), FALSE)]
      rest == transit \ {m}
  IN IF ~m.final
       THEN GetChannelDifference(m.ch, done, "unknown", rest)
       ELSE /\ local' = [local EXCEPT ![m.ch] =
                           SetWaitingForShortPoll(done, m.ch \in active)]
            /\ transit' = rest

DifferenceDone(m) ==
  /\ m \in Of({"difference"})
  /\ AfterDifference(m)
  /\ seen' = [seen EXCEPT ![m.ch] = @ \cup ((m.from + 1) .. m.to)]
  /\ counted' = [counted EXCEPT ![m.ch] = {}]
  /\ UNCHANGED <<known, active, left, common, minTimer, pts, base>>

\* The client starts anew from the position of the dialog in the answer.
DifferenceTooLongDone(m) ==
  /\ m \in Of({"differenceTooLong"})
  /\ AfterDifference(m)
  /\ base' = [base EXCEPT ![m.ch] = m.to]
  /\ counted' = [counted EXCEPT ![m.ch] = {}]
  /\ UNCHANGED <<known, active, left, common, minTimer, pts, seen>>

DifferenceFail(m) ==
  /\ Take(m, "failure")
  /\ local' = [local EXCEPT ![m.ch].retry = TRUE]
  /\ UNCHANGED <<known, active, left, common, minTimer, historyVars>>

-----------------------------------------------------------------------------
(* Timers.                                                                 *)

\* getDifferenceByPts() finds the time of this channel has come.
ByPtsTimer(ch) ==
  /\ local[ch].timer
  /\ GetChannelDifference(ch, local[ch], "ptsGapOrShortPoll", transit)
  /\ UNCHANGED <<known, active, left, common, minTimer, pts, historyVars>>

\* getDifferenceAfterFail() finds the time of this channel has come.
AfterFailTimer(ch) ==
  LET released == [local[ch] EXCEPT !.waiter = SetRequesting(@, FALSE),
                                    !.retry = FALSE]
  IN /\ local[ch].retry
     /\ GetChannelDifference(ch, released, "afterFail", transit)
     /\ UNCHANGED <<known, active, left, common, minTimer, pts, historyVars>>

\* The difference of the account is asked for, by this timer or for another
\* reason, and answered; the answer may bring a channel.
MinChannelTimer ==
  /\ minTimer
  /\ minTimer' = FALSE
  /\ common' = TRUE
  /\ UNCHANGED <<local, known, active, left, pts, transit, historyVars>>

CommonDifference ==
  /\ common' = TRUE
  /\ UNCHANGED <<local, known, active, left, minTimer, pts, transit,
                 historyVars>>

CommonDifferenceDone ==
  /\ common
  /\ common' = FALSE
  /\ UNCHANGED <<local, known, active, left, minTimer, pts, transit,
                 historyVars>>

-----------------------------------------------------------------------------
(* The rest of the program.                                                *)

Load(ch) ==
  /\ ch \notin known
  /\ known' = known \cup {ch}
  /\ UNCHANGED <<local, active, left, common, minTimer, pts, transit,
                 historyVars>>

\* addActiveChat(): a window shows the channel, or none shows it any more. The
\* window that shows something else now stops the poll; the one that is closed
\* only erases its entry, and the poll that waits runs out once more.
Open(ch) ==
  /\ ch \in known
  /\ active' = active \cup {ch}
  /\ local' = [local EXCEPT ![ch] = SetWaitingForShortPoll(@, TRUE)]
  /\ UNCHANGED <<known, left, common, minTimer, pts, transit, historyVars>>

Close(ch) ==
  /\ ch \in active
  /\ active' = active \ {ch}
  /\ \/ local' = [local EXCEPT ![ch] = SetWaitingForShortPoll(@, FALSE)]
     \/ UNCHANGED local
  /\ UNCHANGED <<known, left, common, minTimer, pts, transit, historyVars>>

\* deleteHistory() of a channel leaves it.
Leave(ch) ==
  /\ ch \in known
  /\ left' = left \cup {ch}
  /\ local' = [local EXCEPT ![ch] = SetWaitingForShortPoll(@, FALSE)]
  /\ UNCHANGED <<known, active, common, minTimer, pts, transit, historyVars>>

-----------------------------------------------------------------------------
Arrive(m) ==
  \/ HearUpdate(m)
  \/ HearUnknown(m)
  \/ IgnorePush(m)
  \/ HearAffected(m)
  \/ HearPosition(m)
  \/ HearTooLong(m)
  \/ DifferenceDone(m)
  \/ DifferenceTooLongDone(m)
  \/ DifferenceFail(m)

Serve(m) ==
  \/ AnswerDifference(m)
  \/ AnswerTooLong(m)
  \/ Fail(m)
  \/ Lose(m)

Local(ch) ==
  \/ \E count \in Counts : Issue(ch, count)
  \/ SendPosition(ch)
  \/ SendTooLong(ch)
  \/ ByPtsTimer(ch)
  \/ AfterFailTimer(ch)
  \/ Load(ch)
  \/ Open(ch)
  \/ Close(ch)
  \/ Leave(ch)

Next ==
  \/ \E m \in transit : Arrive(m) \/ Serve(m)
  \/ \E ch \in Channels : Local(ch)
  \/ MinChannelTimer
  \/ CommonDifference
  \/ CommonDifferenceDone

Spec == Init /\ [][Next]_vars

\* A request is answered in the end, an answer arrives, a timer that stays
\* armed runs out, and the difference of the account comes to an end.
FairSpec ==
  /\ Spec
  /\ WF_vars(CommonDifferenceDone)
  /\ \A ch \in Channels :
       /\ SF_vars(\E m \in transit : m.ch = ch /\ AnswerDifference(m))
       /\ WF_vars(\E m \in transit : m.ch = ch /\
                    (DifferenceDone(m) \/ DifferenceTooLongDone(m)
                       \/ DifferenceFail(m)))
       /\ WF_vars(ByPtsTimer(ch))
       /\ WF_vars(AfterFailTimer(ch))

-----------------------------------------------------------------------------
(* What the client promises.                                               *)

Updating == Of({"update", "affected"})
Awaited(ch) ==
  {m \in Of({"request", "difference", "differenceTooLong", "failure"}) :
     m.ch = ch}

\* The fields have their types.
LocalStates == [waiter : Waiters(Nat), timer : BOOLEAN, retry : BOOLEAN]

Messages ==
  [kind : {"update", "affected"}, ch : Channels, upd : Updates(Nat)]
    \cup [kind : {"position", "tooLong", "request"}, ch : Channels, pts : Nat]
    \cup [kind : {"failure"}, ch : Channels]
    \cup [kind : {"difference"}, ch : Channels, from : Nat, to : Nat,
          final : BOOLEAN]
    \cup [kind : {"differenceTooLong"}, ch : Channels, to : Nat,
          final : BOOLEAN]

TypeOK ==
  /\ local \in [Channels -> LocalStates]
  /\ known \subseteq Channels
  /\ active \subseteq Channels
  /\ left \subseteq Channels
  /\ common \in BOOLEAN
  /\ minTimer \in BOOLEAN
  /\ pts \in [Channels -> Nat \ {0}]
  /\ transit \subseteq Messages
  /\ base \in [Channels -> Nat \ {0}]
  /\ seen \in [Channels -> SUBSET Int]
  /\ counted \in [Channels -> SUBSET Int]

\* A waiter only ever adds up counts.  Still, whatever was lost, skipped,
\* overtaken or cut short, every position from the one the client started
\* at up to the one it claims, from which it would ask for a difference,
\* has been applied.
ClaimedPtsWasSeen ==
  \A ch \in Channels :
    (base[ch] + 1) .. local[ch].waiter.good \subseteq seen[ch]

\* While a channel skips its updates a difference of that channel is
\* awaited: it is asked for, answered, or going to be asked for again; and
\* there is never a second one.
DifferenceIsAwaited ==
  \A ch \in Channels :
    /\ local[ch].waiter.requesting <=> Awaited(ch) # {} \/ local[ch].retry
    /\ \A m, n \in Awaited(ch) : m = n
    /\ local[ch].retry => Awaited(ch) = {}

\* A gap in a channel has a timer that will ask for the difference.
GapIsWatched ==
  \A ch \in Channels :
    LET w == local[ch].waiter
    IN HasGap(w) /\ ~w.requesting => local[ch].timer

\* A channel that is open, and was not left, is going to be polled.
ActiveIsPolled ==
  \A ch \in active \ left :
    CanAsk(local[ch]) => local[ch].timer

\* What a waiter keeps for later waits for a gap to close, and has not been
\* applied by the way.
QueueWaitsForGap ==
  \A ch \in Channels :
    LET w == local[ch].waiter
    IN w.queue # {} =>
         /\ HasGap(w)
         /\ w.waitingForSkipped
         /\ CoversAll(w.queue) \cap seen[ch] = {}

\* A client shows nothing older than what the server has said in answer to
\* it: the position of a channel never goes back.
NeverGoesBack ==
  [][\A ch \in Channels :
       local'[ch].waiter.good >= local[ch].waiter.good]_vars

\* An open channel gets to see everything in it, pushes or no pushes, if its
\* dialog was there from the start (ActiveIsPolled fails for the others).
ActiveCatchesUp ==
  \A ch \in Channels :
    ch \in known =>
      []<>(\/ ch \notin active \/ ch \in left
           \/ (base[ch] + 1) .. pts[ch] \subseteq seen[ch])

-----------------------------------------------------------------------------
(* Why ClaimedPtsWasSeen holds: the inductive invariant of the proof.      *)

\* No update that is still on its way has positions on both sides of p.
Intact(ch, p) ==
  \A m \in Updating :
    m.ch = ch => m.upd.pts <= p \/ p <= m.upd.pts - m.upd.count

\* Positions that the server sends are ones it has been at between two
\* events, and no position is on its way twice.
UpdatesInv ==
  \A m \in Updating :
    /\ m.upd.count < m.upd.pts
    /\ m.upd.pts <= pts[m.ch]
    /\ Intact(m.ch, m.upd.pts)
    /\ \A n \in Updating :
         m.ch = n.ch /\ m # n => Covers(m.upd) \cap Covers(n.upd) = {}

PositionsInv ==
  \A m \in Of({"position"}) :
    m.pts \in 1 .. pts[m.ch] /\ Intact(m.ch, m.pts)

AnswersInv ==
  \A m \in Of({"difference", "differenceTooLong"}) :
    m.to \in 1 .. pts[m.ch] /\ (m.final => Intact(m.ch, m.to))

\* A difference is awaited from the position the client claims.
AwaitedInv ==
  /\ \A m \in Of({"request"}) : m.pts = local[m.ch].waiter.good
  /\ \A m \in Of({"difference"}) :
       m.from = local[m.ch].waiter.good /\ m.from <= m.to
  /\ \A m \in Of({"differenceTooLong"}) : local[m.ch].waiter.good <= m.to
  /\ \A ch \in Channels :
       local[ch].waiter.requesting => local[ch].waiter.queue = {}

\* What the sums of a waiter mean while it is in use.
InUse(ch) ==
  LET w == local[ch].waiter
  IN /\ Sound(w, seen[ch], counted[ch])
     /\ w.last <= pts[ch]
     /\ Intact(ch, w.good)
     /\ Intact(ch, w.last)
     /\ \A m \in Updating :
          m.ch = ch => Covers(m.upd) \cap counted[ch] = {}

Counting(ch) ==
  LET w == local[ch].waiter
  IN IF Inited(w)
       THEN w.good <= pts[ch] /\ (w.requesting \/ InUse(ch))
       ELSE ~w.requesting /\ counted[ch] = {}

CountingInv == \A ch \in Channels : Counting(ch)

IInv ==
  /\ TypeOK
  /\ DifferenceIsAwaited
  /\ UpdatesInv
  /\ PositionsInv
  /\ AnswersInv
  /\ AwaitedInv
  /\ CountingInv
  /\ ClaimedPtsWasSeen
=============================================================================
