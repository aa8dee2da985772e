----------------------- MODULE ChannelUpdates_proofs ------------------------
(***************************************************************************)
(* ClaimedPtsWasSeen, DifferenceIsAwaited and NeverGoesBack hold of        *)
(* ChannelUpdates, for any number of channels, any counts and any bounds.  *)
(***************************************************************************)
EXTENDS ChannelUpdates, PtsWaiter_proofs

-----------------------------------------------------------------------------
(* Messages.                                                               *)

LEMMA MessageFields ==
  ASSUME NEW m \in Messages
  PROVE  /\ m.ch \in Channels
         /\ m.kind \in {"update", "affected"} => m.upd \in Updates(Nat)
         /\ m.kind \in {"position", "tooLong", "request"} => m.pts \in Nat
         /\ m.kind = "difference" => m.from \in Nat
         /\ m.kind \in {"difference", "differenceTooLong"} =>
              m.to \in Nat /\ m.final \in BOOLEAN
BY DEF Messages

(* What can be said of a message that is added to what is on its way: it   *)
(* is of the right type, and it is no update.                              *)
LEMMA MessageMakers ==
  ASSUME NEW ch \in Channels, NEW p \in Nat, NEW q \in Nat,
         NEW final \in BOOLEAN
  PROVE  /\ PositionMsg(ch, p) \in Messages
         /\ TooLongMsg(ch, p) \in Messages
         /\ RequestMsg(ch, p) \in Messages
         /\ FailureMsg(ch) \in Messages
         /\ DifferenceMsg(ch, p, q, final) \in Messages
         /\ DifferenceTooLongMsg(ch, p, final) \in Messages
BY DEF Messages, PositionMsg, TooLongMsg, RequestMsg, FailureMsg,
       DifferenceMsg, DifferenceTooLongMsg

-----------------------------------------------------------------------------
(* The part of one channel.                                                *)

LEMMA AskingFields ==
  ASSUME NEW c \in LocalStates, NEW from
  PROVE  /\ Asking(c, from) \in LocalStates
         /\ Asking(c, from).waiter.good = c.waiter.good
         /\ CanAsk(c) =>
              /\ Asking(c, from).waiter.requesting
              /\ Asking(c, from).waiter.queue = {}
              /\ from # "afterFail" => ~Asking(c, from).retry
              /\ from = "afterFail" => Asking(c, from).retry = c.retry
         /\ ~CanAsk(c) =>
              /\ Asking(c, from).waiter = c.waiter
              /\ Asking(c, from).retry = c.retry
BY DEF Asking, CanAsk, SetRequesting, ClearSkipped, LocalStates, Waiters

LEMMA TimerAfterType ==
  ASSUME NEW armed \in BOOLEAN, NEW command
  PROVE  TimerAfter(armed, command) \in BOOLEAN
BY DEF TimerAfter

LEMMA AbsorbFields ==
  ASSUME NEW c \in LocalStates, NEW result, result.waiter \in Waiters(Nat)
  PROVE  /\ Absorb(c, result) \in LocalStates
         /\ Absorb(c, result).waiter = result.waiter
         /\ Absorb(c, result).retry = c.retry
BY TimerAfterType DEF Absorb, LocalStates

LEMMA PollFields ==
  ASSUME NEW c \in LocalStates, NEW waiting
  PROVE  /\ SetWaitingForShortPoll(c, waiting) \in LocalStates
         /\ SameSums(c.waiter, SetWaitingForShortPoll(c, waiting).waiter)
         /\ SetWaitingForShortPoll(c, waiting).waiter.waitingForSkipped =
              c.waiter.waitingForSkipped
         /\ SetWaitingForShortPoll(c, waiting).retry = c.retry
<1> DEFINE result == IF waiting THEN StartShortPoll(c.waiter)
                               ELSE StopShortPoll(c.waiter)
<1>1. /\ result.waiter \in Waiters(Nat)
      /\ SameSums(c.waiter, result.waiter)
      /\ result.waiter.waitingForSkipped = c.waiter.waitingForSkipped
  <2>1. c.waiter \in Waiters(Nat)
    BY DEF LocalStates
  <2>2. QED
    BY <2>1, ShortPollFields DEF SameSums
<1>2. SetWaitingForShortPoll(c, waiting) = Absorb(c, result)
  BY DEF SetWaitingForShortPoll
<1> HIDE DEF result
<1>3. QED
  BY <1>1, <1>2, AbsorbFields

-----------------------------------------------------------------------------
(* Steps that leave a part of the invariant alone.                         *)

(* A message that may be added to what is on its way: it is no update, and *)
(* a position in it is one that the channel has been at.                   *)
Speaks(n) ==
  /\ n \in Messages
  /\ n.kind \notin {"update", "affected"}
  /\ n.kind = "position" => n.pts \in 1 .. pts[n.ch] /\ Intact(n.ch, n.pts)
  /\ n.kind \in {"difference", "differenceTooLong"} =>
       n.to \in 1 .. pts[n.ch] /\ (n.final => Intact(n.ch, n.to))

\* At most messages of that kind are added to what is on its way.
Adds(more) ==
  /\ \A n \in more : Speaks(n)
  /\ transit' \subseteq transit \cup more

LEMMA TransitSpeaks ==
  ASSUME NEW more, Adds(more), pts' = pts,
         UpdatesInv, PositionsInv, AnswersInv
  PROVE  UpdatesInv' /\ PositionsInv' /\ AnswersInv'
<1>1. Updating' \subseteq Updating
  BY DEF Adds, Speaks, Updating, Of
<1>2. \A ch, p : Intact(ch, p) => Intact(ch, p)'
  BY <1>1 DEF Intact
<1>3. UpdatesInv'
  BY <1>1, <1>2 DEF UpdatesInv
<1>4. PositionsInv'
  BY <1>2 DEF PositionsInv, Of, Speaks, Adds
<1>5. AnswersInv'
  BY <1>2 DEF AnswersInv, Of, Speaks, Adds
<1>6. QED
  BY <1>3, <1>4, <1>5

(* A channel whose waiter keeps its sums keeps what they mean.             *)
LEMMA CountingKept ==
  ASSUME NEW ch \in Channels, Counting(ch),
         Updating' \subseteq Updating, pts' = pts,
         SameSums(local[ch].waiter, local'[ch].waiter),
         local'[ch].waiter.waitingForSkipped =
           local[ch].waiter.waitingForSkipped,
         counted'[ch] = counted[ch], seen[ch] \subseteq seen'[ch]
  PROVE  Counting(ch)'
<1>1. \A p : Intact(ch, p) => Intact(ch, p)'
  BY DEF Intact
<1>2. Sound(local[ch].waiter, seen[ch], counted[ch]) =>
        Sound(local'[ch].waiter, seen'[ch], counted'[ch])
  BY DEF Sound, SameSums
<1>3. QED
  BY <1>1, <1>2 DEF Counting, InUse, Inited, SameSums

(* So does one that is in the middle of a difference.                      *)
LEMMA CountingAwaits ==
  ASSUME NEW ch \in Channels, Inited(local'[ch].waiter),
         local'[ch].waiter.requesting, local'[ch].waiter.good <= pts'[ch]
  PROVE  Counting(ch)'
BY DEF Counting

-----------------------------------------------------------------------------
(* What a waiter makes of an update or of a position.                      *)

Minds(w, u, handled, result) ==
  \/ /\ ~w.requesting
     /\ handled = {}
     /\ result = UpdateAndApply(w, u)
  \/ /\ handled = Covers(u)
     /\ result = UpdateAndApplyPosition(w, u)

LEMMA AppliedWasGiven ==
  ASSUME NEW w \in Waiters(Nat), NEW u \in Updates(Nat)
  PROVE  /\ UpdateAndApply(w, u).applied \subseteq w.queue \cup {u}
         /\ UpdateAndApplyPosition(w, u).applied \subseteq w.queue \cup {u}
<1>1. \A payload : payload \subseteq {u} =>
        Updated(w, u, payload).waiter.queue \subseteq w.queue \cup {u}
  BY DEF Updated, Check, InitAt, ClearSkipped, Waiters
<1>2. \A v : ApplySkipped(v).applied \subseteq v.queue
  BY DEF ApplySkipped
<1>3. UpdateAndApply(w, u).applied \subseteq w.queue \cup {u}
  <2> DEFINE v == Updated(w, u, {u}).waiter
  <2>1. v.queue \subseteq w.queue \cup {u}
    BY <1>1
  <2>2. [v EXCEPT !.queue = @ \cup {u}].queue \subseteq w.queue \cup {u}
    BY <2>1
  <2>3. QED
    BY <1>2, <2>2 DEF UpdateAndApply
<1>4. UpdateAndApplyPosition(w, u).applied \subseteq w.queue \cup {u}
  BY <1>1, <1>2 DEF UpdateAndApplyPosition
<1>5. QED
  BY <1>3, <1>4

LEMMA CoversAreIntegers ==
  ASSUME NEW us \in SUBSET Updates(Nat)
  PROVE  CoversAll(us) \in SUBSET Int
BY CoversCount DEF CoversAll

LEMMA MindsOutcomes ==
  ASSUME NEW w \in Waiters(Nat), NEW u \in Updates(Nat),
         NEW s, NEW k, NEW handled, NEW result, Minds(w, u, handled, result),
         u.pts > 0
  PROVE  /\ w.requesting /\ w.queue = {} =>
              SameSums(w, result.waiter) /\ result.applied = {}
         /\ ~w.requesting /\ IsStale(w, u) =>
              result.waiter = w /\ result.applied = {}
         /\ ~w.requesting /\ Inited(w) /\ Sound(w, s, k) /\ Fits(w, u, k) =>
              Advances(w, u, result.waiter,
                       (s \cup handled) \cup CoversAll(result.applied), k)
         /\ ~w.requesting /\ ~Inited(w) => StartsAt(result.waiter, u.pts)
         /\ CoversAll(result.applied) \in SUBSET Int
         /\ handled \in SUBSET Int
<1>1. CASE /\ ~w.requesting
           /\ handled = {}
           /\ result = UpdateAndApply(w, u)
  <2>1. CoversAll(result.applied) \in SUBSET Int
    BY <1>1, AppliedWasGiven, CoversAreIntegers DEF Waiters
  <2>2. (s \cup handled) = s
    BY <1>1
  <2>3. QED
    BY <1>1, <2>1, <2>2, StaleIsIgnored, UpdateAndApplyAdvances,
       FirstPosition
<1>2. CASE /\ handled = Covers(u)
           /\ result = UpdateAndApplyPosition(w, u)
  <2>1. CoversAll(result.applied) \in SUBSET Int
    BY <1>2, AppliedWasGiven, CoversAreIntegers DEF Waiters
  <2>2. Covers(u) \in SUBSET Int
    BY CoversCount
  <2>3. QED
    BY <1>2, <2>1, <2>2, StaleIsIgnored, UpdateAndApplyPositionAdvances,
       FirstPosition, RequestingIgnores
<1>3. QED
  BY <1>1, <1>2 DEF Minds

-----------------------------------------------------------------------------
(* An update or a position arrives.                                        *)

(* u is what the message m says of the channel ch.                         *)
IsNews(m, ch, u) ==
  /\ m \in Of({"update", "affected", "position"})
  /\ u \in Updates(Nat)
  /\ u.count < u.pts
  /\ u.pts <= pts[ch]
  /\ Intact(ch, u.pts)
  /\ \A n \in Updating :
       n.ch = ch /\ n # m => Covers(n.upd) \cap Covers(u) = {}
  /\ ~local[ch].waiter.requesting /\ Inited(local[ch].waiter) =>
       /\ \/ u.count = 0
          \/ u.pts <= local[ch].waiter.good
          \/ local[ch].waiter.good <= u.pts - u.count
       /\ Covers(u) \cap counted[ch] = {}

LEMMA UpdateIsNews ==
  ASSUME TypeOK, UpdatesInv, CountingInv, NEW m \in Updating
  PROVE  m.ch \in Channels /\ IsNews(m, m.ch, m.upd)
<1>1. m.ch \in Channels /\ m.upd \in Updates(Nat)
  BY MessageFields DEF TypeOK, Updating, Of
<1>2. m \in Of({"update", "affected", "position"})
  BY DEF Updating, Of
<1>3. /\ m.upd.count < m.upd.pts
      /\ m.upd.pts <= pts[m.ch]
      /\ Intact(m.ch, m.upd.pts)
      /\ \A n \in Updating :
           n.ch = m.ch /\ n # m => Covers(n.upd) \cap Covers(m.upd) = {}
  BY DEF UpdatesInv
<1>4. ASSUME ~local[m.ch].waiter.requesting, Inited(local[m.ch].waiter)
      PROVE  /\ \/ m.upd.pts <= local[m.ch].waiter.good
                \/ local[m.ch].waiter.good <= m.upd.pts - m.upd.count
             /\ Covers(m.upd) \cap counted[m.ch] = {}
  <2>1. InUse(m.ch)
    BY <1>1, <1>4 DEF CountingInv, Counting
  <2>2. QED
    BY <2>1 DEF InUse, Intact
<1>5. QED
  BY <1>1, <1>2, <1>3, <1>4 DEF IsNews

LEMMA PositionIsNews ==
  ASSUME TypeOK, PositionsInv, NEW m \in Of({"position"})
  PROVE  m.ch \in Channels /\ IsNews(m, m.ch, Update(m.pts, 0))
<1>1. m.ch \in Channels /\ m.pts \in Nat /\ pts[m.ch] \in Nat
  BY MessageFields DEF TypeOK, Of
<1>2. m \in Of({"update", "affected", "position"})
  BY DEF Of
<1>3. /\ Update(m.pts, 0) \in Updates(Nat)
      /\ Update(m.pts, 0).pts = m.pts
      /\ Update(m.pts, 0).count = 0
  BY <1>1 DEF Update, Updates
<1>4. Covers(Update(m.pts, 0)) = {}
  BY <1>1, <1>3 DEF Covers
<1>5. m.pts > 0 /\ m.pts <= pts[m.ch] /\ Intact(m.ch, m.pts)
  BY <1>1 DEF PositionsInv
<1>6. QED
  BY <1>1, <1>2, <1>3, <1>4, <1>5 DEF IsNews

(* No channel goes back in this step.                                      *)
GoesForward ==
  \A ch \in Channels : local'[ch].waiter.good >= local[ch].waiter.good

LEMMA HearKeeps ==
  ASSUME IInv, NEW m, NEW ch \in Channels, NEW u, NEW handled, NEW result,
         IsNews(m, ch, u), Minds(local[ch].waiter, u, handled, result),
         Hear(ch, u, handled, result),
         transit' = transit \ {m}, pts' = pts
  PROVE  /\ local' \in [Channels -> LocalStates]
         /\ base' \in [Channels -> Nat \ {0}]
         /\ seen' \in [Channels -> SUBSET Int]
         /\ counted' \in [Channels -> SUBSET Int]
         /\ DifferenceIsAwaited'
         /\ AwaitedInv'
         /\ CountingInv'
         /\ ClaimedPtsWasSeen'
         /\ GoesForward
<1> DEFINE w     == local[ch].waiter
           after == result.waiter
           s2    == (seen[ch] \cup handled) \cup CoversAll(result.applied)
<1>1. /\ w \in Waiters(Nat) /\ w.good \in Nat /\ w.last \in Nat
      /\ u \in Updates(Nat) /\ u.pts \in Nat /\ u.count \in Nat
      /\ u.count < u.pts /\ u.pts > 0
      /\ Covers(u) \in SUBSET Int
  BY CoversCount DEF IInv, TypeOK, LocalStates, Waiters, IsNews, Updates
<1>2. /\ w.requesting /\ w.queue = {} =>
           SameSums(w, after) /\ result.applied = {}
      /\ ~w.requesting /\ IsStale(w, u) => after = w /\ result.applied = {}
      /\ ~w.requesting /\ Inited(w) /\ Sound(w, seen[ch], counted[ch])
           /\ Fits(w, u, counted[ch]) =>
           Advances(w, u, after, s2, counted[ch])
      /\ ~w.requesting /\ ~Inited(w) => StartsAt(after, u.pts)
      /\ CoversAll(result.applied) \in SUBSET Int
      /\ handled \in SUBSET Int
  BY <1>1, MindsOutcomes
<1>3. Counting(ch)
  BY DEF IInv, CountingInv
<1>4. /\ ~w.requesting /\ Inited(w) => InUse(ch)
      /\ ~Inited(w) => ~w.requesting
      /\ w.requesting => w.queue = {}
  BY <1>3 DEF Counting, IInv, AwaitedInv
<1>5. ~w.requesting /\ Inited(w) /\ ~IsStale(w, u) =>
        /\ Sound(w, seen[ch], counted[ch])
        /\ Fits(w, u, counted[ch])
  BY <1>4 DEF InUse, IsNews, Fits
\* What happens to the waiter, in one of four cases.
<1>6. \/ w.requesting /\ SameSums(w, after)
      \/ ~w.requesting /\ IsStale(w, u) /\ after = w
      \/ /\ ~w.requesting /\ Inited(w) /\ ~IsStale(w, u)
         /\ Advances(w, u, after, s2, counted[ch])
      \/ ~w.requesting /\ ~Inited(w) /\ StartsAt(after, u.pts)
  BY <1>2, <1>4, <1>5
<1>7. after \in Waiters(Nat)
  BY <1>1, <1>6 DEF SameSums, Advances, StartsAt
<1>8. after.requesting = w.requesting
  BY <1>1, <1>6 DEF SameSums, Advances, StartsAt, Waiters
<1>9. /\ local' = [local EXCEPT ![ch] = Absorb(@, result)]
      /\ seen' = [seen EXCEPT ![ch] = s2]
      /\ base' = [base EXCEPT ![ch] = IF Inited(w) THEN @ ELSE u.pts]
      /\ counted' = [counted EXCEPT ![ch] =
           IF w.requesting \/ IsStale(w, u)
             THEN @ ELSE CountedAfter(ch, u, after)]
  BY DEF Hear
<1>10. /\ Absorb(local[ch], result) \in LocalStates
       /\ Absorb(local[ch], result).waiter = after
       /\ Absorb(local[ch], result).retry = local[ch].retry
  BY <1>7, AbsorbFields DEF IInv, TypeOK
<1>11. /\ local'[ch] = Absorb(local[ch], result)
       /\ seen'[ch] = s2
       /\ base'[ch] = IF Inited(w) THEN base[ch] ELSE u.pts
       /\ counted'[ch] = IF w.requesting \/ IsStale(w, u)
                           THEN counted[ch] ELSE CountedAfter(ch, u, after)
       /\ \A c \in Channels \ {ch} :
            /\ local'[c] = local[c]
            /\ seen'[c] = seen[c]
            /\ base'[c] = base[c]
            /\ counted'[c] = counted[c]
  BY <1>9 DEF IInv, TypeOK
<1>12. /\ local' \in [Channels -> LocalStates]
       /\ base' \in [Channels -> Nat \ {0}]
       /\ seen' \in [Channels -> SUBSET Int]
       /\ counted' \in [Channels -> SUBSET Int]
  <2>1. s2 \in SUBSET Int
    BY <1>2 DEF IInv, TypeOK
  <2>2. CountedAfter(ch, u, after) \in SUBSET Int
    BY <1>1 DEF CountedAfter, IInv, TypeOK
  <2>3. QED
    BY <1>1, <1>9, <1>10, <2>1, <2>2 DEF IInv, TypeOK
<1> HIDE DEF s2
<1>13. \A c : Awaited(c)' = Awaited(c)
  BY DEF Awaited, Of, IsNews
<1>14. DifferenceIsAwaited'
  BY <1>8, <1>10, <1>11, <1>13 DEF IInv, DifferenceIsAwaited
<1>15. AwaitedInv'
  <2>1. w.requesting =>
          after.good = w.good /\ (w.queue = {} => after.queue = {})
    BY <1>6 DEF SameSums
  <2>2. \A n \in Of({"request", "difference", "differenceTooLong"}) :
          n.ch \in Channels /\ local[n.ch].waiter.requesting
    BY MessageFields DEF IInv, TypeOK, DifferenceIsAwaited, Awaited, Of
  <2>3. \A n \in Of({"request", "difference", "differenceTooLong"}) :
          local'[n.ch].waiter.good = local[n.ch].waiter.good
    BY <1>10, <1>11, <2>1, <2>2
  <2>4. \A c \in Channels :
          local'[c].waiter.requesting => local'[c].waiter.queue = {}
    BY <1>4, <1>8, <1>10, <1>11, <2>1 DEF IInv, AwaitedInv
  <2>5. QED
    BY <2>3, <2>4 DEF IInv, AwaitedInv, Of
<1>16. /\ Updating' \subseteq Updating \ {m}
       /\ \A c, p : Intact(c, p) => Intact(c, p)'
  BY DEF Updating, Of, Intact
<1>17. Counting(ch)'
  <2>1. CASE w.requesting /\ SameSums(w, after)
    BY <1>3, <1>10, <1>11, <2>1 DEF Counting, SameSums, Inited
  <2>2. CASE ~w.requesting /\ IsStale(w, u) /\ after = w
    <3>1. seen[ch] \subseteq s2
      BY DEF s2
    <3>2. QED
      BY <1>1, <1>3, <1>7, <1>10, <1>11, <1>16, <2>2, <3>1, CountingKept
      DEF SameSums
  <2>3. CASE /\ ~w.requesting /\ Inited(w) /\ ~IsStale(w, u)
             /\ Advances(w, u, after, s2, counted[ch])
    <3>1. /\ after.last \in {w.last, u.pts}
          /\ after.good \in {w.good, w.last, u.pts}
          /\ w.good <= after.good
      BY <2>3 DEF Advances, LastAfter
    <3>2. /\ after.last <= pts[ch] /\ after.good <= pts[ch]
          /\ Intact(ch, after.last) /\ Intact(ch, after.good)
      BY <1>3, <1>4, <2>3, <3>1 DEF IsNews, InUse, Counting
    <3>3. Sound(after, s2, CountedAfter(ch, u, after))
      BY <2>3 DEF Advances, CountedAfter
    <3>4. \A n \in Updating \ {m} :
            n.ch = ch =>
              Covers(n.upd) \cap CountedAfter(ch, u, after) = {}
      BY <1>4, <2>3 DEF IsNews, InUse, CountedAfter
    <3>5. Inited(after)
      BY <1>1, <1>7, <2>3, <3>1 DEF Inited, Waiters
    <3>6. ~after.requesting
      BY <2>3 DEF Advances
    <3>7. /\ local'[ch].waiter = after
          /\ seen'[ch] = s2
          /\ counted'[ch] = CountedAfter(ch, u, after)
      BY <1>10, <1>11, <2>3
    <3>8. InUse(ch)'
      BY <1>16, <3>2, <3>3, <3>4, <3>7 DEF InUse
    <3>9. QED
      BY <3>2, <3>5, <3>7, <3>8 DEF Counting
  <2>4. CASE ~w.requesting /\ ~Inited(w) /\ StartsAt(after, u.pts)
    <3>1. w.good = 0 /\ counted[ch] = {}
      BY <1>1, <1>3, <2>4 DEF Counting, Inited
    <3>2. ~IsStale(w, u) /\ after.good = u.pts /\ after.last = u.pts
      BY <1>1, <2>4, <3>1 DEF IsStale, StartsAt
    <3>3. /\ local'[ch].waiter = after
          /\ seen'[ch] = s2
          /\ counted'[ch] = {}
      BY <1>1, <1>10, <1>11, <2>4, <3>1, <3>2 DEF CountedAfter
    <3>4. Sound(after, s2, {})
      BY <1>1, <2>4, StartIsSound
    <3>5. InUse(ch)'
      BY <1>16, <3>2, <3>3, <3>4 DEF InUse, IsNews
    <3>6. Inited(after) /\ after.good <= pts[ch]
      BY <1>1, <3>2 DEF Inited, IsNews
    <3>7. QED
      BY <3>3, <3>5, <3>6 DEF Counting
  <2>5. QED
    BY <1>6, <2>1, <2>2, <2>3, <2>4
<1>18. \A c \in Channels \ {ch} : Counting(c)'
  <2>1. ASSUME NEW c \in Channels \ {ch}
        PROVE  Counting(c)'
    <3>1. /\ SameSums(local[c].waiter, local'[c].waiter)
          /\ local'[c].waiter.waitingForSkipped =
               local[c].waiter.waitingForSkipped
      BY <1>11 DEF IInv, TypeOK, LocalStates, SameSums
    <3>2. QED
      BY <1>11, <1>16, <3>1, CountingKept DEF IInv, CountingInv
  <2>2. QED
    BY <2>1
<1>19. CountingInv'
  BY <1>17, <1>18 DEF CountingInv
<1>20. ClaimedPtsWasSeen'
  <2>1. (base[ch] + 1) .. w.good \subseteq seen[ch]
    BY DEF IInv, ClaimedPtsWasSeen
  <2>2. seen[ch] \subseteq s2
    BY DEF s2
  <2>3. base[ch] \in Nat /\ after.good \in Nat
    BY <1>7 DEF IInv, TypeOK, Waiters
  <2>4. (base'[ch] + 1) .. after.good \subseteq s2
    <3>1. CASE after.good = w.good /\ Inited(w)
      BY <1>11, <2>1, <2>2, <3>1
    <3>2. CASE /\ Inited(w)
               /\ Advances(w, u, after, s2, counted[ch])
      <4>1. (w.good + 1) .. after.good \subseteq s2 /\ w.good <= after.good
        BY <3>2 DEF Advances
      <4>2. QED
        BY <1>1, <1>11, <2>1, <2>2, <2>3, <3>2, <4>1
    <3>3. CASE ~Inited(w) /\ StartsAt(after, u.pts)
      BY <1>1, <1>11, <3>3 DEF StartsAt
    <3>4. QED
      BY <1>1, <1>4, <1>6, <3>1, <3>2, <3>3 DEF SameSums, IsStale, Inited
  <2>5. QED
    BY <1>10, <1>11, <2>4 DEF IInv, ClaimedPtsWasSeen
<1>21. GoesForward
  <2>1. w.good <= after.good
    BY <1>1, <1>6 DEF SameSums, Advances, StartsAt, Inited
  <2>2. \A c \in Channels \ {ch} : local[c].waiter.good \in Nat
    BY DEF IInv, TypeOK, LocalStates, Waiters
  <2>3. QED
    BY <1>10, <1>11, <2>1, <2>2 DEF GoesForward
<1>22. QED
  BY <1>12, <1>14, <1>15, <1>19, <1>20, <1>21

-----------------------------------------------------------------------------
(* Steps in which no channel counts anything.                              *)

(* What a step must keep of one channel for it to count as before.         *)
Undisturbed(ch) ==
  /\ SameSums(local[ch].waiter, local'[ch].waiter)
  /\ local'[ch].waiter.waitingForSkipped =
       local[ch].waiter.waitingForSkipped
  /\ local'[ch].retry = local[ch].retry
  /\ Awaited(ch)' = Awaited(ch)
  /\ base'[ch] = base[ch]
  /\ seen[ch] \subseteq seen'[ch]
  /\ counted'[ch] = counted[ch]

\* The parts of the invariant other than the types.
PartsInv ==
  /\ DifferenceIsAwaited
  /\ UpdatesInv
  /\ PositionsInv
  /\ AnswersInv
  /\ AwaitedInv
  /\ CountingInv
  /\ ClaimedPtsWasSeen

LEMMA SameLocal ==
  ASSUME TypeOK, NEW ch \in Channels, local'[ch] = local[ch]
  PROVE  /\ SameSums(local[ch].waiter, local'[ch].waiter)
         /\ local'[ch].waiter.waitingForSkipped =
              local[ch].waiter.waitingForSkipped
         /\ local'[ch].retry = local[ch].retry
BY DEF TypeOK, LocalStates, SameSums

LEMMA NewsOnly ==
  ASSUME NEW more, Adds(more)
  PROVE  Updating' \subseteq Updating
BY DEF Adds, Speaks, Updating, Of

LEMMA QuietStep ==
  ASSUME IInv, NEW more, Adds(more),
         pts' = pts, \A ch \in Channels : Undisturbed(ch),
         transit' \subseteq Messages
  PROVE  PartsInv'
<1>1. UpdatesInv' /\ PositionsInv' /\ AnswersInv'
  BY TransitSpeaks DEF IInv
<1>2. DifferenceIsAwaited'
  BY DEF IInv, DifferenceIsAwaited, Undisturbed, SameSums
<1>3. AwaitedInv'
  <2>1. ASSUME NEW m \in Of({"request", "difference", "differenceTooLong"})'
        PROVE  /\ m \in Of({"request", "difference", "differenceTooLong"})
               /\ local'[m.ch].waiter.good = local[m.ch].waiter.good
    <3>1. m.ch \in Channels
      BY MessageFields DEF Of
    <3>2. m \in Awaited(m.ch)'
      BY DEF Awaited, Of
    <3>3. m \in Awaited(m.ch)
      BY <3>1, <3>2 DEF Undisturbed
    <3>4. QED
      BY <3>1, <3>3 DEF Awaited, Of, Undisturbed, SameSums
  <2>2. QED
    BY <2>1 DEF IInv, AwaitedInv, Undisturbed, SameSums, Of
<1>4. CountingInv'
  BY NewsOnly, CountingKept DEF IInv, CountingInv, Undisturbed
<1>5. ClaimedPtsWasSeen'
  <2>1. ASSUME NEW ch \in Channels
        PROVE  (base'[ch] + 1) .. local'[ch].waiter.good \subseteq seen'[ch]
    <3>1. (base[ch] + 1) .. local[ch].waiter.good \subseteq seen[ch]
      BY DEF IInv, ClaimedPtsWasSeen
    <3>2. QED
      BY <3>1 DEF Undisturbed, SameSums
  <2>2. QED
    BY <2>1 DEF ClaimedPtsWasSeen
<1>6. QED
  BY <1>1, <1>2, <1>3, <1>4, <1>5 DEF PartsInv

(* The server answers the request m of a channel with n.                   *)
LEMMA ReplyStep ==
  ASSUME IInv, NEW m \in Of({"request"}), NEW n, Speaks(n),
         n.ch = m.ch,
         n.kind \in {"difference", "differenceTooLong", "failure"},
         n.kind = "difference" => n.from = m.pts /\ m.pts <= n.to,
         n.kind = "differenceTooLong" => m.pts <= n.to,
         transit' = (transit \ {m}) \cup {n},
         UNCHANGED <<local, pts, historyVars>>
  PROVE  PartsInv'
<1>0. Adds({n})
  BY DEF Adds
<1>1. UpdatesInv' /\ PositionsInv' /\ AnswersInv'
  BY <1>0, TransitSpeaks DEF IInv
<1>2. m.ch \in Channels /\ m.pts = local[m.ch].waiter.good
  BY MessageFields DEF Of, IInv, TypeOK, AwaitedInv
<1>3. Awaited(m.ch) = {m} /\ local[m.ch].waiter.requesting
  BY <1>2 DEF IInv, DifferenceIsAwaited, Awaited, Of
<1>4. Awaited(m.ch)' = {n}
  BY <1>3 DEF Awaited, Of
<1>5. \A ch \in Channels \ {m.ch} : Awaited(ch)' = Awaited(ch)
  BY DEF Awaited, Of
<1>6. DifferenceIsAwaited'
  BY <1>2, <1>3, <1>4, <1>5 DEF IInv, DifferenceIsAwaited
<1>7. AwaitedInv'
  BY <1>2 DEF IInv, AwaitedInv, Of
<1>8. CountingInv'
  <2>1. ASSUME NEW ch \in Channels
        PROVE  Counting(ch)'
    BY <1>0, NewsOnly, SameLocal, CountingKept
    DEF historyVars, IInv, CountingInv
  <2>2. QED
    BY <2>1 DEF CountingInv
<1>9. ClaimedPtsWasSeen'
  BY DEF historyVars, IInv, ClaimedPtsWasSeen
<1>10. QED
  BY <1>1, <1>6, <1>7, <1>8, <1>9 DEF PartsInv

(* A difference of the channel ch, about which nothing is on its way, is   *)
(* asked for.                                                              *)
LEMMA AskStep ==
  ASSUME IInv, NEW ch \in Channels, NEW c \in LocalStates, NEW from,
         NEW rest \in SUBSET transit,
         GetChannelDifference(ch, c, from, rest), CanAsk(c), ~c.retry,
         c.waiter.good <= pts[ch], pts' = pts,
         \A m \in rest : m \notin Awaited(ch),
         transit \ rest \subseteq Awaited(ch)
           \cup Of({"update", "tooLong"}),
         \A d \in Channels \ {ch} :
           /\ base'[d] = base[d]
           /\ seen'[d] = seen[d]
           /\ counted'[d] = counted[d],
         (base'[ch] + 1) .. c.waiter.good \subseteq seen'[ch]
  PROVE  /\ local' \in [Channels -> LocalStates]
         /\ transit' \subseteq Messages
         /\ PartsInv'
<1> DEFINE asking == Asking(c, from)
           n      == RequestMsg(ch, c.waiter.good)
<1>1. /\ asking \in LocalStates
      /\ asking.waiter.good = c.waiter.good
      /\ asking.waiter.requesting
      /\ asking.waiter.queue = {}
      /\ ~asking.retry
  BY AskingFields DEF LocalStates
<1>2. /\ local' = [local EXCEPT ![ch] = asking]
      /\ transit' = rest \cup {n}
  BY DEF GetChannelDifference, RequestOf
<1>3. /\ local' \in [Channels -> LocalStates]
      /\ local'[ch] = asking
      /\ \A d \in Channels \ {ch} : local'[d] = local[d]
  BY <1>1, <1>2 DEF IInv, TypeOK
<1>4. c.waiter.good \in Nat /\ Inited(c.waiter)
  BY DEF LocalStates, Waiters, CanAsk
<1>5. /\ n \in Messages /\ n.kind = "request" /\ n.ch = ch
      /\ n.pts = c.waiter.good
  BY <1>4, MessageMakers DEF RequestMsg
<1> HIDE DEF asking, n
<1>6. transit' \subseteq Messages /\ transit' \subseteq transit \cup {n}
  BY <1>2, <1>5 DEF IInv, TypeOK
<1>7. Adds({n})
  BY <1>5, <1>6 DEF Adds, Speaks
<1>8. UpdatesInv' /\ PositionsInv' /\ AnswersInv'
  BY <1>7, TransitSpeaks DEF IInv
<1>9. Awaited(ch)' = {n}
  BY <1>2, <1>5 DEF Awaited, Of
<1>10. \A d \in Channels \ {ch} : Awaited(d)' = Awaited(d)
  BY <1>2, <1>5 DEF Awaited, Of
<1>11. DifferenceIsAwaited'
  BY <1>1, <1>3, <1>9, <1>10 DEF IInv, DifferenceIsAwaited
<1>12. AwaitedInv'
  <2>1. ASSUME NEW m \in Of({"request", "difference", "differenceTooLong"})',
               m # n
        PROVE  /\ m \in Of({"request", "difference", "differenceTooLong"})
               /\ local'[m.ch].waiter.good = local[m.ch].waiter.good
    <3>1. m \in rest /\ m.ch \in Channels /\ m \in Of({"request",
            "difference", "differenceTooLong"})
      BY <1>2, <1>6, <2>1, MessageFields DEF Of
    <3>2. m.ch # ch
      BY <3>1 DEF Awaited, Of
    <3>3. QED
      BY <1>3, <3>1, <3>2
  <2>2. \A d \in Channels :
          local'[d].waiter.requesting => local'[d].waiter.queue = {}
    BY <1>1, <1>3 DEF IInv, AwaitedInv
  <2>3. \A m \in Of({"request"})' : m.pts = local'[m.ch].waiter.good
    BY <1>1, <1>3, <1>5, <2>1 DEF IInv, AwaitedInv, Of
  <2>4. \A m \in Of({"difference"})' :
          m.from = local'[m.ch].waiter.good /\ m.from <= m.to
    BY <1>5, <2>1 DEF IInv, AwaitedInv, Of
  <2>5. \A m \in Of({"differenceTooLong"})' :
          local'[m.ch].waiter.good <= m.to
    BY <1>5, <2>1 DEF IInv, AwaitedInv, Of
  <2>6. QED
    BY <2>2, <2>3, <2>4, <2>5 DEF AwaitedInv
<1>13. CountingInv'
  <2>1. Counting(ch)'
    BY <1>1, <1>3, <1>4, CountingAwaits DEF Inited
  <2>2. ASSUME NEW d \in Channels \ {ch}
        PROVE  Counting(d)'
    BY <1>3, <1>7, NewsOnly, SameLocal, CountingKept
    DEF IInv, CountingInv
  <2>3. QED
    BY <2>1, <2>2 DEF CountingInv
<1>14. ClaimedPtsWasSeen'
  BY <1>1, <1>3 DEF IInv, ClaimedPtsWasSeen
<1>15. QED
  BY <1>3, <1>6, <1>8, <1>11, <1>12, <1>13, <1>14 DEF PartsInv

-----------------------------------------------------------------------------
(* The actions of the server and the network.                              *)

(* A message that is no update and no answer changes nothing that is       *)
(* awaited, wherever it comes from or goes.                                *)
LEMMA AwaitedElsewhere ==
  ASSUME NEW n, n.kind \in {"update", "affected", "position", "tooLong"},
         \/ transit' = transit \ {n}
         \/ transit' = transit \cup {n}
  PROVE  \A ch : Awaited(ch)' = Awaited(ch)
BY DEF Awaited, Of

(* The same, when nothing else changes.                                    *)
LEMMA UnchangedStep ==
  ASSUME IInv, NEW more, Adds(more),
         transit' \subseteq Messages,
         \A ch : Awaited(ch)' = Awaited(ch),
         UNCHANGED <<local, pts, historyVars>>
  PROVE  PartsInv'
<1>1. \A ch \in Channels : Undisturbed(ch)
  BY SameLocal DEF IInv, Undisturbed, historyVars
<1>2. QED
  BY <1>1, QuietStep

LEMMA IssueKeeps ==
  ASSUME IInv, NEW ch \in Channels, NEW count \in Counts, Issue(ch, count)
  PROVE  IInv'
<1>0. PICK u : u = Update(pts[ch] + count, count)
  OBVIOUS
<1>1. /\ count \in Nat /\ pts[ch] \in Nat \ {0}
      /\ u \in Updates(Nat)
      /\ u.pts = pts[ch] + count /\ u.count = count
      /\ Covers(u) \subseteq (pts[ch] + 1) .. (pts[ch] + count)
  BY <1>0, ChannelsAssumption DEF IInv, TypeOK, Update, Updates, Covers
<1>2. /\ pts' = [pts EXCEPT ![ch] = @ + count]
      /\ UNCHANGED <<clientVars, historyVars>>
  BY DEF Issue
<1>3. /\ pts' \in [Channels -> Nat \ {0}]
      /\ pts'[ch] = pts[ch] + count
      /\ \A d \in Channels \ {ch} : pts'[d] = pts[d]
  BY <1>1, <1>2 DEF IInv, TypeOK
<1>4. PICK n : /\ transit' = transit \cup {n}
               /\ n \in Messages
               /\ n.kind \in {"update", "affected"}
               /\ n.ch = ch /\ n.upd = u
  <2>1. \/ transit' = transit \cup {UpdateMsg(ch, u)}
        \/ transit' = transit \cup {AffectedMsg(ch, u)}
    BY <1>0 DEF Issue
  <2>2. /\ UpdateMsg(ch, u) \in Messages
        /\ UpdateMsg(ch, u).kind = "update"
        /\ UpdateMsg(ch, u).ch = ch /\ UpdateMsg(ch, u).upd = u
    BY <1>1 DEF UpdateMsg, Messages
  <2>3. /\ AffectedMsg(ch, u) \in Messages
        /\ AffectedMsg(ch, u).kind = "affected"
        /\ AffectedMsg(ch, u).ch = ch /\ AffectedMsg(ch, u).upd = u
    BY <1>1 DEF AffectedMsg, Messages
  <2> HIDE DEF UpdateMsg, AffectedMsg
  <2>4. QED
    BY <2>1, <2>2, <2>3
<1>5. TypeOK'
  BY <1>2, <1>3, <1>4 DEF IInv, TypeOK, clientVars, historyVars
<1>6. Updating' = Updating \cup {n}
  BY <1>4 DEF Updating, Of
<1>7. \A m \in Updating :
        /\ m.ch \in Channels
        /\ m.upd.pts <= pts[m.ch]
        /\ m.upd.pts \in Nat /\ m.upd.count \in Nat
        /\ Covers(m.upd) \subseteq Int
  BY MessageFields, CoversCount
  DEF IInv, TypeOK, UpdatesInv, Updating, Of, Updates
<1>8. ASSUME NEW d \in Channels, NEW p \in Int, p <= pts[d], Intact(d, p)
      PROVE  Intact(d, p)'
  BY <1>1, <1>4, <1>6, <1>8 DEF Intact
<1>9. Intact(ch, u.pts)'
  BY <1>1, <1>4, <1>6, <1>7 DEF Intact
<1>10. \A m \in Updating : m.ch = ch => Covers(m.upd) \cap Covers(u) = {}
  BY <1>1, <1>7 DEF Covers
<1>11. UpdatesInv'
  <2>1. ASSUME NEW m \in Updating
        PROVE  /\ m.upd.count < m.upd.pts
               /\ m.upd.pts <= pts'[m.ch]
               /\ Intact(m.ch, m.upd.pts)'
               /\ \A k \in Updating' :
                    m.ch = k.ch /\ m # k =>
                      Covers(m.upd) \cap Covers(k.upd) = {}
    <3>1. /\ m.upd.count < m.upd.pts
          /\ Intact(m.ch, m.upd.pts)
          /\ \A k \in Updating :
               m.ch = k.ch /\ m # k =>
                 Covers(m.upd) \cap Covers(k.upd) = {}
      BY DEF IInv, UpdatesInv
    <3>2. Intact(m.ch, m.upd.pts)'
      BY <1>7, <1>8, <3>1
    <3>3. m.upd.pts <= pts'[m.ch]
      BY <1>1, <1>3, <1>7
    <3>4. QED
      BY <1>4, <1>6, <1>10, <3>1, <3>2, <3>3
  <2>2. /\ n.upd.count < n.upd.pts
        /\ n.upd.pts <= pts'[n.ch]
        /\ Intact(n.ch, n.upd.pts)'
        /\ \A k \in Updating' :
             n.ch = k.ch /\ n # k => Covers(n.upd) \cap Covers(k.upd) = {}
    BY <1>1, <1>3, <1>4, <1>6, <1>9, <1>10
  <2>3. QED
    BY <1>6, <2>1, <2>2 DEF UpdatesInv
<1>12. PositionsInv' /\ AnswersInv'
  <2>1. ASSUME NEW m \in Of({"position", "difference",
                             "differenceTooLong"})'
        PROVE  m \in Of({"position", "difference", "differenceTooLong"})
               /\ m.ch \in Channels /\ pts[m.ch] \in Nat
               /\ pts[m.ch] <= pts'[m.ch] /\ pts'[m.ch] \in Nat
    <3>1. m \in Of({"position", "difference", "differenceTooLong"})
      BY <1>4 DEF Of
    <3>2. m.ch \in Channels
      BY <3>1, MessageFields DEF IInv, TypeOK, Of
    <3>3. QED
      BY <1>1, <1>3, <3>1, <3>2 DEF IInv, TypeOK
  <2>2. PositionsInv'
    BY <1>8, <2>1 DEF IInv, PositionsInv, Of
  <2>3. AnswersInv'
    BY <1>8, <2>1 DEF IInv, AnswersInv, Of
  <2>4. QED
    BY <2>2, <2>3
<1>13. \A d : Awaited(d)' = Awaited(d)
  BY <1>4 DEF Awaited, Of
<1>14. DifferenceIsAwaited'
  BY <1>2, <1>13 DEF IInv, DifferenceIsAwaited, clientVars
<1>15. AwaitedInv'
  BY <1>2, <1>4 DEF IInv, AwaitedInv, clientVars, Of
<1>16. CountingInv'
  <2>1. ASSUME NEW d \in Channels
        PROVE  Counting(d)'
    <3>1. /\ Counting(d)
          /\ local[d].waiter.good \in Int /\ local[d].waiter.last \in Int
          /\ pts[d] \in Int /\ pts'[d] \in Int
          /\ pts[d] <= pts'[d]
      BY <1>1, <1>3 DEF IInv, CountingInv, TypeOK, LocalStates, Waiters
    <3>2. CASE Inited(local[d].waiter) /\ ~local[d].waiter.requesting
      <4>1. InUse(d) /\ local[d].waiter.good <= pts[d]
        BY <3>1, <3>2 DEF Counting
      <4>2. Intact(d, local[d].waiter.good)'
             /\ Intact(d, local[d].waiter.last)'
        BY <1>2, <1>8, <3>1, <4>1 DEF InUse, clientVars
      <4>3. counted[d] \subseteq
              (local[d].waiter.good + 1) .. local[d].waiter.last
        BY <4>1 DEF InUse, Sound
      <4>4. d = ch => Covers(u) \cap counted[d] = {}
        BY <1>1, <3>1, <4>1, <4>3 DEF InUse
      <4>5. InUse(d)'
        BY <1>2, <1>4, <1>6, <3>1, <4>1, <4>2, <4>4
        DEF InUse, clientVars, historyVars
      <4>6. QED
        BY <1>2, <3>1, <3>2, <4>1, <4>5 DEF Counting, clientVars
    <3>3. CASE Inited(local[d].waiter) /\ local[d].waiter.requesting
      BY <1>2, <3>1, <3>3 DEF Counting, clientVars
    <3>4. CASE ~Inited(local[d].waiter)
      BY <1>2, <3>1, <3>4 DEF Counting, clientVars, historyVars
    <3>5. QED
      BY <3>2, <3>3, <3>4
  <2>2. QED
    BY <2>1 DEF CountingInv
<1>17. ClaimedPtsWasSeen'
  BY <1>2 DEF IInv, ClaimedPtsWasSeen, clientVars, historyVars
<1>18. QED
  BY <1>5, <1>11, <1>12, <1>14, <1>15, <1>16, <1>17 DEF IInv

LEMMA PtsIsIntact ==
  ASSUME TypeOK, UpdatesInv, NEW ch \in Channels
  PROVE  pts[ch] \in 1 .. pts[ch] /\ pts[ch] \in Nat /\ Intact(ch, pts[ch])
BY DEF TypeOK, UpdatesInv, Intact

LEMMA PartsMakeInv ==
  ASSUME TypeOK', PartsInv'
  PROVE  IInv'
BY DEF PartsInv, IInv

LEMMA SendPositionKeeps ==
  ASSUME IInv, NEW ch \in Channels, SendPosition(ch)
  PROVE  IInv'
<1>0. PICK n : n = PositionMsg(ch, pts[ch])
  OBVIOUS
<1>1. /\ transit' = transit \cup {n}
      /\ UNCHANGED <<clientVars, pts, historyVars>>
  BY <1>0 DEF SendPosition
<1>2. n \in Messages /\ n.kind = "position" /\ n.ch = ch /\ n.pts = pts[ch]
  BY <1>0, PtsIsIntact, MessageMakers DEF IInv, PositionMsg
<1>3. Adds({n})
  BY <1>1, <1>2, PtsIsIntact DEF Adds, Speaks, IInv
<1>4. TypeOK'
  BY <1>1, <1>2 DEF IInv, TypeOK, clientVars, historyVars
<1>5. transit' \subseteq Messages
  BY <1>4 DEF TypeOK
<1>6. \A d : Awaited(d)' = Awaited(d)
  BY <1>1, <1>2 DEF Awaited, Of
<1>7. PartsInv'
  BY <1>1, <1>3, <1>5, <1>6, UnchangedStep DEF clientVars
<1>8. QED
  BY <1>4, <1>7, PartsMakeInv

LEMMA SendTooLongKeeps ==
  ASSUME IInv, NEW ch \in Channels, SendTooLong(ch)
  PROVE  IInv'
<1>1. PICK p \in {0, pts[ch]} : transit' = transit \cup {TooLongMsg(ch, p)}
  BY DEF SendTooLong
<1>0. PICK n : n = TooLongMsg(ch, p)
  OBVIOUS
<1>2. UNCHANGED <<clientVars, pts, historyVars>>
  BY DEF SendTooLong
<1>3. n \in Messages /\ n.kind = "tooLong"
  BY <1>0, PtsIsIntact, MessageMakers DEF IInv, TooLongMsg
<1>4. transit' = transit \cup {n}
  BY <1>0, <1>1
<1>5. Adds({n})
  BY <1>3, <1>4 DEF Adds, Speaks
<1>6. TypeOK'
  BY <1>2, <1>3, <1>4 DEF IInv, TypeOK, clientVars, historyVars
<1>7. transit' \subseteq Messages
  BY <1>6 DEF TypeOK
<1>8. \A d : Awaited(d)' = Awaited(d)
  BY <1>3, <1>4 DEF Awaited, Of
<1>9. PartsInv'
  BY <1>2, <1>5, <1>7, <1>8, UnchangedStep DEF clientVars
<1>10. QED
  BY <1>6, <1>9, PartsMakeInv

LEMMA AnswerDifferenceKeeps ==
  ASSUME IInv, NEW m \in transit, AnswerDifference(m)
  PROVE  IInv'
<1>1. /\ m \in Of({"request"})
      /\ UNCHANGED <<clientVars, pts, historyVars>>
  BY DEF AnswerDifference
<1>2. /\ m.ch \in Channels /\ m.pts \in Nat /\ m.pts <= pts[m.ch]
      /\ pts[m.ch] \in Nat \ {0}
  <2>1. m.ch \in Channels /\ m.pts = local[m.ch].waiter.good /\ m.pts \in Nat
    BY <1>1, MessageFields DEF IInv, TypeOK, AwaitedInv, Of
  <2>2. Counting(m.ch) /\ pts[m.ch] \in Nat \ {0}
    BY <2>1 DEF IInv, TypeOK, CountingInv
  <2>3. QED
    BY <2>1, <2>2 DEF Counting, Inited
<1>3. PICK to \in Nat, final \in BOOLEAN :
        /\ transit' = (transit \ {m}) \cup
                        {DifferenceMsg(m.ch, m.pts, to, final)}
        /\ m.pts <= to /\ to \in 1 .. pts[m.ch]
        /\ final => to = pts[m.ch]
  <2>1. CASE transit' = (transit \ {m}) \cup
                          {DifferenceMsg(m.ch, m.pts, pts[m.ch], TRUE)}
    <3>1. m.pts <= pts[m.ch] /\ pts[m.ch] \in 1 .. pts[m.ch]
      BY <1>2
    <3>2. WITNESS pts[m.ch] \in Nat, TRUE \in BOOLEAN
    <3>3. QED
      BY <2>1, <3>1
  <2>2. CASE \E to \in (m.pts + 1) .. (pts[m.ch] - 1) :
               transit' = (transit \ {m}) \cup
                            {DifferenceMsg(m.ch, m.pts, to, FALSE)}
    <3>1. PICK to \in (m.pts + 1) .. (pts[m.ch] - 1) :
            transit' = (transit \ {m}) \cup
                         {DifferenceMsg(m.ch, m.pts, to, FALSE)}
      BY <2>2
    <3>2. to \in Nat /\ m.pts <= to /\ to \in 1 .. pts[m.ch]
      BY <1>2
    <3>3. WITNESS to \in Nat, FALSE \in BOOLEAN
    <3>4. QED
      BY <3>1, <3>2
  <2>3. QED
    BY <2>1, <2>2 DEF AnswerDifference
<1>0. PICK n : n = DifferenceMsg(m.ch, m.pts, to, final)
  OBVIOUS
<1>4. /\ n \in Messages /\ n.kind = "difference" /\ n.ch = m.ch
      /\ n.from = m.pts /\ n.to = to /\ n.final = final
  BY <1>0, <1>2, MessageMakers DEF DifferenceMsg
<1>5. Speaks(n)
  BY <1>2, <1>3, <1>4, PtsIsIntact DEF Speaks, IInv
<1>6. transit' = (transit \ {m}) \cup {n}
  BY <1>0, <1>3
<1>7. PartsInv'
  BY <1>1, <1>3, <1>4, <1>5, <1>6, ReplyStep DEF clientVars
<1>8. TypeOK'
  BY <1>1, <1>4, <1>6 DEF IInv, TypeOK, clientVars, historyVars
<1>9. QED
  BY <1>7, <1>8, PartsMakeInv

LEMMA AnswerTooLongKeeps ==
  ASSUME IInv, NEW m \in transit, AnswerTooLong(m)
  PROVE  IInv'
<1>1. /\ m \in Of({"request"})
      /\ m.pts < pts[m.ch]
      /\ UNCHANGED <<clientVars, pts, historyVars>>
  BY DEF AnswerTooLong
<1>2. m.ch \in Channels /\ m.pts \in Nat /\ pts[m.ch] \in Nat
  BY <1>1, MessageFields DEF IInv, TypeOK, Of
<1>3. PICK final \in BOOLEAN :
        transit' = (transit \ {m}) \cup
                     {DifferenceTooLongMsg(m.ch, pts[m.ch], final)}
  BY DEF AnswerTooLong
<1>0. PICK n : n = DifferenceTooLongMsg(m.ch, pts[m.ch], final)
  OBVIOUS
<1>4. /\ n \in Messages /\ n.kind = "differenceTooLong" /\ n.ch = m.ch
      /\ n.to = pts[m.ch] /\ n.final = final
  BY <1>0, <1>2, MessageMakers DEF DifferenceTooLongMsg
<1>5. transit' = (transit \ {m}) \cup {n}
  BY <1>0, <1>3
<1>6. Speaks(n)
  BY <1>2, <1>4, PtsIsIntact DEF Speaks, IInv
<1>7. PartsInv'
  BY <1>1, <1>2, <1>4, <1>5, <1>6, ReplyStep DEF clientVars
<1>8. TypeOK'
  BY <1>1, <1>4, <1>5 DEF IInv, TypeOK, clientVars, historyVars
<1>9. QED
  BY <1>7, <1>8, PartsMakeInv

LEMMA FailKeeps ==
  ASSUME IInv, NEW m \in transit, Fail(m)
  PROVE  IInv'
<1>0. PICK n : n = FailureMsg(m.ch)
  OBVIOUS
<1>1. /\ m \in Of({"request"})
      /\ transit' = (transit \ {m}) \cup {n}
      /\ UNCHANGED <<clientVars, pts, historyVars>>
  BY <1>0 DEF Fail
<1>2. n \in Messages /\ n.kind = "failure" /\ n.ch = m.ch
  BY <1>0, <1>1, MessageFields, MessageMakers
  DEF IInv, TypeOK, FailureMsg, Of
<1>3. Speaks(n)
  BY <1>2 DEF Speaks
<1>4. PartsInv'
  BY <1>1, <1>2, <1>3, ReplyStep DEF clientVars
<1>5. TypeOK'
  BY <1>1, <1>2 DEF IInv, TypeOK, clientVars, historyVars
<1>6. QED
  BY <1>4, <1>5, PartsMakeInv

-----------------------------------------------------------------------------
(* The actions of the client.                                              *)

(* A push is dropped, and whatever else the step does, it leaves the       *)
(* channels alone.                                                         *)
LEMMA DropStep ==
  ASSUME IInv, NEW m, m.kind \in {"update", "tooLong"},
         transit' = transit \ {m}, UNCHANGED <<local, pts, historyVars>>
  PROVE  PartsInv'
<1>1. Adds({})
  BY DEF Adds
<1>2. \A ch : Awaited(ch)' = Awaited(ch)
  BY DEF Awaited, Of
<1>3. transit' \subseteq Messages
  BY DEF IInv, TypeOK
<1>4. QED
  BY <1>1, <1>2, <1>3, UnchangedStep

LEMMA LoseKeeps ==
  ASSUME IInv, NEW m \in transit, Lose(m) \/ IgnorePush(m)
  PROVE  IInv'
<1>1. /\ m.kind \in {"update", "tooLong"}
      /\ transit' = transit \ {m}
      /\ UNCHANGED <<clientVars, pts, historyVars>>
  BY DEF Lose, IgnorePush, Take, Of
<1>2. TypeOK'
  BY <1>1 DEF IInv, TypeOK, clientVars, historyVars
<1>3. PartsInv'
  BY <1>1, DropStep DEF clientVars
<1>4. QED
  BY <1>2, <1>3, PartsMakeInv

(* What HearKeeps says makes the invariant.                                *)
LEMMA HearMakesInv ==
  ASSUME IInv, NEW m, NEW ch \in Channels, NEW u, NEW handled, NEW result,
         IsNews(m, ch, u), Minds(local[ch].waiter, u, handled, result),
         Hear(ch, u, handled, result),
         transit' = transit \ {m}, pts' = pts,
         UNCHANGED <<known, active, left, common, minTimer>>
  PROVE  IInv'
<1>1. /\ local' \in [Channels -> LocalStates]
      /\ base' \in [Channels -> Nat \ {0}]
      /\ seen' \in [Channels -> SUBSET Int]
      /\ counted' \in [Channels -> SUBSET Int]
      /\ DifferenceIsAwaited' /\ AwaitedInv'
      /\ CountingInv' /\ ClaimedPtsWasSeen'
  BY HearKeeps
<1>2. TypeOK'
  BY <1>1 DEF IInv, TypeOK
<1>3. Adds({})
  BY DEF Adds
<1>4. UpdatesInv' /\ PositionsInv' /\ AnswersInv'
  BY <1>3, TransitSpeaks DEF IInv
<1>5. QED
  BY <1>1, <1>2, <1>4 DEF IInv

LEMMA HearUpdateKeeps ==
  ASSUME IInv, NEW m \in transit, HearUpdate(m)
  PROVE  IInv'
<1>1. /\ m.kind = "update" /\ m \in Updating
      /\ transit' = transit \ {m} /\ pts' = pts
      /\ UNCHANGED <<known, active, left, common, minTimer>>
  BY DEF HearUpdate, Take, Of, Updating
<1>2. CASE local[m.ch].waiter.requesting
  <2>1. UNCHANGED <<local, historyVars>>
    BY <1>2 DEF HearUpdate
  <2>2. TypeOK'
    BY <1>1, <2>1 DEF IInv, TypeOK, historyVars
  <2>3. PartsInv'
    BY <1>1, <2>1, DropStep
  <2>4. QED
    BY <2>2, <2>3, PartsMakeInv
<1>3. CASE ~local[m.ch].waiter.requesting
  <2>1. m.ch \in Channels /\ IsNews(m, m.ch, m.upd)
    BY <1>1, UpdateIsNews DEF IInv
  <2>2. Hear(m.ch, m.upd, {}, UpdateAndApply(local[m.ch].waiter, m.upd))
    BY <1>3 DEF HearUpdate
  <2>3. Minds(local[m.ch].waiter, m.upd, {},
              UpdateAndApply(local[m.ch].waiter, m.upd))
    BY <1>3 DEF Minds
  <2>4. QED
    BY <1>1, <2>1, <2>2, <2>3, HearMakesInv
<1>4. QED
  BY <1>2, <1>3

LEMMA HearAffectedKeeps ==
  ASSUME IInv, NEW m \in transit, HearAffected(m)
  PROVE  IInv'
<1>1. /\ m \in Updating
      /\ transit' = transit \ {m} /\ pts' = pts
      /\ UNCHANGED <<known, active, left, common, minTimer>>
      /\ Hear(m.ch, m.upd, Covers(m.upd),
              UpdateAndApplyPosition(local[m.ch].waiter, m.upd))
  BY DEF HearAffected, Take, Of, Updating
<1>2. m.ch \in Channels /\ IsNews(m, m.ch, m.upd)
  BY <1>1, UpdateIsNews DEF IInv
<1>3. Minds(local[m.ch].waiter, m.upd, Covers(m.upd),
            UpdateAndApplyPosition(local[m.ch].waiter, m.upd))
  BY DEF Minds
<1>4. QED
  BY <1>1, <1>2, <1>3, HearMakesInv

LEMMA HearPositionKeeps ==
  ASSUME IInv, NEW m \in transit, HearPosition(m)
  PROVE  IInv'
<1>0. PICK u : u = Update(m.pts, 0)
  OBVIOUS
<1>1. /\ m \in Of({"position"})
      /\ transit' = transit \ {m} /\ pts' = pts
      /\ UNCHANGED <<known, active, left, common, minTimer>>
      /\ Hear(m.ch, u, {}, UpdateAndApplyPosition(local[m.ch].waiter, u))
  BY <1>0 DEF HearPosition, Take
<1>2. m.ch \in Channels /\ IsNews(m, m.ch, u)
  BY <1>0, <1>1, PositionIsNews DEF IInv
<1>3. Covers(u) = {}
  <2>1. m.pts \in Nat
    BY <1>1, MessageFields DEF IInv, TypeOK, Of
  <2>2. QED
    BY <1>0, <2>1 DEF Covers, Update
<1>4. Minds(local[m.ch].waiter, u, {},
            UpdateAndApplyPosition(local[m.ch].waiter, u))
  BY <1>3 DEF Minds
<1>5. QED
  BY <1>1, <1>2, <1>4, HearMakesInv

LEMMA HearUnknownKeeps ==
  ASSUME IInv, NEW m \in transit, HearUnknown(m)
  PROVE  IInv'
<1>1. /\ m.kind = "update" /\ m \in Updating
      /\ transit' = transit \ {m} /\ pts' = pts
      /\ UNCHANGED <<local, known, active, left, common, base, counted>>
      /\ \/ /\ seen' = [seen EXCEPT ![m.ch] = @ \cup Covers(m.upd)]
            /\ UNCHANGED minTimer
         \/ minTimer' = TRUE /\ UNCHANGED seen
  BY DEF HearUnknown, Take, Of, Updating
<1>2. m.ch \in Channels /\ Covers(m.upd) \in SUBSET Int
  BY <1>1, MessageFields, CoversCount DEF IInv, TypeOK, Updating, Of
<1>3. TypeOK'
  BY <1>1, <1>2 DEF IInv, TypeOK
<1>4. Adds({})
  BY <1>1 DEF Adds
<1>5. \A ch : Awaited(ch)' = Awaited(ch)
  BY <1>1 DEF Awaited, Of
<1>6. \A ch \in Channels : seen[ch] \subseteq seen'[ch]
  BY <1>1, <1>2 DEF IInv, TypeOK
<1>7. \A ch \in Channels : Undisturbed(ch)
  BY <1>1, <1>5, <1>6, SameLocal DEF IInv, Undisturbed
<1>8. transit' \subseteq Messages
  BY <1>3 DEF TypeOK
<1>9. PartsInv'
  BY <1>1, <1>4, <1>7, <1>8, QuietStep
<1>10. QED
  BY <1>3, <1>9, PartsMakeInv

(* A channel whose difference cannot be asked for at the moment.           *)
LEMMA NoAskKeeps ==
  ASSUME IInv, NEW ch \in Channels, NEW from, NEW rest \in SUBSET transit,
         GetChannelDifference(ch, local[ch], from, rest),
         ~CanAsk(local[ch]), transit \ rest \subseteq Of({"tooLong"}),
         UNCHANGED <<known, active, left, common, minTimer, pts,
                     historyVars>>
  PROVE  IInv'
<1> DEFINE asking == Asking(local[ch], from)
<1>1. local[ch] \in LocalStates
  BY DEF IInv, TypeOK
<1>2. /\ asking \in LocalStates
      /\ asking.waiter = local[ch].waiter
      /\ asking.retry = local[ch].retry
  BY <1>1, AskingFields
<1>3. /\ local' = [local EXCEPT ![ch] = asking]
      /\ transit' = rest
  BY DEF GetChannelDifference, RequestOf
<1> HIDE DEF asking
<1>4. TypeOK'
  BY <1>2, <1>3 DEF IInv, TypeOK, historyVars
<1>5. Adds({}) /\ transit' \subseteq Messages
  BY <1>3, <1>4 DEF Adds, TypeOK
<1>6. \A d : Awaited(d)' = Awaited(d)
  BY <1>3 DEF Awaited, Of
<1>7. \A d \in Channels : Undisturbed(d)
  BY <1>2, <1>3, <1>6 DEF IInv, TypeOK, LocalStates, SameSums,
    Undisturbed, historyVars
<1>8. PartsInv'
  BY <1>5, <1>7, QuietStep
<1>9. QED
  BY <1>4, <1>8, PartsMakeInv

(* A channel whose difference can be asked for is asked for.               *)
LEMMA AskKeeps ==
  ASSUME IInv, NEW ch \in Channels, NEW from, NEW rest \in SUBSET transit,
         GetChannelDifference(ch, local[ch], from, rest),
         CanAsk(local[ch]), transit \ rest \subseteq Of({"tooLong"}),
         UNCHANGED <<known, active, left, common, minTimer, pts,
                     historyVars>>
  PROVE  IInv'
<1>1. local[ch] \in LocalStates
  BY DEF IInv, TypeOK
<1>2. ~local[ch].retry /\ Awaited(ch) = {}
  BY DEF IInv, DifferenceIsAwaited, CanAsk
<1>3. local[ch].waiter.good <= pts[ch]
  BY DEF IInv, CountingInv, Counting, CanAsk
<1>4. (base'[ch] + 1) .. local[ch].waiter.good \subseteq seen'[ch]
  BY DEF IInv, ClaimedPtsWasSeen, historyVars
<1>5. transit \ rest \subseteq Awaited(ch) \cup Of({"update", "tooLong"})
  BY DEF Of
<1>6. /\ local' \in [Channels -> LocalStates]
      /\ transit' \subseteq Messages
      /\ PartsInv'
  BY <1>1, <1>2, <1>3, <1>4, <1>5, AskStep DEF historyVars
<1>7. TypeOK'
  BY <1>6 DEF IInv, TypeOK, historyVars
<1>8. QED
  BY <1>6, <1>7, PartsMakeInv

LEMMA HearTooLongKeeps ==
  ASSUME IInv, NEW m \in transit, HearTooLong(m)
  PROVE  IInv'
<1>1. /\ m \in Of({"tooLong"}) /\ m.kind = "tooLong"
      /\ UNCHANGED <<known, active, left, common, minTimer, pts,
                     historyVars>>
  BY DEF HearTooLong, Of
<1>2. m.ch \in Channels
  BY <1>1, MessageFields DEF IInv, TypeOK, Of
<1>3. CASE transit' = transit \ {m} /\ UNCHANGED local
  <2>1. TypeOK'
    BY <1>1, <1>3 DEF IInv, TypeOK, historyVars
  <2>2. PartsInv'
    BY <1>1, <1>3, DropStep
  <2>3. QED
    BY <2>1, <2>2, PartsMakeInv
<1>4. CASE GetChannelDifference(m.ch, local[m.ch], "unknown", transit \ {m})
  BY <1>1, <1>2, <1>4, NoAskKeeps, AskKeeps
<1>5. QED
  BY <1>3, <1>4 DEF HearTooLong

LEMMA ByPtsTimerKeeps ==
  ASSUME IInv, NEW ch \in Channels, ByPtsTimer(ch)
  PROVE  IInv'
<1>1. /\ GetChannelDifference(ch, local[ch], "ptsGapOrShortPoll", transit)
      /\ UNCHANGED <<known, active, left, common, minTimer, pts,
                     historyVars>>
      /\ transit \ transit \subseteq Of({"tooLong"})
  BY DEF ByPtsTimer
<1>2. QED
  BY <1>1, NoAskKeeps, AskKeeps

LEMMA AfterFailTimerKeeps ==
  ASSUME IInv, NEW ch \in Channels, AfterFailTimer(ch)
  PROVE  IInv'
<1>0. PICK c : c = [local[ch] EXCEPT !.waiter = SetRequesting(@, FALSE),
                                     !.retry = FALSE]
  OBVIOUS
<1>1. /\ local[ch].retry
      /\ GetChannelDifference(ch, c, "afterFail", transit)
      /\ UNCHANGED <<known, active, left, common, minTimer, pts,
                     historyVars>>
  BY <1>0 DEF AfterFailTimer
<1>2. local[ch] \in LocalStates
  BY DEF IInv, TypeOK
<1>3. /\ c \in LocalStates
      /\ ~c.waiter.requesting
      /\ c.waiter.good = local[ch].waiter.good
      /\ ~c.retry
  BY <1>0, <1>2 DEF LocalStates, Waiters, SetRequesting
<1>4. local[ch].waiter.requesting /\ Awaited(ch) = {}
  BY <1>1 DEF IInv, DifferenceIsAwaited
<1>5. Inited(local[ch].waiter) /\ local[ch].waiter.good <= pts[ch]
  BY <1>4 DEF IInv, CountingInv, Counting
<1>6. CanAsk(c) /\ c.waiter.good <= pts[ch]
  BY <1>3, <1>5 DEF CanAsk, Inited
<1>7. (base'[ch] + 1) .. c.waiter.good \subseteq seen'[ch]
  BY <1>1, <1>3 DEF IInv, ClaimedPtsWasSeen, historyVars
<1>8. /\ local' \in [Channels -> LocalStates]
      /\ transit' \subseteq Messages
      /\ PartsInv'
  BY <1>1, <1>3, <1>4, <1>6, <1>7, AskStep DEF historyVars
<1>9. TypeOK'
  BY <1>1, <1>8 DEF IInv, TypeOK, historyVars
<1>10. QED
  BY <1>8, <1>9, PartsMakeInv

(* The end of channelDifferenceDone(): the client stands at m.to, and goes *)
(* on to the next part or waits for the next poll.                         *)
LEMMA AnswerStep ==
  ASSUME IInv, NEW m \in Of({"difference", "differenceTooLong"}),
         AfterDifference(m), pts' = pts,
         counted' = [counted EXCEPT ![m.ch] = {}],
         \A d \in Channels \ {m.ch} :
           base'[d] = base[d] /\ seen'[d] = seen[d],
         (base'[m.ch] + 1) .. m.to \subseteq seen'[m.ch]
  PROVE  /\ local' \in [Channels -> LocalStates]
         /\ transit' \subseteq Messages
         /\ PartsInv'
<1>0. PICK ch, rest, done :
        /\ ch = m.ch
        /\ rest = transit \ {m}
        /\ done = [local[m.ch] EXCEPT
                     !.waiter = SetRequesting(InitAt(@, m.to), FALSE)]
  OBVIOUS
<1>1. /\ ch \in Channels /\ m.to \in Nat /\ m.to > 0 /\ m.to <= pts[ch]
      /\ m.final \in BOOLEAN /\ m.final => Intact(ch, m.to)
      /\ m \in transit
  BY <1>0, MessageFields DEF IInv, TypeOK, Of, AnswersInv
<1>2. Awaited(ch) = {m} /\ ~local[ch].retry /\ local[ch] \in LocalStates
  BY <1>0, <1>1 DEF IInv, TypeOK, DifferenceIsAwaited, Awaited, Of
<1>3. done \in LocalStates /\ ~done.retry /\ StartsAt(done.waiter, m.to)
  BY <1>0, <1>1, <1>2 DEF LocalStates, Waiters, SetRequesting, InitAt,
    ClearSkipped, StartsAt
<1>4. \A d \in Channels \ {ch} :
        base'[d] = base[d] /\ seen'[d] = seen[d] /\ counted'[d] = counted[d]
  BY <1>0 DEF IInv, TypeOK
<1>5. counted'[ch] = {}
  BY <1>0, <1>1 DEF IInv, TypeOK
<1>6. CASE ~m.final
  <2>1. GetChannelDifference(ch, done, "unknown", rest)
    BY <1>0, <1>6 DEF AfterDifference
  <2>2. CanAsk(done) /\ done.waiter.good = m.to
    BY <1>1, <1>3 DEF CanAsk, StartsAt, Inited
  <2>3. /\ \A n \in rest : n \notin Awaited(ch)
        /\ transit \ rest \subseteq Awaited(ch) \cup Of({"update", "tooLong"})
        /\ rest \in SUBSET transit
    BY <1>0, <1>2
  <2>4. (base'[ch] + 1) .. done.waiter.good \subseteq seen'[ch]
    BY <1>0, <2>2
  <2>5. done.waiter.good <= pts[ch]
    BY <1>1, <2>2
  <2>6. QED
    BY <1>1, <1>3, <1>4, <2>1, <2>2, <2>3, <2>4, <2>5, AskStep
<1>7. CASE m.final
  <2>0. PICK next : next = SetWaitingForShortPoll(done, ch \in active)
    OBVIOUS
  <2>1. /\ local' = [local EXCEPT ![ch] = next]
        /\ transit' = transit \ {m}
    BY <1>0, <1>7, <2>0 DEF AfterDifference
  <2>2. /\ next \in LocalStates /\ ~next.retry
        /\ StartsAt(next.waiter, m.to)
    BY <1>3, <2>0, PollFields DEF SameSums, StartsAt
  <2>3. /\ local' \in [Channels -> LocalStates]
        /\ local'[ch] = next
        /\ \A d \in Channels \ {ch} : local'[d] = local[d]
    BY <1>1, <2>1, <2>2 DEF IInv, TypeOK
  <2>4. transit' \subseteq Messages /\ Adds({})
    BY <2>1 DEF IInv, TypeOK, Adds
  <2>5. UpdatesInv' /\ PositionsInv' /\ AnswersInv'
    BY <2>4, TransitSpeaks DEF IInv
  <2>6. Awaited(ch)' = {}
    BY <1>2, <2>1 DEF Awaited, Of
  <2>7. \A d \in Channels \ {ch} : Awaited(d)' = Awaited(d)
    BY <1>0, <2>1 DEF Awaited, Of
  <2>8. DifferenceIsAwaited'
    BY <2>2, <2>3, <2>6, <2>7 DEF IInv, DifferenceIsAwaited, StartsAt
  <2>9. AwaitedInv'
    <3>1. ASSUME NEW n \in Of({"request", "difference",
                               "differenceTooLong"})'
          PROVE  /\ n \in Of({"request", "difference", "differenceTooLong"})
                 /\ local'[n.ch] = local[n.ch]
      <4>1. /\ n \in Of({"request", "difference", "differenceTooLong"})
            /\ n # m /\ n.ch \in Channels
        BY <2>1, <2>4, MessageFields DEF Of
      <4>2. n.ch # ch
        BY <1>2, <4>1 DEF Awaited, Of
      <4>3. QED
        BY <2>3, <4>1, <4>2
    <3>2. \A d \in Channels :
            local'[d].waiter.requesting => local'[d].waiter.queue = {}
      BY <2>2, <2>3 DEF IInv, AwaitedInv, StartsAt
    <3>3. QED
      BY <3>1, <3>2 DEF IInv, AwaitedInv, Of
  <2>10. CountingInv'
    <3>1. Counting(ch)'
      <4>1. \A p : Intact(ch, p) => Intact(ch, p)'
        BY <2>4, NewsOnly DEF Intact
      <4>2. Sound(next.waiter, seen'[ch], {})
        BY <1>1, <2>2, StartIsSound
      <4>3. InUse(ch)'
        BY <1>1, <1>5, <1>7, <2>2, <2>3, <4>1, <4>2 DEF InUse, StartsAt
      <4>4. QED
        BY <1>1, <2>2, <2>3, <4>3 DEF Counting, StartsAt, Inited
    <3>2. ASSUME NEW d \in Channels \ {ch}
          PROVE  Counting(d)'
      BY <1>4, <2>3, <2>4, NewsOnly, SameLocal, CountingKept
      DEF IInv, CountingInv
    <3>3. QED
      BY <3>1, <3>2 DEF CountingInv
  <2>11. ClaimedPtsWasSeen'
    BY <1>0, <1>4, <2>2, <2>3 DEF IInv, ClaimedPtsWasSeen, StartsAt
  <2>12. QED
    BY <2>3, <2>4, <2>5, <2>8, <2>9, <2>10, <2>11 DEF PartsInv
<1>8. QED
  BY <1>1, <1>6, <1>7

LEMMA DifferenceDoneKeeps ==
  ASSUME IInv, NEW m \in transit, DifferenceDone(m)
  PROVE  IInv'
<1>1. /\ m \in Of({"difference"})
      /\ m \in Of({"difference", "differenceTooLong"})
      /\ AfterDifference(m)
      /\ seen' = [seen EXCEPT ![m.ch] = @ \cup ((m.from + 1) .. m.to)]
      /\ counted' = [counted EXCEPT ![m.ch] = {}]
      /\ UNCHANGED <<known, active, left, common, minTimer, pts, base>>
  BY DEF DifferenceDone, Of
<1>2. /\ m.ch \in Channels /\ m.from \in Nat /\ m.to \in Nat
      /\ m.from = local[m.ch].waiter.good
      /\ base[m.ch] \in Nat
  BY <1>1, MessageFields DEF IInv, TypeOK, Of, AwaitedInv
<1>3. /\ seen' \in [Channels -> SUBSET Int]
      /\ counted' \in [Channels -> SUBSET Int]
      /\ seen'[m.ch] = seen[m.ch] \cup ((m.from + 1) .. m.to)
      /\ \A d \in Channels \ {m.ch} :
           base'[d] = base[d] /\ seen'[d] = seen[d]
  BY <1>1, <1>2 DEF IInv, TypeOK
<1>4. (base'[m.ch] + 1) .. m.to \subseteq seen'[m.ch]
  BY <1>1, <1>2, <1>3 DEF IInv, ClaimedPtsWasSeen
<1>5. /\ local' \in [Channels -> LocalStates]
      /\ transit' \subseteq Messages
      /\ PartsInv'
  BY <1>1, <1>3, <1>4, AnswerStep
<1>6. TypeOK'
  BY <1>1, <1>3, <1>5 DEF IInv, TypeOK
<1>7. QED
  BY <1>5, <1>6, PartsMakeInv

LEMMA DifferenceTooLongDoneKeeps ==
  ASSUME IInv, NEW m \in transit, DifferenceTooLongDone(m)
  PROVE  IInv'
<1>1. /\ m \in Of({"differenceTooLong"})
      /\ m \in Of({"difference", "differenceTooLong"})
      /\ AfterDifference(m)
      /\ base' = [base EXCEPT ![m.ch] = m.to]
      /\ counted' = [counted EXCEPT ![m.ch] = {}]
      /\ UNCHANGED <<known, active, left, common, minTimer, pts, seen>>
  BY DEF DifferenceTooLongDone, Of
<1>2. m.ch \in Channels /\ m.to \in Nat \ {0}
  BY <1>1, MessageFields DEF IInv, TypeOK, Of, AnswersInv
<1>3. /\ base' \in [Channels -> Nat \ {0}]
      /\ counted' \in [Channels -> SUBSET Int]
      /\ base'[m.ch] = m.to
      /\ \A d \in Channels \ {m.ch} :
           base'[d] = base[d] /\ seen'[d] = seen[d]
  BY <1>1, <1>2 DEF IInv, TypeOK
<1>4. (base'[m.ch] + 1) .. m.to \subseteq seen'[m.ch]
  BY <1>2, <1>3
<1>5. /\ local' \in [Channels -> LocalStates]
      /\ transit' \subseteq Messages
      /\ PartsInv'
  BY <1>1, <1>3, <1>4, AnswerStep
<1>6. TypeOK'
  BY <1>1, <1>3, <1>5 DEF IInv, TypeOK
<1>7. QED
  BY <1>5, <1>6, PartsMakeInv

LEMMA DifferenceFailKeeps ==
  ASSUME IInv, NEW m \in transit, DifferenceFail(m)
  PROVE  IInv'
<1>1. /\ m \in Of({"failure"}) /\ m.kind = "failure"
      /\ transit' = transit \ {m}
      /\ local' = [local EXCEPT ![m.ch].retry = TRUE]
      /\ UNCHANGED <<known, active, left, common, minTimer, pts,
                     historyVars>>
  BY DEF DifferenceFail, Take, Of
<1>2. m.ch \in Channels
  BY <1>1, MessageFields DEF IInv, TypeOK, Of
<1>3. /\ local' \in [Channels -> LocalStates]
      /\ local'[m.ch].retry
      /\ \A d \in Channels : local'[d].waiter = local[d].waiter
      /\ \A d \in Channels \ {m.ch} : local'[d] = local[d]
  BY <1>1, <1>2 DEF IInv, TypeOK, LocalStates
<1>4. TypeOK'
  BY <1>1, <1>3 DEF IInv, TypeOK, historyVars
<1>5. Adds({})
  BY <1>1 DEF Adds
<1>6. UpdatesInv' /\ PositionsInv' /\ AnswersInv'
  BY <1>1, <1>5, TransitSpeaks DEF IInv
<1>7. Awaited(m.ch) = {m} /\ local[m.ch].waiter.requesting
  BY <1>1, <1>2 DEF IInv, DifferenceIsAwaited, Awaited, Of
<1>8. Awaited(m.ch)' = {}
  BY <1>1, <1>7 DEF Awaited, Of
<1>9. \A d \in Channels \ {m.ch} : Awaited(d)' = Awaited(d)
  BY <1>1 DEF Awaited, Of
<1>10. DifferenceIsAwaited'
  BY <1>3, <1>7, <1>8, <1>9 DEF IInv, DifferenceIsAwaited
<1>11. AwaitedInv'
  <2>1. \A n \in Of({"request", "difference", "differenceTooLong"})' :
          n \in Of({"request", "difference", "differenceTooLong"})
            /\ n.ch \in Channels
    BY <1>1, MessageFields DEF IInv, TypeOK, Of
  <2>2. QED
    BY <1>3, <2>1 DEF IInv, AwaitedInv, Of
<1>12. CountingInv'
  <2>1. ASSUME NEW d \in Channels
        PROVE  Counting(d)'
    <3>1. /\ SameSums(local[d].waiter, local'[d].waiter)
          /\ local'[d].waiter.waitingForSkipped =
               local[d].waiter.waitingForSkipped
      BY <1>3 DEF IInv, TypeOK, LocalStates, SameSums
    <3>2. QED
      BY <1>1, <1>5, <3>1, NewsOnly, CountingKept
      DEF IInv, CountingInv, historyVars
  <2>2. QED
    BY <2>1 DEF CountingInv
<1>13. ClaimedPtsWasSeen'
  BY <1>1, <1>3 DEF IInv, ClaimedPtsWasSeen, historyVars
<1>14. QED
  BY <1>4, <1>6, <1>10, <1>11, <1>12, <1>13 DEF IInv

(* A window shows a channel, or no longer; the user leaves one.            *)
LEMMA PollStep ==
  ASSUME IInv, NEW ch \in Channels, NEW waiting \in BOOLEAN,
         local' = [local EXCEPT ![ch] = SetWaitingForShortPoll(@, waiting)],
         known' \subseteq Channels, active' \subseteq Channels,
         left' \subseteq Channels,
         UNCHANGED <<common, minTimer, pts, transit, historyVars>>
  PROVE  IInv'
<1>0. PICK next : next = SetWaitingForShortPoll(local[ch], waiting)
  OBVIOUS
<1>1. local[ch] \in LocalStates /\ local' = [local EXCEPT ![ch] = next]
  BY <1>0 DEF IInv, TypeOK
<1>2. /\ next \in LocalStates
      /\ SameSums(local[ch].waiter, next.waiter)
      /\ next.waiter.waitingForSkipped = local[ch].waiter.waitingForSkipped
      /\ next.retry = local[ch].retry
  BY <1>0, <1>1, PollFields
<1>3. TypeOK'
  BY <1>1, <1>2 DEF IInv, TypeOK, historyVars
<1>4. Adds({}) /\ transit' \subseteq Messages
  BY <1>3 DEF Adds, TypeOK
<1>5. \A d : Awaited(d)' = Awaited(d)
  BY DEF Awaited, Of
<1>6. Undisturbed(ch)
  BY <1>1, <1>2, <1>5 DEF IInv, TypeOK, Undisturbed, historyVars
<1>7. \A d \in Channels \ {ch} : Undisturbed(d)
  BY <1>1, <1>5, SameLocal DEF IInv, TypeOK, Undisturbed, historyVars
<1>8. PartsInv'
  BY <1>4, <1>6, <1>7, QuietStep
<1>9. QED
  BY <1>3, <1>8, PartsMakeInv

LEMMA ElsewhereKeeps ==
  ASSUME IInv, UNCHANGED <<local, pts, transit, historyVars>>,
         known' \subseteq Channels, active' \subseteq Channels,
         left' \subseteq Channels, common' \in BOOLEAN, minTimer' \in BOOLEAN
  PROVE  IInv'
<1>1. TypeOK'
  BY DEF IInv, TypeOK, historyVars
<1>2. Adds({}) /\ transit' \subseteq Messages
  BY <1>1 DEF Adds, TypeOK
<1>3. \A d : Awaited(d)' = Awaited(d)
  BY DEF Awaited, Of
<1>4. PartsInv'
  BY <1>2, <1>3, UnchangedStep
<1>5. QED
  BY <1>1, <1>4, PartsMakeInv

LEMMA WindowKeeps ==
  ASSUME IInv, NEW ch \in Channels, Open(ch) \/ Close(ch) \/ Leave(ch)
  PROVE  IInv'
<1>1. \/ \E waiting \in BOOLEAN :
           local' = [local EXCEPT ![ch] = SetWaitingForShortPoll(@, waiting)]
      \/ UNCHANGED local
  BY DEF Open, Close, Leave
<1>2. /\ known' \subseteq Channels /\ active' \subseteq Channels
      /\ left' \subseteq Channels
      /\ UNCHANGED <<common, minTimer, pts, transit, historyVars>>
  BY DEF IInv, TypeOK, Open, Close, Leave
<1>3. CASE UNCHANGED local
  BY <1>2, <1>3, ElsewhereKeeps DEF IInv, TypeOK
<1>4. CASE \E waiting \in BOOLEAN :
             local' = [local EXCEPT ![ch] = SetWaitingForShortPoll(@, waiting)]
  BY <1>2, <1>4, PollStep
<1>5. QED
  BY <1>1, <1>3, <1>4

-----------------------------------------------------------------------------
(* The invariant.                                                          *)

LEMMA InitIInv ==
  Init => IInv
<1> SUFFICES ASSUME Init
             PROVE  IInv
  OBVIOUS
<1>1. /\ FreshWaiter \in Waiters(Nat)
      /\ InitAt(FreshWaiter, 1) \in Waiters(Nat)
  BY DEF FreshWaiter, InitAt, ClearSkipped, Waiters
<1>2. \A ch \in Channels :
        /\ local[ch] \in LocalStates
        /\ ~local[ch].waiter.requesting /\ ~local[ch].retry
        /\ \/ local[ch].waiter = FreshWaiter
           \/ StartsAt(local[ch].waiter, 1)
  BY <1>1 DEF Init, LocalStates, StartsAt, FreshWaiter, InitAt, ClearSkipped
<1>3. TypeOK
  <2>1. local = [ch \in Channels |-> local[ch]]
    BY DEF Init
  <2>2. local \in [Channels -> LocalStates]
    BY <1>2, <2>1
  <2>3. /\ known \subseteq Channels /\ active \subseteq Channels
        /\ left \subseteq Channels
        /\ common \in BOOLEAN /\ minTimer \in BOOLEAN
        /\ transit \subseteq Messages
    BY ChannelsAssumption DEF Init
  <2>4. /\ pts \in [Channels -> Nat \ {0}]
        /\ base \in [Channels -> Nat \ {0}]
        /\ seen \in [Channels -> SUBSET Int]
        /\ counted \in [Channels -> SUBSET Int]
    BY DEF Init
  <2>5. QED
    BY <2>2, <2>3, <2>4 DEF TypeOK
<1>4. Updating = {} /\ \A kinds : Of(kinds) = {}
  BY DEF Init, Updating, Of
<1>5. \A ch : Awaited(ch) = {}
  BY <1>4 DEF Awaited
<1>6. DifferenceIsAwaited
  BY <1>2, <1>5 DEF DifferenceIsAwaited
<1>7. UpdatesInv /\ PositionsInv /\ AnswersInv
  BY <1>4 DEF UpdatesInv, PositionsInv, AnswersInv
<1>8. AwaitedInv
  BY <1>2, <1>4 DEF AwaitedInv
<1>9. CountingInv
  <2>1. ASSUME NEW ch \in Channels
        PROVE  Counting(ch)
    <3>1. CASE local[ch].waiter = FreshWaiter
      BY <3>1 DEF Init, Counting, Inited, FreshWaiter
    <3>2. CASE StartsAt(local[ch].waiter, 1)
      <4>1. Sound(local[ch].waiter, seen[ch], {})
        BY <3>2, StartIsSound
      <4>2. InUse(ch)
        BY <1>4, <3>2, <4>1 DEF Init, InUse, Intact, StartsAt
      <4>3. QED
        BY <3>2, <4>2 DEF Init, Counting, Inited, StartsAt
    <3>3. QED
      BY <1>2, <3>1, <3>2
  <2>2. QED
    BY <2>1 DEF CountingInv
<1>10. ClaimedPtsWasSeen
  <2>1. ASSUME NEW ch \in Channels
        PROVE  (base[ch] + 1) .. local[ch].waiter.good = {}
    <3>1. base[ch] = 1
      BY DEF Init
    <3>2. local[ch].waiter.good \in {0, 1}
      BY <1>2 DEF StartsAt, FreshWaiter
    <3>3. QED
      BY <3>1, <3>2
  <2>2. QED
    BY <2>1 DEF ClaimedPtsWasSeen
<1>11. QED
  BY <1>3, <1>6, <1>7, <1>8, <1>9, <1>10 DEF IInv

LEMMA NextIInv ==
  IInv /\ [Next]_vars => IInv'
<1> SUFFICES ASSUME IInv, [Next]_vars
             PROVE  IInv'
  OBVIOUS
<1>1. ASSUME NEW m \in transit, Arrive(m)
      PROVE  IInv'
  BY <1>1, HearUpdateKeeps, HearUnknownKeeps, LoseKeeps, HearAffectedKeeps,
     HearPositionKeeps, HearTooLongKeeps, DifferenceDoneKeeps,
     DifferenceTooLongDoneKeeps, DifferenceFailKeeps
  DEF Arrive
<1>2. ASSUME NEW m \in transit, Serve(m)
      PROVE  IInv'
  BY <1>2, AnswerDifferenceKeeps, AnswerTooLongKeeps, FailKeeps, LoseKeeps
  DEF Serve
<1>3. ASSUME NEW ch \in Channels, Load(ch)
      PROVE  IInv'
  BY <1>3, ElsewhereKeeps DEF Load, IInv, TypeOK
<1>4. ASSUME NEW ch \in Channels, Local(ch)
      PROVE  IInv'
  BY <1>3, <1>4, IssueKeeps, SendPositionKeeps, SendTooLongKeeps,
     ByPtsTimerKeeps, AfterFailTimerKeeps, WindowKeeps
  DEF Local
<1>5. CASE MinChannelTimer \/ CommonDifference \/ CommonDifferenceDone
  BY <1>5, ElsewhereKeeps
  DEF MinChannelTimer, CommonDifference, CommonDifferenceDone, IInv, TypeOK
<1>6. CASE UNCHANGED vars
  BY <1>6, ElsewhereKeeps DEF vars, clientVars, IInv, TypeOK
<1>7. QED
  BY <1>1, <1>2, <1>4, <1>5, <1>6 DEF Next

THEOREM Invariance ==
  Spec => []IInv
<1>1. QED
  BY InitIInv, NextIInv, PTL DEF Spec

(* The variables of ChannelUpdates keep their types.                       *)
THEOREM TypeCorrectness ==
  Spec => []TypeOK
<1>1. IInv => TypeOK
  BY DEF IInv
<1>2. QED
  BY <1>1, Invariance, PTL

(* Whatever is lost, skipped or overtaken: every position of a channel     *)
(* from where the client started to where it claims to be, the one it      *)
(* sends in updates.getChannelDifference, has been applied.                *)
THEOREM NothingIsMissed ==
  Spec => []ClaimedPtsWasSeen
<1>1. IInv => ClaimedPtsWasSeen
  BY DEF IInv
<1>2. QED
  BY <1>1, Invariance, PTL

(* A channel that skips its updates is waiting for exactly one answer, or  *)
(* for the timer that asks again: it is never stuck in that state.         *)
THEOREM SkippingEnds ==
  Spec => []DifferenceIsAwaited
<1>1. IInv => DifferenceIsAwaited
  BY DEF IInv
<1>2. QED
  BY <1>1, Invariance, PTL

-----------------------------------------------------------------------------
(* A channel never goes back.                                              *)

LEMMA GoodIsNatural ==
  ASSUME TypeOK, NEW ch \in Channels
  PROVE  local[ch] \in LocalStates /\ local[ch].waiter.good \in Nat
BY DEF TypeOK, LocalStates, Waiters

(* The step of a channel that sets its part to c.                          *)
LEMMA SetGoesForward ==
  ASSUME TypeOK, NEW ch \in Channels, NEW c,
         local' = [local EXCEPT ![ch] = c],
         c.waiter.good \in Nat, c.waiter.good >= local[ch].waiter.good
  PROVE  GoesForward
<1>1. \A d \in Channels : local[d].waiter.good \in Nat
  BY GoodIsNatural
<1>2. local'[ch] = c /\ \A d \in Channels \ {ch} : local'[d] = local[d]
  BY DEF TypeOK
<1>3. QED
  BY <1>1, <1>2 DEF GoesForward

LEMMA StayingGoesForward ==
  ASSUME TypeOK, UNCHANGED local
  PROVE  GoesForward
<1>1. \A d \in Channels : local[d].waiter.good \in Nat
  BY GoodIsNatural
<1>2. QED
  BY <1>1 DEF GoesForward

LEMMA AskGoesForward ==
  ASSUME TypeOK, NEW ch \in Channels, NEW c \in LocalStates, NEW from,
         NEW rest, GetChannelDifference(ch, c, from, rest),
         c.waiter.good >= local[ch].waiter.good
  PROVE  GoesForward
<1>1. local' = [local EXCEPT ![ch] = Asking(c, from)]
  BY DEF GetChannelDifference
<1>2. Asking(c, from).waiter.good = c.waiter.good /\ c.waiter.good \in Nat
  BY AskingFields DEF LocalStates, Waiters
<1>3. QED
  BY <1>1, <1>2, SetGoesForward

LEMMA PollGoesForward ==
  ASSUME TypeOK, NEW ch \in Channels, NEW c \in LocalStates, NEW waiting,
         local' = [local EXCEPT ![ch] = SetWaitingForShortPoll(c, waiting)],
         c.waiter.good >= local[ch].waiter.good
  PROVE  GoesForward
<1>1. /\ SetWaitingForShortPoll(c, waiting).waiter.good = c.waiter.good
      /\ c.waiter.good \in Nat
  BY PollFields DEF SameSums, LocalStates, Waiters
<1>2. QED
  BY <1>1, SetGoesForward

(* An update, the result of a request or a position of the history.        *)
LEMMA HearGoesForward ==
  ASSUME IInv, NEW m \in transit,
         HearUpdate(m) \/ HearAffected(m) \/ HearPosition(m)
  PROVE  GoesForward
<1>1. CASE HearUpdate(m) /\ local[m.ch].waiter.requesting
  BY <1>1, StayingGoesForward DEF HearUpdate, IInv
<1>2. CASE HearUpdate(m) /\ ~local[m.ch].waiter.requesting
  <2>1. /\ m \in Updating /\ transit' = transit \ {m} /\ pts' = pts
        /\ Hear(m.ch, m.upd, {}, UpdateAndApply(local[m.ch].waiter, m.upd))
    BY <1>2 DEF HearUpdate, Take, Of, Updating
  <2>2. m.ch \in Channels /\ IsNews(m, m.ch, m.upd)
    BY <2>1, UpdateIsNews DEF IInv
  <2>3. Minds(local[m.ch].waiter, m.upd, {},
              UpdateAndApply(local[m.ch].waiter, m.upd))
    BY <1>2 DEF Minds
  <2>4. QED
    BY <2>1, <2>2, <2>3, HearKeeps
<1>3. CASE HearAffected(m)
  <2>1. /\ m \in Updating /\ transit' = transit \ {m} /\ pts' = pts
        /\ Hear(m.ch, m.upd, Covers(m.upd),
                UpdateAndApplyPosition(local[m.ch].waiter, m.upd))
    BY <1>3 DEF HearAffected, Take, Of, Updating
  <2>2. m.ch \in Channels /\ IsNews(m, m.ch, m.upd)
    BY <2>1, UpdateIsNews DEF IInv
  <2>3. Minds(local[m.ch].waiter, m.upd, Covers(m.upd),
              UpdateAndApplyPosition(local[m.ch].waiter, m.upd))
    BY DEF Minds
  <2>4. QED
    BY <2>1, <2>2, <2>3, HearKeeps
<1>4. CASE HearPosition(m)
  <2>1. PICK u : u = Update(m.pts, 0)
    OBVIOUS
  <2>2. /\ m \in Of({"position"}) /\ transit' = transit \ {m} /\ pts' = pts
        /\ Hear(m.ch, u, {}, UpdateAndApplyPosition(local[m.ch].waiter, u))
    BY <1>4, <2>1 DEF HearPosition, Take
  <2>3. m.ch \in Channels /\ IsNews(m, m.ch, u) /\ m.pts \in Nat
    BY <2>1, <2>2, PositionIsNews, MessageFields DEF IInv, TypeOK, Of
  <2>4. Covers(u) = {}
    BY <2>1, <2>3 DEF Covers, Update
  <2>5. Minds(local[m.ch].waiter, u, {},
              UpdateAndApplyPosition(local[m.ch].waiter, u))
    BY <2>4 DEF Minds
  <2>6. QED
    BY <2>2, <2>3, <2>5, HearKeeps
<1>5. QED
  BY <1>1, <1>2, <1>3, <1>4

(* An answer leads to where it ends, which is not behind the client.       *)
LEMMA AnswerGoesForward ==
  ASSUME IInv, NEW m \in Of({"difference", "differenceTooLong"}),
         AfterDifference(m)
  PROVE  GoesForward
<1>1. PICK done :
        done = [local[m.ch] EXCEPT
                  !.waiter = SetRequesting(InitAt(@, m.to), FALSE)]
  OBVIOUS
<1>2. /\ m.ch \in Channels /\ m.to \in Nat
      /\ local[m.ch] \in LocalStates /\ local[m.ch].waiter.good \in Nat
  BY MessageFields, GoodIsNatural DEF IInv, TypeOK, Of
<1>3. done \in LocalStates /\ done.waiter.good = m.to
  BY <1>1, <1>2 DEF LocalStates, Waiters, SetRequesting, InitAt,
    ClearSkipped
<1>4. local[m.ch].waiter.good <= m.to
  BY DEF IInv, AwaitedInv, Of
<1>5. CASE ~m.final
  BY <1>1, <1>2, <1>3, <1>4, <1>5, AskGoesForward DEF AfterDifference, IInv
<1>6. CASE m.final
  BY <1>1, <1>2, <1>3, <1>4, <1>6, PollGoesForward DEF AfterDifference, IInv
<1>7. QED
  BY <1>5, <1>6

LEMMA ArriveGoesForward ==
  ASSUME IInv, NEW m \in transit, Arrive(m)
  PROVE  GoesForward
<1>1. CASE HearUpdate(m) \/ HearAffected(m) \/ HearPosition(m)
  BY <1>1, HearGoesForward
<1>2. CASE HearUnknown(m) \/ IgnorePush(m)
  BY <1>2, StayingGoesForward DEF HearUnknown, IgnorePush, clientVars, IInv
<1>3. CASE HearTooLong(m)
  <2>1. m.ch \in Channels
    BY <1>3, MessageFields DEF HearTooLong, IInv, TypeOK, Of
  <2>2. local[m.ch] \in LocalStates /\ local[m.ch].waiter.good \in Nat
    BY <2>1, GoodIsNatural DEF IInv
  <2>3. CASE UNCHANGED local
    BY <2>3, StayingGoesForward DEF IInv
  <2>4. CASE GetChannelDifference(m.ch, local[m.ch], "unknown",
                                  transit \ {m})
    BY <2>1, <2>2, <2>4, AskGoesForward DEF IInv
  <2>5. QED
    BY <1>3, <2>3, <2>4 DEF HearTooLong
<1>4. CASE DifferenceDone(m) \/ DifferenceTooLongDone(m)
  <2>1. m \in Of({"difference", "differenceTooLong"}) /\ AfterDifference(m)
    BY <1>4 DEF DifferenceDone, DifferenceTooLongDone, Of
  <2>2. QED
    BY <2>1, AnswerGoesForward
<1>5. CASE DifferenceFail(m)
  <2>1. m.ch \in Channels
    BY <1>5, MessageFields DEF DifferenceFail, Take, IInv, TypeOK, Of
  <2>2. local[m.ch] \in LocalStates /\ local[m.ch].waiter.good \in Nat
    BY <2>1, GoodIsNatural DEF IInv
  <2>3. PICK c : c = [local[m.ch] EXCEPT !.retry = TRUE]
    OBVIOUS
  <2>4. local' = [local EXCEPT ![m.ch] = c]
    BY <1>5, <2>3 DEF DifferenceFail
  <2>5. c.waiter.good = local[m.ch].waiter.good
    BY <2>2, <2>3 DEF LocalStates
  <2>6. c.waiter.good \in Nat /\ c.waiter.good >= local[m.ch].waiter.good
    BY <2>2, <2>5
  <2>7. TypeOK
    BY DEF IInv
  <2>8. QED
    BY <2>1, <2>4, <2>6, <2>7, SetGoesForward
<1>6. QED
  BY <1>1, <1>2, <1>3, <1>4, <1>5 DEF Arrive

LEMMA LocalGoesForward ==
  ASSUME IInv, NEW ch \in Channels, Local(ch)
  PROVE  GoesForward
<1>1. local[ch] \in LocalStates /\ local[ch].waiter.good \in Nat
  BY GoodIsNatural DEF IInv
<1>2. CASE ByPtsTimer(ch)
  BY <1>1, <1>2, AskGoesForward DEF ByPtsTimer, IInv
<1>3. CASE AfterFailTimer(ch)
  <2>1. PICK c : c = [local[ch] EXCEPT !.waiter = SetRequesting(@, FALSE),
                                       !.retry = FALSE]
    OBVIOUS
  <2>2. c \in LocalStates /\ c.waiter.good = local[ch].waiter.good
    BY <1>1, <2>1 DEF LocalStates, Waiters, SetRequesting
  <2>3. GetChannelDifference(ch, c, "afterFail", transit)
    BY <1>3, <2>1 DEF AfterFailTimer
  <2>4. QED
    BY <1>1, <2>2, <2>3, AskGoesForward DEF IInv
<1>4. CASE \E waiting \in BOOLEAN :
             local' = [local EXCEPT ![ch] = SetWaitingForShortPoll(@, waiting)]
  <2>1. PICK waiting \in BOOLEAN :
          local' = [local EXCEPT ![ch] = SetWaitingForShortPoll(@, waiting)]
    BY <1>4
  <2>2. PICK c : c = local[ch]
    OBVIOUS
  <2>3. local' = [local EXCEPT ![ch] = SetWaitingForShortPoll(c, waiting)]
    BY <2>1, <2>2
  <2>4. c \in LocalStates /\ c.waiter.good >= local[ch].waiter.good
    BY <1>1, <2>2
  <2>5. TypeOK
    BY DEF IInv
  <2>6. QED
    BY <2>3, <2>4, <2>5, PollGoesForward
<1>5. CASE \/ \E count \in Counts : Issue(ch, count)
           \/ SendPosition(ch) \/ SendTooLong(ch) \/ Load(ch)
  <2>1. UNCHANGED local
    BY <1>5 DEF Issue, SendPosition, SendTooLong, Load, clientVars
  <2>2. QED
    BY <2>1, StayingGoesForward DEF IInv
<1>6. CASE Open(ch) \/ Close(ch) \/ Leave(ch)
  <2>1. \/ UNCHANGED local
        \/ \E waiting \in BOOLEAN :
             local' = [local EXCEPT ![ch] = SetWaitingForShortPoll(@, waiting)]
    BY <1>6 DEF Open, Close, Leave
  <2>2. QED
    BY <1>4, <2>1, StayingGoesForward DEF IInv
<1>7. QED
  BY <1>2, <1>3, <1>5, <1>6 DEF Local

(* Whatever is reordered, repeated or too long, the position that the      *)
(* client claims for a channel never goes back.                            *)
THEOREM ClaimsGoForward ==
  Spec => NeverGoesBack
<1>1. ASSUME IInv, [Next]_vars PROVE GoesForward
  <2>1. CASE \E m \in transit : Arrive(m)
    BY <1>1, <2>1, ArriveGoesForward
  <2>2. CASE \E m \in transit : Serve(m)
    BY <1>1, <2>2, StayingGoesForward
    DEF Serve, AnswerDifference, AnswerTooLong, Fail, Lose, clientVars, IInv
  <2>3. CASE \E ch \in Channels : Local(ch)
    BY <1>1, <2>3, LocalGoesForward
  <2>4. CASE MinChannelTimer \/ CommonDifference \/ CommonDifferenceDone
    BY <1>1, <2>4, StayingGoesForward
    DEF MinChannelTimer, CommonDifference, CommonDifferenceDone, IInv
  <2>5. CASE UNCHANGED vars
    BY <1>1, <2>5, StayingGoesForward DEF vars, clientVars, IInv
  <2>6. QED
    BY <1>1, <2>1, <2>2, <2>3, <2>4, <2>5 DEF Next
<1>2. IInv /\ [Next]_vars =>
        [\A ch \in Channels :
           local'[ch].waiter.good >= local[ch].waiter.good]_vars
  BY <1>1 DEF GoesForward
<1>3. QED
  BY <1>2, Invariance, PTL DEF Spec, NeverGoesBack
=============================================================================
