----------------------------- MODULE PtsWaiter ------------------------------
(***************************************************************************)
(* data/data_pts_waiter: the object that keeps one stream of numbered      *)
(* updates in order.  The account has one for its common stream and every  *)
(* channel has one of its own.                                             *)
(*                                                                         *)
(* A server event moves the stream position (pts) of the server forward by *)
(* its count, so an update [pts, count] stands for the positions           *)
(* pts - count + 1 .. pts.  The waiter never looks at those positions: it  *)
(* compares the highest pts it has been given (last) with the sum of the   *)
(* counts it has been given (count), and moves good, the position the      *)
(* client claims to have reached, only when the two agree.                 *)
(*                                                                         *)
(* The class is a value here, a waiter record, and its methods are         *)
(* operators on such records, because the owner calls several of them      *)
(* inside one handler.  A call returns the new waiter, the updates it made *)
(* the owner apply (applied), what it told the owner to do with the timer  *)
(* of this stream (timer) and the C++ return value (ok).                   *)
(*                                                                         *)
(* Left out: _applySkippedLevel, which is non-zero only while the loop of  *)
(* applySkippedUpdates runs, and the second half of the queue key: the     *)
(* queue is a set, applied in one step, in which the order of equal pts    *)
(* does not matter to any property.                                        *)
(***************************************************************************)
EXTENDS Integers, FiniteSets

\* What a call tells the owner to do with the timer of this stream.
TimerCommands == {"keep", "arm", "stop"}

Updates(Positions) == [pts : Positions, count : Positions]

Waiters(Positions) ==
  [good : Positions, last : Positions, count : Nat,
   queue : SUBSET Updates(Positions),
   requesting : BOOLEAN,
   waitingForSkipped : BOOLEAN,
   waitingForShortPoll : BOOLEAN]

\* The stream positions an update stands for; none when its count is zero.
Covers(u) == (u.pts - u.count + 1) .. u.pts

CoversAll(us) == UNION {Covers(u) : u \in us}

-----------------------------------------------------------------------------
(* Construction, the inline setters and the difference bracket.            *)

FreshWaiter ==
  [good |-> 0, last |-> 0, count |-> 0, queue |-> {}, requesting |-> FALSE,
   waitingForSkipped |-> FALSE, waitingForShortPoll |-> FALSE]

Inited(w) == w.good > 0

HasGap(w) == w.last # w.count

ClearSkipped(w) == [w EXCEPT !.queue = {}]

\* init() leaves both waiting flags as they were.
InitAt(w, pts) ==
  ClearSkipped([w EXCEPT !.good = pts, !.last = pts, !.count = pts])

\* Mutant: the queue survives into the difference.
SetRequestingOnly(w, isRequesting) == [w EXCEPT !.requesting = isRequesting]

SetRequesting(w, isRequesting) ==
  LET flagged == [w EXCEPT !.requesting = isRequesting]
  IN IF isRequesting THEN ClearSkipped(flagged) ELSE flagged

\* Mutant: the timer is stopped under the wait for skipped updates.
StopPollTimer(w) ==
  [waiter |-> [w EXCEPT !.waitingForShortPoll = FALSE], timer |-> "stop"]

\* setWaitingForShortPoll(channel, ms >= 0) and (channel, -1).
StartShortPoll(w) ==
  [waiter |-> [w EXCEPT !.waitingForShortPoll = TRUE], timer |-> "arm"]

StopShortPoll(w) ==
  [waiter |-> [w EXCEPT !.waitingForShortPoll = FALSE],
   timer |-> IF w.waitingForSkipped THEN "keep" ELSE "stop"]

\* setWaitingForSkipped(channel, -1): the timer is shared with the short
\* poll, so it is stopped only when that does not need it.
StopWaitingForSkipped(w) ==
  [waiter |-> [w EXCEPT !.waitingForSkipped = FALSE],
   timer |-> IF w.waitingForShortPoll THEN "keep" ELSE "stop"]

-----------------------------------------------------------------------------
(* Counting an update in.                                                  *)

\* check(): a gap starts the wait for the skipped updates, and an update
\* that moves nothing (count = 0) is reported as applicable even then.
Check(w, u) ==
  LET last  == IF u.pts > w.last THEN u.pts ELSE w.last
      count == w.count + u.count
      heard == [w EXCEPT !.last = last, !.count = count]
  IN IF ~Inited(w)
       THEN [waiter |-> InitAt(w, u.pts), timer |-> "keep", ok |-> TRUE]
     ELSE IF last = count
       THEN [waiter |-> [heard EXCEPT !.good = last],
             timer |-> "keep", ok |-> TRUE]
     ELSE [waiter |-> [heard EXCEPT !.waitingForSkipped = TRUE],
           timer |-> "arm", ok |-> (u.count = 0)]

\* Mutant: the update that ends at good counts as new.
IsOlder(w, u) == u.pts < w.good /\ u.count > 0

IsStale(w, u) == u.pts <= w.good /\ u.count > 0

\* updated(): payload is {u} for the two overloads that carry the update
\* itself, and {} for the one that only reports a position.
Updated(w, u, payload) ==
  LET checked == Check(w, u)
  IN IF w.requesting
       THEN [waiter |-> w, timer |-> "keep", ok |-> TRUE]
     ELSE IF IsStale(w, u)
       THEN [waiter |-> w, timer |-> "keep", ok |-> FALSE]
     ELSE IF checked.ok
       THEN checked
     ELSE [checked EXCEPT !.waiter.queue = @ \cup payload]

-----------------------------------------------------------------------------
(* Applying.                                                               *)

\* Mutant: the queue is handed out but not cleared.
ApplySkippedAgain(w) ==
  LET stopped == StopWaitingForSkipped(w)
  IN IF ~w.waitingForSkipped
       THEN [waiter |-> w, timer |-> "keep", applied |-> {}]
     ELSE [waiter |-> stopped.waiter, timer |-> stopped.timer,
           applied |-> w.queue]

\* applySkippedUpdates(): hand the whole queue to the owner, whether or not
\* the gap that filled it is closed.
ApplySkipped(w) ==
  LET stopped == StopWaitingForSkipped(w)
  IN IF ~w.waitingForSkipped
       THEN [waiter |-> w, timer |-> "keep", applied |-> {}]
     ELSE [waiter |-> ClearSkipped(stopped.waiter), timer |-> stopped.timer,
           applied |-> w.queue]

\* The last command of a call wins; "keep" is no command.
Later(first, second) == IF second = "keep" THEN first ELSE second

\* updateAndApply() with the update itself.
UpdateAndApply(w, u) ==
  LET heard   == Updated(w, u, {u})
      flushed == ApplySkipped([heard.waiter EXCEPT !.queue = @ \cup {u}])
  IN IF ~heard.ok
       THEN [waiter |-> heard.waiter, timer |-> heard.timer,
             applied |-> {}, ok |-> FALSE]
     ELSE IF ~heard.waiter.waitingForSkipped \/ heard.waiter.queue = {}
       THEN [waiter |-> heard.waiter, timer |-> heard.timer,
             applied |-> {u}, ok |-> TRUE]
     ELSE [waiter |-> flushed.waiter,
           timer |-> Later(heard.timer, flushed.timer),
           applied |-> flushed.applied, ok |-> TRUE]

\* Mutant: a reported position is taken for the current one.
UpdateAndApplyPositionAtOnce(w, u) ==
  [waiter |-> InitAt(w, u.pts), timer |-> "keep", applied |-> {}, ok |-> TRUE]

\* Mutant: a position that does not fit has the queue applied as well.
UpdateAndApplyPositionAnyway(w, u) ==
  LET heard   == Updated(w, u, {})
      flushed == ApplySkipped(heard.waiter)
  IN [waiter |-> flushed.waiter, timer |-> Later(heard.timer, flushed.timer),
      applied |-> flushed.applied, ok |-> TRUE]

\* updateAndApply() with a position only: the caller has already applied
\* what the position stands for.
UpdateAndApplyPosition(w, u) ==
  LET heard   == Updated(w, u, {})
      flushed == ApplySkipped(heard.waiter)
  IN IF ~heard.ok
       THEN [waiter |-> heard.waiter, timer |-> heard.timer,
             applied |-> {}, ok |-> FALSE]
     ELSE [waiter |-> flushed.waiter,
           timer |-> Later(heard.timer, flushed.timer),
           applied |-> flushed.applied, ok |-> TRUE]

\* ptsWaiterStartTimerFor() as the owner of the stream sees it: time is
\* abstract, so a timer is either armed or not.
TimerAfter(armed, command) ==
  CASE command = "arm"  -> TRUE
    [] command = "stop" -> FALSE
    [] OTHER            -> armed

-----------------------------------------------------------------------------
(* What the sums of a waiter w mean, when s is what its client has applied *)
(* and k are the positions it has counted in since good last moved.        *)

Sound(w, s, k) ==
  /\ w.good <= w.last
  /\ k \subseteq (w.good + 1) .. w.last
  /\ w.count = w.good + Cardinality(k)
  /\ k \subseteq s \cup CoversAll(w.queue)
  /\ w.queue # {} => w.waitingForSkipped
=============================================================================
