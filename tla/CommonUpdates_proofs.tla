------------------------ MODULE CommonUpdates_proofs ------------------------
(***************************************************************************)
(* The invariant IInv of CommonUpdates is inductive, for any bounds, any   *)
(* containers and any number of updates, losses, failures and refusals;    *)
(* what the client promises of pts and of seq follows from it, and so does *)
(* that it implements UpdateFeed.                                          *)
(*                                                                         *)
(* A handler is an operator on the client, and its loops are recursive     *)
(* functions.  First each operator is shown to keep the client Fine, the   *)
(* loops by induction over their turns; then each action is shown to keep  *)
(* the rest.                                                               *)
(***************************************************************************)
EXTENDS CommonUpdates, PtsWaiter_proofs, SequenceTheorems,
        WellFoundedInduction

-----------------------------------------------------------------------------
(* Induction, for a set of numbers, from the minimal elements of what is   *)
(* outside of it.                                                          *)
LEMMA Induction ==
  ASSUME NEW S, 0 \in S, \A n \in Nat : n \in S => n + 1 \in S
  PROVE  \A n \in Nat : n \in S
<1> DEFINE T == {n \in Nat : n \notin S}
<1>1. ASSUME T # {} PROVE FALSE
  <2>1. PICK x \in T : \A y \in T : ~(<<y, x>> \in OpToRel(<, Nat))
    <3>1. T \subseteq Nat
      OBVIOUS
    <3> HIDE DEF T
    <3>2. QED
      BY <3>1, <1>1, NatLessThanWellFounded, WFMin, Zenon
  <2>2. x \in Nat /\ x # 0 /\ x - 1 \in Nat /\ x - 1 < x
    OBVIOUS
  <2>3. x - 1 \notin T
    BY <2>1, <2>2 DEF OpToRel
  <2>4. (x - 1) + 1 \in S
    BY <2>2, <2>3
  <2>5. QED
    BY <2>2, <2>4
<1>2. QED
  BY <1>1

(* The loops are the functions that their definitions say: one that        *)
(* satisfies the equation exists, by induction over its domain.            *)
LEMMA FedIs ==
  ASSUME NEW c, NEW m, NEW strangers, Len(m.list) \in Nat
  PROVE  \E fed :
           /\ fed[0] = c
           /\ \A i \in 1 .. Len(m.list) :
                fed[i] = FeedUpdate(fed[i - 1], m.list[i], strangers)
           /\ FeedContainer(c, m, strangers) = fed[Len(m.list)]
<1> DEFINE B(j, f) == [i \in 0 .. j |->
                         IF i = 0 THEN c
                         ELSE FeedUpdate(f[i - 1], m.list[i], strangers)]
           S == {j \in Nat : \E f : f = B(j, f)}
           n == Len(m.list)
           fed == CHOOSE f : f = B(n, f)
<1>1. 0 \in S
  <2>1. PICK f : f = [i \in 0 .. 0 |-> c]
    OBVIOUS
  <2>2. f = B(0, f)
    BY <2>1
  <2>3. QED
    BY <2>2
<1>2. ASSUME NEW j \in Nat, j \in S PROVE j + 1 \in S
  <2>1. PICK f : f = B(j, f)
    BY <1>2
  <2>2. PICK g : g = [i \in 0 .. j + 1 |->
                        IF i <= j THEN f[i]
                        ELSE FeedUpdate(f[j], m.list[j + 1], strangers)]
    OBVIOUS
  <2>3. \A i \in 0 .. j + 1 :
          g[i] = IF i = 0 THEN c
                 ELSE FeedUpdate(g[i - 1], m.list[i], strangers)
    <3>1. ASSUME NEW i \in 1 .. j
          PROVE  g[i] = FeedUpdate(g[i - 1], m.list[i], strangers)
      <4>1. g[i] = f[i] /\ g[i - 1] = f[i - 1]
        BY <2>2, <3>1
      <4>2. f[i] = FeedUpdate(f[i - 1], m.list[i], strangers)
        BY <2>1, <3>1
      <4>3. QED
        BY <4>1, <4>2
    <3>2. g[0] = c
      BY <2>1, <2>2
    <3>3. g[j + 1] = FeedUpdate(g[j], m.list[j + 1], strangers)
      BY <2>2
    <3>4. QED
      BY <3>1, <3>2, <3>3
  <2>4. g = B(j + 1, g)
    BY <2>2, <2>3
  <2>5. \E h : h = B(j + 1, h)
    <3> HIDE DEF B
    <3>1. QED
      BY <2>4
  <2>6. QED
    BY <2>5
<1>3. n \in S
  <2> HIDE DEF S
  <2>1. \A j \in Nat : j \in S => j + 1 \in S
    BY <1>2
  <2>2. QED
    BY <1>1, <2>1, Induction
<1>4. fed = B(n, fed)
  <2>1. \E f : f = B(n, f)
    BY <1>3
  <2> HIDE DEF B
  <2>2. QED
    BY <2>1
<1>5. FeedContainer(c, m, strangers) = fed[n]
  BY DEF FeedContainer
<1> HIDE DEF fed
<1>6. fed[0] = c
  BY <1>4
<1>7. \A i \in 1 .. n :
        fed[i] = FeedUpdate(fed[i - 1], m.list[i], strangers)
  BY <1>4
<1>8. QED
  BY <1>5, <1>6, <1>7

LEMMA DrainedIs ==
  ASSUME NEW c, NEW strangers, Cardinality(c.bySeq) \in Nat
  PROVE  \E drained :
           /\ drained[0] = c
           /\ \A i \in 1 .. Cardinality(c.bySeq) :
                drained[i] = DrainOne(drained[i - 1], strangers)
           /\ Drain(c, strangers) = drained[Cardinality(c.bySeq)]
<1> DEFINE B(j, f) == [i \in 0 .. j |->
                         IF i = 0 THEN c
                         ELSE DrainOne(f[i - 1], strangers)]
           S == {j \in Nat : \E f : f = B(j, f)}
           n == Cardinality(c.bySeq)
           drained == CHOOSE f : f = B(n, f)
<1>1. 0 \in S
  <2>1. PICK f : f = [i \in 0 .. 0 |-> c]
    OBVIOUS
  <2>2. f = B(0, f)
    BY <2>1
  <2>3. QED
    BY <2>2
<1>2. ASSUME NEW j \in Nat, j \in S PROVE j + 1 \in S
  <2>1. PICK f : f = B(j, f)
    BY <1>2
  <2>2. PICK g : g = [i \in 0 .. j + 1 |->
                        IF i <= j THEN f[i]
                        ELSE DrainOne(f[j], strangers)]
    OBVIOUS
  <2>3. \A i \in 0 .. j + 1 :
          g[i] = IF i = 0 THEN c
                 ELSE DrainOne(g[i - 1], strangers)
    <3>1. ASSUME NEW i \in 1 .. j
          PROVE  g[i] = DrainOne(g[i - 1], strangers)
      <4>1. g[i] = f[i] /\ g[i - 1] = f[i - 1]
        BY <2>2, <3>1
      <4>2. f[i] = DrainOne(f[i - 1], strangers)
        BY <2>1, <3>1
      <4>3. QED
        BY <4>1, <4>2
    <3>2. g[0] = c
      BY <2>1, <2>2
    <3>3. g[j + 1] = DrainOne(g[j], strangers)
      BY <2>2
    <3>4. QED
      BY <3>1, <3>2, <3>3
  <2>4. g = B(j + 1, g)
    BY <2>2, <2>3
  <2>5. \E h : h = B(j + 1, h)
    <3> HIDE DEF B
    <3>1. QED
      BY <2>4
  <2>6. QED
    BY <2>5
<1>3. n \in S
  <2> HIDE DEF S
  <2>1. \A j \in Nat : j \in S => j + 1 \in S
    BY <1>2
  <2>2. QED
    BY <1>1, <2>1, Induction
<1>4. drained = B(n, drained)
  <2>1. \E f : f = B(n, f)
    BY <1>3
  <2> HIDE DEF B
  <2>2. QED
    BY <2>1
<1>5. Drain(c, strangers) = drained[n]
  BY DEF Drain
<1> HIDE DEF drained
<1>6. drained[0] = c
  BY <1>4
<1>7. \A i \in 1 .. n :
        drained[i] = DrainOne(drained[i - 1], strangers)
  BY <1>4
<1>8. QED
  BY <1>5, <1>6, <1>7

Sums(pts, counts, sum) ==
  /\ sum[0] = pts
  /\ \A i \in 1 .. Len(counts) : sum[i] = sum[i - 1] + counts[i]
  /\ \A i \in 0 .. Len(counts) : PtsAfter(pts, counts, i) = sum[i]

LEMMA SumIs ==
  ASSUME NEW pts, NEW counts, Len(counts) \in Nat
  PROVE  \E sum : Sums(pts, counts, sum)
<1> DEFINE B(j, f) == [i \in 0 .. j |->
                         IF i = 0 THEN pts
                         ELSE f[i - 1] + counts[i]]
           S == {j \in Nat : \E f : f = B(j, f)}
           n == Len(counts)
           sum == CHOOSE f : f = B(n, f)
<1>1. 0 \in S
  <2>1. PICK f : f = [i \in 0 .. 0 |-> pts]
    OBVIOUS
  <2>2. f = B(0, f)
    BY <2>1
  <2>3. QED
    BY <2>2
<1>2. ASSUME NEW j \in Nat, j \in S PROVE j + 1 \in S
  <2>1. PICK f : f = B(j, f)
    BY <1>2
  <2>2. PICK g : g = [i \in 0 .. j + 1 |->
                        IF i <= j THEN f[i]
                        ELSE f[j] + counts[j + 1]]
    OBVIOUS
  <2>3. \A i \in 0 .. j + 1 :
          g[i] = IF i = 0 THEN pts
                 ELSE g[i - 1] + counts[i]
    <3>1. ASSUME NEW i \in 1 .. j
          PROVE  g[i] = g[i - 1] + counts[i]
      <4>1. g[i] = f[i] /\ g[i - 1] = f[i - 1]
        BY <2>2, <3>1
      <4>2. f[i] = f[i - 1] + counts[i]
        BY <2>1, <3>1
      <4>3. QED
        BY <4>1, <4>2
    <3>2. g[0] = pts
      BY <2>1, <2>2
    <3>3. g[j + 1] = g[j] + counts[j + 1]
      BY <2>2
    <3>4. QED
      BY <3>1, <3>2, <3>3
  <2>4. g = B(j + 1, g)
    BY <2>2, <2>3
  <2>5. \E h : h = B(j + 1, h)
    <3> HIDE DEF B
    <3>1. QED
      BY <2>4
  <2>6. QED
    BY <2>5
<1>3. n \in S
  <2> HIDE DEF S
  <2>1. \A j \in Nat : j \in S => j + 1 \in S
    BY <1>2
  <2>2. QED
    BY <1>1, <2>1, Induction
<1>4. sum = B(n, sum)
  <2>1. \E f : f = B(n, f)
    BY <1>3
  <2> HIDE DEF B
  <2>2. QED
    BY <2>1
<1>5. \A i : PtsAfter(pts, counts, i) = sum[i]
  BY DEF PtsAfter
<1> HIDE DEF sum
<1>6. sum[0] = pts
  BY <1>4
<1>7. \A i \in 1 .. n :
        sum[i] = sum[i - 1] + counts[i]
  BY <1>4
<1>8. QED
  <2>1. Sums(pts, counts, sum)
    BY <1>5, <1>6, <1>7 DEF Sums
  <2>2. QED
    BY <2>1

-----------------------------------------------------------------------------
(* Updates and clients.                                                    *)

(* What is around a client that handles an event.                          *)
Surroundings ==
  [end : Nat, top : Nat, out : BOOLEAN, deaf : BOOLEAN, good : Nat,
   seen : SUBSET Nat]

(* An update that was issued covers positions of the server, and ends      *)
(* before or begins after a position on a boundary of it.                  *)
LEMMA IssuedCovers ==
  ASSUME NEW u, NEW e, e.end \in Nat, Issued(u, e)
  PROVE  /\ u \in Updates(Nat)
         /\ Covers(u) \subseteq 1 .. e.end
         /\ Covers(u) \subseteq Nat
         /\ u.pts \in Nat /\ u.count \in Nat /\ u.pts > 0
         /\ u.count # 0 => u.pts \in Covers(u)
         /\ \A p \in Nat : Around(p, u) =>
              \/ u.pts <= p
              \/ \A x \in Covers(u) : p < x
BY DEF Issued, Updates, Covers, Around

LEMMA TimerAfterIs ==
  ASSUME NEW armed \in BOOLEAN, NEW command
  PROVE  /\ TimerAfter(armed, command) \in BOOLEAN
         /\ TimerAfter(armed, "keep") = armed
         /\ TimerAfter(armed, "arm")
BY DEF TimerAfter

(* What a call of the waiter leaves alone.                                 *)
SameRest(c, d) ==
  /\ d.seq = c.seq
  /\ d.bySeq = c.bySeq
  /\ d.bySeqTimer = c.bySeqTimer
  /\ d.failTimer = c.failTimer
  /\ d.sending = c.sending
  /\ d.seenSeq = c.seenSeq

Absorbed(c, result, d) ==
  LET positions == CoversAll(result.applied)
  IN /\ ClientTyped(d)
     /\ SameRest(c, d)
     /\ d.waiter = result.waiter
     /\ d.seen = c.seen \cup positions
     /\ d.repeated = IF c.waiter.requesting
                       THEN c.repeated
                       ELSE c.repeated \cup (c.seen \cap positions)
     /\ d.byPtsTimer = TimerAfter(c.byPtsTimer, result.timer)

LEMMA AbsorbIs ==
  ASSUME NEW c, ClientTyped(c), NEW result, result.waiter \in Waiters(Nat),
         CoversAll(result.applied) \subseteq Nat
  PROVE  Absorbed(c, result, Absorb(c, result))
<1>1. TimerAfter(c.byPtsTimer, result.timer) \in BOOLEAN
  BY TimerAfterIs DEF ClientTyped
<1> DEFINE positions == CoversAll(result.applied)
           timer == TimerAfter(c.byPtsTimer, result.timer)
<1>2. Absorb(c, result) =
        [c EXCEPT !.waiter = result.waiter, !.byPtsTimer = timer,
                  !.seen = @ \cup positions,
                  !.repeated = IF c.waiter.requesting
                                 THEN @ ELSE @ \cup (c.seen \cap positions)]
  BY DEF Absorb, RequestingDifference
<1>3. timer \in BOOLEAN /\ positions \subseteq Nat
  BY <1>1
<1> HIDE DEF positions, timer
<1>4. QED
  BY <1>2, <1>3 DEF ClientTyped, SameRest, Absorbed, positions, timer

(* Less to come is less to mind.                                           *)
LEMMA FineLess ==
  ASSUME NEW c, NEW us, NEW vs, NEW e, Fine(c, us, e), vs \subseteq us
  PROVE  Fine(c, vs, e)
<1>1. Ahead(c, vs) \subseteq Ahead(c, us)
  BY DEF Ahead
<1>2. QED
  BY <1>1 DEF Fine, Coming, ParkedApart, Counting, Apart

-----------------------------------------------------------------------------
(* What the waiter makes of an update that is not stale: the gap is closed *)
(* and what was queued is applied; or it stays open, and the queue is      *)
(* applied nonetheless because the update moves nothing, or grows.         *)
Outcome(w, u, own, r) ==
  /\ r.waiter \in Waiters(Nat)
  /\ \/ /\ ~HasGap(r.waiter)
        /\ r.waiter.queue = {}
        /\ r.applied = w.queue \cup own
     \/ /\ HasGap(r.waiter)
        /\ r.waiter.good = w.good
        /\ r.waiter.queue = {}
        /\ r.applied = w.queue \cup own
        /\ u.count = 0
     \/ /\ HasGap(r.waiter)
        /\ r.waiter.good = w.good
        /\ r.waiter.queue = w.queue \cup own
        /\ r.applied = {}
        /\ r.timer = "arm"

Hears(w, u, payload, up) ==
  /\ up.waiter \in Waiters(Nat)
  /\ \/ /\ up.ok /\ ~HasGap(up.waiter)
        /\ up.waiter.queue = w.queue
        /\ up.waiter.waitingForSkipped = w.waitingForSkipped
     \/ /\ up.ok /\ HasGap(up.waiter) /\ u.count = 0
        /\ up.waiter.queue = w.queue
        /\ up.waiter.good = w.good
        /\ up.waiter.waitingForSkipped
     \/ /\ ~up.ok /\ HasGap(up.waiter) /\ up.timer = "arm"
        /\ up.waiter.queue = w.queue \cup payload
        /\ up.waiter.good = w.good
        /\ up.waiter.waitingForSkipped

LEMMA HeardIs ==
  ASSUME NEW w \in Waiters(Nat), NEW u \in Updates(Nat),
         NEW payload \in {{}, {u}},
         Inited(w), ~w.requesting, ~IsStale(w, u)
  PROVE  Hears(w, u, payload, Updated(w, u, payload))
<1>1. /\ LastAfter(w, u) \in Nat /\ w.count + u.count \in Nat
      /\ payload \subseteq Updates(Nat)
  BY DEF LastAfter, Waiters, Updates
<1>0. PICK up : up = Updated(w, u, payload)
  OBVIOUS
<1> DEFINE opened == [w EXCEPT !.last = LastAfter(w, u),
                               !.count = w.count + u.count,
                               !.waitingForSkipped = TRUE]
<1>2. CASE LastAfter(w, u) = w.count + u.count
  <2>1. /\ up.ok
        /\ up.waiter = [w EXCEPT !.last = LastAfter(w, u),
                                 !.count = w.count + u.count,
                                 !.good = LastAfter(w, u)]
    BY <1>0, <1>1, <1>2 DEF Updated, Check, LastAfter
  <2>2. /\ up.waiter \in Waiters(Nat)
        /\ up.waiter.last = LastAfter(w, u)
        /\ up.waiter.count = w.count + u.count
        /\ up.waiter.queue = w.queue
        /\ up.waiter.waitingForSkipped = w.waitingForSkipped
    BY <1>1, <2>1 DEF Waiters
  <2>3. QED
    BY <1>0, <1>2, <2>1, <2>2 DEF Hears, HasGap
<1>3. CASE LastAfter(w, u) # w.count + u.count /\ u.count = 0
  <2>1. up.ok /\ up.waiter = opened
    BY <1>0, <1>1, <1>3 DEF Updated, Check, LastAfter
  <2>2. /\ up.waiter \in Waiters(Nat)
        /\ up.waiter.last = LastAfter(w, u)
        /\ up.waiter.count = w.count + u.count
        /\ up.waiter.queue = w.queue
        /\ up.waiter.good = w.good
        /\ up.waiter.waitingForSkipped
    BY <1>1, <2>1 DEF Waiters
  <2>3. QED
    BY <1>0, <1>3, <2>1, <2>2 DEF Hears, HasGap
<1>4. CASE LastAfter(w, u) # w.count + u.count /\ u.count # 0
  <2>1. /\ ~up.ok /\ up.timer = "arm"
        /\ up.waiter = [w EXCEPT !.last = LastAfter(w, u),
                                 !.count = w.count + u.count,
                                 !.waitingForSkipped = TRUE,
                                 !.queue = @ \cup payload]
    BY <1>0, <1>1, <1>4 DEF Updated, Check, LastAfter
  <2>2. w.queue \cup payload \subseteq Updates(Nat)
    BY <1>1 DEF Waiters
  <2>3. /\ up.waiter \in Waiters(Nat)
        /\ up.waiter.last = LastAfter(w, u)
        /\ up.waiter.count = w.count + u.count
        /\ up.waiter.queue = w.queue \cup payload
        /\ up.waiter.good = w.good
        /\ up.waiter.waitingForSkipped
    BY <1>1, <2>1, <2>2 DEF Waiters
  <2>4. QED
    BY <1>0, <1>4, <2>1, <2>3 DEF Hears, HasGap
<1>5. QED
  BY <1>2, <1>3, <1>4

LEMMA Flushed ==
  ASSUME NEW w \in Waiters(Nat), w.queue # {} => w.waitingForSkipped
  PROVE  /\ ApplySkipped(w).waiter \in Waiters(Nat)
         /\ ApplySkipped(w).waiter.good = w.good
         /\ ApplySkipped(w).waiter.queue = {}
         /\ ApplySkipped(w).applied = w.queue
         /\ HasGap(ApplySkipped(w).waiter) <=> HasGap(w)
BY DEF ApplySkipped, StopWaitingForSkipped, ClearSkipped, Waiters, HasGap

LEMMA UpdateOutcome ==
  ASSUME NEW w \in Waiters(Nat), NEW u \in Updates(Nat),
         Inited(w), ~w.requesting, ~IsStale(w, u),
         w.queue # {} => w.waitingForSkipped
  PROVE  Outcome(w, u, {u}, UpdateAndApply(w, u))
<1>0. PICK up, r : up = Updated(w, u, {u}) /\ r = UpdateAndApply(w, u)
  OBVIOUS
<1> DEFINE v == [up.waiter EXCEPT !.queue = @ \cup {u}]
<1>1. Hears(w, u, {u}, up)
  BY <1>0, HeardIs
<1>2. CASE ~up.ok
  <2>1. /\ r.waiter = up.waiter /\ r.timer = up.timer /\ r.applied = {}
    BY <1>0, <1>2 DEF UpdateAndApply
  <2>2. QED
    BY <1>0, <1>1, <1>2, <2>1 DEF Outcome, Hears
<1>3. CASE up.ok /\ (~up.waiter.waitingForSkipped \/ up.waiter.queue = {})
  <2>1. r.waiter = up.waiter /\ r.applied = {u}
    BY <1>0, <1>3 DEF UpdateAndApply
  <2>2. QED
    BY <1>0, <1>1, <1>3, <2>1 DEF Outcome, Hears
<1>4. CASE up.ok /\ up.waiter.waitingForSkipped /\ up.waiter.queue # {}
  <2>1. r.waiter = ApplySkipped(v).waiter /\ r.applied = ApplySkipped(v).applied
    BY <1>0, <1>4 DEF UpdateAndApply
  <2>2. /\ v \in Waiters(Nat)
        /\ v.queue = w.queue \cup {u}
        /\ v.waitingForSkipped
        /\ v.good = up.waiter.good
        /\ HasGap(v) <=> HasGap(up.waiter)
    BY <1>1, <1>4 DEF Hears, Waiters, HasGap
  <2> HIDE DEF v
  <2>3. /\ r.waiter \in Waiters(Nat) /\ r.waiter.good = v.good
        /\ r.waiter.queue = {} /\ r.applied = v.queue
        /\ HasGap(r.waiter) <=> HasGap(v)
    BY <2>1, <2>2, Flushed
  <2>4. QED
    BY <1>0, <1>1, <1>4, <2>2, <2>3 DEF Outcome, Hears
<1>5. QED
  BY <1>2, <1>3, <1>4

LEMMA PositionOutcome ==
  ASSUME NEW w \in Waiters(Nat), NEW u \in Updates(Nat),
         Inited(w), ~w.requesting, ~IsStale(w, u),
         w.queue # {} => w.waitingForSkipped
  PROVE  Outcome(w, u, {}, UpdateAndApplyPosition(w, u))
<1>0. PICK up, r : up = Updated(w, u, {}) /\ r = UpdateAndApplyPosition(w, u)
  OBVIOUS
<1>1. Hears(w, u, {}, up)
  BY <1>0, HeardIs
<1>2. CASE ~up.ok
  <2>1. /\ r.waiter = up.waiter /\ r.timer = up.timer /\ r.applied = {}
    BY <1>0, <1>2 DEF UpdateAndApplyPosition
  <2>2. QED
    BY <1>0, <1>1, <1>2, <2>1 DEF Outcome, Hears
<1>3. CASE up.ok
  <2>1. /\ r.waiter = ApplySkipped(up.waiter).waiter
        /\ r.applied = ApplySkipped(up.waiter).applied
    BY <1>0, <1>3 DEF UpdateAndApplyPosition
  <2>2. /\ up.waiter \in Waiters(Nat)
        /\ up.waiter.queue = w.queue
        /\ up.waiter.queue # {} => up.waiter.waitingForSkipped
    BY <1>1, <1>3 DEF Hears
  <2>3. /\ r.waiter \in Waiters(Nat) /\ r.waiter.good = up.waiter.good
        /\ r.waiter.queue = {} /\ r.applied = up.waiter.queue
        /\ HasGap(r.waiter) <=> HasGap(up.waiter)
    BY <2>1, <2>2, Flushed
  <2>4. QED
    BY <1>0, <1>1, <1>3, <2>2, <2>3 DEF Outcome, Hears
<1>4. QED
  BY <1>2, <1>3

-----------------------------------------------------------------------------
(* A client that counts an update or a position in stays fine.             *)

(* What r makes of c: own is {u} if the update comes with the call, and    *)
(* extra is what was applied before the call otherwise.                    *)
Counted(c, u, own, r, d) ==
  LET extra == IF own = {} THEN Covers(u) ELSE {}
  IN /\ ClientTyped(d)
     /\ SameRest(c, d)
     /\ d.waiter = r.waiter
     /\ d.seen = (c.seen \cup extra) \cup CoversAll(r.applied)
     /\ d.repeated = c.repeated \cup (c.seen \cap CoversAll(r.applied))
     /\ d.byPtsTimer = TimerAfter(c.byPtsTimer, r.timer)

LEMMA WaiterGoesOn ==
  ASSUME NEW c, NEW us, NEW rest, NEW e \in Surroundings, Fine(c, us, e),
         ~c.waiter.requesting,
         NEW u \in us, ~IsStale(c.waiter, u),
         rest \subseteq us, \A v \in rest : Disjoint(u, v),
         NEW own \in {{}, {u}}, NEW r, Outcome(c.waiter, u, own, r),
         NEW d, Counted(c, u, own, r, d),
         \A k : /\ Sound(c.waiter, c.seen, k)
                /\ Fits(c.waiter, u, k)
                => Advances(c.waiter, u, d.waiter, d.seen, k)
  PROVE  Fine(d, rest, e) /\ ~d.waiter.requesting
<1> DEFINE w == c.waiter
           after == d.waiter
<1>0. e.end \in Nat /\ e.good \in Nat
  BY DEF Surroundings
<1>1. /\ w \in Waiters(Nat) /\ w.good \in Nat /\ w.last \in Nat
      /\ w.queue \subseteq Updates(Nat)
      /\ c.seen \subseteq 1 .. e.end
      /\ 1 .. w.good \subseteq c.seen
      /\ c.repeated = {}
  BY DEF Fine, ClientTyped, Learned, Waiters
<1>2. /\ Inited(w)
      /\ \A v \in Ahead(c, us) :
           Around(w.good, v) /\ \A q \in w.queue : Disjoint(q, v)
      /\ \A q \in w.queue : Issued(q, e) /\ Covers(q) \cap c.seen = {}
      /\ w.queue # {} => HasGap(w)
  BY DEF Fine, Counting
<1>3. PICK k : Sound(w, c.seen, k)
  BY DEF Fine, Counting
<1>4. \A v \in Ahead(c, us) :
        /\ Issued(v, e)
        /\ CountsMove => v.count # 0
        /\ Covers(v) \cap c.seen \subseteq 1 .. w.good
  BY DEF Fine, Coming
<1>5. u \in Ahead(c, us)
  BY DEF Ahead
<1>6. /\ u \in Updates(Nat)
      /\ Covers(u) \subseteq 1 .. e.end
      /\ u.pts \in Nat /\ u.count \in Nat
  BY <1>0, <1>4, <1>5, IssuedCovers
<1>7. Covers(u) \cap c.seen = {} /\ \A x \in Covers(u) : w.good < x
  <2>1. CASE u.count = 0
    BY <1>6, <2>1 DEF Covers
  <2>2. CASE u.count # 0
    <3>1. ~(u.pts <= w.good)
      BY <1>6, <2>2 DEF IsStale
    <3>2. \A x \in Covers(u) : w.good < x
      BY <1>0, <1>1, <1>2, <1>4, <1>5, <3>1, IssuedCovers
    <3>3. QED
      BY <1>1, <1>4, <1>5, <3>2
  <2>3. QED
    BY <2>1, <2>2
<1>8. \A q \in w.queue : Covers(q) \cap Covers(u) = {}
  BY <1>2, <1>5 DEF Disjoint
<1>9. Fits(w, u, k)
  <2>1. \A x \in k : w.good < x /\ x \in c.seen \cup CoversAll(w.queue)
    BY <1>1, <1>3 DEF Sound
  <2>2. Covers(u) \cap k = {}
    BY <1>7, <1>8, <2>1 DEF CoversAll
  <2>3. u.count = 0 \/ u.pts <= w.good \/ w.good <= u.pts - u.count
    BY <1>2, <1>5 DEF Around
  <2>4. QED
    BY <2>2, <2>3 DEF Fits
<1>10. Advances(w, u, after, d.seen, k)
  BY <1>3, <1>9
<1>11. /\ after \in Waiters(Nat) /\ ~after.requesting
       /\ after.good \in Nat /\ w.good <= after.good
       /\ (w.good + 1) .. after.good \subseteq d.seen
       /\ \E kk : Sound(after, d.seen, kk)
  BY <1>10 DEF Advances, Waiters
<1>12. /\ c.seen \subseteq d.seen
       /\ d.seen \subseteq c.seen \cup Covers(u) \cup CoversAll(w.queue)
       /\ CoversAll(r.applied) \subseteq Covers(u) \cup CoversAll(w.queue)
       /\ CoversAll(after.queue) \subseteq Covers(u) \cup CoversAll(w.queue)
  <2>1. r.applied \subseteq w.queue \cup {u}
    BY DEF Outcome
  <2>2. after.queue \subseteq w.queue \cup {u}
    BY DEF Outcome, Counted
  <2>3. \A qs : qs \subseteq w.queue \cup {u} =>
          CoversAll(qs) \subseteq Covers(u) \cup CoversAll(w.queue)
    BY DEF CoversAll
  <2>4. CoversAll(r.applied) \subseteq Covers(u) \cup CoversAll(w.queue)
    BY <2>1, <2>3
  <2>5. CoversAll(after.queue) \subseteq Covers(u) \cup CoversAll(w.queue)
    BY <2>2, <2>3
  <2>6. QED
    BY <2>4, <2>5 DEF Counted
<1>13. \A x \in CoversAll(w.queue) : x \in 1 .. e.end /\ x \notin c.seen
  BY <1>0, <1>2, IssuedCovers DEF CoversAll
<1>14. \A v \in Ahead(d, rest) :
         /\ v \in Ahead(c, us)
         /\ Covers(v) \cap Covers(u) = {}
         /\ Covers(v) \cap CoversAll(w.queue) = {}
  <2>1. ASSUME NEW v \in Ahead(d, rest)
        PROVE  v \in Ahead(c, us) /\ Disjoint(u, v)
    <3>1. CASE v \in rest
      BY <3>1 DEF Ahead
    <3>2. CASE v \notin rest
      <4>1. PICK m \in c.bySeq : v \in UpdatesOf(m)
        BY <3>2 DEF Ahead, Counted, SameRest
      <4>2. Disjoint(v, u)
        BY <4>1 DEF Fine, ParkedApart, Apart
      <4>3. QED
        BY <4>1, <4>2 DEF Disjoint, Ahead
    <3>3. QED
      BY <3>1, <3>2
  <2>2. QED
    BY <1>2, <2>1 DEF Disjoint, CoversAll
<1>15. \A v \in Ahead(d, rest) :
         Covers(v) \cap d.seen \subseteq 1 .. w.good
  BY <1>4, <1>12, <1>14
<1>16. \A v \in Ahead(d, rest) : Around(after.good, v)
  <2>1. ASSUME NEW v \in Ahead(d, rest)
        PROVE  Around(after.good, v)
    <3>1. /\ Around(w.good, v)
          /\ v.pts \in Nat /\ v.count \in Nat
          /\ v \in Updates(Nat)
      BY <1>0, <1>2, <1>4, <1>14, <2>1, IssuedCovers
    <3>2. CASE v.pts <= w.good
      BY <1>1, <1>11, <3>1, <3>2 DEF Around
    <3>3. CASE v.count = 0
      BY <1>11, <3>1, <3>3 DEF Around
    <3>4. CASE v.count # 0 /\ w.good <= v.pts - v.count
      <4>1. v.pts - v.count + 1 \in Covers(v)
        BY <3>1, <3>4 DEF Covers
      <4>2. v.pts - v.count + 1 \notin d.seen
        BY <1>1, <1>15, <3>1, <3>4, <4>1
      <4>3. ~(v.pts - v.count + 1 <= after.good)
        BY <1>1, <1>11, <3>1, <3>4, <4>2
      <4>4. QED
        BY <1>11, <3>1, <4>3 DEF Around
    <3>5. QED
      BY <3>1, <3>2, <3>3, <3>4 DEF Around
  <2>2. QED
    BY <2>1
<1>17. /\ d.seq = c.seq /\ d.bySeq = c.bySeq /\ d.seenSeq = c.seenSeq
       /\ d.failTimer = c.failTimer /\ d.sending = c.sending
       /\ ClientTyped(d)
  BY DEF Counted, SameRest
<1>18. Learned(d, e)
  <2>1. d.seen \subseteq 1 .. e.end
    BY <1>1, <1>6, <1>12, <1>13
  <2>2. 1 .. after.good \subseteq d.seen
    BY <1>1, <1>11, <1>12
  <2>3. d.repeated = {}
    BY <1>1, <1>7, <1>12, <1>13 DEF Counted
  <2>4. e.good <= w.good /\ w.good \in Nat /\ e.good <= after.good
    BY <1>0, <1>1, <1>11 DEF Fine, Learned
  <2>5. QED
    BY <1>12, <1>17, <2>1, <2>2, <2>3, <2>4 DEF Fine, Learned
<1>19. Coming(d, rest, e)
  BY <1>1, <1>4, <1>11, <1>14, <1>15 DEF Coming
<1>20. ParkedApart(d, rest, e)
  BY <1>17 DEF Fine, ParkedApart, Apart
<1>21. Counting(d, rest, e)
  <2>1. \E kk \in SUBSET (d.seen \cup CoversAll(after.queue)) :
          Sound(after, d.seen, kk)
    BY <1>11 DEF Sound
  <2>2. Inited(after)
    BY <1>1, <1>2, <1>11 DEF Inited
  <2>3. \A v \in Ahead(d, rest), q \in after.queue : Disjoint(q, v)
    BY <1>12, <1>14 DEF Disjoint, CoversAll
  <2>4. \A q \in after.queue : Issued(q, e) /\ Covers(q) \cap d.seen = {}
    <3>1. CASE after.queue = {}
      BY <3>1
    <3>2. CASE after.queue = w.queue \cup own /\ r.applied = {}
      <4>1. CASE own = {u}
        <5>1. d.seen = c.seen
          BY <3>2, <4>1 DEF Counted, CoversAll
        <5>2. QED
          BY <1>2, <1>4, <1>5, <1>7, <3>2, <4>1, <5>1
      <4>2. CASE own = {}
        <5>1. d.seen = c.seen \cup Covers(u)
          BY <3>2, <4>2 DEF Counted, CoversAll
        <5>2. QED
          BY <1>2, <1>8, <3>2, <4>2, <5>1
      <4>3. QED
        BY <4>1, <4>2
    <3>3. QED
      BY <3>1, <3>2 DEF Outcome, Counted
  <2>5. after.queue # {} => HasGap(after)
    BY DEF Outcome, Counted
  <2>6. after.queue # {} \/ (CountsMove /\ HasGap(after)) => d.byPtsTimer
    <3>1. CountsMove => u.count # 0
      BY <1>4, <1>5
    <3>2. c.byPtsTimer \in BOOLEAN
      BY DEF Fine, ClientTyped
    <3>3. r.timer = "arm" => d.byPtsTimer
      BY <3>2, TimerAfterIs DEF Counted
    <3>4. QED
      BY <3>1, <3>3 DEF Outcome, Counted
  <2>7. QED
    BY <1>11, <1>16, <2>1, <2>2, <2>3, <2>4, <2>5, <2>6 DEF Counting
<1>22. Awaiting(d, e)
  BY <1>11, <1>17 DEF Fine, Awaiting
<1>23. QED
  BY <1>11, <1>17, <1>18, <1>19, <1>20, <1>21, <1>22 DEF Fine

-----------------------------------------------------------------------------
(* Asking for a difference, and feeding updates.                           *)

(* What feeding does to the parked containers: nothing, or they are        *)
(* dropped for a difference; a client that awaits one stands still.        *)
Feeds(c, d) ==
  /\ d.seq = c.seq
  /\ \/ d.bySeq = {}
     \/ /\ d.bySeq = c.bySeq
        /\ d.bySeqTimer = c.bySeqTimer
        /\ d.waiter.requesting = c.waiter.requesting
  /\ c.waiter.requesting => d.waiter = c.waiter

LEMMA RequestingIs ==
  ASSUME NEW w \in Waiters(Nat)
  PROVE  LET asking == SetRequesting(w, TRUE)
         IN /\ asking \in Waiters(Nat)
            /\ asking.requesting
            /\ asking.queue = {}
            /\ asking.good = w.good
BY DEF SetRequesting, ClearSkipped, Waiters

LEMMA GetDifferenceFine ==
  ASSUME NEW c, NEW us, NEW e \in Surroundings, Fine(c, us, e)
  PROVE  LET d == GetDifference(c)
         IN /\ Fine(d, us, e)
            /\ Feeds(c, d)
            /\ d.waiter.requesting
<1>1. PICK d : d = GetDifference(c)
  OBVIOUS
<1>2. CASE c.waiter.requesting
  <2>1. d = [c EXCEPT !.byPtsTimer = FALSE]
    BY <1>1, <1>2 DEF GetDifference, RequestingDifference
  <2>2. /\ ClientTyped(d)
        /\ SameRest(c, d)
        /\ d.waiter = c.waiter /\ d.seen = c.seen /\ d.repeated = c.repeated
    BY <2>1 DEF Fine, ClientTyped, SameRest
  <2>3. Learned(d, e)
    BY <2>2 DEF Fine, Learned, SameRest
  <2>4. Coming(d, us, e) /\ ParkedApart(d, us, e)
    BY <2>2 DEF Fine, Coming, ParkedApart, SameRest, Ahead
  <2>5. Counting(d, us, e)
    BY <1>2, <2>2 DEF Fine, Counting
  <2>6. Awaiting(d, e)
    BY <2>2 DEF Fine, Awaiting, SameRest
  <2>7. QED
    BY <1>1, <1>2, <2>2, <2>3, <2>4, <2>5, <2>6 DEF Fine, Feeds, SameRest
<1>3. CASE ~c.waiter.requesting
  <2> DEFINE question == [kind |-> "difference", pts |-> c.waiter.good]
  <2>1. d = [c EXCEPT !.byPtsTimer = FALSE, !.bySeq = {},
                      !.bySeqTimer = FALSE, !.failTimer = FALSE,
                      !.waiter = SetRequesting(@, TRUE),
                      !.sending = Append(@, question)]
    BY <1>1, <1>3 DEF GetDifference, RequestingDifference
  <2>2. /\ c.waiter \in Waiters(Nat) /\ c.waiter.good \in Nat
        /\ c.sending = <<>> /\ Inited(c.waiter) /\ ~e.out /\ ~c.failTimer
    BY <1>3 DEF Fine, ClientTyped, Waiters, Counting, Awaiting
  <2>3. question \in Questions /\ Append(c.sending, question) = <<question>>
    BY <2>2 DEF Questions
  <2> HIDE DEF question
  <2>4. /\ SetRequesting(c.waiter, TRUE) \in Waiters(Nat)
        /\ SetRequesting(c.waiter, TRUE).requesting
        /\ SetRequesting(c.waiter, TRUE).queue = {}
        /\ SetRequesting(c.waiter, TRUE).good = c.waiter.good
    BY <2>2, RequestingIs
  <2>5. /\ <<question>> \in Seq(Questions) /\ <<question>> # <<>>
        /\ IsFiniteSet({})
    BY <2>3, FS_EmptySet
  <2>6. /\ ClientTyped(d)
        /\ d.waiter = SetRequesting(c.waiter, TRUE)
        /\ d.sending = <<question>>
        /\ d.bySeq = {} /\ ~d.failTimer
        /\ d.seq = c.seq /\ d.seen = c.seen /\ d.seenSeq = c.seenSeq
        /\ d.repeated = c.repeated
    BY <2>1, <2>3, <2>4, <2>5 DEF Fine, ClientTyped
  <2>7. Learned(d, e)
    BY <2>4, <2>6 DEF Fine, Learned
  <2>8. Coming(d, us, e)
    BY <2>4, <2>6 DEF Fine, Coming, Ahead
  <2>9. ParkedApart(d, us, e)
    BY <2>6 DEF ParkedApart
  <2>10. Counting(d, us, e)
    BY <2>4, <2>6 DEF Counting
  <2>11. Awaiting(d, e)
    <3>1. d.waiter.requesting /\ d.waiter.good = c.waiter.good
      BY <2>4, <2>6
    <3>2. Inited(d.waiter)
      BY <2>2, <3>1 DEF Inited
    <3>3. d.sending = <<[kind |-> "difference", pts |-> d.waiter.good]>>
      BY <2>6, <3>1 DEF question
    <3>4. d.sending # <<>>
      BY <2>5, <2>6
    <3>5. QED
      BY <2>2, <2>6, <3>1, <3>2, <3>3, <3>4 DEF Awaiting
  <2>12. QED
    BY <1>1, <1>3, <2>4, <2>6, <2>7, <2>8, <2>9, <2>10, <2>11
    DEF Fine, Feeds
<1>4. QED
  BY <1>2, <1>3

LEMMA RequestingApplies ==
  ASSUME NEW w \in Waiters(Nat), NEW u \in Updates(Nat),
         w.requesting, w.queue = {}
  PROVE  /\ UpdateAndApply(w, u).waiter = w
         /\ UpdateAndApply(w, u).applied = {u}
BY DEF UpdateAndApply, Updated

LEMMA FeedUpdateFine ==
  ASSUME NEW c, NEW us, NEW rest, NEW e \in Surroundings, Fine(c, us, e),
         NEW u \in us, rest \subseteq us, \A v \in rest : Disjoint(u, v),
         NEW strangers
  PROVE  /\ Fine(FeedUpdate(c, u, strangers), rest, e)
         /\ Feeds(c, FeedUpdate(c, u, strangers))
<1> DEFINE w == c.waiter
           stranger == u.pts \in strangers /\ ~w.requesting
<1>0. PICK r : r = UpdateAndApply(w, u)
  OBVIOUS
<1>1. PICK d : d = FeedUpdate(c, u, strangers)
  OBVIOUS
<1>2. /\ w \in Waiters(Nat) /\ e.end \in Nat
      /\ u \in Ahead(c, us) /\ u \in Updates(Nat) /\ Issued(u, e)
      /\ Covers(u) \subseteq 1 .. e.end /\ Covers(u) \subseteq Nat
  <2>1. w \in Waiters(Nat) /\ e.end \in Nat
    BY DEF Fine, ClientTyped, Surroundings
  <2>2. u \in Ahead(c, us) /\ Issued(u, e)
    BY DEF Fine, Coming, Ahead
  <2>3. QED
    BY <2>1, <2>2, IssuedCovers
<1>3. CASE stranger
  <2>1. d = GetDifference(c)
    BY <1>1, <1>3 DEF FeedUpdate, RequestingDifference
  <2>2. Fine(d, us, e) /\ Feeds(c, d)
    BY <2>1, GetDifferenceFine
  <2>3. QED
    BY <1>1, <2>2, FineLess
<1>4. ~stranger => d = Absorb(c, r)
  BY <1>0, <1>1 DEF FeedUpdate, RequestingDifference
<1>5. CASE w.requesting
  <2>1. w.queue = {}
    BY <1>5 DEF Fine, Counting
  <2>2. r.waiter = w /\ r.applied = {u}
    BY <1>0, <1>2, <1>5, <2>1, RequestingApplies
  <2>3. CoversAll(r.applied) = Covers(u)
    BY <2>2 DEF CoversAll
  <2>4. /\ ClientTyped(d) /\ SameRest(c, d)
        /\ d.waiter = w /\ d.seen = c.seen \cup Covers(u)
        /\ d.repeated = c.repeated
    <3>1. Absorbed(c, r, d)
      BY <1>2, <1>4, <1>5, <2>2, <2>3, AbsorbIs DEF Fine
    <3>2. QED
      BY <1>5, <2>2, <2>3, <3>1 DEF Absorbed
  <2>5. Learned(d, e)
    BY <1>2, <2>4 DEF Fine, Learned, SameRest
  <2>6. \A v \in Ahead(d, rest) : v \in Ahead(c, us) /\ Disjoint(v, u)
    BY <2>4 DEF Fine, ParkedApart, Apart, Ahead, SameRest, Disjoint
  <2>7. Coming(d, rest, e)
    BY <2>4, <2>6 DEF Fine, Coming, Disjoint
  <2>8. ParkedApart(d, rest, e)
    BY <2>4 DEF Fine, ParkedApart, Apart, SameRest
  <2>9. Counting(d, rest, e) /\ Awaiting(d, e)
    BY <1>5, <2>1, <2>4 DEF Fine, Counting, Awaiting, SameRest
  <2>10. QED
    BY <1>1, <2>4, <2>5, <2>7, <2>8, <2>9 DEF Fine, Feeds, SameRest
<1>6. CASE ~stranger /\ ~w.requesting /\ IsStale(w, u)
  <2>1. r.waiter = w /\ r.applied = {} /\ r.timer = "keep"
    BY <1>0, <1>2, <1>6 DEF UpdateAndApply, Updated
  <2>2. CoversAll(r.applied) = {}
    BY <2>1 DEF CoversAll
  <2>3. c.byPtsTimer \in BOOLEAN
    BY DEF Fine, ClientTyped
  <2>4. /\ ClientTyped(d) /\ SameRest(c, d)
        /\ d.waiter = w /\ d.seen = c.seen
        /\ d.repeated = c.repeated /\ d.byPtsTimer = c.byPtsTimer
    <3>1. Absorbed(c, r, d)
      BY <1>2, <1>4, <1>6, <2>1, <2>2, AbsorbIs DEF Fine
    <3>2. QED
      BY <1>6, <2>1, <2>2, <2>3, <3>1, TimerAfterIs
      DEF Absorbed, Fine, Learned
  <2>5. Fine(d, us, e)
    BY <2>4 DEF Fine, Learned, Coming, ParkedApart, Counting, Awaiting, Ahead,
      SameRest
  <2>6. QED
    BY <1>1, <2>4, <2>5, FineLess DEF Feeds, SameRest
<1>7. CASE ~stranger /\ ~w.requesting /\ ~IsStale(w, u)
  <2>1. /\ Inited(w)
        /\ w.queue # {} => w.waitingForSkipped
    BY <1>7 DEF Fine, Counting, Sound
  <2>2. Outcome(w, u, {u}, r)
    BY <1>0, <1>2, <1>7, <2>1, UpdateOutcome
  <2>3. CoversAll(r.applied) \subseteq Nat
    <3>1. \A q \in w.queue : Issued(q, e)
      BY <1>7 DEF Fine, Counting
    <3>2. \A q \in w.queue \cup {u} : Covers(q) \subseteq Nat
      BY <1>2, <3>1, IssuedCovers
    <3>3. r.applied \subseteq w.queue \cup {u}
      BY <2>2 DEF Outcome
    <3>4. QED
      BY <3>2, <3>3 DEF CoversAll
  <2>4. r.waiter \in Waiters(Nat)
    BY <2>2 DEF Outcome
  <2>5. Counted(c, u, {u}, r, d)
    <3>1. Absorbed(c, r, d)
      BY <1>4, <1>7, <2>3, <2>4, AbsorbIs DEF Fine
    <3>2. {u} # {}
      OBVIOUS
    <3>3. QED
      BY <1>7, <3>1, <3>2 DEF Absorbed, Counted
  <2>6. \A k : Sound(w, c.seen, k) /\ Fits(w, u, k) =>
                 Advances(w, u, d.waiter, d.seen, k)
    <3>1. d.waiter = r.waiter /\ d.seen = c.seen \cup CoversAll(r.applied)
      BY <2>5 DEF Counted
    <3>2. QED
      BY <1>0, <1>2, <1>7, <2>1, <3>1, UpdateAndApplyAdvances
  <2>7. Fine(d, rest, e) /\ ~d.waiter.requesting
    BY <1>7, <2>2, <2>5, <2>6, WaiterGoesOn
  <2>8. d.waiter.requesting = w.requesting
    BY <1>2, <1>7, <2>7 DEF Fine, ClientTyped, Waiters
  <2>9. QED
    BY <1>1, <1>7, <2>5, <2>7, <2>8 DEF Feeds, Counted, SameRest
<1>8. QED
  BY <1>3, <1>5, <1>6, <1>7

LEMMA FeedsOn ==
  ASSUME NEW b, NEW c, NEW d, Feeds(b, c), Feeds(c, d)
  PROVE  Feeds(b, d)
BY DEF Feeds

LEMMA FeedsNothing ==
  ASSUME NEW c
  PROVE  Feeds(c, c)
BY DEF Feeds

(* A container is fed update by update.                                    *)
LEMMA FeedContainerFine ==
  ASSUME NEW c, NEW us, NEW e \in Surroundings, NEW m \in Bundles,
         Fine(c, us \cup UpdatesOf(m), e),
         Apart(UpdatesOf(m), us), Numbered(m, e.top),
         NEW strangers
  PROVE  /\ Fine(FeedContainer(c, m, strangers), us, e)
         /\ Feeds(c, FeedContainer(c, m, strangers))
<1> DEFINE n == Len(m.list)
           left(i) == us \cup {m.list[j] : j \in (i + 1) .. n}
<1>1. /\ m.kind = "updates" /\ n \in Nat
      /\ UpdatesOf(m) = {m.list[i] : i \in 1 .. n}
      /\ \A i, j \in 1 .. n : i # j => Disjoint(m.list[i], m.list[j])
  BY DEF Bundles, UpdatesOf, Numbered
<1>2. PICK fed :
        /\ fed[0] = c
        /\ \A i \in 1 .. n :
             fed[i] = FeedUpdate(fed[i - 1], m.list[i], strangers)
        /\ FeedContainer(c, m, strangers) = fed[n]
  BY <1>1, FedIs
<1> DEFINE S == {i \in Nat : i <= n => /\ Fine(fed[i], left(i), e)
                                       /\ Feeds(c, fed[i])}
<1>3. 0 \in S
  <2>1. left(0) = us \cup UpdatesOf(m)
    BY <1>1
  <2>2. QED
    BY <1>2, <2>1, FeedsNothing
<1>4. ASSUME NEW i \in Nat, i \in S, i + 1 <= n
      PROVE  Fine(fed[i + 1], left(i + 1), e) /\ Feeds(c, fed[i + 1])
  <2> DEFINE u == m.list[i + 1]
  <2>1. Fine(fed[i], left(i), e) /\ Feeds(c, fed[i])
    BY <1>1, <1>4
  <2>2. fed[i + 1] = FeedUpdate(fed[i], u, strangers)
    BY <1>1, <1>2, <1>4
  <2>3. u \in left(i) /\ left(i + 1) \subseteq left(i)
    BY <1>1, <1>4
  <2>4. ASSUME NEW v \in left(i + 1)
        PROVE  Disjoint(u, v)
    <3>1. CASE v \in us
      BY <1>1, <1>4, <3>1 DEF Apart
    <3>2. CASE v \in {m.list[j] : j \in (i + 2) .. n}
      <4>1. PICK j \in (i + 2) .. n : v = m.list[j]
        BY <3>2
      <4>2. i + 1 \in 1 .. n /\ j \in 1 .. n /\ i + 1 # j
        BY <1>1, <1>4, <4>1
      <4>3. QED
        BY <1>1, <4>1, <4>2
    <3>3. QED
      BY <2>4, <3>1, <3>2
  <2> HIDE DEF u, left
  <2>5. Fine(fed[i + 1], left(i + 1), e) /\ Feeds(fed[i], fed[i + 1])
    BY <2>1, <2>2, <2>3, <2>4, FeedUpdateFine
  <2>6. QED
    BY <2>1, <2>5, FeedsOn
<1>5. n \in S
  <2>1. ASSUME NEW i \in Nat, i \in S
        PROVE  i + 1 \in S
    <3> DEFINE kept == Fine(fed[i + 1], left(i + 1), e) /\ Feeds(c, fed[i + 1])
    <3>1. i + 1 <= n => kept
      BY <1>4, <2>1
    <3> HIDE DEF kept, left
    <3>2. QED
      BY <3>1 DEF kept
  <2> HIDE DEF S
  <2>2. QED
    BY <1>1, <1>3, <2>1, Induction
<1>6. left(n) = us
  BY <1>1
<1>7. Fine(fed[n], us, e) /\ Feeds(c, fed[n])
  <2> HIDE DEF left
  <2>1. QED
    BY <1>1, <1>5, <1>6
<1>8. QED
  BY <1>2, <1>7

-----------------------------------------------------------------------------
(* Parking and draining.                                                   *)

(* What has happened to the parked containers: some are gone and some of   *)
(* ms are added; a client that awaits a difference stands still.           *)
Turns(c, d, ms) ==
  /\ d.bySeq \subseteq c.bySeq \cup ms
  /\ c.waiter.requesting => d.waiter = c.waiter

LEMMA FeedsTurns ==
  ASSUME NEW c, NEW d, NEW ms, Feeds(c, d)
  PROVE  Turns(c, d, ms)
BY DEF Feeds, Turns

LEMMA FeedsTimed ==
  ASSUME NEW c, NEW d, Feeds(c, d), Timed(c)
  PROVE  Timed(d)
BY DEF Feeds, Timed

LEMMA DisjointBothWays ==
  ASSUME NEW us, NEW vs, Apart(us, vs)
  PROVE  Apart(vs, us)
BY DEF Apart, Disjoint

LEMMA ParkFine ==
  ASSUME NEW c, NEW us, NEW e \in Surroundings, NEW m \in Bundles,
         Fine(c, us \cup UpdatesOf(m), e),
         Apart(UpdatesOf(m), us), Numbered(m, e.top),
         m.start \in 1 .. m.seq, c.seq < m.start, Timed(c)
  PROVE  /\ Fine(Park(c, m), us, e)
         /\ Timed(Park(c, m))
         /\ Turns(c, Park(c, m), {m})
<1> DEFINE there == \E parked \in c.bySeq : parked.start = m.start
           more == IF there THEN c.bySeq ELSE c.bySeq \cup {m}
<1>0. PICK d : d = Park(c, m)
  OBVIOUS
<1>1. d = [c EXCEPT !.bySeq = more, !.bySeqTimer = TRUE]
  BY <1>0 DEF Park
<1>2. more \subseteq c.bySeq \cup {m} /\ more \subseteq Bundles
      /\ IsFiniteSet(more)
  BY FS_AddElement DEF Fine, ClientTyped
<1> HIDE DEF more
<1>3. /\ ClientTyped(d)
      /\ d.bySeq = more /\ d.bySeqTimer
      /\ d.waiter = c.waiter /\ d.seq = c.seq /\ d.seen = c.seen
      /\ d.seenSeq = c.seenSeq /\ d.repeated = c.repeated
      /\ d.byPtsTimer = c.byPtsTimer /\ d.failTimer = c.failTimer
      /\ d.sending = c.sending
  BY <1>1, <1>2 DEF Fine, ClientTyped
<1>4. Ahead(d, us) \subseteq Ahead(c, us \cup UpdatesOf(m))
  BY <1>2, <1>3 DEF Ahead
<1>5. Learned(d, e) /\ Coming(d, us, e) /\ Counting(d, us, e)
      /\ Awaiting(d, e)
  BY <1>3, <1>4 DEF Fine, Learned, Coming, Counting, Awaiting
<1>6. ParkedApart(d, us, e)
  <2>1. \A n \in c.bySeq :
          /\ n.start \in 1 .. n.seq
          /\ Numbered(n, e.top)
          /\ Apart(UpdatesOf(n), us)
          /\ Apart(UpdatesOf(n), UpdatesOf(m))
          /\ Apart(UpdatesOf(m), UpdatesOf(n))
          /\ \A o \in c.bySeq : o # n => Apart(UpdatesOf(n), UpdatesOf(o))
    <3>1. \A n \in c.bySeq : Apart(UpdatesOf(n), us \cup UpdatesOf(m))
      BY DEF Fine, ParkedApart
    <3>2. \A n \in c.bySeq : /\ Apart(UpdatesOf(n), us)
                             /\ Apart(UpdatesOf(n), UpdatesOf(m))
      BY <3>1 DEF Apart
    <3>3. QED
      BY <3>2, DisjointBothWays DEF Fine, ParkedApart
  <2>2. QED
    BY <1>2, <1>3, <2>1 DEF ParkedApart
<1>7. Timed(d)
  BY <1>2, <1>3 DEF Timed
<1>8. QED
  BY <1>0, <1>2, <1>3, <1>5, <1>6, <1>7 DEF Fine, Turns

LEMMA UnparkFine ==
  ASSUME NEW c, NEW us, NEW e, Fine(c, us, e), NEW m \in c.bySeq
  PROVE  LET d == [c EXCEPT !.bySeq = @ \ {m}]
         IN /\ Fine(d, us \cup UpdatesOf(m), e)
            /\ d.bySeq = c.bySeq \ {m} /\ d.seq = c.seq
            /\ d.waiter = c.waiter
            /\ Apart(UpdatesOf(m), us)
<1>0. PICK d : d = [c EXCEPT !.bySeq = c.bySeq \ {m}]
  OBVIOUS
<1>1. IsFiniteSet(c.bySeq \ {m})
  BY FS_Subset DEF Fine, ClientTyped
<1>2. /\ ClientTyped(d)
      /\ d.bySeq = c.bySeq \ {m} /\ d.bySeqTimer = c.bySeqTimer
      /\ d.waiter = c.waiter /\ d.seq = c.seq /\ d.seen = c.seen
      /\ d.seenSeq = c.seenSeq /\ d.repeated = c.repeated
      /\ d.byPtsTimer = c.byPtsTimer /\ d.failTimer = c.failTimer
      /\ d.sending = c.sending
  BY <1>0, <1>1 DEF Fine, ClientTyped
<1>3. Ahead(d, us \cup UpdatesOf(m)) \subseteq Ahead(c, us)
  BY <1>2 DEF Ahead
<1>4. /\ Learned(d, e) /\ Coming(d, us \cup UpdatesOf(m), e)
      /\ Counting(d, us \cup UpdatesOf(m), e) /\ Awaiting(d, e)
  BY <1>2, <1>3 DEF Fine, Learned, Coming, Counting, Awaiting
<1>5. /\ ParkedApart(d, us \cup UpdatesOf(m), e)
      /\ Apart(UpdatesOf(m), us)
  BY <1>2 DEF Fine, ParkedApart, Apart
<1>6. QED
  BY <1>0, <1>2, <1>4, <1>5 DEF Fine

(* The container whose turn has come is fed, and seq moves to its number.  *)
LEMMA TakeContainerFine ==
  ASSUME NEW c, NEW us, NEW e \in Surroundings, NEW m \in Bundles,
         Fine(c, us \cup UpdatesOf(m), e),
         Apart(UpdatesOf(m), us), Numbered(m, e.top),
         m.start = c.seq + 1, m.start \in 1 .. m.seq,
         NEW strangers
  PROVE  LET d == TakeContainer(c, m, strangers)
         IN /\ Fine(d, us, e)
            /\ d.bySeq \in {{}, c.bySeq}
            /\ Turns(c, d, {})
            /\ d.seq = m.seq
<1>0. PICK fed, d : /\ fed = FeedContainer(c, m, strangers)
                    /\ d = TakeContainer(c, m, strangers)
  OBVIOUS
<1>1. Fine(fed, us, e) /\ Feeds(c, fed)
  BY <1>0, FeedContainerFine
<1>2. /\ c.seq \in Nat /\ m.seq \in Nat /\ m.seq # 0 /\ m.seq # fed.seq
      /\ fed.seq = c.seq /\ m.seq <= e.top /\ m.start \in Nat /\ e.top \in Nat
  BY <1>1 DEF Fine, ClientTyped, Feeds, Bundles, Numbered, Surroundings
<1>3. d = [fed EXCEPT !.seenSeq = @ \cup (m.start .. m.seq), !.seq = m.seq,
                      !.bySeqTimer = FALSE]
  BY <1>0, <1>2 DEF TakeContainer, MoveSeq, Fine, ClientTyped
<1>4. m.start .. m.seq \subseteq Nat /\ m.start .. m.seq \subseteq 1 .. e.top
  BY <1>2
<1>5. /\ ClientTyped(d)
      /\ d.seq = m.seq /\ d.seenSeq = fed.seenSeq \cup (m.start .. m.seq)
      /\ d.bySeq = fed.bySeq
      /\ d.waiter = fed.waiter /\ d.seen = fed.seen
      /\ d.repeated = fed.repeated
      /\ d.byPtsTimer = fed.byPtsTimer /\ d.failTimer = fed.failTimer
      /\ d.sending = fed.sending
  BY <1>1, <1>2, <1>3, <1>4 DEF Fine, ClientTyped
<1>6. 1 .. m.seq \subseteq d.seenSeq
  <2>1. 1 .. c.seq \subseteq fed.seenSeq
    BY <1>1, <1>2 DEF Fine, Learned
  <2>2. QED
    BY <1>2, <1>5, <2>1
<1>7. Learned(d, e)
  BY <1>1, <1>4, <1>5, <1>6 DEF Fine, Learned
<1>8. Coming(d, us, e) /\ ParkedApart(d, us, e) /\ Counting(d, us, e)
      /\ Awaiting(d, e)
  BY <1>1, <1>5 DEF Fine, Coming, ParkedApart, Counting, Awaiting, Ahead
<1>9. QED
  BY <1>0, <1>1, <1>5, <1>7, <1>8 DEF Fine, Feeds, Turns

(* There is a first container among those that are parked.                 *)
LEMMA FirstParked ==
  ASSUME NEW ms \in SUBSET Bundles, ms # {}
  PROVE  LET first == CHOOSE m \in ms : \A n \in ms : m.start <= n.start
         IN /\ first \in ms
            /\ \A n \in ms : first.start <= n.start
<1> DEFINE T == {m.start : m \in ms}
<1>1. T \subseteq Nat /\ T # {}
  BY DEF Bundles
<1>2. PICK x \in T : \A y \in T : ~(<<y, x>> \in OpToRel(<, Nat))
  <2> HIDE DEF T
  <2>1. QED
    BY <1>1, NatLessThanWellFounded, WFMin, Zenon
<1>3. ASSUME NEW y \in T PROVE x <= y
  <2> HIDE DEF T
  <2>1. x \in Nat /\ y \in Nat
    BY <1>1, <1>3
  <2>2. y \notin T \/ ~(y < x)
    BY <1>2, <2>1 DEF OpToRel
  <2>3. QED
    BY <1>3, <2>1, <2>2
<1>4. \E m \in ms : \A n \in ms : m.start <= n.start
  BY <1>2, <1>3
<1> DEFINE IsFirst(m) == \A n \in ms : m.start <= n.start
           first == CHOOSE m \in ms : IsFirst(m)
<1>5. first \in ms /\ IsFirst(first)
  <2>1. \E m \in ms : IsFirst(m)
    BY <1>4
  <2> HIDE DEF IsFirst
  <2>2. QED
    BY <2>1, Zenon
<1>6. QED
  BY <1>5

(* After some turns: nothing is left, one container fewer for every turn,  *)
(* or the loop has stopped with the timer running.                         *)
Resting(c) ==
  /\ c.bySeqTimer
  /\ \A m \in c.bySeq : c.seq + 1 < m.start

After(c, left) ==
  \/ c.bySeq = {}
  \/ Cardinality(c.bySeq) = left
  \/ Resting(c)

LEMMA DrainOneFine ==
  ASSUME NEW c, NEW us, NEW e \in Surroundings, Fine(c, us, e),
         NEW strangers
  PROVE  LET d == DrainOne(c, strangers)
         IN /\ Fine(d, us, e)
            /\ Turns(c, d, {})
            /\ \A left \in Nat : After(c, left + 1) => After(d, left)
<1> DEFINE first == CHOOSE m \in c.bySeq : \A n \in c.bySeq : m.start <= n.start
           rest  == [c EXCEPT !.bySeq = @ \ {first}]
<1>0. PICK d : d = DrainOne(c, strangers)
  OBVIOUS
<1>1. CASE c.bySeq = {}
  <2>1. d = c
    BY <1>0, <1>1 DEF DrainOne
  <2>2. QED
    BY <1>0, <1>1, <2>1 DEF After, Turns
<1>2. CASE c.bySeq # {}
  <2>1. /\ first \in c.bySeq /\ \A n \in c.bySeq : first.start <= n.start
        /\ c.bySeq \subseteq Bundles /\ IsFiniteSet(c.bySeq)
        /\ first \in Bundles /\ first.start \in Nat /\ c.seq \in Nat
    <3>1. c.bySeq \in SUBSET Bundles /\ IsFiniteSet(c.bySeq) /\ c.seq \in Nat
      BY DEF Fine, ClientTyped
    <3>2. first \in c.bySeq /\ \A n \in c.bySeq : first.start <= n.start
      BY <1>2, <3>1, FirstParked
    <3>3. QED
      BY <3>1, <3>2 DEF Bundles
  <2>2. /\ Cardinality(c.bySeq \ {first}) = Cardinality(c.bySeq) - 1
        /\ Cardinality(c.bySeq) \in Nat
    BY <2>1, FS_RemoveElement, FS_CardinalityType
  <2>3. /\ d = IF first.start > c.seq + 1
                 THEN [c EXCEPT !.bySeqTimer = TRUE]
               ELSE IF first.start <= c.seq
                 THEN rest
               ELSE TakeContainer(rest, first, strangers)
    BY <1>0, <1>2 DEF DrainOne
  <2>4. /\ Fine(rest, us \cup UpdatesOf(first), e)
        /\ rest.bySeq = c.bySeq \ {first} /\ rest.seq = c.seq
        /\ rest.waiter = c.waiter
        /\ Apart(UpdatesOf(first), us)
    BY <2>1, UnparkFine
  <2> HIDE DEF rest, first
  <2>5. CASE first.start > c.seq + 1
    <3>1. d = [c EXCEPT !.bySeqTimer = TRUE]
      BY <2>3, <2>5
    <3>2. /\ ClientTyped(d) /\ d.bySeqTimer
          /\ d.bySeq = c.bySeq
          /\ d.waiter = c.waiter /\ d.seq = c.seq /\ d.seen = c.seen
          /\ d.seenSeq = c.seenSeq /\ d.repeated = c.repeated
          /\ d.byPtsTimer = c.byPtsTimer /\ d.failTimer = c.failTimer
          /\ d.sending = c.sending
      BY <3>1 DEF Fine, ClientTyped
    <3>3. Fine(d, us, e)
      BY <3>2 DEF Fine, Learned, Coming, ParkedApart, Counting, Awaiting,
        Ahead
    <3>4. \A m \in d.bySeq : d.seq + 1 < m.start
      <4>1. ASSUME NEW m \in c.bySeq PROVE c.seq + 1 < m.start
        <5>1. m.start \in Nat /\ first.start <= m.start
          BY <2>1 DEF Bundles
        <5>2. QED
          BY <2>1, <2>5, <5>1
      <4>2. QED
        BY <3>2, <4>1
    <3>5. QED
      BY <1>0, <3>2, <3>3, <3>4 DEF After, Resting, Turns
  <2>6. ASSUME ~(first.start > c.seq + 1), NEW left \in Nat, After(c, left + 1)
        PROVE  Cardinality(c.bySeq \ {first}) = left
    <3>1. ~Resting(c)
      BY <2>1, <2>6 DEF Resting
    <3>2. QED
      BY <1>2, <2>2, <2>6, <3>1 DEF After
  <2>7. CASE ~(first.start > c.seq + 1) /\ first.start <= c.seq
    <3>1. d = rest
      BY <2>3, <2>7
    <3>2. QED
      BY <1>0, <2>4, <2>6, <2>7, <3>1, FineLess DEF After, Turns
  <2>8. CASE ~(first.start > c.seq + 1) /\ ~(first.start <= c.seq)
    <3>1. d = TakeContainer(rest, first, strangers)
      BY <2>3, <2>8
    <3>2. /\ first.start = rest.seq + 1
          /\ first.start \in 1 .. first.seq
          /\ Numbered(first, e.top)
      BY <2>1, <2>4, <2>8 DEF Fine, ParkedApart
    <3>3. /\ Fine(d, us, e)
          /\ d.bySeq \in {{}, rest.bySeq}
          /\ Turns(rest, d, {})
      BY <2>1, <2>4, <3>1, <3>2, TakeContainerFine
    <3>4. QED
      BY <1>0, <2>4, <2>6, <2>8, <3>3 DEF After, Turns
  <2>9. QED
    BY <2>5, <2>7, <2>8
<1>3. QED
  BY <1>1, <1>2

LEMMA TurnsOn ==
  ASSUME NEW b, NEW c, NEW d, NEW ms, Turns(b, c, ms), Turns(c, d, {})
  PROVE  Turns(b, d, ms)
BY DEF Turns

LEMMA DrainFine ==
  ASSUME NEW c, NEW us, NEW e \in Surroundings, Fine(c, us, e),
         NEW strangers
  PROVE  LET d == Drain(c, strangers)
         IN /\ Fine(d, us, e)
            /\ Turns(c, d, {})
            /\ Timed(d)
            /\ d.bySeq = {} \/ Resting(d)
<1> DEFINE n == Cardinality(c.bySeq)
<1>1. n \in Nat
  BY FS_CardinalityType DEF Fine, ClientTyped
<1>2. PICK drained :
        /\ drained[0] = c
        /\ \A i \in 1 .. n : drained[i] = DrainOne(drained[i - 1], strangers)
        /\ Drain(c, strangers) = drained[n]
  BY <1>1, DrainedIs
<1> DEFINE kept(i) == /\ Fine(drained[i], us, e)
                      /\ Turns(c, drained[i], {})
                      /\ After(drained[i], n - i)
           S == {i \in Nat : i <= n => kept(i)}
<1>3. 0 \in S
  <2>1. Turns(c, c, {}) /\ After(c, n - 0)
    BY <1>1 DEF Turns, After
  <2>2. QED
    BY <1>2, <2>1
<1>4. ASSUME NEW i \in Nat, i <= n => kept(i), i + 1 <= n
      PROVE  kept(i + 1)
  <2>1. Fine(drained[i], us, e) /\ Turns(c, drained[i], {})
        /\ After(drained[i], n - i)
    BY <1>1, <1>4
  <2>2. drained[i + 1] = DrainOne(drained[i], strangers)
    BY <1>1, <1>2, <1>4
  <2>3. n - (i + 1) \in Nat /\ (n - (i + 1)) + 1 = n - i
    BY <1>1, <1>4
  <2>4. /\ Fine(drained[i + 1], us, e)
        /\ Turns(drained[i], drained[i + 1], {})
        /\ \A left \in Nat :
             After(drained[i], left + 1) => After(drained[i + 1], left)
    BY <2>1, <2>2, DrainOneFine
  <2>5. After(drained[i + 1], n - (i + 1))
    BY <2>1, <2>3, <2>4
  <2>6. QED
    BY <2>1, <2>4, <2>5, TurnsOn
<1>5. n \in S
  <2>1. ASSUME NEW i \in Nat, i \in S
        PROVE  i + 1 \in S
    <3>1. i + 1 <= n => kept(i + 1)
      BY <1>4, <2>1
    <3> HIDE DEF kept
    <3>2. QED
      BY <3>1
  <2> HIDE DEF S
  <2>2. QED
    BY <1>1, <1>3, <2>1, Induction
<1>6. kept(n)
  <2> HIDE DEF kept
  <2>1. QED
    BY <1>1, <1>5
<1>7. PICK d : d = drained[n]
  OBVIOUS
<1>8. Fine(d, us, e) /\ Turns(c, d, {}) /\ After(d, 0)
  BY <1>1, <1>6, <1>7
<1>9. Timed(d) /\ (d.bySeq = {} \/ Resting(d))
  <2>1. IsFiniteSet(d.bySeq) /\ d.bySeq \subseteq Bundles /\ d.seq \in Nat
    BY <1>8 DEF Fine, ClientTyped
  <2>2. Cardinality(d.bySeq) = 0 => d.bySeq = {}
    BY <2>1, FS_EmptySet
  <2>3. d.bySeq = {} \/ Resting(d)
    BY <1>8, <2>2 DEF After
  <2>4. QED
    BY <2>1, <2>3 DEF Timed, Resting, Bundles
<1>10. QED
  BY <1>2, <1>7, <1>8, <1>9

-----------------------------------------------------------------------------
(* The handlers.                                                           *)

(* What a handler does: the client is fine again, its parked containers    *)
(* are watched, ms at most was added to them, and while it awaits a        *)
(* difference its position stays.                                          *)
Handled(c, d, us, ms, e) ==
  /\ Fine(d, us, e)
  /\ Timed(d)
  /\ d.bySeq \subseteq c.bySeq \cup ms
  /\ c.waiter.requesting => d.waiter.good = c.waiter.good

LEMMA ApplyContainerFine ==
  ASSUME NEW c, NEW us, NEW e \in Surroundings, NEW m \in Bundles,
         Fine(c, us \cup UpdatesOf(m), e), Timed(c),
         Apart(UpdatesOf(m), us), Numbered(m, e.top),
         NEW strangers
  PROVE  Handled(c, ApplyContainer(c, m, strangers), us, {m}, e)
<1>0. PICK d, fed : /\ d = ApplyContainer(c, m, strangers)
                    /\ fed = FeedContainer(c, m, strangers)
  OBVIOUS
<1>1. /\ m.kind = "updates" /\ m.start \in Nat /\ m.seq \in Nat
      /\ c.seq \in Nat
      /\ m.start = 0 \/ m.start \in 1 .. m.seq
  BY DEF Bundles, Numbered, Fine, ClientTyped
<1>2. Fine(fed, us, e) /\ Feeds(c, fed)
  BY <1>0, FeedContainerFine
<1>3. CASE m.start = 0
  <2>1. d = fed
    BY <1>0, <1>3 DEF ApplyContainer
  <2>2. Timed(fed) /\ Turns(c, fed, {m})
    BY <1>2, FeedsTimed, FeedsTurns
  <2>3. QED
    BY <1>0, <1>2, <2>1, <2>2 DEF Handled, Turns
<1>4. CASE m.start # 0 /\ m.start <= c.seq
  <2>1. d = c
    BY <1>0, <1>4 DEF ApplyContainer
  <2>2. QED
    BY <1>0, <2>1, FineLess DEF Handled
<1>5. CASE m.start # 0 /\ m.start > c.seq + 1
  <2>1. d = Park(c, m) /\ c.seq < m.start
    BY <1>0, <1>1, <1>5 DEF ApplyContainer
  <2>2. Fine(d, us, e) /\ Timed(d) /\ Turns(c, d, {m})
    BY <1>1, <1>5, <2>1, ParkFine
  <2>3. QED
    BY <1>0, <2>2 DEF Handled, Turns
<1>6. CASE m.start # 0 /\ m.start = c.seq + 1
  <2> DEFINE taken == TakeContainer(c, m, strangers)
             applied == [fed EXCEPT !.seenSeq = @ \cup (m.start .. m.seq)]
  <2>1. d = SetState(applied, 0, m.seq, strangers)
    BY <1>0, <1>1, <1>6 DEF ApplyContainer
  <2>2. applied.seq = c.seq /\ m.seq \notin {0, c.seq}
    BY <1>1, <1>2, <1>6 DEF Feeds, Fine, ClientTyped
  <2>3. MoveSeq(applied, m.seq) = taken
    BY <1>0 DEF TakeContainer
  <2>4. d = Drain(taken, strangers)
    <3> HIDE DEF applied, taken
    <3>1. QED
      BY <2>1, <2>2, <2>3 DEF SetState
  <2> HIDE DEF taken
  <2>5. Fine(taken, us, e) /\ Turns(c, taken, {})
    BY <1>1, <1>6, TakeContainerFine DEF taken
  <2>6. Fine(d, us, e) /\ Turns(taken, d, {}) /\ Timed(d)
    BY <2>4, <2>5, DrainFine
  <2>7. Turns(c, d, {})
    BY <2>5, <2>6, TurnsOn
  <2>8. QED
    BY <1>0, <2>6, <2>7 DEF Handled, Turns
<1>7. QED
  BY <1>1, <1>3, <1>4, <1>5, <1>6

LEMMA PushReceivedFine ==
  ASSUME NEW c, NEW us, NEW e \in Surroundings, NEW m \in Bundles,
         Fine(c, us \cup UpdatesOf(m), e), Timed(c),
         Apart(UpdatesOf(m), us), Numbered(m, e.top),
         NEW strangers
  PROVE  Handled(c, PushReceived(c, m, strangers), us, {m}, e)
<1>1. CASE c.waiter.requesting
  BY <1>1, FineLess DEF PushReceived, RequestingDifference, Handled
<1>2. CASE ~c.waiter.requesting
  BY <1>2, ApplyContainerFine DEF PushReceived, RequestingDifference
<1>3. QED
  BY <1>1, <1>2

LEMMA AskedFine ==
  ASSUME NEW c, NEW us, NEW e \in Surroundings, Fine(c, us, e),
         \A m \in c.bySeq : c.seq < m.start
  PROVE  Handled(c, GetDifference(c), us, {}, e)
<1>1. PICK d : d = GetDifference(c)
  OBVIOUS
<1>2. Fine(d, us, e) /\ Feeds(c, d) /\ d.waiter.requesting
  BY <1>1, GetDifferenceFine
<1>3. QED
  BY <1>1, <1>2 DEF Handled, Feeds, Timed

LEMMA NewSessionFine ==
  ASSUME NEW c, NEW us, NEW e \in Surroundings, Fine(c, us, e)
  PROVE  Handled(c, MtpNewSessionCreated(c), us, {}, e)
<1>1. PICK d : d = [c EXCEPT !.seq = 0]
  OBVIOUS
<1>2. /\ ClientTyped(d) /\ d.seq = 0
      /\ d.bySeq = c.bySeq
      /\ d.waiter = c.waiter /\ d.seen = c.seen
      /\ d.seenSeq = c.seenSeq /\ d.repeated = c.repeated
      /\ d.byPtsTimer = c.byPtsTimer /\ d.failTimer = c.failTimer
      /\ d.sending = c.sending
  BY <1>1 DEF Fine, ClientTyped
<1>3. Fine(d, us, e)
  BY <1>2 DEF Fine, Learned, Coming, ParkedApart, Counting, Awaiting, Ahead
<1>4. \A m \in d.bySeq : d.seq < m.start
  BY <1>2 DEF Fine, ParkedApart, ClientTyped, Bundles
<1>5. Handled(d, GetDifference(d), us, {}, e)
  BY <1>3, <1>4, AskedFine
<1>6. QED
  BY <1>1, <1>2, <1>5 DEF Handled, MtpNewSessionCreated

LEMMA BySeqTimerFine ==
  ASSUME NEW c, NEW us, NEW e \in Surroundings, Fine(c, us, e), Timed(c)
  PROVE  Handled(c, GetDifference([c EXCEPT !.bySeqTimer = FALSE]), us, {}, e)
<1>1. PICK d : d = [c EXCEPT !.bySeqTimer = FALSE]
  OBVIOUS
<1>2. /\ ClientTyped(d) /\ d.seq = c.seq
      /\ d.bySeq = c.bySeq
      /\ d.waiter = c.waiter /\ d.seen = c.seen
      /\ d.seenSeq = c.seenSeq /\ d.repeated = c.repeated
      /\ d.byPtsTimer = c.byPtsTimer /\ d.failTimer = c.failTimer
      /\ d.sending = c.sending
  BY <1>1 DEF Fine, ClientTyped
<1>3. Fine(d, us, e)
  BY <1>2 DEF Fine, Learned, Coming, ParkedApart, Counting, Awaiting, Ahead
<1>4. Handled(d, GetDifference(d), us, {}, e)
  BY <1>2, <1>3, AskedFine DEF Timed
<1>5. QED
  BY <1>1, <1>2, <1>4 DEF Handled

LEMMA AffectedReceivedFine ==
  ASSUME NEW c, NEW us, NEW rest, NEW e \in Surroundings, Fine(c, us, e),
         Timed(c), NEW u \in us, rest \subseteq us,
         \A v \in rest : Disjoint(u, v)
  PROVE  Handled(c, AffectedReceived(c, u), rest, {}, e)
<1> DEFINE w == c.waiter
<1>0. PICK r, absorbed, d :
        /\ r = UpdateAndApplyPosition(w, u)
        /\ absorbed = Absorb(c, r)
        /\ d = AffectedReceived(c, u)
  OBVIOUS
<1>1. /\ w \in Waiters(Nat) /\ e.end \in Nat
      /\ u \in Ahead(c, us) /\ u \in Updates(Nat) /\ Issued(u, e)
      /\ Covers(u) \subseteq 1 .. e.end /\ Covers(u) \subseteq Nat
  <2>1. w \in Waiters(Nat) /\ e.end \in Nat
    BY DEF Fine, ClientTyped, Surroundings
  <2>2. u \in Ahead(c, us) /\ Issued(u, e)
    BY DEF Fine, Coming, Ahead
  <2>3. QED
    BY <2>1, <2>2, IssuedCovers
<1>2. d = [absorbed EXCEPT !.seen = @ \cup Covers(u)]
  BY <1>0 DEF AffectedReceived
<1>3. ASSUME Absorbed(c, r, absorbed)
      PROVE  /\ ClientTyped(d)
             /\ SameRest(c, d)
             /\ d.waiter = r.waiter
             /\ d.seen = absorbed.seen \cup Covers(u)
             /\ d.repeated = absorbed.repeated
             /\ d.byPtsTimer = absorbed.byPtsTimer
  BY <1>1, <1>2, <1>3 DEF Absorbed, ClientTyped, SameRest
<1>4. CASE w.requesting
  <2>1. w.queue = {}
    BY <1>4 DEF Fine, Counting
  <2>2. SameSums(w, r.waiter) /\ r.applied = {}
    BY <1>0, <1>1, <1>4, <2>1, RequestingIgnores
  <2>3. CoversAll(r.applied) = {}
    BY <2>2 DEF CoversAll
  <2>4. Absorbed(c, r, absorbed)
    BY <1>0, <2>2, <2>3, AbsorbIs DEF SameSums, Fine
  <2>5. /\ ClientTyped(d) /\ SameRest(c, d)
        /\ d.waiter = r.waiter /\ d.seen = c.seen \cup Covers(u)
        /\ d.repeated = c.repeated
    BY <1>3, <1>4, <2>3, <2>4 DEF Absorbed
  <2>6. Learned(d, e)
    BY <1>1, <2>2, <2>5 DEF Fine, Learned, SameRest, SameSums
  <2>7. \A v \in Ahead(d, rest) : v \in Ahead(c, us) /\ Disjoint(v, u)
    BY <2>5 DEF Fine, ParkedApart, Apart, Ahead, SameRest, Disjoint
  <2>8. Coming(d, rest, e)
    BY <2>2, <2>5, <2>7 DEF Fine, Coming, Disjoint, SameSums
  <2>9. ParkedApart(d, rest, e)
    BY <2>5 DEF Fine, ParkedApart, Apart, SameRest
  <2>10. Counting(d, rest, e) /\ Awaiting(d, e)
    BY <1>4, <2>1, <2>2, <2>5
    DEF Fine, Counting, Awaiting, SameRest, SameSums, Inited
  <2>11. Timed(d)
    BY <1>4, <2>2, <2>5 DEF Timed, SameRest, SameSums
  <2>12. QED
    BY <1>0, <2>2, <2>5, <2>6, <2>8, <2>9, <2>10, <2>11
    DEF Fine, Handled, SameRest, SameSums
<1>5. CASE ~w.requesting /\ IsStale(w, u)
  <2>1. r.waiter = w /\ r.applied = {} /\ r.timer = "keep"
    BY <1>0, <1>1, <1>5 DEF UpdateAndApplyPosition, Updated
  <2>2. CoversAll(r.applied) = {}
    BY <2>1 DEF CoversAll
  <2>3. Absorbed(c, r, absorbed)
    BY <1>0, <1>1, <2>1, <2>2, AbsorbIs DEF Fine
  <2>4. c.byPtsTimer \in BOOLEAN
    BY DEF Fine, ClientTyped
  <2>5. Covers(u) \subseteq c.seen
    <3>1. u.pts <= w.good /\ 1 .. w.good \subseteq c.seen /\ w.good \in Nat
      BY <1>1, <1>5 DEF IsStale, Fine, Learned, Waiters
    <3>2. QED
      BY <1>1, <3>1 DEF Covers, Updates, Issued
  <2>6. /\ ClientTyped(d) /\ SameRest(c, d)
        /\ d.waiter = w /\ d.seen = c.seen
        /\ d.repeated = c.repeated /\ d.byPtsTimer = c.byPtsTimer
    <3>1. absorbed.seen = c.seen /\ absorbed.repeated = c.repeated
          /\ absorbed.byPtsTimer = c.byPtsTimer
      BY <1>5, <2>1, <2>2, <2>3, <2>4, TimerAfterIs
      DEF Absorbed, Fine, Learned
    <3>2. QED
      BY <1>3, <2>1, <2>3, <2>5, <3>1
  <2>7. Fine(d, us, e)
    BY <2>6 DEF Fine, Learned, Coming, ParkedApart, Counting, Awaiting, Ahead,
      SameRest
  <2>8. Timed(d) /\ Fine(d, rest, e)
    BY <2>6, <2>7, FineLess DEF Timed, SameRest
  <2>9. QED
    BY <1>0, <2>6, <2>8 DEF Handled, SameRest
<1>6. CASE ~w.requesting /\ ~IsStale(w, u)
  <2>1. /\ Inited(w)
        /\ w.queue # {} => w.waitingForSkipped
    BY <1>6 DEF Fine, Counting, Sound
  <2>2. Outcome(w, u, {}, r)
    BY <1>0, <1>1, <1>6, <2>1, PositionOutcome
  <2>3. CoversAll(r.applied) \subseteq Nat
    <3>1. \A q \in w.queue : Issued(q, e)
      BY <1>6 DEF Fine, Counting
    <3>2. \A q \in w.queue : Covers(q) \subseteq Nat
      BY <1>1, <3>1, IssuedCovers
    <3>3. r.applied \subseteq w.queue
      BY <2>2 DEF Outcome
    <3>4. QED
      BY <3>2, <3>3 DEF CoversAll
  <2>4. Absorbed(c, r, absorbed)
    BY <1>0, <2>2, <2>3, AbsorbIs DEF Fine, Outcome
  <2>5. /\ ClientTyped(d) /\ SameRest(c, d) /\ d.waiter = r.waiter
        /\ d.seen = (c.seen \cup Covers(u)) \cup CoversAll(r.applied)
        /\ d.repeated = c.repeated \cup (c.seen \cap CoversAll(r.applied))
        /\ d.byPtsTimer = TimerAfter(c.byPtsTimer, r.timer)
    BY <1>3, <1>6, <2>4 DEF Absorbed
  <2>6. Counted(c, u, {}, r, d)
    BY <2>5 DEF Counted
  <2>7. \A k : Sound(w, c.seen, k) /\ Fits(w, u, k) =>
                 Advances(w, u, d.waiter, d.seen, k)
    <3>1. /\ d.waiter = UpdateAndApplyPosition(w, u).waiter
          /\ d.seen = (c.seen \cup Covers(u))
               \cup CoversAll(UpdateAndApplyPosition(w, u).applied)
      BY <1>0, <2>5
    <3>2. QED
      BY <1>1, <1>6, <2>1, <3>1, UpdateAndApplyPositionAdvances
  <2>8. Fine(d, rest, e) /\ ~d.waiter.requesting
    BY <1>6, <2>2, <2>6, <2>7, WaiterGoesOn
  <2>9. Timed(d)
    BY <1>6, <2>5 DEF Timed, SameRest
  <2>10. QED
    BY <1>0, <1>6, <2>5, <2>8, <2>9 DEF Handled, SameRest
<1>7. QED
  BY <1>4, <1>5, <1>6

-----------------------------------------------------------------------------
(* The answers.                                                            *)

LEMMA InitIs ==
  ASSUME NEW w \in Waiters(Nat), NEW pts \in Nat
  PROVE  /\ InitAt(w, pts) \in Waiters(Nat)
         /\ InitAt(w, pts).good = pts
         /\ InitAt(w, pts).queue = {}
         /\ InitAt(w, pts).requesting = w.requesting
         /\ StartsAt(SetRequesting(InitAt(w, pts), FALSE), pts)
BY DEF InitAt, ClearSkipped, SetRequesting, StartsAt, Waiters

(* b is c with what an answer brings: everything up to pts and seq.        *)
Brings(c, b, pts, seq) ==
  /\ ClientTyped(b)
  /\ b.waiter = c.waiter
  /\ b.seq = c.seq
  /\ b.bySeq = c.bySeq
  /\ b.byPtsTimer = c.byPtsTimer
  /\ b.failTimer = c.failTimer
  /\ b.sending = c.sending
  /\ b.repeated = c.repeated
  /\ c.seen \subseteq b.seen
  /\ b.seen \subseteq c.seen \cup 1 .. pts
  /\ 1 .. pts \subseteq b.seen
  /\ b.seenSeq = c.seenSeq \cup 1 .. seq

LEMMA StatedFine ==
  ASSUME NEW c, NEW us, NEW e \in Surroundings, Fine(c, us, e), Timed(c),
         e.out,
         NEW pts \in 1 .. e.end, c.waiter.good <= pts,
         NEW seq \in 1 .. e.top, \A m \in c.bySeq : m.seq <= seq,
         NEW b, Brings(c, b, pts, seq), NEW strangers
  PROVE  LET d == SetState(b, pts, seq, strangers)
         IN /\ Fine(d, us, e)
            /\ d.waiter = InitAt(c.waiter, pts)
            /\ d.bySeq \subseteq c.bySeq
            /\ \A m \in d.bySeq : d.seq < m.start
            /\ d.bySeq = {} \/ d.bySeqTimer
<1>0. PICK positioned, moved, d :
        /\ positioned = [b EXCEPT !.waiter = InitAt(@, pts)]
        /\ moved = MoveSeq(positioned, seq)
        /\ d = SetState(b, pts, seq, strangers)
  OBVIOUS
<1>1. /\ pts \in Nat /\ pts # 0 /\ seq \in Nat /\ seq # 0
      /\ e.end \in Nat /\ e.top \in Nat
      /\ c.waiter \in Waiters(Nat) /\ c.waiter.good \in Nat
      /\ c.waiter.queue = {} /\ c.waiter.requesting
      /\ c.seq \in Nat
      /\ c.sending = <<>> /\ ~c.failTimer
  BY DEF Surroundings, Fine, ClientTyped, Waiters, Counting, Awaiting
<1>2. /\ InitAt(c.waiter, pts) \in Waiters(Nat)
      /\ InitAt(c.waiter, pts).good = pts
      /\ InitAt(c.waiter, pts).queue = {}
      /\ InitAt(c.waiter, pts).requesting
  BY <1>1, InitIs
<1>3. /\ ClientTyped(positioned)
      /\ positioned.waiter = InitAt(c.waiter, pts)
      /\ positioned.seq = c.seq /\ positioned.bySeq = c.bySeq
      /\ positioned.byPtsTimer = c.byPtsTimer
      /\ positioned.failTimer = c.failTimer
      /\ positioned.sending = c.sending
      /\ positioned.repeated = c.repeated
      /\ positioned.seen = b.seen /\ positioned.seenSeq = b.seenSeq
  BY <1>0, <1>2 DEF Brings, ClientTyped
<1>4. Learned(positioned, e)
  <2>1. b.seen \subseteq 1 .. e.end
    BY <1>1 DEF Brings, Fine, Learned
  <2>2. b.seenSeq \subseteq 1 .. e.top
    BY <1>1 DEF Brings, Fine, Learned
  <2>3. e.good <= pts
    BY <1>1 DEF Fine, Learned, Surroundings
  <2>4. QED
    BY <1>2, <1>3, <2>1, <2>2, <2>3 DEF Brings, Fine, Learned
<1>5. Ahead(positioned, us) = Ahead(c, us)
  BY <1>3 DEF Ahead
<1>6. Coming(positioned, us, e)
  <2>1. \A u \in Ahead(c, us) : Covers(u) \cap b.seen \subseteq 1 .. pts
    BY <1>1 DEF Brings, Fine, Coming
  <2>2. QED
    BY <1>2, <1>3, <1>5, <2>1 DEF Fine, Coming
<1>7. ParkedApart(positioned, us, e) /\ Counting(positioned, us, e)
  BY <1>2, <1>3 DEF Fine, ParkedApart, Counting
<1>8. Awaiting(positioned, e)
  BY <1>1, <1>2, <1>3 DEF Awaiting
<1>9. Fine(positioned, us, e)
  BY <1>3, <1>4, <1>6, <1>7, <1>8 DEF Fine
<1>10. CASE seq = c.seq
  <2>1. d = positioned
    BY <1>0, <1>1, <1>3, <1>10 DEF SetState, Brings
  <2>2. c.bySeq = {}
    <3>1. ASSUME NEW m \in c.bySeq PROVE FALSE
      <4>1. /\ m.start \in 1 .. m.seq /\ m.seq <= seq /\ c.seq < m.start
            /\ m.seq \in Nat
        BY <3>1 DEF Fine, ParkedApart, Timed, ClientTyped, Bundles
      <4>2. QED
        BY <1>1, <1>10, <4>1
    <3>2. QED
      BY <3>1
  <2>3. QED
    BY <1>0, <1>3, <1>9, <2>1, <2>2
<1>11. CASE seq # c.seq
  <2>1. d = Drain(moved, strangers)
    BY <1>0, <1>1, <1>3, <1>11 DEF SetState, Brings
  <2>2. moved = [positioned EXCEPT !.seq = seq, !.bySeqTimer = FALSE]
    BY <1>0, <1>1, <1>3, <1>11 DEF MoveSeq
  <2>3. /\ ClientTyped(moved)
        /\ moved.waiter = positioned.waiter
        /\ moved.seq = seq /\ moved.bySeq = positioned.bySeq
        /\ moved.byPtsTimer = positioned.byPtsTimer
        /\ moved.failTimer = positioned.failTimer
        /\ moved.sending = positioned.sending
        /\ moved.repeated = positioned.repeated
        /\ moved.seen = positioned.seen
        /\ moved.seenSeq = positioned.seenSeq
    BY <1>1, <1>3, <2>2 DEF ClientTyped
  <2>4. Learned(moved, e)
    <3>1. 1 .. seq \subseteq moved.seenSeq
      BY <1>3, <2>3 DEF Brings
    <3>2. QED
      BY <1>4, <2>3, <3>1 DEF Learned
  <2>5. Fine(moved, us, e)
    BY <1>9, <2>3, <2>4
    DEF Fine, Coming, ParkedApart, Counting, Awaiting, Ahead
  <2>6. /\ Fine(d, us, e) /\ Turns(moved, d, {}) /\ Timed(d)
        /\ d.bySeq = {} \/ Resting(d)
    BY <2>1, <2>5, DrainFine
  <2>7. d.bySeq = {} \/ d.bySeqTimer
    BY <2>6 DEF Resting
  <2>8. QED
    BY <1>0, <1>2, <1>3, <2>3, <2>6, <2>7 DEF Turns, Timed
<1>12. QED
  BY <1>10, <1>11


(* Once the answer is dealt with no request is unanswered.                 *)
Quiet(e) == [e EXCEPT !.out = FALSE]

LEMMA QuietIs ==
  ASSUME NEW e \in Surroundings
  PROVE  /\ Quiet(e) \in Surroundings
         /\ ~Quiet(e).out
         /\ Quiet(e).end = e.end /\ Quiet(e).top = e.top
         /\ Quiet(e).deaf = e.deaf
         /\ Quiet(e).good = e.good /\ Quiet(e).seen = e.seen
BY DEF Quiet, Surroundings

LEMMA FinishFine ==
  ASSUME NEW c, NEW us, NEW e \in Surroundings, Fine(c, us, e), Timed(c),
         e.out,
         NEW pts \in 1 .. e.end, c.waiter.good <= pts,
         NEW seq \in 1 .. e.top, \A m \in c.bySeq : m.seq <= seq,
         \A u \in Ahead(c, us) : Around(pts, u),
         NEW b, Brings(c, b, pts, seq), NEW strangers
  PROVE  /\ Fine(Finish(b, pts, seq, strangers), us, Quiet(e))
         /\ Timed(Finish(b, pts, seq, strangers))
<1>0. PICK stated, w, d, q :
        /\ stated = SetState(b, pts, seq, strangers)
        /\ w = SetRequesting(InitAt(c.waiter, pts), FALSE)
        /\ d = Finish(b, pts, seq, strangers)
        /\ q = Quiet(e)
  OBVIOUS
<1>1. /\ Fine(stated, us, e)
      /\ stated.waiter = InitAt(c.waiter, pts)
      /\ stated.bySeq \subseteq c.bySeq
      /\ \A m \in stated.bySeq : stated.seq < m.start
      /\ stated.bySeq = {} \/ stated.bySeqTimer
  BY <1>0, StatedFine
<1>2. /\ c.waiter \in Waiters(Nat) /\ pts \in Nat /\ pts > 0
      /\ ~c.failTimer
  BY DEF Fine, ClientTyped, Surroundings, Awaiting
<1>3. /\ stated.waiter \in Waiters(Nat) /\ stated.waiter.good = pts
      /\ StartsAt(w, pts)
  <2>1. /\ InitAt(c.waiter, pts) \in Waiters(Nat)
        /\ InitAt(c.waiter, pts).good = pts
        /\ StartsAt(SetRequesting(InitAt(c.waiter, pts), FALSE), pts)
    BY <1>2, InitIs
  <2>2. QED
    BY <1>0, <1>1, <2>1
<1>4. /\ w \in Waiters(Nat) /\ ~w.requesting /\ w.good = pts
      /\ w.queue = {} /\ Inited(w) /\ ~HasGap(w)
  BY <1>2, <1>3 DEF StartsAt, Inited, HasGap
<1>5. stated.sending = <<>> /\ ~stated.failTimer
  BY <1>1 DEF Fine, Awaiting
<1>6. d = [stated EXCEPT !.waiter = w]
  BY <1>0, <1>1 DEF Finish
<1>7. /\ ClientTyped(d)
      /\ d.waiter = w /\ d.seq = stated.seq /\ d.bySeq = stated.bySeq
      /\ d.bySeqTimer = stated.bySeqTimer
      /\ d.failTimer = stated.failTimer /\ d.sending = stated.sending
      /\ d.seen = stated.seen /\ d.seenSeq = stated.seenSeq
      /\ d.repeated = stated.repeated
  BY <1>1, <1>4, <1>6 DEF Fine, ClientTyped
<1>8. /\ q \in Surroundings /\ ~q.out
      /\ q.end = e.end /\ q.top = e.top /\ q.deaf = e.deaf
      /\ q.good = e.good /\ q.seen = e.seen
  BY <1>0, QuietIs
<1>9. Learned(d, q)
  BY <1>1, <1>3, <1>4, <1>7, <1>8 DEF Fine, Learned
<1>10. Coming(d, us, q)
  BY <1>1, <1>3, <1>4, <1>7, <1>8 DEF Fine, Coming, Ahead, Issued
<1>11. ParkedApart(d, us, q)
  BY <1>1, <1>7, <1>8 DEF Fine, ParkedApart
<1>12. Counting(d, us, q)
  <2>1. \A u \in Ahead(d, us) : Around(pts, u)
    BY <1>1, <1>7 DEF Ahead
  <2>2. Sound(w, d.seen, {})
    BY <1>2, <1>3, StartIsSound
  <2>3. {} \in SUBSET (d.seen \cup CoversAll(w.queue))
    OBVIOUS
  <2>4. QED
    BY <1>4, <1>7, <2>1, <2>2, <2>3 DEF Counting
<1>13. Awaiting(d, q)
  BY <1>4, <1>5, <1>7, <1>8 DEF Awaiting
<1>14. Timed(d)
  BY <1>1, <1>7 DEF Timed
<1>15. QED
  BY <1>0, <1>7, <1>9, <1>10, <1>11, <1>12, <1>13, <1>14 DEF Fine

(* The next difference is asked for where the last one has ended.          *)
LEMMA AskAgainFine ==
  ASSUME NEW c, NEW us, NEW e \in Surroundings, Fine(c, us, e),
         c.waiter.requesting, Inited(c.waiter), c.sending = <<>>,
         NEW q \in Surroundings, ~q.out, q.end = e.end, q.top = e.top,
         q.good = e.good, q.seen = e.seen
  PROVE  LET d == GetDifference([c EXCEPT
                                   !.waiter = SetRequesting(@, FALSE)])
         IN /\ Fine(d, us, q)
            /\ Timed(d)
            /\ d.bySeq = {}
            /\ d.waiter.good = c.waiter.good
<1>0. PICK b, d, w, question :
        /\ b = [c EXCEPT !.waiter = SetRequesting(@, FALSE)]
        /\ d = GetDifference(b)
        /\ w = SetRequesting(b.waiter, TRUE)
        /\ question = [kind |-> "difference", pts |-> c.waiter.good]
  OBVIOUS
<1>1. /\ SetRequesting(c.waiter, FALSE) \in Waiters(Nat)
      /\ ~SetRequesting(c.waiter, FALSE).requesting
      /\ SetRequesting(c.waiter, FALSE).good = c.waiter.good
      /\ c.waiter.good \in Nat
  BY DEF Fine, ClientTyped, SetRequesting, Waiters
<1>2. /\ ClientTyped(b)
      /\ b.waiter = SetRequesting(c.waiter, FALSE) /\ b.sending = <<>>
      /\ b.seq = c.seq /\ b.seen = c.seen /\ b.seenSeq = c.seenSeq
      /\ b.repeated = c.repeated
  BY <1>0, <1>1 DEF Fine, ClientTyped
<1>3. /\ w \in Waiters(Nat) /\ w.requesting /\ w.queue = {}
      /\ w.good = c.waiter.good /\ Inited(w)
  BY <1>0, <1>1, <1>2, RequestingIs DEF Inited
<1>4. /\ question \in Questions
      /\ Append(b.sending, question) = <<question>>
      /\ <<question>> \in Seq(Questions) /\ <<question>> # <<>>
      /\ IsFiniteSet({})
  <2>1. question \in Questions
    BY <1>0, <1>1 DEF Questions
  <2>2. QED
    BY <1>2, <2>1, FS_EmptySet
<1>5. d = [b EXCEPT !.byPtsTimer = FALSE, !.bySeq = {},
                    !.bySeqTimer = FALSE, !.failTimer = FALSE,
                    !.waiter = w, !.sending = <<question>>]
  BY <1>0, <1>1, <1>2, <1>4 DEF GetDifference, RequestingDifference
<1>6. /\ ClientTyped(d)
      /\ d.waiter = w /\ d.sending = <<question>>
      /\ d.bySeq = {} /\ ~d.failTimer
      /\ d.seq = c.seq /\ d.seen = c.seen /\ d.seenSeq = c.seenSeq
      /\ d.repeated = c.repeated
  BY <1>2, <1>3, <1>4, <1>5 DEF ClientTyped
<1>7. Learned(d, q)
  BY <1>3, <1>6 DEF Fine, Learned
<1>8. Coming(d, us, q)
  BY <1>3, <1>6 DEF Fine, Coming, Ahead, Issued
<1>9. ParkedApart(d, us, q) /\ Counting(d, us, q) /\ Timed(d)
  BY <1>3, <1>6 DEF ParkedApart, Counting, Timed
<1>10. Awaiting(d, q)
  BY <1>0, <1>3, <1>4, <1>6 DEF Awaiting
<1>11. QED
  BY <1>0, <1>3, <1>6, <1>7, <1>8, <1>9, <1>10 DEF Fine
(* What an answer says, for a client that awaits it.                       *)
Follows(c, us, e, a) ==
  /\ a \in Replies
  /\ a.request.pts = c.waiter.good
  /\ a.kind \notin {"state", "refused"} => Inited(c.waiter)
  /\ a.kind = "refused" => e.deaf
  /\ a.kind \in {"state", "empty", "slice", "difference"} =>
       /\ a.pts \in 1 .. e.end
       /\ c.waiter.good <= a.pts
       /\ a.seq \in 1 .. e.top
       /\ \A m \in c.bySeq : m.seq <= a.seq
  /\ a.kind \in {"state", "empty", "difference"} =>
       \A u \in Ahead(c, us) : Around(a.pts, u)
  /\ a.kind = "empty" => a.pts = c.waiter.good

LEMMA BringsIs ==
  ASSUME NEW c, NEW us, NEW e \in Surroundings, Fine(c, us, e),
         NEW pts \in 1 .. e.end, NEW seq \in 1 .. e.top,
         NEW seen, c.seen \subseteq seen,
         seen \subseteq c.seen \cup 1 .. pts, 1 .. pts \subseteq seen
  PROVE  Brings(c, [c EXCEPT !.seen = seen, !.seenSeq = @ \cup (1 .. seq)],
                pts, seq)
<1>1. PICK b : b = [c EXCEPT !.seen = seen, !.seenSeq = @ \cup (1 .. seq)]
  OBVIOUS
<1>2. seen \subseteq Nat /\ 1 .. seq \subseteq Nat
  BY DEF Fine, ClientTyped, Surroundings
<1>3. c.seenSeq \cup 1 .. seq \in SUBSET Nat
  BY <1>2 DEF Fine, ClientTyped
<1>4. QED
  BY <1>1, <1>2, <1>3 DEF Fine, ClientTyped, Brings

LEMMA StateDoneFine ==
  ASSUME NEW c, NEW us, NEW e \in Surroundings, Fine(c, us, e), Timed(c),
         e.out, NEW a, Follows(c, us, e, a), a.kind = "state", NEW strangers
  PROVE  /\ Fine(StateDone(c, a, strangers), us, Quiet(e))
         /\ Timed(StateDone(c, a, strangers))
<1>0. PICK b : b = [c EXCEPT !.seen = @ \cup (1 .. a.pts),
                             !.seenSeq = @ \cup (1 .. a.seq)]
  OBVIOUS
<1>1. /\ a.pts \in 1 .. e.end /\ c.waiter.good <= a.pts
      /\ a.seq \in 1 .. e.top /\ \A m \in c.bySeq : m.seq <= a.seq
      /\ \A u \in Ahead(c, us) : Around(a.pts, u)
  BY DEF Follows
<1>2. Brings(c, b, a.pts, a.seq)
  <2>1. PICK seen : seen = c.seen \cup 1 .. a.pts
    OBVIOUS
  <2>2. b = [c EXCEPT !.seen = seen, !.seenSeq = @ \cup (1 .. a.seq)]
    BY <1>0, <2>1
  <2>3. QED
    BY <1>1, <2>1, <2>2, BringsIs
<1>3. StateDone(c, a, strangers) = Finish(b, a.pts, a.seq, strangers)
  BY <1>0 DEF StateDone
<1>4. QED
  BY <1>1, <1>2, <1>3, FinishFine

LEMMA FeedDifferenceBrings ==
  ASSUME NEW c, NEW us, NEW e \in Surroundings, Fine(c, us, e),
         NEW a, Follows(c, us, e, a), a.kind \in {"slice", "difference"}
  PROVE  Brings(c, FeedDifference(c, a), a.pts, a.seq)
<1>1. PICK seen : seen = c.seen \cup ((a.request.pts + 1) .. a.pts)
  OBVIOUS
<1>2. /\ a.pts \in 1 .. e.end /\ a.seq \in 1 .. e.top
      /\ c.waiter.good \in Nat /\ c.waiter.good <= a.pts
      /\ a.request.pts = c.waiter.good
      /\ 1 .. c.waiter.good \subseteq c.seen
  BY DEF Follows, Fine, Learned, ClientTyped, Waiters
<1>3. /\ c.seen \subseteq seen /\ seen \subseteq c.seen \cup 1 .. a.pts
      /\ 1 .. a.pts \subseteq seen
  BY <1>1, <1>2 DEF Surroundings
<1>4. PICK b :
        b = [c EXCEPT !.seen = seen, !.seenSeq = @ \cup (1 .. a.seq)]
  OBVIOUS
<1>5. Brings(c, b, a.pts, a.seq)
  BY <1>2, <1>3, <1>4, BringsIs
<1>6. FeedDifference(c, a) = b
  BY <1>1, <1>4 DEF FeedDifference
<1>7. QED
  BY <1>5, <1>6

LEMMA DifferenceDoneFine ==
  ASSUME NEW c, NEW us, NEW e \in Surroundings, Fine(c, us, e), Timed(c),
         e.out, NEW a, Follows(c, us, e, a),
         a.kind \in {"empty", "slice", "difference", "refused"},
         NEW strangers
  PROVE  /\ Fine(DifferenceDone(c, a, strangers), us, Quiet(e))
         /\ Timed(DifferenceDone(c, a, strangers))
<1>1. CASE a.kind = "empty"
  <2>0. PICK b : b = [c EXCEPT !.seenSeq = @ \cup (1 .. a.seq)]
    OBVIOUS
  <2>1. /\ a.pts \in 1 .. e.end /\ c.waiter.good = a.pts
        /\ c.waiter.good <= a.pts
        /\ a.seq \in 1 .. e.top /\ \A m \in c.bySeq : m.seq <= a.seq
        /\ \A u \in Ahead(c, us) : Around(a.pts, u)
        /\ 1 .. a.pts \subseteq c.seen
    BY <1>1 DEF Follows, Fine, Learned
  <2>2. Brings(c, b, a.pts, a.seq)
    <3>1. b = [c EXCEPT !.seen = c.seen, !.seenSeq = @ \cup (1 .. a.seq)]
      BY <2>0 DEF Fine, ClientTyped
    <3>2. QED
      BY <2>1, <3>1, BringsIs
  <2>3. DifferenceDone(c, a, strangers) = Finish(b, a.pts, a.seq, strangers)
    BY <1>1, <2>0, <2>1 DEF DifferenceDone
  <2>4. QED
    BY <2>1, <2>2, <2>3, FinishFine
<1>2. CASE a.kind = "slice"
  <2>0. PICK stated, d :
          /\ stated = SetState(FeedDifference(c, a), a.pts, a.seq, strangers)
          /\ d = DifferenceDone(c, a, strangers)
    OBVIOUS
  <2>1. /\ a.pts \in 1 .. e.end /\ c.waiter.good <= a.pts
        /\ a.seq \in 1 .. e.top /\ \A m \in c.bySeq : m.seq <= a.seq
        /\ Brings(c, FeedDifference(c, a), a.pts, a.seq)
    BY <1>2, FeedDifferenceBrings DEF Follows
  <2>2. Fine(stated, us, e) /\ stated.waiter = InitAt(c.waiter, a.pts)
    BY <2>0, <2>1, StatedFine
  <2>3. /\ stated.waiter.requesting /\ stated.sending = <<>>
        /\ Inited(stated.waiter)
    <3>1. c.waiter \in Waiters(Nat) /\ a.pts \in Nat /\ a.pts > 0
      BY <2>1 DEF Fine, ClientTyped, Surroundings
    <3>2. stated.waiter.good = a.pts
      BY <2>2, <3>1, InitIs
    <3>3. QED
      BY <2>2, <3>1, <3>2 DEF Fine, Awaiting, Inited
  <2>4. d = GetDifference([stated EXCEPT !.waiter = SetRequesting(@, FALSE)])
    BY <1>2, <2>0 DEF DifferenceDone, Finish
  <2>5. PICK q : q = Quiet(e)
    OBVIOUS
  <2>6. /\ q \in Surroundings /\ ~q.out /\ q.end = e.end /\ q.top = e.top
        /\ q.good = e.good /\ q.seen = e.seen
    BY <2>5, QuietIs
  <2>7. Fine(d, us, q) /\ Timed(d)
    BY <2>2, <2>3, <2>4, <2>6, AskAgainFine
  <2>8. QED
    BY <2>0, <2>5, <2>7
<1>3. CASE a.kind = "difference"
  <2>1. /\ a.pts \in 1 .. e.end /\ c.waiter.good <= a.pts
        /\ a.seq \in 1 .. e.top /\ \A m \in c.bySeq : m.seq <= a.seq
        /\ \A u \in Ahead(c, us) : Around(a.pts, u)
        /\ Brings(c, FeedDifference(c, a), a.pts, a.seq)
    BY <1>3, FeedDifferenceBrings DEF Follows
  <2>2. DifferenceDone(c, a, strangers) =
          Finish(FeedDifference(c, a), a.pts, a.seq, strangers)
    BY <1>3 DEF DifferenceDone
  <2>3. QED
    BY <2>1, <2>2, FinishFine
<1>4. CASE a.kind = "refused"
  <2>1. DifferenceDone(c, a, strangers) = c /\ e.deaf
    BY <1>4 DEF DifferenceDone, Follows
  <2>2. Fine(c, us, Quiet(e))
    BY <2>1, QuietIs
    DEF Fine, Learned, Coming, Issued, ParkedApart, Counting, Awaiting
  <2>3. QED
    BY <2>1, <2>2
<1>5. QED
  BY <1>1, <1>2, <1>3, <1>4

LEMMA DifferenceFailFine ==
  ASSUME NEW c, NEW us, NEW e \in Surroundings, Fine(c, us, e), Timed(c),
         e.out, Inited(c.waiter)
  PROVE  /\ Fine(DifferenceFail(c), us, Quiet(e))
         /\ Timed(DifferenceFail(c))
<1>1. PICK d : d = DifferenceFail(c)
  OBVIOUS
<1>2. /\ ClientTyped(d) /\ d.failTimer
      /\ d.waiter = c.waiter /\ d.seq = c.seq /\ d.bySeq = c.bySeq
      /\ d.bySeqTimer = c.bySeqTimer /\ d.byPtsTimer = c.byPtsTimer
      /\ d.sending = c.sending /\ d.seen = c.seen
      /\ d.seenSeq = c.seenSeq /\ d.repeated = c.repeated
  BY <1>1 DEF DifferenceFail, Fine, ClientTyped
<1>3. Learned(d, Quiet(e)) /\ Coming(d, us, Quiet(e))
  BY <1>2, QuietIs DEF Fine, Learned, Coming, Issued, Ahead
<1>4. ParkedApart(d, us, Quiet(e)) /\ Counting(d, us, Quiet(e))
  BY <1>2, QuietIs DEF Fine, ParkedApart, Counting, Issued, Ahead
<1>5. Awaiting(d, Quiet(e))
  BY <1>2, QuietIs DEF Fine, Awaiting
<1>6. QED
  BY <1>1, <1>2, <1>3, <1>4, <1>5 DEF Fine, Timed

LEMMA AfterFailFine ==
  ASSUME NEW c, NEW us, NEW e \in Surroundings, Fine(c, us, e),
         c.failTimer, c.sending = <<>>
  PROVE  Handled(c, GetDifferenceAfterFail(c), us, {}, e)
<1>1. c.waiter.requesting /\ Inited(c.waiter) /\ ~e.out
  BY DEF Fine, Awaiting
<1>2. PICK d : /\ d = GetDifferenceAfterFail(c)
               /\ Fine(d, us, e) /\ Timed(d) /\ d.bySeq = {}
               /\ d.waiter.good = c.waiter.good
  BY <1>1, AskAgainFine DEF GetDifferenceAfterFail
<1>3. QED
  BY <1>2 DEF Handled

-----------------------------------------------------------------------------
(* What is on its way.                                                     *)

Messages == Bundles \cup Reports \cup Notices \cup Replies

LEMMA MessageKinds ==
  ASSUME NEW m \in Messages
  PROVE  /\ m.kind = "updates" => m \in Bundles
         /\ m.kind = "affected" => m \in Reports /\ UpdatesOf(m) = {m.upd}
         /\ m.kind \in Answers => m \in Replies
         /\ m.kind \notin {"updates", "affected"} => UpdatesOf(m) = {}
BY DEF Messages, Bundles, Reports, Notices, Replies, Answers, UpdatesOf

(* The wire without its first k messages.                                  *)
Shifted(k) ==
  /\ wire' \in Seq(Messages)
  /\ Len(wire') \in Nat
  /\ Len(wire) = Len(wire') + k
  /\ \A i \in 1 .. Len(wire') : wire'[i] = wire[i + k]
  /\ UNCHANGED <<server, unsent>>

LEMMA TailIsShifted ==
  ASSUME NetworkTyped, wire # <<>>, wire' = Tail(wire),
         UNCHANGED <<server, unsent>>
  PROVE  /\ Shifted(1)
         /\ Head(wire) = wire[1]
         /\ wire[1] \in Messages
<1>1. wire \in Seq(Messages)
  BY DEF NetworkTyped, Messages
<1>2. /\ Tail(wire) \in Seq(Messages)
      /\ Len(Tail(wire)) = Len(wire) - 1
      /\ \A i \in 1 .. Len(Tail(wire)) : Tail(wire)[i] = wire[i + 1]
      /\ Head(wire) \in Messages
  BY <1>1, HeadTailProperties
<1>3. Len(wire) \in Nat /\ Len(Tail(wire)) \in Nat
  BY <1>1, <1>2, LenProperties
<1>4. Head(wire) = wire[1]
  BY <1>1
<1>5. QED
  BY <1>2, <1>3, <1>4 DEF Shifted

LEMMA SameIsShifted ==
  ASSUME NetworkTyped, UNCHANGED <<server, unsent, wire>>
  PROVE  Shifted(0)
<1>1. wire \in Seq(Messages)
  BY DEF NetworkTyped, Messages
<1>2. Len(wire) \in Nat
  BY <1>1, LenProperties
<1>3. QED
  BY <1>1, <1>2 DEF Shifted

LEMMA ShiftedIs ==
  ASSUME NEW k \in {0, 1}, Shifted(k), OnceOnly
  PROVE  /\ OnWire' \subseteq OnWire
         /\ OnTheWay' \subseteq OnTheWay
         /\ OnceOnly'
         /\ Answered' = {i \in 1 .. Len(wire') : i + k \in Answered}
<1>1. \A i \in 1 .. Len(wire') :
        i + k \in 1 .. Len(wire) /\ wire'[i] = wire[i + k]
  BY DEF Shifted
<1>2. OnWire' \subseteq OnWire
  BY <1>1 DEF OnWire
<1>3. OnTheWay' \subseteq OnTheWay
  BY <1>2 DEF OnTheWay, Shifted
<1>4. OnceOnly'
  <2>1. unsent' = unsent /\ server' = server
    BY DEF Shifted
  <2>2. \A m \in unsent' \cup OnWire' : Numbered(m, server'.seq)
    BY <1>2, <2>1 DEF OnceOnly
  <2>3. \A i, j \in 1 .. Len(wire') :
          i # j => Apart(UpdatesOf(wire'[i]), UpdatesOf(wire'[j]))
    <3>1. ASSUME NEW i \in 1 .. Len(wire'), NEW j \in 1 .. Len(wire'), i # j
          PROVE  Apart(UpdatesOf(wire'[i]), UpdatesOf(wire'[j]))
      <4>1. i + k # j + k
        BY <3>1
      <4>2. Apart(UpdatesOf(wire[i + k]), UpdatesOf(wire[j + k]))
        BY <1>1, <4>1 DEF OnceOnly
      <4>3. QED
        BY <1>1, <4>2
    <3>2. QED
      BY <3>1
  <2>4. QED
    BY <1>1, <2>1, <2>2, <2>3 DEF OnceOnly
<1>5. QED
  BY <1>1, <1>2, <1>3, <1>4 DEF Answered

(* The first message has nothing in common with what comes after it.       *)
LEMMA HeadIs ==
  ASSUME Shifted(1), OnceOnly
  PROVE  /\ OnTheWay = OnTheWay' \cup UpdatesOf(wire[1])
         /\ UpdatesOf(wire[1]) \subseteq OnTheWay
         /\ Apart(UpdatesOf(wire[1]), OnTheWay')
         /\ Numbered(wire[1], server.seq)
<1>0. PICK m : m = wire[1]
  OBVIOUS
<1>1. /\ 1 \in 1 .. Len(wire)
      /\ \A i \in 1 .. Len(wire') :
           /\ i + 1 \in 1 .. Len(wire) /\ i + 1 # 1
           /\ wire'[i] = wire[i + 1]
      /\ unsent' = unsent
  BY DEF Shifted
<1>2. OnWire = OnWire' \cup {m}
  <2>1. \A j \in 1 .. Len(wire) : j = 1 \/ j - 1 \in 1 .. Len(wire')
    BY DEF Shifted
  <2>2. \A j \in 1 .. Len(wire) : j # 1 => wire[j] = wire'[j - 1]
    BY <2>1 DEF Shifted
  <2>3. OnWire \subseteq OnWire' \cup {m}
    BY <1>0, <2>1, <2>2 DEF OnWire
  <2>4. OnWire' \cup {m} \subseteq OnWire
    BY <1>0, <1>1 DEF OnWire
  <2>5. QED
    BY <2>3, <2>4
<1>3. OnTheWay = OnTheWay' \cup UpdatesOf(m)
  BY <1>1, <1>2 DEF OnTheWay
<1>4. Apart(UpdatesOf(m), OnTheWay')
  <2>1. ASSUME NEW n \in unsent' \cup OnWire'
        PROVE  Apart(UpdatesOf(m), UpdatesOf(n))
    <3>1. CASE n \in unsent
      <4>1. Apart(UpdatesOf(n), UpdatesOf(m))
        BY <1>0, <1>1, <3>1 DEF OnceOnly
      <4>2. QED
        BY <4>1, DisjointBothWays
    <3>2. CASE n \in OnWire'
      <4>1. PICK i \in 1 .. Len(wire') : n = wire'[i]
        BY <3>2 DEF OnWire
      <4>2. QED
        BY <1>0, <1>1, <4>1 DEF OnceOnly
    <3>3. QED
      BY <1>1, <2>1, <3>1, <3>2
  <2>2. QED
    BY <2>1 DEF OnTheWay, Apart
<1>5. m \in OnWire
  BY <1>2
<1>6. QED
  BY <1>0, <1>3, <1>4, <1>5 DEF OnceOnly

-----------------------------------------------------------------------------
(* The steps of the client.                                                *)

LEMMA NowIs ==
  ASSUME IInv
  PROVE  Now \in Surroundings
BY DEF IInv, NetworkTyped, Fine, ClientTyped, Waiters, Now, Surroundings,
       Unanswered, Refused

(* A handler ends, and what it has sent is on its way.                     *)
LEMMA SettledFine ==
  ASSUME NEW r, NEW us, NEW e, Fine(r, us, e),
         NEW d, d = [r EXCEPT !.sending = <<>>],
         NEW e2, e2.end = e.end, e2.top = e.top,
         e2.out <=> e.out \/ r.sending # <<>>,
         e.deaf => e2.deaf, e2.good = r.waiter.good, e2.seen = r.seen
  PROVE  /\ Fine(d, us, e2)
         /\ d.sending = <<>>
         /\ d.waiter = r.waiter /\ d.bySeq = r.bySeq /\ d.seen = r.seen
         /\ Timed(r) => Timed(d)
<1>1. <<>> \in Seq(Questions)
  OBVIOUS
<1>2. /\ ClientTyped(d) /\ d.sending = <<>>
      /\ d.waiter = r.waiter /\ d.seq = r.seq /\ d.bySeq = r.bySeq
      /\ d.bySeqTimer = r.bySeqTimer /\ d.byPtsTimer = r.byPtsTimer
      /\ d.failTimer = r.failTimer /\ d.seen = r.seen
      /\ d.seenSeq = r.seenSeq /\ d.repeated = r.repeated
  BY <1>1 DEF Fine, ClientTyped
<1>3. r.waiter.good \in Nat
  BY DEF Fine, ClientTyped, Waiters
<1>4. Learned(d, e2)
  BY <1>2, <1>3 DEF Fine, Learned
<1>5. Coming(d, us, e2) /\ ParkedApart(d, us, e2)
  BY <1>2 DEF Fine, Coming, ParkedApart, Ahead, Issued
<1>6. Counting(d, us, e2)
  BY <1>2 DEF Fine, Counting, Ahead, Issued
<1>7. Awaiting(d, e2)
  BY <1>2 DEF Fine, Awaiting
<1>8. QED
  BY <1>2, <1>4, <1>5, <1>6, <1>7 DEF Fine, Timed

LEMMA HandledUnanswered ==
  ASSUME IInv, NEW r, Handle(r), NEW k \in {0, 1}, Shifted(k),
         k = 1 => wire[1].kind \notin Answers,
         Awaiting(r, Now), ClientTyped(r)
  PROVE  /\ requests' \in Seq(Questions)
         /\ OneQuestion'
         /\ Unanswered' <=> Unanswered \/ r.sending # <<>>
         /\ Unanswered => requests' = requests
         /\ ~Unanswered => requests' = r.sending /\ Answered' = {}
<1>1. requests \in Seq(Questions) /\ requests' = requests \o r.sending
  BY DEF IInv, NetworkTyped, Handle
<1>2. /\ Answered' = {i \in 1 .. Len(wire') : i + k \in Answered}
      /\ Len(wire') \in Nat /\ Len(wire) = Len(wire') + k
  BY ShiftedIs DEF IInv, Shifted
<1>3. Answered' = {} <=> Answered = {}
  <2>1. ASSUME NEW i \in Answered PROVE i - k \in Answered'
    <3>1. i \in 1 .. Len(wire) /\ (k = 1 => i # 1)
      BY <2>1 DEF Answered
    <3>2. i - k \in 1 .. Len(wire') /\ (i - k) + k = i
      BY <1>2, <3>1
    <3>3. QED
      BY <1>2, <2>1, <3>2
  <2>2. QED
    BY <1>2, <2>1
<1>4. \A i, j \in Answered' : i = j
  <2>1. ASSUME NEW i \in Answered', NEW j \in Answered' PROVE i = j
    <3>1. i + k = j + k /\ i \in Int /\ j \in Int
      BY <1>2, <2>1 DEF IInv, OneQuestion
    <3>2. QED
      BY <3>1
  <2>2. QED
    BY <2>1
<1>5. CASE Unanswered
  <2>1. r.sending = <<>>
    BY <1>5 DEF Awaiting, Now
  <2>2. requests' = requests
    BY <1>1, <2>1
  <2>3. OneQuestion'
    BY <1>3, <1>4, <2>2 DEF IInv, OneQuestion
  <2>4. QED
    BY <1>1, <1>3, <1>5, <2>1, <2>2, <2>3 DEF Unanswered
<1>6. CASE ~Unanswered
  <2>1. requests = <<>> /\ Answered' = {}
    BY <1>3, <1>6 DEF Unanswered
  <2>2. Len(r.sending) <= 1
    <3>1. CASE r.sending = <<>>
      <4>1. Len(r.sending) = 0
        BY <3>1
      <4>2. QED
        BY <4>1
    <3>2. CASE r.sending # <<>>
      <4>1. PICK q : q = [kind |-> "difference", pts |-> r.waiter.good]
        OBVIOUS
      <4>2. r.sending = <<q>>
        BY <3>2, <4>1 DEF Awaiting
      <4>3. Len(r.sending) = 1
        BY <4>2
      <4>4. QED
        BY <4>3
    <3>3. QED
      BY <3>1, <3>2
  <2>3. requests' = r.sending /\ r.sending \in Seq(Questions)
    BY <1>1, <2>1 DEF ClientTyped
  <2>4. OneQuestion'
    BY <1>4, <2>1, <2>2, <2>3 DEF OneQuestion
  <2>5. QED
    BY <1>6, <2>1, <2>2, <2>3, <2>4 DEF Unanswered
<1>7. QED
  BY <1>5, <1>6

LEMMA StillTruthful ==
  ASSUME IInv, NEW k \in {0, 1}, Shifted(k),
         budget'.refusals = budget.refusals,
         client'.waiter.good = client.waiter.good,
         NEW ms, client'.bySeq \subseteq client.bySeq \cup ms,
         \A m \in ms : k = 1 /\ m = wire[1] /\ m.kind = "updates"
  PROVE  \A i \in Answered' : Truthful(i)'
<1>1. /\ Answered' = {i \in 1 .. Len(wire') : i + k \in Answered}
      /\ OnTheWay' \subseteq OnTheWay
      /\ server' = server
  BY ShiftedIs DEF IInv, Shifted
<1>2. Ahead(client', OnTheWay') \subseteq Ahead(client, OnTheWay)
  <2>1. \A m \in ms : UpdatesOf(m) \subseteq OnTheWay
    BY HeadIs DEF IInv
  <2>2. QED
    BY <1>1, <2>1 DEF Ahead
<1>3. ASSUME NEW i \in Answered' PROVE Truthful(i)'
  <2>1. /\ i \in 1 .. Len(wire') /\ i + k \in Answered
        /\ wire'[i] = wire[i + k]
    BY <1>1, <1>3 DEF Shifted
  <2>2. PICK a : a = wire[i + k]
    OBVIOUS
  <2>3. Truthful(i + k)
    BY <2>1 DEF IInv, Answering
  <2>4. Sincere(a.request)'
    BY <2>2, <2>3 DEF Truthful, Sincere
  <2>5. a.kind = "refused" => Refused'
    BY <2>2, <2>3 DEF Truthful, Refused
  <2>6. ASSUME a.kind \in {"state", "empty", "slice", "difference"}
        PROVE  /\ \A m \in client'.bySeq : m.seq <= a.seq
               /\ \A j \in 1 .. i :
                    wire'[j].kind = "updates" => wire'[j].seq <= a.seq
    <3>1. /\ \A m \in client.bySeq : m.seq <= a.seq
          /\ \A j \in 1 .. i + k :
                wire[j].kind = "updates" => wire[j].seq <= a.seq
      BY <2>2, <2>3, <2>6 DEF Truthful
    <3>2. \A m \in ms : m.seq <= a.seq
      BY <2>1, <3>1
    <3>3. \A j \in 1 .. i : j + k \in 1 .. i + k /\ wire'[j] = wire[j + k]
      BY <2>1 DEF Shifted
    <3>4. QED
      BY <3>1, <3>2, <3>3
  <2>7. a.kind \in {"state", "empty", "difference"} =>
          \A u \in Ahead(client', OnTheWay') : Around(a.pts, u)
    BY <1>2, <2>2, <2>3 DEF Truthful
  <2>8. QED
    BY <1>1, <2>1, <2>2, <2>3, <2>4, <2>5, <2>6, <2>7 DEF Truthful
<1>4. QED
  BY <1>3

(* The client has lost nothing, and the server has done nothing.           *)
Forward ==
  /\ client.waiter.good <= client'.waiter.good
  /\ client.seen \subseteq client'.seen
  /\ UNCHANGED server

(* A handler that does not take an answer keeps the invariant.             *)
LEMMA HandlerStep ==
  ASSUME IInv, NEW r, NEW ms, Handle(r), NEW k \in {0, 1}, Shifted(k),
         Handled(client, r, OnTheWay', ms, Now),
         budget' \in [{"events", "losses", "drops", "failures", "refusals",
                       "forced"} -> Nat],
         budget'.refusals = budget.refusals,
         k = 1 => wire[1].kind \notin Answers,
         \A m \in ms : k = 1 /\ m = wire[1] /\ m.kind = "updates"
  PROVE  IInv' /\ Forward
<1>1. /\ Fine(r, OnTheWay', Now) /\ Timed(r)
      /\ r.bySeq \subseteq client.bySeq \cup ms
      /\ client.waiter.requesting => r.waiter.good = client.waiter.good
      /\ Awaiting(r, Now) /\ ClientTyped(r)
  BY DEF Handled, Fine
<1>2. /\ requests' \in Seq(Questions)
      /\ OneQuestion'
      /\ Unanswered' <=> Unanswered \/ r.sending # <<>>
      /\ Unanswered => requests' = requests
      /\ ~Unanswered => requests' = r.sending /\ Answered' = {}
  BY <1>1, HandledUnanswered
<1>3. client' = [r EXCEPT !.sending = <<>>]
  BY DEF Handle
<1>4. /\ client'.waiter = r.waiter /\ client'.bySeq = r.bySeq
      /\ client'.seen = r.seen
  BY <1>1, <1>3 DEF ClientTyped
<1>5. /\ Now'.end = Now.end /\ Now'.top = Now.top
      /\ Now'.out <=> Now.out \/ r.sending # <<>>
      /\ Now.deaf => Now'.deaf
      /\ Now'.good = r.waiter.good /\ Now'.seen = r.seen
  BY <1>2, <1>4 DEF Now, Shifted, Refused
<1>6. Fine(client', OnTheWay', Now') /\ client'.sending = <<>> /\ Timed(client')
  BY <1>1, <1>3, <1>5, SettledFine
<1>7. OnceOnly' /\ server' = server /\ unsent' = unsent
  BY ShiftedIs DEF IInv, Shifted
<1>8. NetworkTyped'
  BY <1>2, <1>7 DEF IInv, NetworkTyped, Shifted, Messages
<1>9. Answering'
  <2>1. CASE Unanswered
    <3>1. client.waiter.requesting /\ requests' = requests
      BY <1>2, <2>1 DEF IInv, Fine, Awaiting, Now
    <3>2. client'.waiter.good = client.waiter.good
      BY <1>1, <1>4, <3>1
    <3>3. \A i \in 1 .. Len(requests') : Sincere(requests[i])'
      BY <3>1, <3>2 DEF IInv, Answering, Sincere
    <3>4. \A i \in Answered' : Truthful(i)'
      BY <1>1, <1>4, <3>2, StillTruthful
    <3>5. QED
      BY <3>3, <3>4 DEF Answering
  <2>2. CASE ~Unanswered
    <3>1. requests' = r.sending /\ Answered' = {}
      BY <1>2, <2>2
    <3>2. ASSUME NEW i \in 1 .. Len(requests') PROVE Sincere(requests[i])'
      <4>1. r.sending # <<>>
        BY <3>1, <3>2
      <4>2. PICK q : q = [kind |-> "difference", pts |-> r.waiter.good]
        OBVIOUS
      <4>3. /\ r.sending = <<q>> /\ r.waiter.good > 0
        BY <1>1, <4>1, <4>2 DEF Awaiting, Inited
      <4>4. requests'[i] = q
        BY <3>1, <3>2, <4>3
      <4>5. QED
        BY <1>4, <4>2, <4>3, <4>4 DEF Sincere
    <3>3. QED
      BY <3>1, <3>2 DEF Answering
  <2>3. QED
    BY <2>1, <2>2
<1>10. Forward
  BY <1>1, <1>4, <1>7 DEF Fine, Learned, Now, Forward
<1>11. QED
  BY <1>2, <1>6, <1>7, <1>8, <1>9, <1>10 DEF IInv

(* A handler that takes the answer keeps it, too.                          *)
LEMMA AnswerStep ==
  ASSUME IInv, NEW r, Handle(r), Shifted(1), budget' = budget,
         wire[1].kind \in Answers,
         Fine(r, OnTheWay', Quiet(Now)), Timed(r)
  PROVE  IInv' /\ Forward
<1>1. /\ requests = <<>>
      /\ Answered = {1} /\ Answered' = {}
  <2>1. Len(wire') \in Nat /\ Len(wire) = Len(wire') + 1
    BY DEF Shifted
  <2>2. 1 \in Answered
    BY <2>1 DEF Answered
  <2>3. \A i \in Answered : i = 1
    BY <2>2 DEF IInv, OneQuestion
  <2>4. Answered' = {i \in 1 .. Len(wire') : i + 1 \in Answered}
    BY ShiftedIs DEF IInv
  <2>5. \A i \in 1 .. Len(wire') : i + 1 # 1
    OBVIOUS
  <2>6. QED
    BY <2>2, <2>3, <2>4, <2>5 DEF IInv, OneQuestion
<1>2. /\ Awaiting(r, Quiet(Now)) /\ ClientTyped(r)
      /\ r.sending \in Seq(Questions)
  BY DEF Fine, ClientTyped
<1>3. client' = [r EXCEPT !.sending = <<>>] /\ requests' = r.sending
  BY <1>1, <1>2 DEF Handle
<1>4. /\ client'.waiter = r.waiter /\ client'.bySeq = r.bySeq
      /\ client'.seen = r.seen
  BY <1>2, <1>3 DEF ClientTyped
<1>5. Unanswered' <=> r.sending # <<>>
  BY <1>1, <1>3 DEF Unanswered
<1>6. /\ Quiet(Now).end = Now.end /\ Quiet(Now).top = Now.top
      /\ ~Quiet(Now).out /\ Quiet(Now).deaf = Now.deaf
  BY NowIs, QuietIs
<1>7. /\ Now'.end = Now.end /\ Now'.top = Now.top
      /\ Now'.out <=> r.sending # <<>>
      /\ Now.deaf => Now'.deaf
      /\ Now'.good = r.waiter.good /\ Now'.seen = r.seen
  BY <1>4, <1>5 DEF Now, Shifted, Refused
<1>8. Fine(client', OnTheWay', Now') /\ client'.sending = <<>> /\ Timed(client')
  BY <1>3, <1>6, <1>7, SettledFine
<1>9. OnceOnly' /\ server' = server /\ unsent' = unsent
  BY ShiftedIs DEF IInv, Shifted
<1>10. NetworkTyped'
  BY <1>2, <1>3, <1>9 DEF IInv, NetworkTyped, Shifted, Messages
<1>11. /\ Len(requests') <= 1
       /\ \A i \in 1 .. Len(requests') : Sincere(requests[i])'
  <2>1. CASE r.sending = <<>>
    BY <1>3, <2>1
  <2>2. CASE r.sending # <<>>
    <3>1. PICK q : q = [kind |-> "difference", pts |-> r.waiter.good]
      OBVIOUS
    <3>2. requests' = <<q>> /\ r.waiter.good > 0
      BY <1>2, <1>3, <2>2, <3>1 DEF Awaiting, Inited
    <3>3. Sincere(q)'
      BY <1>4, <3>1, <3>2 DEF Sincere
    <3>4. QED
      BY <3>2, <3>3
  <2>3. QED
    BY <2>1, <2>2
<1>12. Forward
  <2>1. Quiet(Now).good = Now.good /\ Quiet(Now).seen = Now.seen
    BY NowIs, QuietIs
  <2>2. QED
    BY <1>4, <1>9, <2>1 DEF Fine, Learned, Now, Forward
<1>13. QED
  BY <1>1, <1>8, <1>9, <1>10, <1>11, <1>12 DEF IInv, OneQuestion, Answering

LEMMA BudgetTyped ==
  ASSUME IInv
  PROVE  /\ budget \in [{"events", "losses", "drops", "failures", "refusals",
                        "forced"} -> Nat]
         /\ Fine(client, OnTheWay, Now) /\ Timed(client)
         /\ \A m \in client.bySeq : client.seq < m.start
         /\ client.sending = <<>>
BY DEF IInv, NetworkTyped, Timed

LEMMA TimersKeep ==
  ASSUME IInv, Timers
  PROVE  IInv' /\ Forward
<1>1. /\ Shifted(0) /\ OnTheWay' = OnTheWay /\ budget' = budget
      /\ UNCHANGED <<server, unsent, wire>>
  BY SameIsShifted
  DEF IInv, Timers, ByPtsTimer, BySeqTimer, FailDifferenceTimer,
    NetworkUnchanged, OnTheWay, OnWire
<1>2. \E r : Handle(r) /\ Handled(client, r, OnTheWay', {}, Now)
  <2>1. CASE ByPtsTimer
    <3>1. PICK r : r = GetDifference(client)
      OBVIOUS
    <3>2. QED
      BY <1>1, <2>1, <3>1, NowIs, BudgetTyped, AskedFine DEF ByPtsTimer
  <2>2. CASE BySeqTimer
    <3>1. PICK r : r = GetDifference([client EXCEPT !.bySeqTimer = FALSE])
      OBVIOUS
    <3>2. QED
      BY <1>1, <2>2, <3>1, NowIs, BudgetTyped, BySeqTimerFine DEF BySeqTimer
  <2>3. CASE FailDifferenceTimer
    <3>1. PICK r : r = GetDifferenceAfterFail(client)
      OBVIOUS
    <3>2. QED
      BY <1>1, <2>3, <3>1, NowIs, BudgetTyped, AfterFailFine
      DEF FailDifferenceTimer
  <2>4. QED
    BY <2>1, <2>2, <2>3 DEF Timers
<1>3. QED
  BY <1>1, <1>2, BudgetTyped, HandlerStep

LEMMA SessionResetKeeps ==
  ASSUME IInv, SessionReset
  PROVE  IInv' /\ Forward
<1>1. /\ Shifted(0) /\ OnTheWay' = OnTheWay
      /\ UNCHANGED <<server, unsent, wire>>
  BY SameIsShifted DEF IInv, SessionReset, OnTheWay, OnWire
<1>2. /\ budget' \in [{"events", "losses", "drops", "failures", "refusals",
                      "forced"} -> Nat]
      /\ budget'.refusals = budget.refusals
  BY BudgetTyped DEF SessionReset, Spend
<1>3. PICK r : r = GetDifference(client)
  OBVIOUS
<1>4. Handle(r)
  BY <1>3 DEF SessionReset
<1>5. Handled(client, r, OnTheWay', {}, Now)
  BY <1>1, <1>3, NowIs, BudgetTyped, AskedFine
<1>6. QED
  BY <1>1, <1>2, <1>4, <1>5, HandlerStep

(* What a handler that takes the first message finds.                      *)
LEMMA ArrivesIs ==
  ASSUME IInv, NEW kinds, Arrives(kinds)
  PROVE  /\ Shifted(1) /\ budget' = budget
         /\ Head(wire) = wire[1] /\ wire[1].kind \in kinds
         /\ wire[1] \in Messages
         /\ OnTheWay = OnTheWay' \cup UpdatesOf(wire[1])
         /\ UpdatesOf(wire[1]) \subseteq OnTheWay
         /\ Apart(UpdatesOf(wire[1]), OnTheWay')
         /\ Numbered(wire[1], Now.top)
         /\ OnTheWay' \subseteq OnTheWay
<1>1. /\ wire # <<>> /\ wire' = Tail(wire)
      /\ UNCHANGED <<server, unsent>> /\ budget' = budget
      /\ Head(wire).kind \in kinds
  BY DEF Arrives
<1>2. Shifted(1) /\ Head(wire) = wire[1] /\ wire[1] \in Messages
  BY <1>1, TailIsShifted DEF IInv
<1>3. OnceOnly /\ Now.top = server.seq
  BY DEF IInv, Now
<1>4. QED
  BY <1>1, <1>2, <1>3, HeadIs

LEMMA ReceiveUpdatesKeeps ==
  ASSUME IInv, NEW strangers, ReceiveUpdates(strangers)
  PROVE  IInv' /\ Forward
<1>0. PICK m, r :
        /\ m = wire[1]
        /\ r = IF m.rpc THEN ApplyContainer(client, m, strangers)
                        ELSE PushReceived(client, m, strangers)
  OBVIOUS
<1>1. /\ Shifted(1) /\ budget' = budget
      /\ Head(wire) = m /\ m.kind = "updates" /\ m \in Messages
      /\ OnTheWay = OnTheWay' \cup UpdatesOf(m)
      /\ Apart(UpdatesOf(m), OnTheWay')
      /\ Numbered(m, Now.top)
  BY <1>0, ArrivesIs DEF ReceiveUpdates
<1>2. Handle(r)
  BY <1>0, <1>1 DEF ReceiveUpdates
<1>3. m \in Bundles
  BY <1>1, MessageKinds
<1>4. Handled(client, r, OnTheWay', {m}, Now)
  BY <1>0, <1>1, <1>3, NowIs, BudgetTyped, ApplyContainerFine,
     PushReceivedFine
<1>5. wire[1].kind \notin Answers
  BY <1>0, <1>1 DEF Answers
<1>6. QED
  BY <1>0, <1>1, <1>2, <1>4, <1>5, BudgetTyped, HandlerStep

LEMMA ReceiveAffectedKeeps ==
  ASSUME IInv, ReceiveAffected
  PROVE  IInv' /\ Forward
<1>0. PICK m, r : m = wire[1] /\ r = AffectedReceived(client, m.upd)
  OBVIOUS
<1>1. /\ Shifted(1) /\ budget' = budget
      /\ Head(wire) = m /\ m.kind = "affected" /\ m \in Messages
      /\ UpdatesOf(m) \subseteq OnTheWay
      /\ Apart(UpdatesOf(m), OnTheWay')
      /\ OnTheWay' \subseteq OnTheWay
  BY <1>0, ArrivesIs DEF ReceiveAffected
<1>2. Handle(r)
  BY <1>0, <1>1 DEF ReceiveAffected
<1>3. UpdatesOf(m) = {m.upd}
  BY <1>1, MessageKinds
<1>4. m.upd \in OnTheWay /\ \A v \in OnTheWay' : Disjoint(m.upd, v)
  BY <1>1, <1>3 DEF Apart
<1>5. Handled(client, r, OnTheWay', {}, Now)
  BY <1>0, <1>1, <1>4, NowIs, BudgetTyped, AffectedReceivedFine
<1>6. wire[1].kind \notin Answers
  BY <1>0, <1>1 DEF Answers
<1>7. QED
  BY <1>1, <1>2, <1>5, <1>6, BudgetTyped, HandlerStep

LEMMA ReceiveNoticeKeeps ==
  ASSUME IInv, ReceiveTooLong \/ ReceiveNewSession
  PROVE  IInv' /\ Forward
<1>1. \E r : /\ Handle(r)
             /\ r = TooLongReceived(client) \/ r = MtpNewSessionCreated(client)
  BY DEF ReceiveTooLong, ReceiveNewSession
<1>2. PICK r :
        /\ Handle(r)
        /\ r = TooLongReceived(client) \/ r = MtpNewSessionCreated(client)
  BY <1>1
<1>3. Arrives({"tooLong", "newSession"})
  BY DEF ReceiveTooLong, ReceiveNewSession, Arrives
<1>4. /\ Shifted(1) /\ budget' = budget
      /\ OnTheWay' \subseteq OnTheWay
      /\ wire[1].kind \in {"tooLong", "newSession"}
  BY <1>3, ArrivesIs
<1>5. Fine(client, OnTheWay', Now)
  BY <1>4, BudgetTyped, FineLess
<1>6. Handled(client, r, OnTheWay', {}, Now)
  <2>1. Handled(client, client, OnTheWay', {}, Now)
    BY <1>5, BudgetTyped DEF Handled
  <2>2. Handled(client, GetDifference(client), OnTheWay', {}, Now)
    BY <1>5, NowIs, BudgetTyped, AskedFine
  <2>3. Handled(client, MtpNewSessionCreated(client), OnTheWay', {}, Now)
    BY <1>5, NowIs, NewSessionFine
  <2>4. QED
    BY <1>2, <2>1, <2>2, <2>3 DEF TooLongReceived
<1>7. wire[1].kind \notin Answers
  BY <1>4 DEF Answers
<1>8. QED
  BY <1>2, <1>4, <1>6, <1>7, BudgetTyped, HandlerStep

(* An answer that arrives is one that the client awaits.                   *)
LEMMA AnswerFollows ==
  ASSUME IInv, Shifted(1), wire[1] \in Messages, wire[1].kind \in Answers,
         OnTheWay' \subseteq OnTheWay
  PROVE  /\ Now.out
         /\ Follows(client, OnTheWay', Now, wire[1])
         /\ Fine(client, OnTheWay', Now)
<1>1. PICK a : a = wire[1]
  OBVIOUS
<1>2. 1 \in Answered
  BY DEF Answered, Shifted
<1>3. Truthful(1) /\ a \in Replies
  BY <1>1, <1>2, MessageKinds DEF IInv, Answering
<1>4. Ahead(client, OnTheWay') \subseteq Ahead(client, OnTheWay)
  BY DEF Ahead
<1>5. a.kind \notin {"state", "refused"} => Inited(client.waiter)
  BY <1>1, <1>3 DEF Truthful, Sincere, Answers, Inited
<1>6. Follows(client, OnTheWay', Now, a)
  BY <1>1, <1>3, <1>4, <1>5 DEF Follows, Truthful, Sincere, Now
<1>7. QED
  BY <1>1, <1>2, <1>6, BudgetTyped, FineLess DEF Now, Unanswered

LEMMA ReceiveAnswerKeeps ==
  ASSUME IInv, NEW strangers,
         \/ ReceiveState(strangers)
         \/ ReceiveDifference(strangers)
         \/ ReceiveFailure
  PROVE  IInv' /\ Forward
<1>0. PICK a : a = wire[1]
  OBVIOUS
<1>1. PICK kinds :
        /\ Arrives(kinds)
        /\ kinds \subseteq Answers
  BY DEF ReceiveState, ReceiveDifference, ReceiveFailure, Answers
<1>2. /\ Shifted(1) /\ budget' = budget
      /\ Head(wire) = a /\ a.kind \in Answers /\ a \in Messages
      /\ OnTheWay' \subseteq OnTheWay
  BY <1>0, <1>1, ArrivesIs
<1>3. /\ Now.out /\ Follows(client, OnTheWay', Now, a)
      /\ Fine(client, OnTheWay', Now)
  BY <1>0, <1>2, AnswerFollows
<1>4. \E r : Handle(r) /\ Fine(r, OnTheWay', Quiet(Now)) /\ Timed(r)
  <2>1. CASE ReceiveState(strangers)
    <3>1. PICK r : r = StateDone(client, a, strangers)
      OBVIOUS
    <3>2. Handle(r) /\ a.kind = "state"
      BY <1>2, <2>1, <3>1 DEF ReceiveState, Arrives
    <3>3. QED
      BY <1>3, <3>1, <3>2, NowIs, BudgetTyped, StateDoneFine
  <2>2. CASE ReceiveDifference(strangers)
    <3>1. PICK r : r = DifferenceDone(client, a, strangers)
      OBVIOUS
    <3>2. Handle(r) /\ a.kind \in {"empty", "slice", "difference", "refused"}
      BY <1>2, <2>2, <3>1 DEF ReceiveDifference, Arrives
    <3>3. QED
      BY <1>3, <3>1, <3>2, NowIs, BudgetTyped, DifferenceDoneFine
  <2>3. CASE ReceiveFailure
    <3>1. PICK r : r = DifferenceFail(client)
      OBVIOUS
    <3>2. Handle(r) /\ a.kind = "failed"
      BY <1>2, <2>3, <3>1 DEF ReceiveFailure, Arrives
    <3>3. Inited(client.waiter)
      BY <1>3, <3>2 DEF Follows
    <3>4. QED
      BY <1>3, <3>1, <3>2, <3>3, NowIs, BudgetTyped, DifferenceFailFine
  <2>4. QED
    BY <2>1, <2>2, <2>3
<1>5. QED
  BY <1>0, <1>2, <1>4, AnswerStep

-----------------------------------------------------------------------------
(* The steps of the server and of the network.                             *)

Budgets ==
  [{"events", "losses", "drops", "failures", "refusals", "forced"} -> Nat]

LEMMA RefusalStays ==
  ASSUME IInv, budget' \in Budgets, budget'.refusals <= budget.refusals,
         Refused
  PROVE  Refused'
<1>1. MaxRefusals \in Nat
  BY BoundsAssumption
<1>2. budget.refusals \in Nat /\ budget'.refusals \in Nat
  BY BudgetTyped DEF Budgets
<1>3. QED
  BY <1>1, <1>2 DEF Refused

(* A client does not notice what is issued behind what it has been told    *)
(* of, nor that something gets lost.                                       *)
LEMMA StaysFine ==
  ASSUME NEW c, NEW us, NEW e \in Surroundings, Fine(c, us, e),
         NEW e2 \in Surroundings, e.end <= e2.end, e.top <= e2.top,
         e2.out <=> e.out, e.deaf => e2.deaf,
         e2.good = c.waiter.good, e2.seen = c.seen,
         NEW vs,
         \A v \in vs :
           v \in us \/ /\ Issued(v, e2)
                       /\ e.end <= v.pts - v.count
                       /\ CountsMove => v.count # 0,
         \A v \in vs, m \in c.bySeq :
           v \in us \/ \A u \in UpdatesOf(m) : Disjoint(u, v)
  PROVE  Fine(c, vs, e2)
<1>1. /\ e.end \in Nat /\ e2.end \in Nat /\ e.top \in Nat /\ e2.top \in Nat
      /\ c.waiter.good \in Nat /\ c.waiter.good <= e.end
      /\ c.seen \subseteq 1 .. e.end
  <2>1. /\ c.waiter.good \in Nat /\ c.seen \subseteq 1 .. e.end
        /\ 1 .. c.waiter.good \subseteq c.seen
    BY DEF Fine, ClientTyped, Waiters, Learned
  <2>2. QED
    BY <2>1 DEF Surroundings
<1>2. \A u : Issued(u, e) => Issued(u, e2)
  BY <1>1 DEF Issued, Updates
<1>3. \A v \in Ahead(c, vs) :
        v \in Ahead(c, us) \/ /\ Issued(v, e2)
                              /\ e.end <= v.pts - v.count
                              /\ CountsMove => v.count # 0
  BY DEF Ahead
<1>4. \A v : Issued(v, e2) /\ e.end <= v.pts - v.count =>
        /\ Covers(v) \cap c.seen = {}
        /\ Around(c.waiter.good, v)
        /\ \A q : Issued(q, e) => Disjoint(q, v)
  BY <1>1 DEF Issued, Updates, Covers, Around, Disjoint
<1>5. Learned(c, e2)
  <2>1. c.seen \subseteq 1 .. e2.end /\ c.seenSeq \subseteq 1 .. e2.top
    BY <1>1 DEF Fine, Learned
  <2>2. QED
    BY <1>1, <2>1 DEF Fine, Learned
<1>6. Coming(c, vs, e2)
  BY <1>2, <1>3, <1>4 DEF Fine, Coming
<1>7. ParkedApart(c, vs, e2)
  <2>1. \A m \in c.bySeq : Apart(UpdatesOf(m), vs) /\ Numbered(m, e2.top)
    <3>1. ASSUME NEW m \in c.bySeq
          PROVE  Apart(UpdatesOf(m), vs) /\ Numbered(m, e2.top)
      <4>1. m.seq \in Nat /\ Numbered(m, e.top) /\ Apart(UpdatesOf(m), us)
        BY <3>1 DEF Fine, ParkedApart, ClientTyped, Bundles
      <4>2. Numbered(m, e2.top)
        BY <1>1, <4>1 DEF Numbered
      <4>3. QED
        BY <3>1, <4>1, <4>2 DEF Apart
    <3>2. QED
      BY <3>1
  <2>2. QED
    BY <2>1 DEF Fine, ParkedApart
<1>8. Counting(c, vs, e2)
  <2>1. ASSUME ~c.waiter.requesting, NEW v \in Ahead(c, vs)
        PROVE  /\ Around(c.waiter.good, v)
               /\ \A q \in c.waiter.queue : Disjoint(q, v)
    BY <1>3, <1>4, <2>1 DEF Fine, Counting
  <2>2. QED
    BY <1>2, <2>1 DEF Fine, Counting
<1>9. Awaiting(c, e2)
  BY DEF Fine, Awaiting
<1>10. QED
  BY <1>5, <1>6, <1>7, <1>8, <1>9 DEF Fine

(* The same for the client and what it is in.                              *)
LEMMA ClientStays ==
  ASSUME IInv, client' = client,
         server' \in [pts : Nat \ {0}, seq : Nat \ {0}],
         server.pts <= server'.pts, server.seq <= server'.seq,
         budget' \in Budgets, budget'.refusals <= budget.refusals,
         Unanswered' <=> Unanswered,
         \A v \in OnTheWay' :
           v \in OnTheWay \/ /\ Issued(v, Now')
                             /\ server.pts <= v.pts - v.count
                             /\ CountsMove => v.count # 0
  PROVE  Fine(client', OnTheWay', Now') /\ client'.sending = <<>>
         /\ Timed(client')
<1>1. Now \in Surroundings /\ Fine(client, OnTheWay, Now)
  BY NowIs, BudgetTyped
<1>2. /\ client.waiter.good \in Nat /\ client.seen \subseteq Nat
      /\ budget.refusals \in Nat
  BY <1>1, BudgetTyped DEF Fine, ClientTyped, Waiters
<1>3. /\ Now' \in Surroundings
      /\ Now.end <= Now'.end /\ Now.top <= Now'.top
      /\ Now'.out <=> Now.out
      /\ Now'.good = client.waiter.good /\ Now'.seen = client.seen
      /\ Now.end = server.pts
  BY <1>2 DEF Now, Surroundings, Unanswered, Refused
<1>4. Now.deaf => Now'.deaf
  BY RefusalStays DEF Now
<1>5. \A v \in OnTheWay', m \in client.bySeq :
        v \in OnTheWay \/ \A u \in UpdatesOf(m) : Disjoint(u, v)
  <2>1. ASSUME NEW v \in OnTheWay', v \notin OnTheWay,
               NEW m \in client.bySeq, NEW u \in UpdatesOf(m)
        PROVE  Disjoint(u, v)
    <3>1. Issued(u, Now)
      BY <1>1, <2>1 DEF Fine, Coming, Ahead
    <3>2. Issued(v, Now') /\ server.pts <= v.pts - v.count
      BY <2>1
    <3>3. /\ u.pts \in Nat /\ u.count \in Nat /\ u.pts <= server.pts
          /\ v.pts \in Nat /\ v.count \in Nat /\ server.pts \in Nat
      BY <1>3, <3>1, <3>2 DEF Issued, Updates, IInv, NetworkTyped
    <3>4. \A x \in Covers(u) : x <= server.pts
      BY <3>3 DEF Covers
    <3>5. \A x \in Covers(v) : ~(x <= server.pts)
      BY <3>2, <3>3 DEF Covers
    <3>6. QED
      BY <3>4, <3>5 DEF Disjoint
  <2>2. QED
    BY <2>1
<1>6. \A v \in OnTheWay' :
        v \in OnTheWay \/ /\ Issued(v, Now')
                          /\ Now.end <= v.pts - v.count
                          /\ CountsMove => v.count # 0
  BY <1>3
<1>7. Fine(client, OnTheWay', Now')
  <2>1. PICK e2, vs : e2 = Now' /\ vs = OnTheWay'
    OBVIOUS
  <2>2. Fine(client, vs, e2)
    BY <1>1, <1>3, <1>4, <1>5, <1>6, <2>1, StaysFine
  <2>3. QED
    BY <2>1, <2>2
<1>8. QED
  BY <1>7, BudgetTyped

(* An answer that is on its way stays true, while no message overtakes it. *)
LEMMA OldTruths ==
  ASSUME IInv, client' = client,
         server' \in [pts : Nat \ {0}, seq : Nat \ {0}],
         server.pts <= server'.pts, server.seq <= server'.seq,
         budget' \in Budgets, budget'.refusals <= budget.refusals,
         \A v \in OnTheWay' :
           v \in OnTheWay \/ /\ v \in Updates(Nat)
                             /\ server.pts <= v.pts - v.count,
         NEW i \in Answered, \A j \in 1 .. i : wire'[j] = wire[j]
  PROVE  Truthful(i)'
<1>1. PICK a : a = wire[i]
  OBVIOUS
<1>2. Truthful(i) /\ i \in Nat /\ i > 0 /\ wire'[i] = a
  BY <1>1 DEF IInv, Answering, Answered
<1>3. Sincere(a.request)'
  BY <1>1, <1>2 DEF Truthful, Sincere
<1>4. a.kind = "refused" => Refused'
  BY <1>1, <1>2, RefusalStays DEF Truthful
<1>5. /\ server.pts \in Nat /\ server.seq \in Nat
      /\ server'.pts \in Nat /\ server'.seq \in Nat
  BY DEF IInv, NetworkTyped
<1>6. ASSUME a.kind \in {"state", "empty", "slice", "difference"}
      PROVE  /\ a.pts \in 1 .. server'.pts
             /\ client.waiter.good <= a.pts
             /\ a.seq \in 1 .. server'.seq
             /\ \A m \in client.bySeq : m.seq <= a.seq
             /\ \A j \in 1 .. i : wire'[j].kind = "updates" =>
                                    wire'[j].seq <= a.seq
  BY <1>1, <1>2, <1>5, <1>6 DEF Truthful
<1>7. ASSUME a.kind \in {"state", "empty", "difference"},
             NEW u \in Ahead(client, OnTheWay')
      PROVE  Around(a.pts, u)
  <2>1. CASE u \in Ahead(client, OnTheWay)
    BY <1>1, <1>2, <1>7, <2>1 DEF Truthful
  <2>2. CASE u \notin Ahead(client, OnTheWay)
    <3>1. /\ server.pts <= u.pts - u.count
          /\ u.pts \in Nat /\ u.count \in Nat
      BY <1>7, <2>2 DEF Ahead, Updates
    <3>2. a.pts \in 1 .. server.pts
      BY <1>1, <1>2, <1>7 DEF Truthful
    <3>3. QED
      BY <1>5, <3>1, <3>2 DEF Around
  <2>3. QED
    BY <2>1, <2>2
<1>8. QED
  BY <1>1, <1>2, <1>3, <1>4, <1>6, <1>7 DEF Truthful

(* What follows from what a new update is: it begins behind what the       *)
(* server had issued, and so has nothing in common with it.                *)
LEMMA NewIsApart ==
  ASSUME IInv, NEW u \in OnTheWay,
         NEW v \in Updates(Nat), server.pts <= v.pts - v.count
  PROVE  Disjoint(u, v) /\ Disjoint(v, u)
<1>1. Issued(u, Now)
  BY BudgetTyped DEF Fine, Coming, Ahead
<1>2. /\ u.pts \in Nat /\ u.count \in Nat /\ u.pts <= server.pts
      /\ v.pts \in Nat /\ v.count \in Nat /\ server.pts \in Nat
  BY <1>1 DEF Issued, Updates, IInv, NetworkTyped, Now
<1>3. \A x \in Covers(u) : x <= server.pts
  BY <1>2 DEF Covers
<1>4. \A x \in Covers(v) : ~(x <= server.pts)
  BY <1>2 DEF Covers
<1>5. QED
  BY <1>3, <1>4 DEF Disjoint

LEMMA IssuedKeeps ==
  ASSUME IInv, NEW m \in Bundles \cup Reports, unsent' = unsent \cup {m},
         UNCHANGED <<client, requests, wire>>,
         server' \in [pts : Nat \ {0}, seq : Nat \ {0}],
         server.pts <= server'.pts, server.seq <= server'.seq,
         budget' \in Budgets, budget'.refusals = budget.refusals,
         Numbered(m, server'.seq),
         \A v \in UpdatesOf(m) :
           /\ v \in Updates(Nat) /\ v.pts <= server'.pts
           /\ server.pts <= v.pts - v.count
           /\ CountsMove => v.count # 0
  PROVE  IInv'
<1>1. /\ server.pts \in Nat /\ server.pts > 0
      /\ server.seq \in Nat /\ server'.seq \in Nat
      /\ budget.refusals \in Nat /\ budget'.refusals <= budget.refusals
  BY BudgetTyped DEF IInv, NetworkTyped
<1>2. OnWire' = OnWire /\ Answered' = Answered
      /\ (Unanswered' <=> Unanswered)
  BY DEF OnWire, Answered, Unanswered
<1>3. OnTheWay' = OnTheWay \cup UpdatesOf(m)
  BY <1>2 DEF OnTheWay
<1>4. \A v \in UpdatesOf(m) : Issued(v, Now')
  BY <1>1 DEF Issued, Updates, Now
<1>5. Fine(client', OnTheWay', Now') /\ client'.sending = <<>>
      /\ Timed(client')
  <2>1. \A v \in OnTheWay' :
          v \in OnTheWay \/ /\ Issued(v, Now')
                            /\ server.pts <= v.pts - v.count
                            /\ CountsMove => v.count # 0
    BY <1>3, <1>4
  <2>2. QED
    BY <1>1, <1>2, <2>1, ClientStays
<1>6. NetworkTyped'
  <2>1. budget'.refusals <= MaxRefusals
    BY DEF IInv, NetworkTyped
  <2>2. QED
    BY <2>1 DEF IInv, NetworkTyped, Budgets
<1>7. OnceOnly'
  <2>1. \A n \in unsent \cup OnWire : UpdatesOf(n) \subseteq OnTheWay
    BY DEF OnTheWay
  <2>2. \A n \in unsent \cup OnWire :
          Apart(UpdatesOf(n), UpdatesOf(m)) /\ Apart(UpdatesOf(m), UpdatesOf(n))
    BY <2>1, NewIsApart DEF Apart
  <2>3. ASSUME NEW n \in unsent \cup OnWire
        PROVE  Numbered(n, server'.seq)
    <3>1. n \in Messages
      <4>1. wire \in Seq(Messages)
        BY DEF IInv, NetworkTyped, Messages
      <4>2. OnWire \subseteq Messages
        BY <4>1, ElementOfSeq DEF OnWire
      <4>3. QED
        BY <2>3, <4>2 DEF IInv, NetworkTyped, Messages
    <3>2. n.kind = "updates" => n.seq \in Nat
      BY <3>1, MessageKinds DEF Bundles
    <3>3. Numbered(n, server.seq)
      BY <2>3 DEF IInv, OnceOnly
    <3>4. QED
      BY <1>1, <3>2, <3>3 DEF Numbered
  <2>4. \A n \in unsent' \cup OnWire' : Numbered(n, server'.seq)
    BY <1>2, <2>3
  <2>5. \A n1, n2 \in unsent' : n1 # n2 => Apart(UpdatesOf(n1), UpdatesOf(n2))
    BY <2>2 DEF IInv, OnceOnly
  <2>6. \A n \in unsent', i \in 1 .. Len(wire') :
          Apart(UpdatesOf(n), UpdatesOf(wire'[i]))
    BY <2>2 DEF IInv, OnceOnly, OnWire
  <2>7. QED
    BY <2>4, <2>5, <2>6 DEF IInv, OnceOnly
<1>8. Answering'
  <2>1. \A i \in 1 .. Len(requests') : Sincere(requests[i])'
    BY DEF IInv, Answering, Sincere
  <2>2. \A i \in Answered : Truthful(i)'
    <3>1. \A v \in OnTheWay' :
            v \in OnTheWay \/ /\ v \in Updates(Nat)
                              /\ server.pts <= v.pts - v.count
      BY <1>3
    <3>2. QED
      BY <1>1, <3>1, OldTruths
  <2>3. QED
    BY <1>2, <2>1, <2>2 DEF Answering
<1>9. QED
  BY <1>2, <1>5, <1>6, <1>7, <1>8 DEF IInv, OneQuestion

(* The positions of the updates of one container.                          *)
LEMMA PtsAfterIs ==
  ASSUME NEW pts \in Nat, NEW counts \in Seq(Nat)
  PROVE  /\ PtsAfter(pts, counts, 0) = pts
         /\ \A j \in 1 .. Len(counts) :
              PtsAfter(pts, counts, j) =
                PtsAfter(pts, counts, j - 1) + counts[j]
         /\ \A j \in 0 .. Len(counts) :
              /\ PtsAfter(pts, counts, j) \in Nat
              /\ \A i \in 0 .. j :
                   PtsAfter(pts, counts, i) <= PtsAfter(pts, counts, j)
<1> DEFINE n == Len(counts)
<1>1. n \in Nat
  BY LenProperties
<1>0. PICK sum : Sums(pts, counts, sum)
  BY <1>1, SumIs
<1>2. /\ sum[0] = pts
      /\ \A i \in 1 .. n : sum[i] = sum[i - 1] + counts[i]
      /\ \A i \in 0 .. n : PtsAfter(pts, counts, i) = sum[i]
  BY <1>0 DEF Sums
<1> DEFINE grows(j) ==
             \A i \in 0 .. j :
               sum[i] \in Nat /\ sum[j] \in Nat /\ sum[i] <= sum[j]
           S == {j \in Nat : j <= n => grows(j)}
<1>3. 0 \in S
  BY <1>2
<1>4. ASSUME NEW j \in Nat, j \in S PROVE j + 1 \in S
  <2>1. ASSUME j + 1 <= n PROVE grows(j + 1)
    <3>1. grows(j) /\ j + 1 \in 1 .. n
      BY <1>1, <1>4, <2>1
    <3>2. counts[j + 1] \in Nat
      BY <3>1, ElementOfSeq
    <3>3. sum[j + 1] = sum[j] + counts[j + 1]
      BY <1>2, <3>1
    <3>4. ASSUME NEW i \in 0 .. j + 1
          PROVE  sum[i] \in Nat /\ sum[i] <= sum[j + 1]
      <4>1. CASE i = j + 1
        BY <3>1, <3>2, <3>3, <4>1
      <4>2. CASE i \in 0 .. j
        BY <3>1, <3>2, <3>3, <4>2
      <4>3. QED
        BY <3>4, <4>1, <4>2
    <3>5. QED
      BY <3>1, <3>2, <3>3, <3>4
  <2> HIDE DEF grows
  <2>2. QED
    BY <2>1
<1>5. \A j \in 0 .. n : grows(j)
  <2>1. \A j \in Nat : j \in S => j + 1 \in S
    BY <1>4
  <2> HIDE DEF S
  <2>2. \A j \in Nat : j \in S
    BY <1>3, <2>1, Induction
  <2> HIDE DEF grows
  <2>3. QED
    BY <2>2 DEF S
<1>6. PtsAfter(pts, counts, 0) = pts
  BY <1>1, <1>2
<1>7. ASSUME NEW j \in 1 .. n
      PROVE  PtsAfter(pts, counts, j) =
               PtsAfter(pts, counts, j - 1) + counts[j]
  <2>1. j \in 0 .. n /\ j - 1 \in 0 .. n
    BY <1>1, <1>7
  <2>2. QED
    BY <1>2, <1>7, <2>1
<1>8. ASSUME NEW j \in 0 .. n, NEW i \in 0 .. j
      PROVE  /\ PtsAfter(pts, counts, j) \in Nat
             /\ PtsAfter(pts, counts, i) <= PtsAfter(pts, counts, j)
  <2>1. i \in 0 .. n
    BY <1>1, <1>8
  <2>2. QED
    BY <1>2, <1>5, <1>8, <2>1
<1>9. \A j \in 0 .. n : 0 \in 0 .. j
  OBVIOUS
<1>10. QED
  BY <1>6, <1>7, <1>8, <1>9

LEMMA IssueKeeps ==
  ASSUME IInv, NEW counts \in Containers, NEW step \in SeqSteps,
         NEW rpc \in BOOLEAN, Issue(counts, step, rpc)
  PROVE  IInv'
<1> DEFINE n == Len(counts)
           at(i) == PtsAfter(server.pts, counts, i)
           list == [i \in 1 .. n |-> Update(at(i), counts[i])]
           m == [kind |-> "updates", rpc |-> rpc, list |-> list,
                 start |-> IF step > 0 THEN server.seq + 1 ELSE 0,
                 seq |-> IF step > 0 THEN server'.seq ELSE 0]
<1>1. /\ server.pts \in Nat /\ server.pts > 0
      /\ server.seq \in Nat /\ server.seq > 0
  BY DEF IInv, NetworkTyped
<1>2. /\ counts \in Seq(Nat) /\ n \in Nat /\ step \in {0, 1, 2}
      /\ \A i \in 1 .. n : counts[i] \in Nat
  BY BoundsAssumption, ElementOfSeq, LenProperties
<1>3. /\ at(0) = server.pts
      /\ \A j \in 1 .. n : at(j) = at(j - 1) + counts[j]
      /\ \A j \in 0 .. n : at(j) \in Nat /\ \A i \in 0 .. j : at(i) <= at(j)
  BY <1>1, <1>2, PtsAfterIs
<1>4. server' = [pts |-> at(n), seq |-> server.seq + step]
  BY DEF Issue
<1>5. unsent' = unsent \cup {m}
  BY DEF Issue
<1> HIDE DEF at
<1>6. /\ server'.pts = at(n) /\ server'.seq = server.seq + step
      /\ server'.pts \in Nat /\ server.pts <= server'.pts
      /\ server.seq <= server'.seq
      /\ server' \in [pts : Nat \ {0}, seq : Nat \ {0}]
  BY <1>1, <1>2, <1>3, <1>4
<1>7. \A i \in 1 .. n :
        /\ list[i].pts = at(i) /\ list[i].count = counts[i]
        /\ list[i] \in Updates(Nat)
        /\ at(i - 1) = list[i].pts - list[i].count
        /\ server.pts <= at(i - 1) /\ at(i) <= server'.pts
  <2>1. ASSUME NEW i \in 1 .. n
        PROVE  /\ list[i].pts = at(i) /\ list[i].count = counts[i]
               /\ list[i] \in Updates(Nat)
               /\ at(i - 1) = list[i].pts - list[i].count
               /\ server.pts <= at(i - 1) /\ at(i) <= server'.pts
    <3>1. list[i] = [pts |-> at(i), count |-> counts[i]]
      BY DEF Update
    <3>2. /\ at(i) \in Nat /\ at(i - 1) \in Nat /\ counts[i] \in Nat
          /\ at(i) = at(i - 1) + counts[i]
          /\ at(0) <= at(i - 1) /\ at(i) <= at(n)
      <4>1. /\ i \in 0 .. n /\ i - 1 \in 0 .. n /\ n \in 0 .. n
            /\ 0 \in 0 .. i - 1 /\ i \in 0 .. n
        BY <1>2, <2>1
      <4>2. QED
        BY <1>2, <1>3, <2>1, <4>1
    <3>3. QED
      BY <1>3, <1>6, <3>1, <3>2 DEF Updates
  <2>2. QED
    BY <2>1
<1>8. list \in Seq(Updates(Nat)) /\ Len(list) = n
  <2>1. list \in [1 .. n -> Updates(Nat)]
    BY <1>7
  <2>2. QED
    BY <1>2, <2>1
<1>9. \A i, j \in 1 .. n : i # j => Disjoint(list[i], list[j])
  <2>1. ASSUME NEW i \in 1 .. n, NEW j \in 1 .. n, i < j
        PROVE  Disjoint(list[i], list[j]) /\ Disjoint(list[j], list[i])
    <3>1. /\ at(i) <= at(j - 1)
          /\ at(i) \in Nat /\ at(j - 1) \in Nat /\ at(j) \in Nat
          /\ counts[i] \in Nat /\ counts[j] \in Nat
      BY <1>2, <1>3, <2>1
    <3>2. \A x \in Covers(list[i]) : x <= at(i)
      BY <1>7, <3>1 DEF Covers
    <3>3. \A x \in Covers(list[j]) : ~(x <= at(i))
      BY <1>7, <3>1 DEF Covers
    <3>4. QED
      BY <3>2, <3>3 DEF Disjoint
  <2>2. QED
    BY <1>2, <2>1
<1> HIDE DEF list
<1>10. /\ m.kind = "updates" /\ m.list = list
       /\ m \in Bundles /\ Numbered(m, server'.seq)
  <2>1. m \in Bundles
    BY <1>1, <1>2, <1>6, <1>8 DEF Bundles
  <2>2. Numbered(m, server'.seq)
    BY <1>1, <1>2, <1>6, <1>8, <1>9 DEF Numbered
  <2>3. QED
    BY <2>1, <2>2
<1> HIDE DEF m
<1>11. \A v \in UpdatesOf(m) :
         /\ v \in Updates(Nat) /\ v.pts <= server'.pts
         /\ server.pts <= v.pts - v.count
         /\ CountsMove => v.count # 0
  BY <1>7, <1>8, <1>10 DEF UpdatesOf, CountsMove
<1>12. /\ budget' \in Budgets /\ budget'.refusals = budget.refusals
       /\ UNCHANGED <<client, requests, wire>>
  BY BudgetTyped DEF Issue, Spend, Budgets
<1>13. QED
  BY <1>5, <1>6, <1>10, <1>11, <1>12, IssuedKeeps

LEMMA IssueAffectedKeeps ==
  ASSUME IInv, NEW counts \in Containers, NEW n \in 0 .. 2, counts = <<n>>,
         IssueAffected(n)
  PROVE  IInv'
<1> DEFINE u == Update(server.pts + n, n)
           m == [kind |-> "affected", rpc |-> TRUE, upd |-> u]
<1>1. /\ server.pts \in Nat /\ server.pts > 0
      /\ server.seq \in Nat /\ server.seq > 0
      /\ server \in [pts : Nat \ {0}, seq : Nat \ {0}]
  BY DEF IInv, NetworkTyped
<1>2. /\ server' = [server EXCEPT !.pts = @ + n]
      /\ unsent' = unsent \cup {m}
      /\ UNCHANGED <<client, requests, wire>>
  BY DEF IssueAffected
<1>3. /\ server'.pts = server.pts + n /\ server'.seq = server.seq
      /\ server' \in [pts : Nat \ {0}, seq : Nat \ {0}]
  BY <1>1, <1>2
<1>4. /\ u \in Updates(Nat) /\ u.pts = server.pts + n /\ u.count = n
      /\ CountsMove => u.count # 0
  <2>1. CountsMove => n # 0
    <3>1. counts[1] = n /\ Len(counts) = 1
      OBVIOUS
    <3>2. QED
      BY <3>1 DEF CountsMove
  <2>2. QED
    BY <1>1, <2>1 DEF Update, Updates
<1> HIDE DEF u
<1>5. /\ m \in Bundles \cup Reports /\ Numbered(m, server'.seq)
      /\ UpdatesOf(m) = {u}
  BY <1>4 DEF Reports, Numbered, UpdatesOf
<1> HIDE DEF m
<1>6. \A v \in UpdatesOf(m) :
        /\ v \in Updates(Nat) /\ v.pts <= server'.pts
        /\ server.pts <= v.pts - v.count
        /\ CountsMove => v.count # 0
  BY <1>1, <1>3, <1>4, <1>5
<1>7. budget' \in Budgets /\ budget'.refusals = budget.refusals
  BY BudgetTyped DEF IssueAffected, Spend, Budgets
<1>8. server.pts <= server'.pts /\ server.seq <= server'.seq
  BY <1>1, <1>3
<1>9. QED
  BY <1>2, <1>3, <1>5, <1>6, <1>7, <1>8, IssuedKeeps

(* The wire with one more message.                                         *)
LEMMA AppendIs ==
  ASSUME NetworkTyped, NEW m \in Messages, wire' = Append(wire, m)
  PROVE  /\ wire' \in Seq(Messages)
         /\ Len(wire) \in Nat /\ Len(wire') = Len(wire) + 1
         /\ wire'[Len(wire) + 1] = m
         /\ \A i \in 1 .. Len(wire) : wire'[i] = wire[i]
         /\ OnWire' = OnWire \cup {m}
         /\ Answered' = Answered \cup
              (IF m.kind \in Answers THEN {Len(wire) + 1} ELSE {})
<1>1. wire \in Seq(Messages)
  BY DEF NetworkTyped, Messages
<1>2. Len(wire) \in Nat
  BY <1>1, LenProperties
<1>3. /\ wire' \in Seq(Messages)
      /\ Len(wire') = Len(wire) + 1
      /\ wire'[Len(wire) + 1] = m
      /\ \A i \in 1 .. Len(wire) : wire'[i] = wire[i]
  BY <1>1, <1>2
<1>4. 1 .. Len(wire') = 1 .. Len(wire) \cup {Len(wire) + 1}
  BY <1>2, <1>3
<1>5. OnWire' = OnWire \cup {m}
  <2>1. \A x : x \in OnWire' <=> x \in OnWire \/ x = m
    BY <1>3, <1>4 DEF OnWire
  <2>2. QED
    BY <2>1
<1>6. Answered' = Answered \cup
        (IF m.kind \in Answers THEN {Len(wire) + 1} ELSE {})
  <2>1. \A i : i \in Answered' <=>
               \/ i \in Answered
               \/ i = Len(wire) + 1 /\ m.kind \in Answers
    BY <1>3, <1>4 DEF Answered
  <2>2. QED
    BY <2>1
<1>7. QED
  BY <1>2, <1>3, <1>5, <1>6

LEMMA AppendOnce ==
  ASSUME NetworkTyped, OnceOnly, NEW m \in Messages, wire' = Append(wire, m),
         unsent' \subseteq unsent, server' = server,
         Numbered(m, server.seq),
         \A n \in unsent' : Apart(UpdatesOf(n), UpdatesOf(m)),
         \A i \in 1 .. Len(wire) : Apart(UpdatesOf(wire[i]), UpdatesOf(m))
  PROVE  OnceOnly'
<1>1. /\ Len(wire) \in Nat /\ Len(wire') = Len(wire) + 1
      /\ wire'[Len(wire) + 1] = m
      /\ \A i \in 1 .. Len(wire) : wire'[i] = wire[i]
      /\ OnWire' = OnWire \cup {m}
  BY AppendIs
<1>2. \A i \in 1 .. Len(wire') : i \in 1 .. Len(wire) \/ i = Len(wire) + 1
  BY <1>1
<1>3. \A n \in unsent' \cup OnWire' : Numbered(n, server'.seq)
  BY <1>1 DEF OnceOnly
<1>4. \A n, l \in unsent' : n # l => Apart(UpdatesOf(n), UpdatesOf(l))
  BY DEF OnceOnly
<1>5. \A n \in unsent', i \in 1 .. Len(wire') :
        Apart(UpdatesOf(n), UpdatesOf(wire'[i]))
  BY <1>1, <1>2 DEF OnceOnly
<1>6. \A i, j \in 1 .. Len(wire') :
        i # j => Apart(UpdatesOf(wire'[i]), UpdatesOf(wire'[j]))
  <2>1. \A i \in 1 .. Len(wire) : Apart(UpdatesOf(m), UpdatesOf(wire[i]))
    BY DisjointBothWays
  <2>2. QED
    BY <1>1, <1>2, <2>1 DEF OnceOnly
<1>7. QED
  BY <1>3, <1>4, <1>5, <1>6 DEF OnceOnly

(* A push, or the result of a request, is put on the wire.                 *)
LEMMA PutKeeps ==
  ASSUME IInv, NEW m \in Messages, m.kind \notin Answers,
         wire' = Append(wire, m), unsent' \subseteq unsent,
         UNCHANGED <<client, requests, server, budget>>,
         UpdatesOf(m) \subseteq OnTheWay, OnceOnly'
  PROVE  IInv'
<1>1. /\ wire' \in Seq(Messages)
      /\ Len(wire) \in Nat
      /\ \A i \in 1 .. Len(wire) : wire'[i] = wire[i]
      /\ OnWire' = OnWire \cup {m}
      /\ Answered' = Answered
  BY AppendIs DEF IInv
<1>2. OnTheWay' \subseteq OnTheWay
  BY <1>1 DEF OnTheWay
<1>3. /\ server' \in [pts : Nat \ {0}, seq : Nat \ {0}]
      /\ server.pts <= server'.pts /\ server.seq <= server'.seq
      /\ budget' \in Budgets /\ budget'.refusals <= budget.refusals
  BY BudgetTyped DEF IInv, NetworkTyped, Budgets
<1>4. Unanswered' <=> Unanswered
  BY <1>1 DEF Unanswered
<1>5. Fine(client', OnTheWay', Now') /\ client'.sending = <<>>
      /\ Timed(client')
  BY <1>2, <1>3, <1>4, ClientStays
<1>6. NetworkTyped'
  BY <1>1 DEF IInv, NetworkTyped, Messages
<1>7. Answering'
  <2>1. \A i \in 1 .. Len(requests') : Sincere(requests[i])'
    BY DEF IInv, Answering, Sincere
  <2>2. \A i \in Answered : \A j \in 1 .. i : wire'[j] = wire[j]
    BY <1>1 DEF Answered
  <2>3. \A i \in Answered : Truthful(i)'
    BY <1>2, <1>3, <2>2, OldTruths
  <2>4. QED
    BY <1>1, <2>1, <2>3 DEF Answering
<1>8. QED
  BY <1>1, <1>5, <1>6, <1>7 DEF IInv, OneQuestion

LEMMA SendKeeps ==
  ASSUME IInv, NEW m \in unsent, Send(m)
  PROVE  IInv'
<1>1. /\ unsent' = unsent \ {m} /\ wire' = Append(wire, m)
      /\ UNCHANGED <<client, requests, server, budget>>
  BY DEF Send
<1>2. /\ m \in Messages /\ m.kind \notin Answers
      /\ UpdatesOf(m) \subseteq OnTheWay
  <2>1. m \in Bundles \cup Reports
    BY DEF IInv, NetworkTyped
  <2>2. QED
    BY <2>1 DEF Messages, Bundles, Reports, Answers, OnTheWay
<1>3. OnceOnly'
  <2>1. /\ Numbered(m, server.seq)
        /\ \A n \in unsent' : Apart(UpdatesOf(n), UpdatesOf(m))
        /\ \A i \in 1 .. Len(wire) : Apart(UpdatesOf(m), UpdatesOf(wire[i]))
    BY <1>1 DEF IInv, OnceOnly
  <2>2. \A i \in 1 .. Len(wire) : Apart(UpdatesOf(wire[i]), UpdatesOf(m))
    BY <2>1, DisjointBothWays
  <2>3. QED
    BY <1>1, <1>2, <2>1, <2>2, AppendOnce DEF IInv
<1>4. QED
  BY <1>1, <1>2, <1>3, PutKeeps

LEMMA SendTooLongKeeps ==
  ASSUME IInv, SendTooLong
  PROVE  IInv'
<1> DEFINE m == [kind |-> "tooLong", rpc |-> FALSE]
<1>1. /\ unsent' \subseteq unsent /\ wire' = Append(wire, m)
      /\ UNCHANGED <<client, requests, server, budget>>
  BY DEF SendTooLong
<1>2. /\ m \in Messages /\ m.kind \notin Answers
      /\ UpdatesOf(m) = {} /\ Numbered(m, server.seq)
  BY DEF Messages, Notices, Answers, UpdatesOf, Numbered
<1> HIDE DEF m
<1>3. OnceOnly'
  BY <1>1, <1>2, AppendOnce DEF IInv, Apart
<1>4. QED
  BY <1>1, <1>2, <1>3, PutKeeps

LEMMA DropKeeps ==
  ASSUME IInv, NEW m, Drop(m)
  PROVE  IInv'
<1>1. /\ unsent' \subseteq unsent
      /\ UNCHANGED <<client, requests, server, wire>>
      /\ OnWire' = OnWire /\ Answered' = Answered
  BY DEF Drop, OnWire, Answered
<1>2. OnTheWay' \subseteq OnTheWay
  BY <1>1 DEF OnTheWay
<1>3. /\ server' \in [pts : Nat \ {0}, seq : Nat \ {0}]
      /\ server.pts <= server'.pts /\ server.seq <= server'.seq
      /\ budget' \in Budgets /\ budget'.refusals = budget.refusals
      /\ budget'.refusals <= budget.refusals
  BY <1>1, BudgetTyped DEF IInv, NetworkTyped, Budgets, Drop, Spend
<1>4. Unanswered' <=> Unanswered
  BY <1>1 DEF Unanswered
<1>5. Fine(client', OnTheWay', Now') /\ client'.sending = <<>>
      /\ Timed(client')
  BY <1>1, <1>2, <1>3, <1>4, ClientStays
<1>6. NetworkTyped'
  BY <1>1, <1>3 DEF IInv, NetworkTyped, Budgets
<1>7. OnceOnly'
  BY <1>1 DEF IInv, OnceOnly
<1>8. Answering'
  <2>1. \A i \in 1 .. Len(requests') : Sincere(requests[i])'
    BY <1>1 DEF IInv, Answering, Sincere
  <2>2. \A i \in Answered : Truthful(i)'
    BY <1>1, <1>2, <1>3, OldTruths
  <2>3. QED
    BY <1>1, <2>1, <2>2 DEF Answering
<1>9. QED
  BY <1>1, <1>5, <1>6, <1>7, <1>8 DEF IInv, OneQuestion

(* An answer is put on the wire.  It is the only one.                      *)
LEMMA ReplyKeeps ==
  ASSUME IInv, requests # <<>>, NEW a \in Replies, Reply(a),
         UNCHANGED <<client, server, unsent>>,
         budget' \in Budgets, budget'.refusals <= budget.refusals,
         a.request = Head(requests),
         a.kind \in {"empty", "slice", "difference", "failed"} =>
           a.request.kind = "difference",
         a.kind = "refused" => Refused',
         a.kind \in {"state", "empty", "slice", "difference"} =>
           /\ a.pts \in 1 .. server.pts
           /\ a.request.pts <= a.pts
           /\ a.seq = server.seq,
         a.kind \in {"state", "empty", "difference"} => a.pts = server.pts,
         a.kind = "empty" => a.pts = a.request.pts
  PROVE  IInv'
<1>0. PICK n : n = Len(wire)
  OBVIOUS
<1>1. /\ wire' = Append(wire, a) /\ requests' = Tail(requests)
      /\ a \in Messages /\ a.kind \in Answers
      /\ UpdatesOf(a) = {} /\ Numbered(a, server.seq)
  BY MessageKinds DEF Reply, Messages, Replies, Numbered, Answers, UpdatesOf
<1>2. /\ wire' \in Seq(Messages)
      /\ n \in Nat /\ wire'[n + 1] = a
      /\ \A i \in 1 .. n : wire'[i] = wire[i]
      /\ OnWire' = OnWire \cup {a}
      /\ Answered' = Answered \cup {n + 1}
  BY <1>0, <1>1, AppendIs DEF IInv
<1>3. /\ Answered = {} /\ Answered' = {n + 1}
      /\ requests' = <<>>
      /\ Head(requests) = requests[1] /\ 1 \in 1 .. Len(requests)
  <2>1. requests \in Seq(Questions) /\ Len(requests) <= 1 /\ Answered = {}
    BY DEF IInv, NetworkTyped, OneQuestion
  <2>2. PICK k : k = Len(requests) /\ k \in Nat \ {0}
    BY <2>1, EmptySeq
  <2>3. Len(requests) = 1
    BY <2>1, <2>2
  <2>4. Tail(requests) \in Seq(Questions) /\ Len(Tail(requests)) = 0
    BY <2>1, <2>3, HeadTailProperties
  <2>5. Tail(requests) = <<>>
    BY <2>4, EmptySeq
  <2>6. Head(requests) = requests[1]
    BY <2>1
  <2>7. QED
    BY <1>1, <1>2, <2>1, <2>3, <2>5, <2>6
<1>4. OnTheWay' = OnTheWay
  BY <1>1, <1>2 DEF OnTheWay
<1>5. /\ server' \in [pts : Nat \ {0}, seq : Nat \ {0}]
      /\ server.pts <= server'.pts /\ server.seq <= server'.seq
      /\ server.pts \in Nat /\ server.seq \in Nat /\ server.seq > 0
  BY DEF IInv, NetworkTyped
<1>6. Unanswered' <=> Unanswered
  BY <1>3 DEF Unanswered
<1>7. Fine(client', OnTheWay', Now') /\ client'.sending = <<>>
      /\ Timed(client')
  BY <1>4, <1>5, <1>6, ClientStays
<1>8. OnceOnly'
  BY <1>1, AppendOnce DEF IInv, Apart
<1>9. NetworkTyped'
  <2>1. budget'.refusals <= MaxRefusals
    <3>1. /\ budget.refusals \in Nat /\ budget'.refusals \in Nat
          /\ MaxRefusals \in Nat /\ budget.refusals <= MaxRefusals
      BY BudgetTyped, BoundsAssumption DEF IInv, NetworkTyped, Budgets
    <3>2. QED
      BY <3>1
  <2>2. requests' \in Seq(Questions)
    BY <1>3
  <2>3. QED
    BY <1>2, <2>1, <2>2 DEF IInv, NetworkTyped, Budgets, Messages
<1>10. Sincere(a.request)'
  BY <1>3 DEF IInv, Answering, Sincere
<1>11. Truthful(n + 1)'
  <2>1. ASSUME a.kind \in {"state", "empty", "slice", "difference"}
        PROVE  /\ a.pts \in 1 .. server.pts
               /\ client.waiter.good <= a.pts
               /\ a.seq \in 1 .. server.seq
               /\ \A m \in client.bySeq : m.seq <= a.seq
               /\ \A j \in 1 .. n + 1 :
                    wire'[j].kind = "updates" => wire'[j].seq <= a.seq
    <3>1. a.pts \in 1 .. server.pts /\ a.seq \in 1 .. server.seq
      BY <1>5, <2>1
    <3>2. client.waiter.good <= a.pts
      BY <1>10, <2>1 DEF Sincere
    <3>3. \A m \in client.bySeq : m.seq <= a.seq
      <4>1. \A m \in client.bySeq : m.kind = "updates" /\ Numbered(m, Now.top)
        BY BudgetTyped DEF Fine, ParkedApart, ClientTyped, Bundles
      <4>2. QED
        BY <2>1, <4>1 DEF Numbered, Now
    <3>4. \A m \in OnWire' : m.kind = "updates" => m.seq <= a.seq
      <4>1. \A m \in OnWire' : Numbered(m, server.seq)
        BY <1>8 DEF OnceOnly
      <4>2. QED
        BY <2>1, <4>1 DEF Numbered
    <3>5. \A j \in 1 .. n + 1 : wire'[j] \in OnWire'
      <4>1. Len(wire') = n + 1
        BY <1>0, <1>1, AppendIs DEF IInv
      <4>2. QED
        BY <4>1 DEF OnWire
    <3>6. QED
      BY <3>1, <3>2, <3>3, <3>4, <3>5
  <2>2. ASSUME a.kind \in {"state", "empty", "difference"},
               NEW u \in Ahead(client, OnTheWay)
        PROVE  Around(a.pts, u)
    <3>1. Issued(u, Now)
      BY <2>2, BudgetTyped DEF Fine, Coming
    <3>2. QED
      BY <2>2, <3>1 DEF Issued, Around, Now
  <2>3. a.kind = "empty" => a.pts = client.waiter.good
    BY <1>10 DEF Sincere
  <2>4. QED
    BY <1>2, <1>4, <1>10, <2>1, <2>2, <2>3 DEF Truthful
<1>12. Answering'
  BY <1>3, <1>11 DEF Answering
<1>13. OneQuestion'
  BY <1>3 DEF OneQuestion
<1>14. QED
  BY <1>7, <1>8, <1>9, <1>12, <1>13 DEF IInv

LEMMA HeadRequest ==
  ASSUME IInv, requests # <<>>
  PROVE  /\ Head(requests) \in Questions
         /\ Sincere(Head(requests))
         /\ server.pts \in Nat /\ server.pts > 0 /\ server.seq \in Nat
         /\ client.waiter.good \in Nat /\ client.waiter.good <= server.pts
<1>1. requests \in Seq(Questions)
  BY DEF IInv, NetworkTyped
<1>2. Head(requests) \in Questions /\ Head(requests) = requests[1]
  BY <1>1, HeadTailProperties
<1>3. 1 \in 1 .. Len(requests)
  <2>1. PICK k : k = Len(requests) /\ k \in Nat \ {0}
    BY <1>1, EmptySeq
  <2>2. QED
    BY <2>1
<1>4. Sincere(Head(requests))
  BY <1>2, <1>3 DEF IInv, Answering
<1>5. server.pts \in Nat /\ server.pts > 0 /\ server.seq \in Nat
  BY DEF IInv, NetworkTyped
<1>6. /\ client.waiter.good \in Nat
      /\ 1 .. client.waiter.good \subseteq 1 .. server.pts
  BY BudgetTyped DEF Fine, ClientTyped, Waiters, Learned, Now
<1>7. client.waiter.good <= server.pts
  BY <1>5, <1>6
<1>8. QED
  BY <1>2, <1>4, <1>5, <1>6, <1>7

LEMMA AnswerIs ==
  ASSUME IInv, requests # <<>>, NEW kind \in Answers,
         NEW pts \in Nat, NEW seq \in Nat
  PROVE  LET a == Answer(kind, pts, seq)
         IN /\ a \in Replies
            /\ a.kind = kind /\ a.pts = pts /\ a.seq = seq
            /\ a.request = Head(requests)
BY HeadRequest DEF Answer, Replies

LEMMA AnswerGetStateKeeps ==
  ASSUME IInv, AnswerGetState
  PROVE  IInv'
<1>0. PICK a : a = Answer("state", server.pts, server.seq)
  OBVIOUS
<1>1. requests # <<>>
  BY DEF AnswerGetState
<1>2. /\ a \in Replies
      /\ a.kind = "state" /\ a.pts = server.pts /\ a.seq = server.seq
      /\ a.request = Head(requests)
  BY <1>0, <1>1, HeadRequest, AnswerIs DEF Answers
<1>3. /\ Reply(a) /\ UNCHANGED <<client, server, unsent>>
      /\ budget' \in Budgets /\ budget'.refusals <= budget.refusals
  BY <1>0, BudgetTyped DEF AnswerGetState, Budgets
<1>4. /\ a.pts \in 1 .. server.pts
      /\ a.request.pts <= a.pts
  BY <1>1, <1>2, HeadRequest DEF Sincere
<1>5. QED
  BY <1>1, <1>2, <1>3, <1>4, ReplyKeeps

LEMMA AnswerGetDifferenceKeeps ==
  ASSUME IInv, NEW pts \in 1 .. server.pts, AnswerGetDifference(pts)
  PROVE  IInv'
<1>0. PICK kind, a :
        /\ kind = IF pts # server.pts THEN "slice"
                  ELSE IF pts = Head(requests).pts THEN "empty"
                  ELSE "difference"
        /\ a = Answer(kind, pts, server.seq)
  OBVIOUS
<1>1. /\ requests # <<>> /\ Head(requests).kind = "difference"
      /\ pts \in Head(requests).pts .. server.pts
  BY DEF AnswerGetDifference
<1>2. /\ server.pts \in Nat /\ server.seq \in Nat /\ pts \in Nat
      /\ Head(requests).pts \in Nat
  BY <1>1, HeadRequest DEF Questions
<1>3. /\ a \in Replies
      /\ a.kind = kind /\ a.pts = pts /\ a.seq = server.seq
      /\ a.request = Head(requests)
  BY <1>0, <1>1, <1>2, AnswerIs DEF Answers
<1>4. /\ Reply(a) /\ UNCHANGED <<client, server, unsent>>
      /\ budget' \in Budgets /\ budget'.refusals <= budget.refusals
  BY <1>0, BudgetTyped DEF AnswerGetDifference, Budgets
<1>5. /\ a.request.pts <= a.pts /\ a.request.kind = "difference"
      /\ a.kind \in {"empty", "difference"} => a.pts = server.pts
      /\ a.kind = "empty" => a.pts = a.request.pts
      /\ a.kind \notin {"refused", "state"}
  BY <1>0, <1>1, <1>2, <1>3
<1>6. QED
  BY <1>1, <1>3, <1>4, <1>5, ReplyKeeps

LEMMA FailDifferenceKeeps ==
  ASSUME IInv, FailDifference
  PROVE  IInv'
<1>0. PICK a : a = Answer("failed", 0, 0)
  OBVIOUS
<1>1. requests # <<>> /\ Head(requests).kind = "difference"
  BY DEF FailDifference
<1>2. /\ a \in Replies /\ a.kind = "failed" /\ a.request = Head(requests)
  BY <1>0, <1>1, AnswerIs DEF Answers
<1>3. /\ Reply(a) /\ UNCHANGED <<client, server, unsent>>
      /\ budget' \in Budgets /\ budget'.refusals <= budget.refusals
  BY <1>0, BudgetTyped DEF FailDifference, Spend, Budgets
<1>4. QED
  BY <1>1, <1>2, <1>3, ReplyKeeps

LEMMA RefuseKeeps ==
  ASSUME IInv, Refuse
  PROVE  IInv'
<1>0. PICK a : a = Answer("refused", 0, 0)
  OBVIOUS
<1>1. requests # <<>>
  BY DEF Refuse
<1>2. /\ a \in Replies /\ a.kind = "refused" /\ a.request = Head(requests)
  BY <1>0, <1>1, AnswerIs DEF Answers
<1>3. /\ budget.refusals \in Nat /\ budget.refusals <= MaxRefusals
      /\ MaxRefusals \in Nat
  BY BudgetTyped, BoundsAssumption DEF IInv, NetworkTyped
<1>4. /\ Reply(a) /\ UNCHANGED <<client, server, unsent>>
      /\ budget.refusals > 0
      /\ budget' = [budget EXCEPT !["refusals"] = @ - 1]
  BY <1>0 DEF Refuse, Spend
<1>5. /\ budget' \in Budgets /\ budget'.refusals = budget.refusals - 1
  BY <1>3, <1>4, BudgetTyped DEF Budgets
<1>6. budget'.refusals <= budget.refusals /\ Refused'
  BY <1>3, <1>4, <1>5 DEF Refused
<1>7. QED
  BY <1>1, <1>2, <1>4, <1>5, <1>6, ReplyKeeps

(* A session is lost: what was asked and not answered, or answered in vain,*)
(* is asked again, and it is still one question.                           *)
LEMMA AskedAgain ==
  ASSUME IInv, LoseSession
  PROVE  /\ requests' \in Seq(Questions)
         /\ Len(requests') <= 1
         /\ \A i \in 1 .. Len(requests') : Sincere(requests[i])'
         /\ requests' # <<>> <=> Unanswered
<1> DEFINE nth(k) == CHOOSE i \in Answered :
                       Cardinality({j \in Answered : j <= i}) = k
           again == [k \in 1 .. Cardinality(Answered) |->
                       wire[nth(k)].request]
<1>1. requests' = again \o requests /\ client' = client
  BY DEF LoseSession
<1>2. requests \in Seq(Questions) /\ wire \in Seq(Messages)
  BY DEF IInv, NetworkTyped, Messages
<1>3. CASE Answered = {}
  <2>1. Cardinality(Answered) = 0
    BY <1>3, FS_EmptySet
  <2>2. again = <<>>
    BY <2>1
  <2> HIDE DEF again
  <2>3. requests' = requests
    BY <1>1, <1>2, <2>2
  <2>4. QED
    BY <1>1, <1>2, <1>3, <2>3
    DEF IInv, OneQuestion, Answering, Sincere, Unanswered
<1>4. ASSUME NEW i \in Answered
      PROVE  /\ requests' \in Seq(Questions)
             /\ Len(requests') <= 1
             /\ \A k \in 1 .. Len(requests') : Sincere(requests[k])'
             /\ requests' # <<>>
  <2>1. Answered = {i} /\ requests = <<>>
    BY <1>4 DEF IInv, OneQuestion
  <2>2. i \in Nat
    BY <1>4 DEF Answered
  <2>3. Cardinality(Answered) = 1
    BY <2>1, FS_Singleton
  <2>4. {j \in Answered : j <= i} = {i}
    BY <2>1, <2>2
  <2>5. nth(1) = i
    <3>1. Cardinality({j \in Answered : j <= i}) = 1
      BY <2>4, FS_Singleton
    <3>2. \E k \in Answered : Cardinality({j \in Answered : j <= k}) = 1
      BY <1>4, <3>1
    <3>3. nth(1) \in Answered
      BY <3>2
    <3>4. QED
      BY <2>1, <3>3
  <2>6. PICK q : q = wire[i].request
    OBVIOUS
  <2> HIDE DEF nth
  <2>7. again = <<q>>
    BY <2>3, <2>5, <2>6
  <2>8. Truthful(i) /\ wire[i] \in Messages /\ wire[i].kind \in Answers
    BY <1>2, <1>4, ElementOfSeq DEF IInv, Answering, Answered
  <2>9. q \in Questions /\ Sincere(q)
    <3>1. wire[i] \in Replies
      BY <2>8, MessageKinds
    <3>2. QED
      BY <2>6, <2>8, <3>1 DEF Truthful, Replies
  <2> HIDE DEF again
  <2>10. requests' = <<q>>
    BY <1>1, <2>1, <2>7
  <2>11. Sincere(q)'
    BY <1>1, <2>9 DEF Sincere
  <2>12. QED
    BY <2>9, <2>10, <2>11
<1>5. QED
  BY <1>3, <1>4 DEF Unanswered

LEMMA LoseSessionKeeps ==
  ASSUME IInv, LoseSession
  PROVE  IInv'
<1>0. PICK m : m = [kind |-> "newSession", rpc |-> FALSE]
  OBVIOUS
<1>1. /\ wire' = <<m>> /\ client' = client /\ server' = server
      /\ unsent' = {n \in unsent \cup OnWire :
                      n.rpc /\ n.kind \notin Answers}
      /\ budget' \in Budgets /\ budget'.refusals = budget.refusals
  BY <1>0, BudgetTyped DEF LoseSession, Spend, Budgets
<1>2. /\ m \in Messages /\ m.kind \notin Answers
      /\ UpdatesOf(m) = {} /\ Numbered(m, server.seq)
  BY <1>0 DEF Messages, Notices, Answers, UpdatesOf, Numbered
<1>3. /\ wire' \in Seq(Messages) /\ Len(wire') = 1 /\ wire'[1] = m
      /\ OnWire' = {m} /\ Answered' = {}
  BY <1>1, <1>2 DEF OnWire, Answered
<1>4. OnTheWay' \subseteq OnTheWay
  <2>1. \A n \in unsent' \cup OnWire' :
          n \in unsent \cup OnWire \/ UpdatesOf(n) = {}
    BY <1>1, <1>2, <1>3
  <2>2. QED
    BY <2>1 DEF OnTheWay
<1>5. /\ requests' \in Seq(Questions)
      /\ Len(requests') <= 1
      /\ \A i \in 1 .. Len(requests') : Sincere(requests[i])'
      /\ Unanswered' <=> Unanswered
  BY <1>3, AskedAgain DEF Unanswered
<1>6. /\ server' \in [pts : Nat \ {0}, seq : Nat \ {0}]
      /\ server.pts <= server'.pts /\ server.seq <= server'.seq
      /\ budget'.refusals <= budget.refusals
  BY <1>1, BudgetTyped DEF IInv, NetworkTyped
<1>7. Fine(client', OnTheWay', Now') /\ client'.sending = <<>>
      /\ Timed(client')
  BY <1>1, <1>4, <1>5, <1>6, ClientStays
<1>8. OnWire \subseteq Messages
  <2>1. wire \in Seq(Messages)
    BY DEF IInv, NetworkTyped, Messages
  <2>2. QED
    BY <2>1, ElementOfSeq DEF OnWire
<1>9. unsent' \subseteq Bundles \cup Reports
  <2>1. ASSUME NEW n \in unsent' PROVE n \in Bundles \cup Reports
    <3>1. n \in Messages /\ n.rpc /\ n.kind \notin Answers
      BY <1>1, <1>8, <2>1 DEF IInv, NetworkTyped, Messages
    <3>2. n \notin Notices /\ n \notin Replies
      BY <3>1 DEF Notices, Replies
    <3>3. QED
      BY <3>1, <3>2 DEF Messages
  <2>2. QED
    BY <2>1
<1>10. NetworkTyped'
  BY <1>1, <1>3, <1>5, <1>6, <1>9 DEF IInv, NetworkTyped, Budgets, Messages
<1>11. OnceOnly'
  <2>1. ASSUME NEW n \in OnWire
        PROVE  /\ \A l \in unsent : /\ Apart(UpdatesOf(l), UpdatesOf(n))
                                    /\ Apart(UpdatesOf(n), UpdatesOf(l))
               /\ \A l \in OnWire :
                    n # l => Apart(UpdatesOf(n), UpdatesOf(l))
    <3>1. PICK i \in 1 .. Len(wire) : n = wire[i]
      BY <2>1 DEF OnWire
    <3>2. \A l \in unsent : Apart(UpdatesOf(l), UpdatesOf(n))
      BY <3>1 DEF IInv, OnceOnly
    <3>3. ASSUME NEW l \in OnWire, n # l
          PROVE  Apart(UpdatesOf(n), UpdatesOf(l))
      <4>1. PICK j \in 1 .. Len(wire) : l = wire[j]
        BY <3>3 DEF OnWire
      <4>2. QED
        BY <3>1, <3>3, <4>1 DEF IInv, OnceOnly
    <3>4. QED
      BY <3>2, <3>3, DisjointBothWays
  <2>2. \A n, l \in unsent' : n # l => Apart(UpdatesOf(n), UpdatesOf(l))
    BY <1>1, <2>1 DEF IInv, OnceOnly
  <2>3. \A n \in unsent' \cup OnWire' : Numbered(n, server'.seq)
    BY <1>1, <1>2, <1>3 DEF IInv, OnceOnly
  <2>4. \A n \in unsent', i \in 1 .. Len(wire') :
          Apart(UpdatesOf(n), UpdatesOf(wire'[i]))
    BY <1>2, <1>3 DEF Apart
  <2>5. \A i, j \in 1 .. Len(wire') : i = j
    BY <1>3
  <2>6. QED
    BY <2>2, <2>3, <2>4, <2>5 DEF OnceOnly
<1>12. OneQuestion' /\ Answering'
  BY <1>3, <1>5 DEF OneQuestion, Answering
<1>13. QED
  BY <1>7, <1>10, <1>11, <1>12 DEF IInv

-----------------------------------------------------------------------------
(* The invariant.                                                          *)

LEMMA InitKeeps ==
  ASSUME Init
  PROVE  IInv
<1>1. /\ client = FreshClient
      /\ requests = <<[kind |-> "state", pts |-> 0]>>
      /\ server = [pts |-> 1, seq |-> 1]
      /\ unsent = {} /\ wire = <<>>
      /\ budget \in Budgets /\ budget.refusals = MaxRefusals
  BY BoundsAssumption DEF Init, Budgets
<1>2. /\ requests \in Seq(Questions) /\ Len(requests) = 1
      /\ requests # <<>>
      /\ requests[1] = [kind |-> "state", pts |-> 0]
  BY <1>1 DEF Questions
<1>3. OnWire = {} /\ Answered = {} /\ OnTheWay = {} /\ Len(wire) = 0
  BY <1>1 DEF OnWire, Answered, OnTheWay
<1>4. NetworkTyped
  <2>1. budget.refusals <= MaxRefusals
    BY <1>1, BoundsAssumption
  <2>2. QED
    BY <1>1, <1>2, <2>1 DEF NetworkTyped, Budgets
<1>5. OnceOnly /\ OneQuestion
  BY <1>1, <1>2, <1>3 DEF OnceOnly, OneQuestion
<1>6. /\ client.waiter \in Waiters(Nat)
      /\ client.waiter.good = 0 /\ client.waiter.requesting
      /\ client.waiter.queue = {}
  BY <1>1 DEF FreshClient, FreshWaiter, SetRequesting, ClearSkipped, Waiters
<1>7. /\ client.seq = 0 /\ client.bySeq = {} /\ ~client.failTimer
      /\ client.sending = <<>> /\ client.seen = {} /\ client.seenSeq = {}
      /\ client.repeated = {}
  BY <1>1 DEF FreshClient
<1>8. ClientTyped(client)
  <2>1. IsFiniteSet({}) /\ <<>> \in Seq(Questions)
    BY FS_EmptySet
  <2>2. PICK w : w = client.waiter /\ w = SetRequesting(FreshWaiter, TRUE)
    BY <1>1 DEF FreshClient
  <2>3. client = [waiter |-> w, seq |-> 0,
                  bySeq |-> {}, bySeqTimer |-> FALSE,
                  byPtsTimer |-> FALSE, failTimer |-> FALSE,
                  sending |-> <<>>, seen |-> {}, seenSeq |-> {},
                  repeated |-> {}]
    BY <1>1, <2>2 DEF FreshClient
  <2>4. w \in Waiters(Nat)
    BY <1>6, <2>2
  <2>5. PICK c, none : c = client /\ none = <<>> /\ none \in Seq(Questions)
    BY <2>1
  <2>6. c = [waiter |-> w, seq |-> 0,
             bySeq |-> {}, bySeqTimer |-> FALSE,
             byPtsTimer |-> FALSE, failTimer |-> FALSE,
             sending |-> none, seen |-> {}, seenSeq |-> {},
             repeated |-> {}]
    BY <2>3, <2>5
  <2>7. ClientTyped(c)
    BY <2>1, <2>4, <2>5, <2>6 DEF ClientTyped
  <2>8. QED
    BY <2>5, <2>7
<1>9. Now.out /\ Now.good = 0 /\ Now.seen = {}
  BY <1>2, <1>6, <1>7 DEF Now, Unanswered
<1>10. Fine(client, OnTheWay, Now)
  <2>1. Learned(client, Now)
    BY <1>6, <1>7, <1>9 DEF Learned
  <2>2. Ahead(client, OnTheWay) = {}
    BY <1>3, <1>7 DEF Ahead
  <2>3. QED
    BY <1>6, <1>7, <1>8, <1>9, <2>1, <2>2
    DEF Fine, Coming, ParkedApart, Counting, Awaiting
<1>11. Timed(client)
  BY <1>7 DEF Timed
<1>12. Answering
  BY <1>2, <1>3, <1>6 DEF Answering, Sincere
<1>13. QED
  BY <1>4, <1>5, <1>7, <1>10, <1>11, <1>12 DEF IInv

LEMMA ServerKeeps ==
  ASSUME IInv, Serve \/ Disturb
  PROVE  IInv'
<1>1. CASE Serve
  BY <1>1, SendKeeps, AnswerGetStateKeeps, AnswerGetDifferenceKeeps
  DEF Serve
<1>2. CASE Disturb
  <2>1. CASE \E counts \in Containers, step \in SeqSteps, rpc \in BOOLEAN :
               Issue(counts, step, rpc)
    BY <2>1, IssueKeeps
  <2>2. CASE \E counts \in Containers, n \in 0 .. 2 :
               counts = <<n>> /\ IssueAffected(n)
    BY <2>2, IssueAffectedKeeps
  <2>3. QED
    BY <1>2, <2>1, <2>2, SendTooLongKeeps, DropKeeps, FailDifferenceKeeps,
       RefuseKeeps, LoseSessionKeeps, SessionResetKeeps
    DEF Disturb
<1>3. QED
  BY <1>1, <1>2

LEMMA ReceiveKeeps ==
  ASSUME IInv, Receive
  PROVE  IInv' /\ Forward
BY ReceiveUpdatesKeeps, ReceiveAffectedKeeps, ReceiveNoticeKeeps,
   ReceiveAnswerKeeps
DEF Receive

LEMMA StutterKeeps ==
  ASSUME IInv, UNCHANGED vars
  PROVE  IInv'
<1>1. Now' = Now /\ OnTheWay' = OnTheWay /\ Answered' = Answered
      /\ OnWire' = OnWire
  BY DEF vars, Now, OnTheWay, OnWire, Answered, Unanswered, Refused
<1>2. NetworkTyped' /\ OnceOnly' /\ OneQuestion'
  BY <1>1 DEF IInv, vars, NetworkTyped, OnceOnly, OneQuestion
<1>3. Answering'
  BY <1>1 DEF IInv, vars, Answering, Sincere, Truthful, Refused
<1>4. QED
  BY <1>1, <1>2, <1>3 DEF IInv, vars

(* IInv is an invariant of CommonUpdates: it holds at first and every step *)
(* keeps it, be it a handler of Api::Updates, a step of the server or a    *)
(* loss.                                                                   *)
THEOREM Invariance == Spec => []IInv
<1>1. Init => IInv
  BY InitKeeps
<1>2. IInv /\ [Next]_vars => IInv'
  BY ServerKeeps, ReceiveKeeps, TimersKeep, StutterKeeps DEF Next
<1>3. QED
  BY <1>1, <1>2, PTL DEF Spec

-----------------------------------------------------------------------------
(* What follows from it.                                                   *)

(* The fields of Api::Updates and what is around it have their types.      *)
THEOREM TypeCorrectness == Spec => []TypeOK
<1>1. IInv => TypeOK
  <2> SUFFICES ASSUME IInv PROVE TypeOK
    OBVIOUS
  <2>1. /\ client.waiter \in Waiters(Nat) /\ client.seq \in Nat
        /\ {client.bySeqTimer, client.byPtsTimer, client.failTimer}
             \subseteq BOOLEAN
    BY BudgetTyped DEF Fine, ClientTyped
  <2>2. \A m \in client.bySeq : m.kind = "updates" /\ m.start \in 1 .. m.seq
    BY BudgetTyped DEF Fine, ClientTyped, ParkedApart, Bundles
  <2>3. /\ client.seen \cup client.repeated \subseteq 1 .. server.pts
        /\ client.seenSeq \subseteq 1 .. server.seq
    BY BudgetTyped DEF Fine, Learned, Now
  <2>4. \A i \in 1 .. Len(requests) :
          requests[i] \in [kind : {"state", "difference"}, pts : Nat]
    BY ElementOfSeq DEF IInv, NetworkTyped, Questions
  <2>5. QED
    BY <2>1, <2>2, <2>3, <2>4 DEF TypeOK, IInv, NetworkTyped
<1>2. QED
  BY <1>1, Invariance, PTL

(* Whatever was lost, delayed, parked or applied in another order, every   *)
(* position up to the one that the client claims, and would ask a          *)
(* difference from, has been applied.                                      *)
THEOREM ClaimsAreKept == Spec => []ClaimedPtsWasSeen
<1>1. IInv => ClaimedPtsWasSeen
  BY DEF IInv, Fine, Learned, ClaimedPtsWasSeen
<1>2. QED
  BY <1>1, Invariance, PTL

(* The same for the containers up to the current seq.                      *)
THEOREM SeqIsKept == Spec => []ClaimedSeqWasSeen
<1>1. IInv => ClaimedSeqWasSeen
  BY DEF IInv, Fine, Learned, ClaimedSeqWasSeen
<1>2. QED
  BY <1>1, Invariance, PTL

(* No handler outside of a difference applies what was applied before.     *)
THEOREM NoRepetition == Spec => []NothingIsRepeated
<1>1. IInv => NothingIsRepeated
  BY DEF IInv, Fine, Learned, NothingIsRepeated
<1>2. QED
  BY <1>1, Invariance, PTL

(* There is at most one difference at a time, and a client that ignores    *)
(* pushes because of it has asked for it or will, unless it was refused.   *)
THEOREM OneDifference == Spec => []DifferenceIsAwaited
<1>1. IInv => DifferenceIsAwaited
  <2> SUFFICES ASSUME IInv PROVE DifferenceIsAwaited
    OBVIOUS
  <2>1. PICK k, n : k = Len(requests) /\ n = Cardinality(Answered)
    OBVIOUS
  <2>2. requests \in Seq(Questions) /\ k \in Nat /\ k <= 1
    BY <2>1, LenProperties DEF IInv, NetworkTyped, OneQuestion
  <2>3. k = 0 <=> requests = <<>>
    BY <2>1, <2>2, EmptySeq
  <2>4. \/ Answered = {} /\ n = 0
        \/ Answered # {} /\ n = 1
    <3>1. CASE Answered = {}
      BY <2>1, <3>1, FS_EmptySet
    <3>2. ASSUME NEW i \in Answered PROVE Answered # {} /\ n = 1
      <4>1. Answered = {i}
        BY <3>2 DEF IInv, OneQuestion
      <4>2. QED
        BY <2>1, <4>1, FS_Singleton
    <3>3. QED
      BY <3>1, <3>2
  <2>5. Outstanding = k + n /\ (requests # <<>> => Answered = {})
    BY <2>1 DEF Outstanding, IInv, OneQuestion
  <2>6. /\ Outstanding \in {0, 1}
        /\ Outstanding = 1 <=> Unanswered
    BY <2>2, <2>3, <2>4, <2>5 DEF Unanswered
  <2>7. /\ client.failTimer => ~Unanswered
        /\ client.failTimer => client.waiter.requesting
        /\ Unanswered => client.waiter.requesting
        /\ client.waiter.requesting =>
             Unanswered \/ client.failTimer \/ Refused
    BY BudgetTyped DEF Fine, Awaiting, Now
  <2>8. Outstanding + (IF client.failTimer THEN 1 ELSE 0) <= 1
    BY <2>6, <2>7
  <2>9. QED
    BY <2>6, <2>7, <2>8 DEF DifferenceIsAwaited, RequestingDifference
<1>2. QED
  BY <1>1, Invariance, PTL

(* Updates are queued for a gap to close only, and no difference is        *)
(* awaited while they are.                                                 *)
THEOREM QueueIsForGaps == Spec => []QueueWaitsForGap
<1>1. IInv => QueueWaitsForGap
  <2> SUFFICES ASSUME IInv, client.waiter.queue # {}
               PROVE  /\ HasGap(client.waiter)
                      /\ ~client.waiter.requesting
                      /\ CoversAll(client.waiter.queue) \cap client.seen = {}
    BY DEF QueueWaitsForGap, RequestingDifference
  <2>1. /\ ~client.waiter.requesting /\ HasGap(client.waiter)
        /\ \A q \in client.waiter.queue : Covers(q) \cap client.seen = {}
    BY BudgetTyped DEF Fine, Counting
  <2>2. QED
    BY <2>1 DEF CoversAll
<1>2. QED
  BY <1>1, Invariance, PTL

(* If every update moves pts, a gap in pts or in seq has a timer that will *)
(* ask for the difference.  (An update with a count of zero stops the      *)
(* timer of a gap it does not close.)                                      *)
THEOREM GapsAreWatched == Spec => [](CountsMove => GapIsWatched)
<1>1. IInv => (CountsMove => GapIsWatched)
  BY BudgetTyped
  DEF GapIsWatched, RequestingDifference, Fine, Counting, Timed
<1>2. QED
  BY <1>1, Invariance, PTL

-----------------------------------------------------------------------------
(* The refinement.                                                         *)

LEMMA IssueGoesOn ==
  ASSUME IInv, NEW counts \in Containers, NEW step, NEW rpc,
         Issue(counts, step, rpc)
  PROVE  client' = client /\ server.pts <= server'.pts
<1>1. server.pts \in Nat /\ counts \in Seq(Nat) /\ Len(counts) \in Nat
  BY BoundsAssumption, LenProperties DEF IInv, NetworkTyped
<1>2. PtsAfter(server.pts, counts, 0)
        <= PtsAfter(server.pts, counts, Len(counts))
  BY <1>1, PtsAfterIs
<1>3. /\ client' = client
      /\ server'.pts = PtsAfter(server.pts, counts, Len(counts))
  BY DEF Issue
<1>4. QED
  BY <1>1, <1>2, <1>3, PtsAfterIs

(* Every step either is one of the server, which may issue, or is one of   *)
(* the client, which loses nothing.                                        *)
LEMMA StepGoesOn ==
  ASSUME IInv, [Next]_vars
  PROVE  \/ client' = client /\ server.pts <= server'.pts
         \/ Forward
<1>1. server \in [pts : Nat \ {0}, seq : Nat \ {0}]
  BY DEF IInv, NetworkTyped
<1>2. CASE Disturb
  <2>1. CASE \E counts \in Containers, step \in SeqSteps, rpc \in BOOLEAN :
               Issue(counts, step, rpc)
    BY <2>1, IssueGoesOn
  <2>2. CASE \E counts \in Containers, n \in 0 .. 2 :
               counts = <<n>> /\ IssueAffected(n)
    BY <1>1, <2>2 DEF IssueAffected
  <2>3. CASE SendTooLong \/ FailDifference \/ Refuse \/ LoseSession
             \/ \E m \in unsent : Drop(m)
    BY <1>1, <2>3
    DEF SendTooLong, FailDifference, Refuse, LoseSession, Drop
  <2>4. QED
    BY <1>2, <2>1, <2>2, <2>3, SessionResetKeeps DEF Disturb
<1>3. CASE Serve \/ UNCHANGED vars
  BY <1>1, <1>3 DEF Serve, Send, AnswerGetState, AnswerGetDifference, vars
<1>4. QED
  BY <1>2, <1>3, ReceiveKeeps, TimersKeep DEF Next

(* The client is one of the abstract feed: it learns only what was issued, *)
(* claims a position only when it has everything up to it, never goes      *)
(* back, and never forgets.                                                *)
THEOREM Refinement == Spec => ImplementsFeed
<1>1. ASSUME Init PROVE Feed!FeedInit
  <2>1. client.waiter = SetRequesting(FreshWaiter, TRUE) /\ client.seen = {}
    BY <1>1 DEF Init, FreshClient
  <2>2. client.waiter.good = 0
    BY <2>1 DEF FreshWaiter, SetRequesting, ClearSkipped
  <2>3. server.pts \in Nat
    <3>1. server = [pts |-> 1, seq |-> 1]
      BY <1>1 DEF Init
    <3>2. QED
      BY <3>1
  <2>4. client.seen = {}
    BY <2>1
  <2>5. QED
    BY <2>2, <2>3, <2>4 DEF Feed!FeedInit
<1>2. ASSUME IInv, IInv', [Next]_vars
      PROVE  [Feed!FeedNext]_Feed!feedVars
  <2>1. /\ server.pts \in Nat /\ server'.pts \in Nat
        /\ client'.waiter.good \in Nat /\ client.waiter.good \in Nat
        /\ client'.seen \subseteq 1 .. server'.pts
        /\ 1 .. client'.waiter.good \subseteq client'.seen
    BY <1>2 DEF IInv, NetworkTyped, Fine, ClientTyped, Waiters, Learned, Now
  <2>2. client'.waiter.good <= server'.pts
    BY <2>1
  <2>3. CASE client' = client /\ server.pts <= server'.pts
    <3>1. CASE server'.pts = server.pts
      BY <2>3, <3>1 DEF Feed!feedVars
    <3>2. CASE server'.pts > server.pts
      BY <2>1, <2>3, <3>2 DEF Feed!FeedNext, Feed!IssueNext
    <3>3. QED
      BY <2>1, <2>3, <3>1, <3>2
  <2>4. CASE Forward
    <3>1. Feed!Learn
      BY <2>1, <2>2, <2>4 DEF Feed!Learn, Forward
    <3>2. QED
      BY <3>1 DEF Feed!FeedNext
  <2>5. QED
    BY <1>2, <2>3, <2>4, StepGoesOn
<1>3. QED
  BY <1>1, <1>2, Invariance, PTL DEF Spec, ImplementsFeed, Feed!FeedSpec
=============================================================================
