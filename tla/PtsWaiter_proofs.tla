-------------------------- MODULE PtsWaiter_proofs --------------------------
(***************************************************************************)
(* What the methods of PtsWaiter preserve.  The waiter compares a maximum  *)
(* with a sum; the lemmas show that under the right circumstances (Sound,  *)
(* and an update that was not counted before) the two agree exactly when   *)
(* every position in between has been counted.                             *)
(***************************************************************************)
EXTENDS PtsWaiter, FiniteSetTheorems, TLAPS

(* An update covers as many positions as its count says.                   *)
LEMMA CoversCount ==
  ASSUME NEW u \in Updates(Nat)
  PROVE  /\ IsFiniteSet(Covers(u))
         /\ Cardinality(Covers(u)) = u.count
         /\ Covers(u) \subseteq Int
<1> DEFINE from == u.pts - u.count + 1
<1>1. u.pts \in Nat /\ u.count \in Nat
  BY DEF Updates
<1>2. from \in Int /\ u.pts \in Int
  BY <1>1
<1>3. Covers(u) = from .. u.pts
  BY DEF Covers
<1> HIDE DEF from
<1>4. /\ IsFiniteSet(from .. u.pts)
      /\ Cardinality(from .. u.pts) =
           IF from > u.pts THEN 0 ELSE u.pts - from + 1
  BY <1>2, FS_Interval, Zenon
<1>5. Cardinality(from .. u.pts) = u.count
  BY <1>1, <1>4 DEF from
<1>6. QED
  BY <1>2, <1>3, <1>4, <1>5

(* Positions that were counted in above good, and as many as there are up  *)
(* to last, are all of them.                                               *)
LEMMA CountedIsComplete ==
  ASSUME NEW good \in Nat, NEW last \in Nat,
         NEW k \in SUBSET ((good + 1) .. last),
         good <= last
  PROVE  /\ IsFiniteSet(k)
         /\ Cardinality(k) \in Nat
         /\ last = good + Cardinality(k) => k = (good + 1) .. last
<1> DEFINE all == (good + 1) .. last
<1>0. good + 1 \in Int /\ last \in Int
  OBVIOUS
<1>a. /\ IsFiniteSet(all)
      /\ Cardinality(all) =
           IF good + 1 > last THEN 0 ELSE last - (good + 1) + 1
  BY <1>0, FS_Interval, Zenon
<1>1. IsFiniteSet(all) /\ Cardinality(all) = last - good
  BY <1>a
<1> HIDE DEF all
<1>b. k \in SUBSET all
  BY DEF all
<1>2. IsFiniteSet(k) /\ (Cardinality(all) = Cardinality(k) => all = k)
  BY <1>1, <1>b, FS_Subset
<1>3. Cardinality(k) \in Nat
  BY <1>2, FS_CardinalityType
<1>4. QED
  BY <1>1, <1>2, <1>3 DEF all

(* An update that is neither stale nor across good, and none of whose      *)
(* positions is counted yet.                                               *)
Fits(w, u, k) ==
  /\ ~IsStale(w, u)
  /\ u.count = 0 \/ u.pts <= w.good \/ w.good <= u.pts - u.count
  /\ Covers(u) \cap k = {}

LastAfter(w, u) == IF u.pts > w.last THEN u.pts ELSE w.last

(* Counting such an update in keeps the sum right, and when the sum meets  *)
(* the maximum, nothing is missing in between.                             *)
LEMMA CountingIn ==
  ASSUME NEW w \in Waiters(Nat), NEW u \in Updates(Nat), NEW s, NEW k,
         Sound(w, s, k), Fits(w, u, k)
  PROVE  LET last == LastAfter(w, u)
             more == k \cup Covers(u)
         IN /\ w.good <= last
            /\ more \subseteq (w.good + 1) .. last
            /\ w.count + u.count = w.good + Cardinality(more)
            /\ last = w.count + u.count => more = (w.good + 1) .. last
<1> DEFINE last == LastAfter(w, u)
           more == k \cup Covers(u)
<1>1. /\ w.good \in Nat /\ w.last \in Nat /\ w.count \in Nat
      /\ u.pts \in Nat /\ u.count \in Nat
  BY DEF Waiters, Updates
<1>2. w.good <= last /\ w.last <= last /\ u.pts <= last /\ last \in Nat
  BY <1>1 DEF Sound, LastAfter
<1>3. Covers(u) \subseteq (w.good + 1) .. last
  BY <1>1, <1>2 DEF Fits, IsStale, Covers
<1>4. k \subseteq (w.good + 1) .. last
  BY <1>1, <1>2 DEF Sound
<1>5. more \in SUBSET ((w.good + 1) .. last)
  BY <1>3, <1>4
<1>6. IsFiniteSet(k) /\ Cardinality(k) \in Nat
  BY <1>1, CountedIsComplete DEF Sound
<1>7. Cardinality(k \cap Covers(u)) = 0
  BY FS_EmptySet DEF Fits
<1>8. Cardinality(more) = Cardinality(k) + u.count
  <2>1. IsFiniteSet(Covers(u)) /\ Cardinality(Covers(u)) = u.count
    BY CoversCount
  <2>2. Cardinality(more) = Cardinality(k) + Cardinality(Covers(u))
                              - Cardinality(k \cap Covers(u))
    BY <1>6, <2>1, FS_Union, Zenon
  <2>3. QED
    BY <1>1, <1>6, <1>7, <2>1, <2>2
<1>9. w.count + u.count = w.good + Cardinality(more)
  BY <1>1, <1>6, <1>8 DEF Sound
<1>10. last = w.good + Cardinality(more) => more = (w.good + 1) .. last
  BY <1>1, <1>2, <1>5, CountedIsComplete
<1> QED
  BY <1>2, <1>5, <1>9, <1>10

(* What becomes of a waiter that hears of an update which fits: it goes    *)
(* forward, everything it passes has been applied, and the sums stay right *)
(* for what it has not passed.                                             *)
Advances(w, u, after, s, k) ==
  /\ after \in Waiters(Nat)
  /\ ~after.requesting
  /\ after.good \in {w.good, LastAfter(w, u)}
  /\ after.last = LastAfter(w, u)
  /\ w.good <= after.good
  /\ (w.good + 1) .. after.good \subseteq s
  /\ Sound(after, s, IF after.good = w.good THEN k \cup Covers(u) ELSE {})

LEMMA CoversAllAdd ==
  ASSUME NEW q, NEW u
  PROVE  /\ CoversAll(q \cup {u}) = CoversAll(q) \cup Covers(u)
         /\ CoversAll({}) = {}
BY DEF CoversAll

(* The waiter when check() has counted an update in, before it looks at    *)
(* what that made of the sums.                                             *)
Heard(w, u) == [w EXCEPT !.last = LastAfter(w, u), !.count = @ + u.count]

GapAfter(w, u) == LastAfter(w, u) # w.count + u.count

LEMMA HeardFields ==
  ASSUME NEW w \in Waiters(Nat), NEW u \in Updates(Nat)
  PROVE  /\ Heard(w, u) \in Waiters(Nat)
         /\ Heard(w, u).good = w.good
         /\ Heard(w, u).last = LastAfter(w, u)
         /\ Heard(w, u).count = w.count + u.count
         /\ Heard(w, u).queue = w.queue
         /\ Heard(w, u).requesting = w.requesting
         /\ Heard(w, u).waitingForSkipped = w.waitingForSkipped
         /\ LastAfter(w, u) \in Nat
         /\ w.count + u.count \in Nat
<1>1. LastAfter(w, u) \in Nat /\ w.count + u.count \in Nat
  BY DEF LastAfter, Waiters, Updates
<1>2. QED
  BY <1>1 DEF Heard, Waiters

(* The three outcomes of check() for an update that is not stale: the gap  *)
(* is closed, there is one and the update moves nothing, there is one and  *)
(* the update has to wait.                                                 *)
LEMMA HeardOutcomes ==
  ASSUME NEW w \in Waiters(Nat), NEW u \in Updates(Nat), NEW payload,
         Inited(w), ~w.requesting, ~IsStale(w, u)
  PROVE  LET up == Updated(w, u, payload)
         IN /\ ~GapAfter(w, u) =>
                 /\ up.ok
                 /\ up.waiter = [Heard(w, u) EXCEPT !.good = LastAfter(w, u)]
            /\ GapAfter(w, u) /\ u.count = 0 =>
                 /\ up.ok
                 /\ up.waiter = [Heard(w, u) EXCEPT !.waitingForSkipped = TRUE]
            /\ GapAfter(w, u) /\ u.count # 0 =>
                 /\ ~up.ok
                 /\ up.waiter = [Heard(w, u) EXCEPT !.waitingForSkipped = TRUE,
                                                    !.queue = @ \cup payload]
BY DEF Updated, Check, LastAfter, Heard, GapAfter

(* An update handed to the waiter to be applied.                           *)
THEOREM UpdateAndApplyAdvances ==
  ASSUME NEW w \in Waiters(Nat), NEW u \in Updates(Nat), NEW s, NEW k,
         Inited(w), ~w.requesting, Sound(w, s, k), Fits(w, u, k)
  PROVE  Advances(w, u, UpdateAndApply(w, u).waiter,
                  s \cup CoversAll(UpdateAndApply(w, u).applied), k)
<1> DEFINE last   == LastAfter(w, u)
           heard  == Heard(w, u)
           up     == Updated(w, u, {u})
           result == UpdateAndApply(w, u)
           after  == result.waiter
           more   == k \cup Covers(u)
           s2     == s \cup CoversAll(result.applied)
<1>1. /\ w.good \in Nat /\ u.count \in Nat /\ ~IsStale(w, u)
      /\ k \subseteq s \cup CoversAll(w.queue)
      /\ w.queue # {} => w.waitingForSkipped
  BY DEF Waiters, Updates, Fits, Sound
<1>2. /\ w.good <= last
      /\ more \subseteq (w.good + 1) .. last
      /\ w.count + u.count = w.good + Cardinality(more)
      /\ last = w.count + u.count => more = (w.good + 1) .. last
  BY CountingIn
<1>3. /\ heard \in Waiters(Nat)
      /\ heard.good = w.good
      /\ heard.last = last
      /\ heard.count = w.count + u.count
      /\ heard.queue = w.queue
      /\ ~heard.requesting
      /\ heard.waitingForSkipped = w.waitingForSkipped
      /\ last \in Nat
      /\ w.count + u.count \in Nat
  BY HeardFields
<1>4. /\ ~GapAfter(w, u) => up.ok /\ up.waiter = [heard EXCEPT !.good = last]
      /\ GapAfter(w, u) /\ u.count = 0 =>
           up.ok /\ up.waiter = [heard EXCEPT !.waitingForSkipped = TRUE]
      /\ GapAfter(w, u) /\ u.count # 0 =>
           /\ ~up.ok
           /\ up.waiter = [heard EXCEPT !.waitingForSkipped = TRUE,
                                        !.queue = @ \cup {u}]
  BY <1>1, HeardOutcomes
<1>5. result = UpdateAndApply(w, u)
  OBVIOUS
<1>9. CoversAll(w.queue \cup {u}) = CoversAll(w.queue) \cup Covers(u)
  BY CoversAllAdd
<1> SUFFICES Advances(w, u, after, s2, k)
  OBVIOUS
<1> HIDE DEF last, heard, up, result, after, s2, more
<1>6. CASE ~GapAfter(w, u)
  <2>1. /\ after \in Waiters(Nat)
        /\ ~after.requesting
        /\ after.good = last /\ after.last = last
        /\ after.count = w.count + u.count
        /\ after.queue = {}
        /\ result.applied = w.queue \cup {u}
    BY <1>1, <1>3, <1>4, <1>5, <1>6
    DEF UpdateAndApply, ApplySkipped, StopWaitingForSkipped, ClearSkipped,
        Waiters, up, after
  <2>2. last = w.count + u.count
    BY <1>6 DEF GapAfter, last
  <2>3. CoversAll(result.applied) = CoversAll(w.queue) \cup Covers(u)
    BY <2>1, <1>9, Zenon
  <2>4. (w.good + 1) .. last \subseteq s2
    BY <1>1, <1>2, <2>2, <2>3 DEF more, s2
  <2>5. after.good = w.good => more = {}
    BY <1>1, <1>2, <1>3, <2>1
  <2>6. Sound(after, s2, {})
    BY <1>3, <2>1, <2>2, FS_EmptySet DEF Sound
  <2>7. QED
    BY <1>2, <2>1, <2>4, <2>5, <2>6 DEF Advances, last, more
<1>7. CASE GapAfter(w, u) /\ u.count = 0
  <2>1. /\ after \in Waiters(Nat)
        /\ ~after.requesting
        /\ after.good = w.good /\ after.last = last
        /\ after.count = w.count + u.count
        /\ after.queue = {}
        /\ result.applied = w.queue \cup {u}
    BY <1>1, <1>3, <1>4, <1>5, <1>7
    DEF UpdateAndApply, ApplySkipped, StopWaitingForSkipped, ClearSkipped,
        Waiters, up, after
  <2>2. CoversAll(result.applied) = CoversAll(w.queue) \cup Covers(u)
    BY <2>1, <1>9, Zenon
  <2>3. more \subseteq s2
    BY <1>1, <2>2 DEF more, s2
  <2>4. Sound(after, s2, more)
    BY <1>2, <2>1, <2>3 DEF Sound
  <2>5. QED
    BY <1>1, <2>1, <2>4 DEF Advances, last, more
<1>8. CASE GapAfter(w, u) /\ u.count # 0
  <2>1. /\ after \in Waiters(Nat)
        /\ ~after.requesting
        /\ after.good = w.good /\ after.last = last
        /\ after.count = w.count + u.count
        /\ after.queue = w.queue \cup {u}
        /\ after.waitingForSkipped
        /\ result.applied = {}
    <3>1. /\ ~up.ok
          /\ up.waiter = [heard EXCEPT !.waitingForSkipped = TRUE,
                                       !.queue = @ \cup {u}]
      BY <1>4, <1>8
    <3>2. after = up.waiter /\ result.applied = {}
      BY <1>5, <3>1 DEF UpdateAndApply, up, after
    <3>3. w.queue \cup {u} \in SUBSET Updates(Nat)
      BY DEF Waiters
    <3>4. after = [heard EXCEPT !.waitingForSkipped = TRUE,
                                !.queue = w.queue \cup {u}]
      BY <1>3, <3>1, <3>2
    <3>5. QED
      BY <1>3, <3>2, <3>3, <3>4 DEF Waiters
  <2>2. CoversAll(after.queue) = CoversAll(w.queue) \cup Covers(u)
    BY <2>1, <1>9, Zenon
  <2>3. more \subseteq s2 \cup CoversAll(after.queue)
    BY <1>1, <2>2 DEF more, s2
  <2>4. Sound(after, s2, more)
    BY <1>2, <2>1, <2>3 DEF Sound
  <2>5. QED
    BY <1>1, <2>1, <2>4 DEF Advances, last, more
<1> QED
  BY <1>6, <1>7, <1>8

(* A position handed to the waiter, after its owner has applied what the   *)
(* position stands for.                                                    *)
THEOREM UpdateAndApplyPositionAdvances ==
  ASSUME NEW w \in Waiters(Nat), NEW u \in Updates(Nat), NEW s, NEW k,
         Inited(w), ~w.requesting, Sound(w, s, k), Fits(w, u, k)
  PROVE  Advances(w, u, UpdateAndApplyPosition(w, u).waiter,
                  (s \cup Covers(u))
                    \cup CoversAll(UpdateAndApplyPosition(w, u).applied), k)
<1> DEFINE last   == LastAfter(w, u)
           heard  == Heard(w, u)
           up     == Updated(w, u, {})
           result == UpdateAndApplyPosition(w, u)
           after  == result.waiter
           more   == k \cup Covers(u)
           s2     == (s \cup Covers(u)) \cup CoversAll(result.applied)
<1>1. /\ w.good \in Nat /\ u.count \in Nat /\ ~IsStale(w, u)
      /\ k \subseteq s \cup CoversAll(w.queue)
      /\ w.queue # {} => w.waitingForSkipped
  BY DEF Waiters, Updates, Fits, Sound
<1>2. /\ w.good <= last
      /\ more \subseteq (w.good + 1) .. last
      /\ w.count + u.count = w.good + Cardinality(more)
      /\ last = w.count + u.count => more = (w.good + 1) .. last
  BY CountingIn
<1>3. /\ heard \in Waiters(Nat)
      /\ heard.good = w.good
      /\ heard.last = last
      /\ heard.count = w.count + u.count
      /\ heard.queue = w.queue
      /\ ~heard.requesting
      /\ heard.waitingForSkipped = w.waitingForSkipped
      /\ last \in Nat
      /\ w.count + u.count \in Nat
  BY HeardFields
<1>4. /\ ~GapAfter(w, u) => up.ok /\ up.waiter = [heard EXCEPT !.good = last]
      /\ GapAfter(w, u) /\ u.count = 0 =>
           up.ok /\ up.waiter = [heard EXCEPT !.waitingForSkipped = TRUE]
      /\ GapAfter(w, u) /\ u.count # 0 =>
           /\ ~up.ok
           /\ up.waiter = [heard EXCEPT !.waitingForSkipped = TRUE,
                                        !.queue = @ \cup {}]
  BY <1>1, HeardOutcomes
<1>5. result = UpdateAndApplyPosition(w, u)
  OBVIOUS
<1> SUFFICES Advances(w, u, after, s2, k)
  OBVIOUS
<1> HIDE DEF last, heard, up, result, after, s2, more
<1>6. CASE ~GapAfter(w, u)
  <2>1. /\ after \in Waiters(Nat)
        /\ ~after.requesting
        /\ after.good = last /\ after.last = last
        /\ after.count = w.count + u.count
        /\ after.queue = {}
        /\ result.applied = w.queue
    BY <1>1, <1>3, <1>4, <1>5, <1>6
    DEF UpdateAndApplyPosition, ApplySkipped, StopWaitingForSkipped,
        ClearSkipped, Waiters, up, after
  <2>2. last = w.count + u.count
    BY <1>6 DEF GapAfter, last
  <2>3. more \subseteq s2
    BY <1>1, <2>1 DEF more, s2
  <2>4. (w.good + 1) .. last \subseteq s2
    BY <1>2, <2>2, <2>3
  <2>5. after.good = w.good => more = {}
    BY <1>1, <1>2, <1>3, <2>1
  <2>6. Sound(after, s2, {})
    BY <1>3, <2>1, <2>2, FS_EmptySet DEF Sound
  <2>7. QED
    BY <1>2, <2>1, <2>4, <2>5, <2>6 DEF Advances, last, more
<1>7. CASE GapAfter(w, u) /\ u.count = 0
  <2>1. /\ after \in Waiters(Nat)
        /\ ~after.requesting
        /\ after.good = w.good /\ after.last = last
        /\ after.count = w.count + u.count
        /\ after.queue = {}
        /\ result.applied = w.queue
    BY <1>1, <1>3, <1>4, <1>5, <1>7
    DEF UpdateAndApplyPosition, ApplySkipped, StopWaitingForSkipped,
        ClearSkipped, Waiters, up, after
  <2>3. more \subseteq s2
    BY <1>1, <2>1 DEF more, s2
  <2>4. Sound(after, s2, more)
    BY <1>2, <2>1, <2>3 DEF Sound
  <2>5. QED
    BY <1>1, <2>1, <2>4 DEF Advances, last, more
<1>8. CASE GapAfter(w, u) /\ u.count # 0
  <2>1. /\ after \in Waiters(Nat)
        /\ ~after.requesting
        /\ after.good = w.good /\ after.last = last
        /\ after.count = w.count + u.count
        /\ after.queue = w.queue
        /\ after.waitingForSkipped
        /\ result.applied = {}
    <3>1. /\ ~up.ok
          /\ up.waiter = [heard EXCEPT !.waitingForSkipped = TRUE,
                                       !.queue = @ \cup {}]
      BY <1>4, <1>8
    <3>2. after = up.waiter /\ result.applied = {}
      BY <1>5, <3>1 DEF UpdateAndApplyPosition, up, after
    <3>3. after = [heard EXCEPT !.waitingForSkipped = TRUE,
                                !.queue = w.queue]
      BY <1>3, <3>1, <3>2
    <3>4. QED
      BY <1>3, <3>2, <3>3 DEF Waiters
  <2>3. more \subseteq s2 \cup CoversAll(after.queue)
    BY <1>1, <2>1 DEF more, s2
  <2>4. Sound(after, s2, more)
    BY <1>2, <2>1, <2>3 DEF Sound
  <2>5. QED
    BY <1>1, <2>1, <2>4 DEF Advances, last, more
<1> QED
  BY <1>6, <1>7, <1>8

(* What was counted before is not counted again.                           *)
LEMMA StaleIsIgnored ==
  ASSUME NEW w \in Waiters(Nat), NEW u \in Updates(Nat),
         ~w.requesting, IsStale(w, u)
  PROVE  /\ UpdateAndApply(w, u).waiter = w
         /\ UpdateAndApply(w, u).applied = {}
         /\ UpdateAndApplyPosition(w, u).waiter = w
         /\ UpdateAndApplyPosition(w, u).applied = {}
BY DEF UpdateAndApply, UpdateAndApplyPosition, Updated

(* The same record, but for what a waiter that is in the middle of a       *)
(* difference does not use.                                                *)
SameSums(w, after) ==
  /\ after \in Waiters(Nat)
  /\ after.good = w.good
  /\ after.last = w.last
  /\ after.count = w.count
  /\ after.queue = w.queue
  /\ after.requesting = w.requesting

(* While a difference is awaited a position changes nothing that counts.   *)
LEMMA RequestingIgnores ==
  ASSUME NEW w \in Waiters(Nat), NEW u \in Updates(Nat),
         w.requesting, w.queue = {}
  PROVE  /\ SameSums(w, UpdateAndApplyPosition(w, u).waiter)
         /\ UpdateAndApplyPosition(w, u).applied = {}
BY DEF UpdateAndApplyPosition, Updated, ApplySkipped, StopWaitingForSkipped,
       ClearSkipped, Waiters, SameSums

(* A waiter that stands at p, with nothing behind it or ahead.             *)
StartsAt(after, p) ==
  /\ after \in Waiters(Nat)
  /\ ~after.requesting
  /\ after.good = p
  /\ after.last = p
  /\ after.count = p
  /\ after.queue = {}

(* The first position a waiter hears of is where it starts.                *)
LEMMA FirstPosition ==
  ASSUME NEW w \in Waiters(Nat), NEW u \in Updates(Nat),
         ~Inited(w), ~w.requesting, u.pts > 0
  PROVE  /\ StartsAt(UpdateAndApply(w, u).waiter, u.pts)
         /\ UpdateAndApply(w, u).applied = {u}
         /\ StartsAt(UpdateAndApplyPosition(w, u).waiter, u.pts)
         /\ UpdateAndApplyPosition(w, u).applied = {}
<1>1. ~IsStale(w, u) /\ u.pts \in Nat
  BY DEF IsStale, Inited, Waiters, Updates
<1>2. \A payload : /\ Updated(w, u, payload).waiter = InitAt(w, u.pts)
                   /\ Updated(w, u, payload).ok
  BY <1>1 DEF Updated, Check
<1>3. StartsAt(InitAt(w, u.pts), u.pts)
  BY <1>1 DEF InitAt, ClearSkipped, StartsAt, Waiters
<1> HIDE DEF InitAt
<1>4. /\ UpdateAndApply(w, u).waiter = InitAt(w, u.pts)
      /\ UpdateAndApply(w, u).applied = {u}
  BY <1>2, <1>3 DEF UpdateAndApply, StartsAt
<1>5. /\ StartsAt(UpdateAndApplyPosition(w, u).waiter, u.pts)
      /\ UpdateAndApplyPosition(w, u).applied = {}
  BY <1>2, <1>3 DEF UpdateAndApplyPosition, ApplySkipped, ClearSkipped,
    StopWaitingForSkipped, StartsAt, Waiters
<1>6. QED
  BY <1>3, <1>4, <1>5

(* A waiter that stands at p has counted nothing.                          *)
LEMMA StartIsSound ==
  ASSUME NEW w, NEW p \in Nat, StartsAt(w, p), NEW s
  PROVE  Sound(w, s, {})
BY FS_EmptySet DEF StartsAt, Sound

(* Starting or stopping the poll of a channel leaves the sums alone.       *)
LEMMA ShortPollFields ==
  ASSUME NEW w \in Waiters(Nat)
  PROVE  /\ StartShortPoll(w).waiter \in Waiters(Nat)
         /\ SameSums(w, StartShortPoll(w).waiter)
         /\ StartShortPoll(w).waiter.waitingForSkipped = w.waitingForSkipped
         /\ SameSums(w, StopShortPoll(w).waiter)
         /\ StopShortPoll(w).waiter.waitingForSkipped = w.waitingForSkipped
BY DEF StartShortPoll, StopShortPoll, Waiters, SameSums

LEMMA SameSumsSound ==
  ASSUME NEW w, NEW after, NEW s, NEW k,
         SameSums(w, after), after.waitingForSkipped = w.waitingForSkipped,
         Sound(w, s, k)
  PROVE  Sound(after, s, k)
BY DEF SameSums, Sound
=============================================================================
