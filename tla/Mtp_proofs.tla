----------------------------- MODULE Mtp_proofs -----------------------------
(* Proofs about MtpRequests and about MtpSession, the two halves of the     *)
(* way of a request: the maps of the instance, by dcs (mtp_instance.cpp),   *)
(* and the maps of one session, by message ids (session_private.cpp).       *)
(* The modules are independent, and so are the two parts here.              *)
(*                                                                          *)
(* MtpRequests: a request is in one place at a time, in the dc it is        *)
(* registered with, and there is one transfer of the authorization to a dc  *)
(* at most.  For any dcs and any bounds.                                    *)
(*                                                                          *)
(* MtpSession: a message id stands for one request wherever it is, so that  *)
(* answers are for the request they are taken for, and a request has one    *)
(* id as long as it may be executed, so that it is executed once.  What is  *)
(* sent, resent and acknowledged is always somewhere; the maps keep to      *)
(* their limits.  For any requests, limits and number of troubles.          *)
EXTENDS MtpRequests, MtpSession, FiniteSetTheorems, WellFoundedInduction,
        TLAPS

-----------------------------------------------------------------------------
(* MtpRequests                                                              *)

AllAnswers ==
    {"none", "done", "fail", "unauthorized", "msg_wait"} \cup Troubles
UserAnswers == {"unauthorized", "migrate", "bad_file"}

RegisteredRequest == [toMain : BOOLEAN, dc : Dcs]
Flight == [dc : Dcs, waits : BOOLEAN, answer : AllAnswers]

Maps(m) ==
    m = [requests  |-> m.requests,
         parser    |-> m.parser,
         byDc      |-> m.byDc,
         delayed   |-> m.delayed,
         dependent |-> m.dependent,
         waiters   |-> m.waiters,
         exports   |-> m.exports,
         badGuest  |-> m.badGuest,
         flying    |-> m.flying]

\* What is in the maps, when ids up to l have been given out.
MapsTyped(m, l) ==
    /\ Maps(m)
    /\ l \in Nat
    /\ Known(m) \subseteq 1..l
    /\ m.requests \in [Known(m) -> Nat]
    /\ m.parser \in [Known(m) -> Handlers]
    /\ m.byDc \in [Known(m) -> RegisteredRequest]
    /\ m.delayed \subseteq 1..l
    /\ m.dependent \in [DOMAIN m.dependent -> Nat]
    /\ m.waiters \in [Dcs -> SUBSET (1..l)]
    /\ m.exports \in [DOMAIN m.exports -> Dcs]
    /\ m.flying \in [DOMAIN m.flying -> Flight]

\* Requests wait for earlier ones that are known, so that nothing waits for
\* itself.
Ordered(m) ==
    /\ \A id \in Known(m) : m.requests[id] < id
    /\ DOMAIN m.dependent \subseteq Known(m)
    /\ \A d \in DOMAIN m.dependent : m.dependent[d] < d /\ m.dependent[d] \in Known(m)

Waiting(m, id) == \E dc \in Dcs : id \in m.waiters[dc]

\* A request is in one place at most, and there in the dc it is registered with.
Alone(m) ==
    \A id \in Known(m) :
        /\ id \in DOMAIN m.flying =>
            /\ id \notin m.delayed /\ id \notin DOMAIN m.dependent /\ ~Waiting(m, id)
            /\ m.flying[id].dc = m.byDc[id].dc
            /\ m.flying[id].answer \in UserAnswers => m.parser[id] = "user"
        /\ id \in m.delayed => id \notin DOMAIN m.dependent /\ ~Waiting(m, id)
        /\ id \in DOMAIN m.dependent => ~Waiting(m, id)
        /\ \A dc \in Dcs : id \in m.waiters[dc] => m.byDc[id].dc = dc

Good(m, l) == MapsTyped(m, l) /\ Ordered(m) /\ Alone(m)

\* The requests that are in no place.
Free(m) ==
    {id \in Known(m) :
        /\ id \notin DOMAIN m.flying /\ id \notin m.delayed
        /\ id \notin DOMAIN m.dependent /\ ~Waiting(m, id)}

\* What sending and answering leave alone.
SameMaps(m, n) ==
    /\ n.requests = m.requests /\ n.parser = m.parser /\ n.byDc = m.byDc
    /\ n.delayed = m.delayed /\ n.dependent = m.dependent
    /\ n.waiters = m.waiters /\ n.exports = m.exports
    /\ n.badGuest = m.badGuest

-----------------------------------------------------------------------------
(* Sending and its end *)

\* Requests that are in no place are in a session afterwards.
LEMMA SendPreparedGood ==
    ASSUME NEW m, NEW l, Good(m, l), NEW ids, ids \subseteq Free(m),
           NEW r, r = SendPrepared(m, ids)
    PROVE  /\ Good(r, l)
           /\ SameMaps(m, r)
           /\ DOMAIN r.flying = DOMAIN m.flying \cup ids
           /\ \A id \in DOMAIN m.flying : r.flying[id] = m.flying[id]
           /\ Free(r) = Free(m) \ ids
<1> DEFINE sent == DOMAIN m.flying \cup ids
           DcOf(id) == IF id \in DOMAIN m.flying THEN m.flying[id].dc
                                                 ELSE m.byDc[id].dc
           Waits(id) == /\ m.requests[id] \in sent
                        /\ DcOf(m.requests[id]) = DcOf(id)
           new(id) == [dc |-> DcOf(id), waits |-> Waits(id), answer |-> "none"]
           flying == [id \in sent |->
                        IF id \in DOMAIN m.flying THEN m.flying[id] ELSE new(id)]
<1>1. r = [m EXCEPT !.flying = flying]
    BY DEF SendPrepared
<1>2. ASSUME NEW id \in ids
      PROVE  /\ id \in Known(m) /\ id \notin DOMAIN m.flying
             /\ new(id) \in Flight /\ new(id).dc = m.byDc[id].dc
             /\ new(id).answer = "none"
    <2>1. id \in Known(m) /\ id \notin DOMAIN m.flying
        BY DEF Free
    <2>2. DcOf(id) = m.byDc[id].dc /\ m.byDc[id].dc \in Dcs
        BY <2>1 DEF Good, MapsTyped, RegisteredRequest
    <2>3. Waits(id) \in BOOLEAN
        OBVIOUS
    <2> HIDE DEF Waits, DcOf
    <2> QED
        BY <2>1, <2>2, <2>3 DEF Flight, AllAnswers
<1> HIDE DEF new
<1>3. /\ flying \in [DOMAIN flying -> Flight]
      /\ DOMAIN flying = DOMAIN m.flying \cup ids
      /\ \A id \in DOMAIN m.flying : flying[id] = m.flying[id]
      /\ \A id \in ids : flying[id] = new(id)
    BY <1>2 DEF Good, MapsTyped
<1> HIDE DEF flying
<1>4. r.flying = flying /\ SameMaps(m, r) /\ Maps(r)
    BY <1>1 DEF Good, MapsTyped, Maps, SameMaps
<1>5. MapsTyped(r, l)
    BY <1>3, <1>4 DEF Good, MapsTyped, SameMaps, Known
<1>6. Ordered(r)
    BY <1>4 DEF Good, Ordered, SameMaps, Known
<1>7. \A id : Waiting(r, id) <=> Waiting(m, id)
    BY <1>4 DEF SameMaps, Waiting
<1>8. Alone(r)
    <2> SUFFICES ASSUME NEW id \in Known(m)
                 PROVE  /\ id \in DOMAIN flying =>
                            /\ id \notin m.delayed /\ id \notin DOMAIN m.dependent
                            /\ ~Waiting(m, id)
                            /\ flying[id].dc = m.byDc[id].dc
                            /\ flying[id].answer \in UserAnswers
                                    => m.parser[id] = "user"
                        /\ id \in m.delayed =>
                            id \notin DOMAIN m.dependent /\ ~Waiting(m, id)
                        /\ id \in DOMAIN m.dependent => ~Waiting(m, id)
                        /\ \A dc \in Dcs :
                            id \in m.waiters[dc] => m.byDc[id].dc = dc
        BY <1>4, <1>7 DEF Alone, SameMaps, Known
    <2>1. CASE id \in ids
        <3>1. "none" \notin UserAnswers
            BY DEF UserAnswers
        <3> QED
            BY <1>2, <1>3, <2>1, <3>1 DEF Free, Good, Alone
    <2>2. CASE id \notin ids
        BY <1>3, <2>2 DEF Good, Alone
    <2> QED
        BY <2>1, <2>2
<1>9. Free(r) = Free(m) \ ids
    BY <1>3, <1>4, <1>7 DEF Free, SameMaps, Known
<1> QED
    BY <1>3, <1>4, <1>5, <1>6, <1>8, <1>9 DEF Good

\* The answer to a request has come, and the session has dropped it.
LEMMA LandedGood ==
    ASSUME Good(mtp, lastId), NEW id \in DOMAIN mtp.flying, id \in Known(mtp),
           NEW r, r = Landed(id)
    PROVE  /\ Good(r, lastId)
           /\ SameMaps(mtp, r)
           /\ DOMAIN r.flying = DOMAIN mtp.flying \ {id}
           /\ Free(r) = Free(mtp) \cup {id}
<1> DEFINE flying == Without(mtp.flying, {id})
<1>1. r = [mtp EXCEPT !.flying = flying]
    BY DEF Landed
<1>2. /\ flying \in [DOMAIN flying -> Flight]
      /\ DOMAIN flying = DOMAIN mtp.flying \ {id}
      /\ \A e \in DOMAIN flying : flying[e] = mtp.flying[e]
    BY DEF Without, Restrict, Good, MapsTyped
<1> HIDE DEF flying
<1>3. r.flying = flying /\ SameMaps(mtp, r) /\ Maps(r)
    BY <1>1 DEF Good, MapsTyped, Maps, SameMaps
<1>4. MapsTyped(r, lastId) /\ Ordered(r)
    BY <1>2, <1>3 DEF Good, MapsTyped, Ordered, SameMaps, Known
<1>5. \A e : Waiting(r, e) <=> Waiting(mtp, e)
    BY <1>3 DEF SameMaps, Waiting
<1>6. Alone(r)
    BY <1>2, <1>3, <1>5 DEF Good, Alone, SameMaps, Known
<1>7. Free(r) = Free(mtp) \cup {id}
    BY <1>2, <1>3, <1>5 DEF Good, Alone, Free, SameMaps, Known
<1> QED
    BY <1>2, <1>3, <1>4, <1>6, <1>7 DEF Good

\* A new request is in one place, and it is registered.
LEMMA SendRequestGood ==
    ASSUME NEW m, NEW l, Good(m, l), DOMAIN m.flying \subseteq Known(m),
           NEW id, id = l + 1, NEW handler \in Handlers,
           NEW toMain \in BOOLEAN, NEW dc \in Dcs, NEW after \in Nat,
           NEW r, r = SendRequest(m, id, handler, toMain, dc, after)
    PROVE  /\ Good(r, id) /\ id \notin Known(m)
           /\ Known(r) = Known(m) \cup {id}
           /\ DOMAIN r.flying \subseteq Known(r)
           /\ DOMAIN m.flying \subseteq DOMAIN r.flying
           /\ DOMAIN r.flying \subseteq DOMAIN m.flying \cup {id}
           /\ \A e \in DOMAIN m.flying : r.flying[e] = m.flying[e]
           /\ r.parser[id] = handler /\ r.byDc[id].dc = dc
           /\ \A e \in Known(m) : /\ r.parser[e] = m.parser[e]
                                  /\ r.byDc[e] = m.byDc[e]
           /\ r.waiters = m.waiters /\ r.exports = m.exports
           /\ Free(r) = Free(m)
<1> DEFINE known == IF after \in Known(m) THEN after ELSE 0
           entry == [toMain |-> toMain, dc |-> dc]
           requests == With(m.requests, id, known)
           parser == With(m.parser, id, handler)
           byDc == With(m.byDc, id, entry)
           s == [m EXCEPT !.requests = requests, !.parser = parser,
                          !.byDc = byDc]
<1>1. /\ l \in Nat /\ id \in Nat /\ Known(m) \subseteq 1..l
      /\ id \notin Known(m) /\ 1..l \subseteq 1..id /\ id \in 1..id
      /\ id \notin 1..l
    BY DEF Good, MapsTyped
<1>2. known \in Nat /\ known < id /\ (known = 0 \/ known \in Known(m))
    BY <1>1
<1>3. entry \in RegisteredRequest /\ entry.dc = dc
    BY DEF RegisteredRequest
<1>4. r = IF known \in DOMAIN m.dependent
          THEN [s EXCEPT !.dependent = With(m.dependent, id, known)]
          ELSE SendPrepared(s, {id})
    BY DEF SendRequest, Good, MapsTyped, Maps
<1> HIDE DEF known, entry
<1>5. /\ requests \in [Known(m) \cup {id} -> Nat]
      /\ requests[id] = known
      /\ \A e \in Known(m) : requests[e] = m.requests[e]
    BY <1>1, <1>2 DEF With, Good, MapsTyped
<1>6. /\ parser \in [Known(m) \cup {id} -> Handlers]
      /\ parser[id] = handler
      /\ \A e \in Known(m) : parser[e] = m.parser[e]
    BY <1>1 DEF With, Good, MapsTyped
<1>7. /\ byDc \in [Known(m) \cup {id} -> RegisteredRequest]
      /\ byDc[id] = entry
      /\ \A e \in Known(m) : byDc[e] = m.byDc[e]
    BY <1>1, <1>3 DEF With, Good, MapsTyped
<1> HIDE DEF requests, parser, byDc
<1>8. /\ s.requests = requests /\ s.parser = parser /\ s.byDc = byDc
      /\ s.delayed = m.delayed /\ s.dependent = m.dependent
      /\ s.waiters = m.waiters /\ s.exports = m.exports
      /\ s.flying = m.flying
      /\ Maps(s)
    <2>1. Maps(m)
        BY DEF Good, MapsTyped
    <2> DEFINE s1 == [m EXCEPT !.requests = requests]
               s2 == [s1 EXCEPT !.parser = parser]
    <2>2. /\ s1.requests = requests /\ s1.parser = m.parser
          /\ s1.byDc = m.byDc
          /\ s1.delayed = m.delayed /\ s1.dependent = m.dependent
          /\ s1.waiters = m.waiters /\ s1.exports = m.exports
          /\ s1.badGuest = m.badGuest /\ s1.flying = m.flying
          /\ Maps(s1)
        BY <2>1 DEF Maps
    <2>3. s = [s2 EXCEPT !.byDc = byDc]
        OBVIOUS
    <2> HIDE DEF s1
    <2>4. /\ s2.requests = requests /\ s2.parser = parser
          /\ s2.byDc = m.byDc
          /\ s2.delayed = m.delayed /\ s2.dependent = m.dependent
          /\ s2.waiters = m.waiters /\ s2.exports = m.exports
          /\ s2.badGuest = m.badGuest /\ s2.flying = m.flying
          /\ Maps(s2)
        BY <2>2 DEF Maps
    <2> HIDE DEF s, s2
    <2> QED
        BY <2>3, <2>4 DEF Maps
<1> HIDE DEF s
<1>9. Known(s) = Known(m) \cup {id}
    BY <1>5, <1>8 DEF Known
<1>10. MapsTyped(s, id)
    <2>1. m.waiters \in [Dcs -> SUBSET (1..id)]
        BY <1>1 DEF Good, MapsTyped
    <2> QED
        BY <1>1, <1>5, <1>6, <1>7, <1>8, <1>9, <2>1 DEF Good, MapsTyped
<1>11. Ordered(s)
    BY <1>1, <1>2, <1>5, <1>8, <1>9 DEF Good, Ordered
<1>12. /\ \A e : Waiting(s, e) <=> Waiting(m, e)
       /\ ~Waiting(s, id)
       /\ id \notin s.delayed /\ id \notin DOMAIN s.dependent
       /\ id \notin DOMAIN s.flying
    BY <1>1, <1>8 DEF Waiting, Good, MapsTyped, Ordered
<1>13. Alone(s)
    <2>1. \A dc2 \in Dcs : id \notin s.waiters[dc2]
        BY <1>12 DEF Waiting
    <2> QED
        BY <1>6, <1>7, <1>8, <1>9, <1>12, <2>1 DEF Good, Alone
<1>14. Free(s) = Free(m) \cup {id}
    BY <1>8, <1>9, <1>12 DEF Free
<1>15. Good(s, id)
    BY <1>10, <1>11, <1>13 DEF Good
<1>16. CASE known \in DOMAIN m.dependent
    <2> DEFINE dependent == With(m.dependent, id, known)
    <2>1. r = [s EXCEPT !.dependent = dependent]
        BY <1>4, <1>16
    <2>2. /\ dependent \in [DOMAIN dependent -> Nat]
          /\ DOMAIN dependent = DOMAIN m.dependent \cup {id}
          /\ dependent[id] = known
          /\ \A e \in DOMAIN m.dependent : dependent[e] = m.dependent[e]
        <3>1. id \notin DOMAIN m.dependent
            BY <1>12, <1>8
        <3> QED
            BY <1>2, <3>1 DEF With, Good, MapsTyped
    <2> HIDE DEF dependent
    <2>3. /\ r.requests = requests /\ r.parser = parser /\ r.byDc = byDc
          /\ r.delayed = m.delayed /\ r.dependent = dependent
          /\ r.waiters = m.waiters /\ r.exports = m.exports
          /\ r.flying = m.flying
          /\ Maps(r)
        BY <1>8, <2>1 DEF Maps
    <2>4. Known(r) = Known(s)
        BY <1>8, <2>3 DEF Known
    <2>5. MapsTyped(r, id)
        BY <1>8, <1>15, <2>2, <2>3, <2>4 DEF Good, MapsTyped
    <2>6. known \in Known(m)
        BY <1>16 DEF Good, Ordered
    <2>7. Ordered(r)
        BY <1>2, <1>8, <1>9, <1>15, <2>2, <2>3, <2>4, <2>6 DEF Good, Ordered
    <2>8. \A e : Waiting(r, e) <=> Waiting(s, e)
        BY <1>8, <2>3 DEF Waiting
    <2>9. Alone(r)
        BY <1>8, <1>12, <1>13, <2>2, <2>3, <2>4, <2>8 DEF Alone
    <2>10. Free(r) = Free(s) \ {id}
        BY <1>8, <2>2, <2>3, <2>4, <2>8 DEF Free
    <2>11. id \notin Free(m)
        BY <1>1 DEF Free
    <2>12. Good(r, id) /\ Free(r) = Free(m)
        BY <1>14, <2>5, <2>7, <2>9, <2>10, <2>11 DEF Good
    <2>13. /\ Known(r) = Known(m) \cup {id}
           /\ DOMAIN r.flying \subseteq Known(r)
        BY <1>9, <2>3, <2>4
    <2>14. /\ r.parser[id] = handler /\ r.byDc[id].dc = dc
           /\ \A e \in Known(m) : /\ r.parser[e] = m.parser[e]
                                  /\ r.byDc[e] = m.byDc[e]
        BY <1>3, <1>6, <1>7, <2>3
    <2> QED
        BY <1>1, <2>3, <2>12, <2>13, <2>14
<1>17. CASE known \notin DOMAIN m.dependent
    <2>1. /\ Good(r, id) /\ SameMaps(s, r)
          /\ DOMAIN r.flying = DOMAIN s.flying \cup {id}
          /\ \A e \in DOMAIN s.flying : r.flying[e] = s.flying[e]
          /\ Free(r) = Free(s) \ {id}
        BY <1>4, <1>14, <1>15, <1>17, SendPreparedGood
    <2>2. Known(r) = Known(s)
        BY <2>1 DEF SameMaps, Known
    <2>3. id \notin Free(m)
        BY <1>1 DEF Free
    <2>4. Good(r, id) /\ Free(r) = Free(m)
        BY <1>14, <2>1, <2>3
    <2>5. /\ Known(r) = Known(m) \cup {id}
          /\ DOMAIN r.flying = DOMAIN m.flying \cup {id}
        BY <1>8, <1>9, <2>1, <2>2
    <2>6. /\ r.parser[id] = handler /\ r.byDc[id].dc = dc
          /\ \A e \in Known(m) : /\ r.parser[e] = m.parser[e]
                                 /\ r.byDc[e] = m.byDc[e]
        BY <1>3, <1>6, <1>7, <1>8, <2>1 DEF SameMaps
    <2>7. r.waiters = m.waiters /\ r.exports = m.exports
        BY <1>8, <2>1 DEF SameMaps
    <2>8. \A e \in DOMAIN m.flying : r.flying[e] = m.flying[e]
        BY <1>8, <2>1
    <2> QED
        BY <1>1, <2>4, <2>5, <2>6, <2>7, <2>8
<1> QED
    BY <1>16, <1>17

\* Nothing depends on itself: no complete set needs the ids up to its end.
LEMMA DependentsAreLater ==
    ASSUME NEW m, NEW l, Good(m, l), NEW id \in Known(m)
    PROVE  /\ Dependents(m, id) \subseteq DOMAIN m.dependent \ {id}
           /\ \A d \in DOMAIN m.dependent :
                m.dependent[d] \in Dependents(m, id) \cup {id}
                    => d \in Dependents(m, id)
<1> DEFINE D == DOMAIN m.dependent
           Complete(ids) ==
                \A d \in D : m.dependent[d] \in ids \cup {id} => d \in ids
<1>1. Dependents(m, id)
        = {d \in D : \A ids \in SUBSET D : Complete(ids) => d \in ids}
    BY DEF Dependents
<1>2. Dependents(m, id) \subseteq D
    BY <1>1
<1>3. id \notin Dependents(m, id)
    <2> DEFINE later == {d \in D : d > id}
    <2>1. \A d \in D : /\ d \in Nat /\ m.dependent[d] \in Nat
                       /\ m.dependent[d] < d
        BY DEF Good, MapsTyped, Ordered
    <2>2. id \in Nat
        BY DEF Good, MapsTyped
    <2>3. Complete(later)
        BY <2>1, <2>2
    <2>4. later \in SUBSET D /\ id \notin later
        BY <2>2
    <2> HIDE DEF later
    <2> QED
        BY <1>1, <2>3, <2>4
<1>4. ASSUME NEW d \in D, m.dependent[d] \in Dependents(m, id) \cup {id}
      PROVE  d \in Dependents(m, id)
    <2> SUFFICES ASSUME NEW ids \in SUBSET D, Complete(ids)
                 PROVE  d \in ids
        BY <1>1
    <2>1. m.dependent[d] \in ids \cup {id}
        BY <1>1, <1>4
    <2> QED
        BY <2>1
<1> QED
    BY <1>2, <1>3, <1>4

\* A request that has ended is in no map but of the sessions, and what waited
\* for it is in a session.
LEMMA UnregisterGood ==
    ASSUME NEW m, NEW l, Good(m, l), NEW id \in Known(m),
           NEW r, r = UnregisterRequest(m, id)
    PROVE  /\ Good(r, l)
           /\ Known(r) = Known(m) \ {id}
           /\ \A e \in Known(r) : /\ r.parser[e] = m.parser[e]
                                  /\ r.byDc[e] = m.byDc[e]
           /\ DOMAIN r.flying \subseteq DOMAIN m.flying \cup Known(r)
           /\ \A e \in DOMAIN m.flying : /\ e \in DOMAIN r.flying
                                         /\ r.flying[e] = m.flying[e]
           /\ r.waiters = m.waiters /\ r.exports = m.exports
           /\ Free(r) = Free(m) \ {id}
<1> DEFINE toResend == Dependents(m, id)
           requests == Without(m.requests, {id})
           parser == Without(m.parser, {id})
           byDc == Without(m.byDc, {id})
           dependent == Without(m.dependent, toResend \cup {id})
           g == [m EXCEPT !.requests = requests, !.parser = parser,
                          !.byDc = byDc, !.dependent = dependent]
<1>1. r = SendPrepared(g, toResend)
    BY DEF UnregisterRequest
<1>2. /\ toResend \subseteq DOMAIN m.dependent \ {id}
      /\ \A d \in DOMAIN m.dependent :
            m.dependent[d] \in toResend \cup {id} => d \in toResend
    BY DependentsAreLater
<1> HIDE DEF toResend
<1>3. /\ requests \in [Known(m) \ {id} -> Nat]
      /\ DOMAIN requests = Known(m) \ {id}
      /\ \A e \in Known(m) \ {id} : requests[e] = m.requests[e]
    <2>1. m.requests \in [Known(m) -> Nat]
        BY DEF Good, MapsTyped
    <2> QED
        BY <2>1 DEF Without, Restrict
<1>4. /\ parser \in [Known(m) \ {id} -> Handlers]
      /\ \A e \in Known(m) \ {id} : parser[e] = m.parser[e]
    <2>1. m.parser \in [Known(m) -> Handlers]
        BY DEF Good, MapsTyped
    <2> QED
        BY <2>1 DEF Without, Restrict
<1>5. /\ byDc \in [Known(m) \ {id} -> RegisteredRequest]
      /\ \A e \in Known(m) \ {id} : byDc[e] = m.byDc[e]
    <2>1. m.byDc \in [Known(m) -> RegisteredRequest]
        BY DEF Good, MapsTyped
    <2> QED
        BY <2>1 DEF Without, Restrict
<1>6. /\ dependent \in [DOMAIN dependent -> Nat]
      /\ DOMAIN dependent = DOMAIN m.dependent \ (toResend \cup {id})
      /\ \A e \in DOMAIN dependent : dependent[e] = m.dependent[e]
    <2>1. m.dependent \in [DOMAIN m.dependent -> Nat]
        BY DEF Good, MapsTyped
    <2> QED
        BY <2>1 DEF Without, Restrict
<1> HIDE DEF requests, parser, byDc, dependent
<1>7. /\ g.requests = requests /\ g.parser = parser /\ g.byDc = byDc
      /\ g.dependent = dependent /\ g.delayed = m.delayed
      /\ g.waiters = m.waiters /\ g.exports = m.exports
      /\ g.flying = m.flying
      /\ Maps(g)
    <2> DEFINE g1 == [m EXCEPT !.requests = requests]
               g2 == [g1 EXCEPT !.parser = parser]
               g3 == [g2 EXCEPT !.byDc = byDc]
    <2>1. Maps(m)
        BY DEF Good, MapsTyped
    <2>2. /\ g1.requests = requests /\ g1.parser = m.parser
          /\ g1.byDc = m.byDc
          /\ g1.delayed = m.delayed /\ g1.dependent = m.dependent
          /\ g1.waiters = m.waiters /\ g1.exports = m.exports
          /\ g1.badGuest = m.badGuest /\ g1.flying = m.flying
          /\ Maps(g1)
        BY <2>1 DEF Maps
    <2>3. g = [g3 EXCEPT !.dependent = dependent]
        OBVIOUS
    <2> HIDE DEF g1
    <2>4. /\ g2.requests = requests /\ g2.parser = parser
          /\ g2.byDc = m.byDc
          /\ g2.delayed = m.delayed /\ g2.dependent = m.dependent
          /\ g2.waiters = m.waiters /\ g2.exports = m.exports
          /\ g2.badGuest = m.badGuest /\ g2.flying = m.flying
          /\ Maps(g2)
        BY <2>2 DEF Maps
    <2> HIDE DEF g2
    <2>5. /\ g3.requests = requests /\ g3.parser = parser
          /\ g3.byDc = byDc
          /\ g3.delayed = m.delayed /\ g3.dependent = m.dependent
          /\ g3.waiters = m.waiters /\ g3.exports = m.exports
          /\ g3.badGuest = m.badGuest /\ g3.flying = m.flying
          /\ Maps(g3)
        BY <2>4 DEF Maps
    <2> HIDE DEF g, g3
    <2> QED
        BY <2>3, <2>5 DEF Maps
<1> HIDE DEF g
<1>8. Known(g) = Known(m) \ {id}
    BY <1>3, <1>7 DEF Known
<1>9. MapsTyped(g, l)
    BY <1>3, <1>4, <1>5, <1>6, <1>7, <1>8 DEF Good, MapsTyped
<1>10. Ordered(g)
    BY <1>2, <1>3, <1>6, <1>7, <1>8 DEF Good, Ordered
<1>11. \A e : Waiting(g, e) <=> Waiting(m, e)
    BY <1>7 DEF Waiting
<1>12. Alone(g)
    BY <1>4, <1>5, <1>6, <1>7, <1>8, <1>11 DEF Good, Alone
<1>13. Free(g) = (Free(m) \ {id}) \cup toResend
    <2>1. ASSUME NEW d \in toResend
          PROVE  d \in Free(g)
        <3>1. d \in Known(m) \ {id} /\ d \in DOMAIN m.dependent
            BY <1>2 DEF Good, Ordered
        <3>2. /\ d \notin DOMAIN m.flying /\ d \notin m.delayed
              /\ ~Waiting(m, d)
            BY <3>1 DEF Good, Alone
        <3> QED
            BY <1>6, <1>7, <1>8, <1>11, <3>1, <3>2 DEF Free
    <2>2. ASSUME NEW e \in Known(m) \ {id}, e \notin toResend
          PROVE  e \in Free(g) <=> e \in Free(m)
        BY <1>6, <1>7, <1>8, <1>11, <2>2 DEF Free
    <2>3. Free(g) \subseteq Known(m) \ {id} /\ Free(m) \subseteq Known(m)
        BY <1>8 DEF Free
    <2> QED
        BY <2>1, <2>2, <2>3
<1>14. toResend \cap Free(m) = {}
    BY <1>2 DEF Free
<1>15. /\ Good(r, l) /\ SameMaps(g, r)
       /\ DOMAIN r.flying = DOMAIN g.flying \cup toResend
       /\ \A e \in DOMAIN g.flying : r.flying[e] = g.flying[e]
       /\ Free(r) = Free(g) \ toResend
    BY <1>1, <1>9, <1>10, <1>12, <1>13, SendPreparedGood DEF Good
<1>16. Known(r) = Known(m) \ {id} /\ toResend \subseteq Known(r)
    BY <1>2, <1>8, <1>15 DEF SameMaps, Known, Good, Ordered
<1>17. \A e \in Known(r) : r.parser[e] = m.parser[e] /\ r.byDc[e] = m.byDc[e]
    BY <1>4, <1>5, <1>7, <1>15, <1>16 DEF SameMaps
<1>18. Free(r) = Free(m) \ {id}
    BY <1>13, <1>14, <1>15
<1>19. r.waiters = m.waiters /\ r.exports = m.exports
    BY <1>7, <1>15 DEF SameMaps
<1> QED
    BY <1>7, <1>15, <1>16, <1>17, <1>18, <1>19

-----------------------------------------------------------------------------
(* Changes of one map *)

\* Delaying takes requests from no place, and what is no longer delayed is in
\* none.
LEMMA DelayedGood ==
    ASSUME NEW m, NEW l, Good(m, l),
           NEW delayed, delayed \subseteq m.delayed \cup Free(m),
           NEW r, r = [m EXCEPT !.delayed = delayed]
    PROVE  /\ Good(r, l)
           /\ r.parser = m.parser /\ r.byDc = m.byDc /\ Known(r) = Known(m)
           /\ r.waiters = m.waiters /\ r.exports = m.exports
           /\ r.flying = m.flying
           /\ Free(r) = (Free(m) \cup (m.delayed \cap Known(m))) \ delayed
<1>1. delayed \subseteq 1..l
    BY DEF Free, Good, MapsTyped
<1>2. /\ r.requests = m.requests /\ r.parser = m.parser /\ r.byDc = m.byDc
      /\ r.delayed = delayed /\ r.dependent = m.dependent
      /\ r.waiters = m.waiters /\ r.exports = m.exports
      /\ r.flying = m.flying
      /\ Maps(r)
    BY DEF Good, MapsTyped, Maps
<1>3. Known(r) = Known(m) /\ \A e : Waiting(r, e) <=> Waiting(m, e)
    BY <1>2 DEF Known, Waiting
<1>4. MapsTyped(r, l) /\ Ordered(r)
    BY <1>1, <1>2, <1>3 DEF Good, MapsTyped, Ordered
<1>5. Alone(r)
    BY <1>2, <1>3 DEF Good, Alone, Free
<1>6. ASSUME NEW e \in Known(m)
      PROVE  e \in Free(r) <=>
                (e \in Free(m) \/ e \in m.delayed) /\ e \notin delayed
    <2>1. e \in m.delayed => /\ e \notin DOMAIN m.flying
                             /\ e \notin DOMAIN m.dependent
                             /\ ~Waiting(m, e)
        BY DEF Good, Alone
    <2> QED
        BY <1>2, <1>3, <2>1 DEF Free
<1>7. Free(r) \subseteq Known(m) /\ Free(m) \subseteq Known(m)
    BY <1>3 DEF Free
<1> QED
    BY <1>2, <1>3, <1>4, <1>5, <1>6, <1>7 DEF Good

\* A request waits for the authorization of its dc.
LEMMA WaiterGood ==
    ASSUME NEW m, NEW l, Good(m, l), NEW id \in Free(m),
           NEW dc, dc = m.byDc[id].dc,
           NEW waiters, waiters = [m.waiters EXCEPT ![dc] = @ \cup {id}],
           NEW r, r = [m EXCEPT !.waiters = waiters]
    PROVE  /\ Good(r, l)
           /\ r.parser = m.parser /\ r.byDc = m.byDc /\ Known(r) = Known(m)
           /\ r.waiters = waiters
           /\ r.exports = m.exports /\ r.flying = m.flying
           /\ Free(r) = Free(m) \ {id}
<1>1. id \in Known(m) /\ id \in 1..l /\ dc \in Dcs
    BY DEF Free, Good, MapsTyped, RegisteredRequest
<1>2. /\ waiters \in [Dcs -> SUBSET (1..l)]
      /\ waiters[dc] = m.waiters[dc] \cup {id}
      /\ \A d \in Dcs \ {dc} : waiters[d] = m.waiters[d]
    BY <1>1 DEF Good, MapsTyped
<1>3. /\ r.requests = m.requests /\ r.parser = m.parser /\ r.byDc = m.byDc
      /\ r.delayed = m.delayed /\ r.dependent = m.dependent
      /\ r.waiters = waiters /\ r.exports = m.exports
      /\ r.flying = m.flying
      /\ Maps(r)
    BY DEF Good, MapsTyped, Maps
<1>4. Known(r) = Known(m) /\ \A e : Waiting(r, e) <=> Waiting(m, e) \/ e = id
    BY <1>1, <1>2, <1>3 DEF Known, Waiting
<1>5. MapsTyped(r, l) /\ Ordered(r)
    BY <1>2, <1>3, <1>4 DEF Good, MapsTyped, Ordered
<1>6. Alone(r)
    <2> SUFFICES ASSUME NEW e \in Known(m)
                 PROVE  /\ e \in DOMAIN m.flying =>
                            /\ e \notin m.delayed /\ e \notin DOMAIN m.dependent
                            /\ ~Waiting(r, e)
                            /\ m.flying[e].dc = m.byDc[e].dc
                            /\ m.flying[e].answer \in UserAnswers
                                    => m.parser[e] = "user"
                        /\ e \in m.delayed =>
                            e \notin DOMAIN m.dependent /\ ~Waiting(r, e)
                        /\ e \in DOMAIN m.dependent => ~Waiting(r, e)
                        /\ \A d \in Dcs : e \in waiters[d] => m.byDc[e].dc = d
        BY <1>3, <1>4 DEF Alone
    <2>1. \A d \in Dcs : e \in waiters[d] => m.byDc[e].dc = d
        BY <1>2 DEF Good, Alone
    <2>2. CASE e = id
        BY <2>1, <2>2 DEF Free
    <2>3. CASE e # id
        BY <1>4, <2>1, <2>3 DEF Good, Alone
    <2> QED
        BY <2>2, <2>3
<1>7. Free(r) = Free(m) \ {id}
    BY <1>3, <1>4 DEF Free
<1> QED
    BY <1>3, <1>4, <1>5, <1>6, <1>7 DEF Good

\* Nothing waits for the authorization of a dc any more.
LEMMA ClearedGood ==
    ASSUME NEW m, NEW l, Good(m, l), NEW dc \in Dcs,
           NEW waiters, waiters = [m.waiters EXCEPT ![dc] = {}],
           NEW r, r = [m EXCEPT !.waiters = waiters]
    PROVE  /\ Good(r, l)
           /\ r.requests = m.requests
           /\ r.parser = m.parser /\ r.byDc = m.byDc /\ Known(r) = Known(m)
           /\ r.waiters = waiters
           /\ r.exports = m.exports /\ r.flying = m.flying
           /\ Free(r) = Free(m) \cup (m.waiters[dc] \cap Known(m))
<1>1. /\ waiters \in [Dcs -> SUBSET (1..l)]
      /\ waiters[dc] = {}
      /\ \A d \in Dcs \ {dc} : waiters[d] = m.waiters[d]
    BY DEF Good, MapsTyped
<1>2. /\ r.requests = m.requests /\ r.parser = m.parser /\ r.byDc = m.byDc
      /\ r.delayed = m.delayed /\ r.dependent = m.dependent
      /\ r.waiters = waiters /\ r.exports = m.exports
      /\ r.flying = m.flying
      /\ Maps(r)
    BY DEF Good, MapsTyped, Maps
<1>3. Known(r) = Known(m)
    BY <1>2 DEF Known
<1>4. \A e \in Known(m) :
        Waiting(r, e) <=> Waiting(m, e) /\ e \notin m.waiters[dc]
    <2>1. ASSUME NEW e \in Known(m), NEW d \in Dcs, NEW f \in Dcs,
                 e \in m.waiters[d], e \in m.waiters[f]
          PROVE  d = f
        BY <2>1 DEF Good, Alone
    <2> QED
        BY <1>1, <1>2, <2>1 DEF Waiting
<1>5. MapsTyped(r, l) /\ Ordered(r)
    BY <1>1, <1>2, <1>3 DEF Good, MapsTyped, Ordered
<1>6. Alone(r)
    <2>1. \A d \in Dcs : waiters[d] \subseteq m.waiters[d]
        BY <1>1
    <2>2. \A e \in Known(m) : ~Waiting(m, e) => ~Waiting(r, e)
        BY <1>4
    <2>3. ASSUME NEW e \in Known(m)
          PROVE  /\ e \in DOMAIN m.flying =>
                        /\ e \notin m.delayed /\ e \notin DOMAIN m.dependent
                        /\ ~Waiting(r, e)
                        /\ m.flying[e].dc = m.byDc[e].dc
                        /\ m.flying[e].answer \in UserAnswers
                                => m.parser[e] = "user"
                 /\ e \in m.delayed =>
                        e \notin DOMAIN m.dependent /\ ~Waiting(r, e)
                 /\ e \in DOMAIN m.dependent => ~Waiting(r, e)
                 /\ \A d \in Dcs : e \in waiters[d] => m.byDc[e].dc = d
        BY <2>1, <2>2 DEF Good, Alone
    <2> QED
        BY <1>2, <1>3, <2>3 DEF Alone
<1>7. \A e \in m.waiters[dc] \cap Known(m) :
        /\ e \notin DOMAIN m.flying /\ e \notin m.delayed
        /\ e \notin DOMAIN m.dependent /\ Waiting(m, e)
    BY DEF Good, Alone, Waiting
<1>8. Free(r) = Free(m) \cup (m.waiters[dc] \cap Known(m))
    <2>1. ASSUME NEW e \in Known(m)
          PROVE  e \in Free(r) <=> e \in Free(m) \/ e \in m.waiters[dc]
        BY <1>2, <1>3, <1>4, <1>7 DEF Free
    <2>2. Free(r) \subseteq Known(m) /\ Free(m) \subseteq Known(m)
        BY <1>3 DEF Free
    <2> QED
        BY <2>1, <2>2
<1> QED
    BY <1>2, <1>3, <1>5, <1>6, <1>8 DEF Good

\* A request waits here for the end of another one.
LEMMA DependentGood ==
    ASSUME NEW m, NEW l, Good(m, l), NEW id \in Free(m),
           m.requests[id] \in Known(m),
           NEW r, r = [m EXCEPT !.dependent = With(@, id, m.requests[id])]
    PROVE  /\ Good(r, l)
           /\ r.parser = m.parser /\ r.byDc = m.byDc /\ Known(r) = Known(m)
           /\ r.waiters = m.waiters /\ r.exports = m.exports
           /\ r.flying = m.flying
           /\ Free(r) = Free(m) \ {id}
<1> DEFINE after == m.requests[id]
           dependent == With(m.dependent, id, after)
<1>1. r = [m EXCEPT !.dependent = dependent]
    BY DEF Good, MapsTyped, Maps
<1>2. id \in Known(m) /\ after \in Nat /\ after < id
    BY DEF Free, Good, MapsTyped, Ordered
<1>3. /\ dependent \in [DOMAIN dependent -> Nat]
      /\ DOMAIN dependent = DOMAIN m.dependent \cup {id}
      /\ dependent[id] = after
      /\ \A e \in DOMAIN m.dependent : e # id => dependent[e] = m.dependent[e]
    BY <1>2 DEF With, Good, MapsTyped
<1> HIDE DEF dependent
<1>4. /\ r.requests = m.requests /\ r.parser = m.parser /\ r.byDc = m.byDc
      /\ r.delayed = m.delayed /\ r.dependent = dependent
      /\ r.waiters = m.waiters /\ r.exports = m.exports
      /\ r.flying = m.flying
      /\ Maps(r)
    BY <1>1 DEF Good, MapsTyped, Maps
<1>5. Known(r) = Known(m) /\ \A e : Waiting(r, e) <=> Waiting(m, e)
    BY <1>4 DEF Known, Waiting
<1>6. MapsTyped(r, l) /\ Ordered(r)
    BY <1>2, <1>3, <1>4, <1>5 DEF Good, MapsTyped, Ordered
<1>7. Alone(r)
    BY <1>3, <1>4, <1>5 DEF Good, Alone, Free
<1>8. Free(r) = Free(m) \ {id}
    BY <1>3, <1>4, <1>5 DEF Free
<1> QED
    BY <1>4, <1>5, <1>6, <1>7, <1>8 DEF Good

\* A request is to be sent without waiting for another one.
LEMMA IndependentGood ==
    ASSUME NEW m, NEW l, Good(m, l), NEW id \in Free(m),
           NEW r, r = [m EXCEPT !.requests[id] = 0]
    PROVE  /\ Good(r, l)
           /\ r.parser = m.parser /\ r.byDc = m.byDc /\ Known(r) = Known(m)
           /\ r.waiters = m.waiters /\ r.exports = m.exports
           /\ r.flying = m.flying
           /\ Free(r) = Free(m)
<1> DEFINE requests == [m.requests EXCEPT ![id] = 0]
<1>1. r = [m EXCEPT !.requests = requests]
    OBVIOUS
<1>2. /\ requests \in [Known(m) -> Nat] /\ id \in Known(m) /\ id > 0
      /\ requests[id] = 0
      /\ \A e \in Known(m) \ {id} : requests[e] = m.requests[e]
    BY DEF Good, MapsTyped, Free
<1> HIDE DEF requests
<1>3. /\ r.requests = requests /\ r.parser = m.parser /\ r.byDc = m.byDc
      /\ r.delayed = m.delayed /\ r.dependent = m.dependent
      /\ r.waiters = m.waiters /\ r.exports = m.exports
      /\ r.flying = m.flying
      /\ Maps(r)
    BY <1>1 DEF Good, MapsTyped, Maps
<1>4. Known(r) = Known(m)
    BY <1>2, <1>3 DEF Known
<1>5. \A e : Waiting(r, e) <=> Waiting(m, e)
    BY <1>3 DEF Waiting
<1>6. MapsTyped(r, l) /\ Ordered(r)
    BY <1>2, <1>3, <1>4 DEF Good, MapsTyped, Ordered
<1>7. Alone(r)
    BY <1>3, <1>4, <1>5 DEF Good, Alone
<1>8. Free(r) = Free(m)
    BY <1>3, <1>4, <1>5 DEF Free
<1> QED
    BY <1>3, <1>4, <1>6, <1>7, <1>8 DEF Good

\* A request is registered with another dc.
LEMMA MovedGood ==
    ASSUME NEW m, NEW l, Good(m, l), NEW id \in Free(m), NEW dc \in Dcs,
           NEW r, r = [m EXCEPT !.byDc[id].dc = dc]
    PROVE  /\ Good(r, l)
           /\ r.parser = m.parser /\ Known(r) = Known(m)
           /\ \A e \in Known(m) \ {id} : r.byDc[e] = m.byDc[e]
           /\ r.waiters = m.waiters /\ r.exports = m.exports
           /\ r.flying = m.flying
           /\ Free(r) = Free(m)
<1> DEFINE byDc == [m.byDc EXCEPT ![id].dc = dc]
<1>1. r = [m EXCEPT !.byDc = byDc]
    OBVIOUS
<1>2. id \in Known(m) /\ m.byDc[id] \in RegisteredRequest
    BY DEF Good, MapsTyped, Free
<1>3. [m.byDc[id] EXCEPT !.dc = dc] \in RegisteredRequest
    BY <1>2 DEF RegisteredRequest
<1>4. /\ byDc \in [Known(m) -> RegisteredRequest]
      /\ \A e \in Known(m) \ {id} : byDc[e] = m.byDc[e]
    BY <1>2, <1>3 DEF Good, MapsTyped
<1> HIDE DEF byDc
<1>5. /\ r.requests = m.requests /\ r.parser = m.parser /\ r.byDc = byDc
      /\ r.delayed = m.delayed /\ r.dependent = m.dependent
      /\ r.waiters = m.waiters /\ r.exports = m.exports
      /\ r.flying = m.flying
      /\ Maps(r)
    BY <1>1 DEF Good, MapsTyped, Maps
<1>6. Known(r) = Known(m) /\ \A e : Waiting(r, e) <=> Waiting(m, e)
    BY <1>5 DEF Known, Waiting
<1>7. MapsTyped(r, l) /\ Ordered(r)
    BY <1>4, <1>5, <1>6 DEF Good, MapsTyped, Ordered
<1>8. Alone(r)
    <2>1. id \notin DOMAIN m.flying /\ \A d \in Dcs : id \notin m.waiters[d]
        BY DEF Free, Waiting
    <2> QED
        BY <1>4, <1>5, <1>6, <2>1 DEF Good, Alone
<1>9. Free(r) = Free(m)
    BY <1>5, <1>6 DEF Free
<1> QED
    BY <1>4, <1>5, <1>6, <1>7, <1>8, <1>9 DEF Good

\* badGuest and exports are about no place.
LEMMA BadGuestGood ==
    ASSUME NEW m, NEW l, Good(m, l), NEW bad,
           NEW r, r = [m EXCEPT !.badGuest = bad]
    PROVE  /\ Good(r, l)
           /\ r.parser = m.parser /\ r.byDc = m.byDc /\ Known(r) = Known(m)
           /\ r.waiters = m.waiters /\ r.exports = m.exports
           /\ r.flying = m.flying
           /\ Free(r) = Free(m)
<1>1. /\ r.requests = m.requests /\ r.parser = m.parser /\ r.byDc = m.byDc
      /\ r.delayed = m.delayed /\ r.dependent = m.dependent
      /\ r.waiters = m.waiters /\ r.exports = m.exports
      /\ r.flying = m.flying
      /\ Maps(r)
    BY DEF Good, MapsTyped, Maps
<1>2. Known(r) = Known(m) /\ \A e : Waiting(r, e) <=> Waiting(m, e)
    BY <1>1 DEF Known, Waiting
<1> QED
    BY <1>1, <1>2 DEF Good, MapsTyped, Ordered, Alone, Free

\* The list of exports may change without a request being moved.
LEMMA ExportsGood ==
    ASSUME NEW m, NEW l, Good(m, l), NEW exports,
           exports \in [DOMAIN exports -> Dcs],
           NEW r, r = [m EXCEPT !.exports = exports]
    PROVE  /\ Good(r, l)
           /\ r.parser = m.parser /\ r.byDc = m.byDc /\ Known(r) = Known(m)
           /\ r.waiters = m.waiters /\ r.exports = exports
           /\ r.flying = m.flying
           /\ Free(r) = Free(m)
<1>1. /\ r.requests = m.requests /\ r.parser = m.parser /\ r.byDc = m.byDc
      /\ r.delayed = m.delayed /\ r.dependent = m.dependent
      /\ r.waiters = m.waiters /\ r.exports = exports
      /\ r.flying = m.flying
      /\ Maps(r)
    BY DEF Good, MapsTyped, Maps
<1>2. Known(r) = Known(m) /\ \A e : Waiting(r, e) <=> Waiting(m, e)
    BY <1>1 DEF Known, Waiting
<1> QED
    BY <1>1, <1>2 DEF Good, MapsTyped, Ordered, Alone, Free

\* A session forgets requests, or takes answers to them.
LEMMA FlyingGood ==
    ASSUME NEW m, NEW l, Good(m, l), NEW flying,
           flying \in [DOMAIN flying -> Flight],
           DOMAIN flying \subseteq DOMAIN m.flying,
           \A e \in DOMAIN flying \cap Known(m) :
                /\ flying[e].dc = m.byDc[e].dc
                /\ flying[e].answer \in UserAnswers => m.parser[e] = "user",
           NEW r, r = [m EXCEPT !.flying = flying]
    PROVE  /\ Good(r, l)
           /\ r.parser = m.parser /\ r.byDc = m.byDc /\ Known(r) = Known(m)
           /\ r.waiters = m.waiters /\ r.exports = m.exports
           /\ r.flying = flying
           /\ Free(r) = Free(m)
                \cup (Known(m) \cap (DOMAIN m.flying \ DOMAIN flying))
<1>1. /\ r.requests = m.requests /\ r.parser = m.parser /\ r.byDc = m.byDc
      /\ r.delayed = m.delayed /\ r.dependent = m.dependent
      /\ r.waiters = m.waiters /\ r.exports = m.exports
      /\ r.flying = flying
      /\ Maps(r)
    BY DEF Good, MapsTyped, Maps
<1>2. Known(r) = Known(m) /\ \A e : Waiting(r, e) <=> Waiting(m, e)
    BY <1>1 DEF Known, Waiting
<1>3. MapsTyped(r, l) /\ Ordered(r)
    BY <1>1, <1>2 DEF Good, MapsTyped, Ordered
<1>4. Alone(r)
    BY <1>1, <1>2 DEF Good, Alone
<1>5. ASSUME NEW e \in Known(m)
      PROVE  e \in Free(r) <=>
                \/ e \in Free(m)
                \/ e \in DOMAIN m.flying \ DOMAIN flying
    BY <1>1, <1>2 DEF Free, Good, Alone
<1>6. Free(r) \subseteq Known(m) /\ Free(m) \subseteq Known(m)
    BY <1>2 DEF Free
<1> QED
    BY <1>1, <1>2, <1>3, <1>4, <1>5, <1>6 DEF Good

-----------------------------------------------------------------------------
(* The invariant *)

\* The exports and imports for a dc that are on their way.
TransfersOf(m, dc) ==
    {id \in Known(m) :
        \/ m.parser[id] = "export" /\ m.exports[id] = dc
        \/ m.parser[id] = "import" /\ m.byDc[id].dc = dc}

\* Requests wait for a dc exactly while there is a transfer for it, and the
\* only one, until one has been refused.
Transfers(m, R) ==
    /\ \A id \in Known(m) : m.parser[id] = "export" <=> id \in DOMAIN m.exports
    /\ \A dc \in Dcs :
        /\ \A e, f \in TransfersOf(m, dc) : e = f
        /\ TransfersOf(m, dc) # {} => m.waiters[dc] # {}
        /\ m.waiters[dc] # {} => TransfersOf(m, dc) # {} \/ dc \in R

Inv(m, l, R) ==
    /\ Good(m, l)
    /\ DOMAIN m.flying \subseteq Known(m)
    /\ \A id \in Free(m) : m.byDc[id].dc \in R
    /\ DOMAIN m.exports \subseteq 1..l
    /\ Transfers(m, R)

IInv == Inv(mtp, lastId, refused)

\* A step that takes a request of the program from one place to another, or
\* ends it.
LEMMA QuietKeeps ==
    ASSUME NEW m, NEW l, NEW R, Inv(m, l, R),
           NEW n, Good(n, l), DOMAIN n.flying \subseteq Known(n),
           Free(n) \subseteq Free(m), n.exports = m.exports,
           Known(n) \subseteq Known(m),
           \A dc \in Dcs : n.waiters[dc] = {} <=> m.waiters[dc] = {},
           \A id \in Known(n) :
                /\ n.parser[id] = m.parser[id]
                /\ \/ n.byDc[id] = m.byDc[id]
                   \/ m.parser[id] = "user" /\ id \notin Free(m),
           \A id \in Known(m) \ Known(n) : m.parser[id] = "user"
    PROVE  Inv(n, l, R)
<1>1. \A id \in Free(n) : id \in Known(n) /\ n.byDc[id].dc \in R
    BY DEF Inv, Free
<1>2. \A dc \in Dcs : TransfersOf(n, dc) = TransfersOf(m, dc)
    BY DEF TransfersOf
<1>3. Transfers(n, R)
    BY <1>2 DEF Inv, Transfers
<1> QED
    BY <1>1, <1>3 DEF Inv

\* A request that is answered is in the session and nowhere else, and only the
\* program's own ones get the answers that are for them.
LEMMA LandedUser ==
    ASSUME IInv, NEW id, NEW answer, Answered(id, answer)
    PROVE  /\ id \in DOMAIN mtp.flying /\ id \in Known(mtp)
           /\ id \notin Free(mtp) /\ id \notin mtp.delayed
           /\ answer \in UserAnswers => mtp.parser[id] = "user"
BY DEF IInv, Inv, Good, Alone, Answered, Free

\* The handler of a request of the program has been called.
LEMMA EndStep ==
    ASSUME IInv, NEW id, NEW answer, Answered(id, answer), End(id),
           mtp.parser[id] = "user", UNCHANGED <<lastId, refused>>
    PROVE  IInv'
<1> DEFINE m == Landed(id)
<1>1. /\ id \in DOMAIN mtp.flying /\ id \in Known(mtp)
      /\ Good(mtp, lastId)
    BY LandedUser DEF IInv, Inv
<1>2. /\ Good(m, lastId) /\ SameMaps(mtp, m)
      /\ DOMAIN m.flying = DOMAIN mtp.flying \ {id}
      /\ Free(m) = Free(mtp) \cup {id}
    BY <1>1, LandedGood
<1>3. Known(m) = Known(mtp)
    BY <1>2 DEF SameMaps, Known
<1>4. mtp' = UnregisterRequest(m, id)
    BY DEF End
<1> HIDE DEF m
<1>5. /\ Good(mtp', lastId)
      /\ Known(mtp') = Known(m) \ {id}
      /\ \A e \in Known(mtp') : /\ mtp'.parser[e] = m.parser[e]
                                /\ mtp'.byDc[e] = m.byDc[e]
      /\ DOMAIN mtp'.flying \subseteq DOMAIN m.flying \cup Known(mtp')
      /\ mtp'.waiters = m.waiters /\ mtp'.exports = m.exports
      /\ Free(mtp') = Free(m) \ {id}
    BY <1>1, <1>2, <1>3, <1>4, UnregisterGood
<1>6. DOMAIN mtp'.flying \subseteq Known(mtp')
    BY <1>2, <1>3, <1>5 DEF IInv, Inv
<1>7. Inv(mtp', lastId, refused)
    <2>1. Inv(mtp, lastId, refused)
        BY DEF IInv
    <2>2. /\ Free(mtp') \subseteq Free(mtp)
          /\ mtp'.exports = mtp.exports /\ mtp'.waiters = mtp.waiters
          /\ Known(mtp') = Known(mtp) \ {id}
          /\ \A e \in Known(mtp') : /\ mtp'.parser[e] = mtp.parser[e]
                                    /\ mtp'.byDc[e] = mtp.byDc[e]
        BY <1>2, <1>3, <1>5 DEF SameMaps
    <2> QED
        BY <1>5, <1>6, <2>1, <2>2, QuietKeeps
<1> QED
    BY <1>7 DEF IInv

\* What has landed is sent again, whatever was changed in between.
LEMMA SentAgain ==
    ASSUME IInv, NEW m, Good(m, lastId), NEW ids,
           ids \subseteq Free(m), Free(m) \ ids \subseteq Free(mtp),
           DOMAIN m.flying \subseteq Known(m),
           m.waiters = mtp.waiters, m.exports = mtp.exports,
           m.parser = mtp.parser, Known(m) = Known(mtp),
           \A e \in Known(mtp) :
                \/ m.byDc[e] = mtp.byDc[e]
                \/ mtp.parser[e] = "user" /\ e \notin Free(mtp),
           mtp' = SendPrepared(m, ids), UNCHANGED <<lastId, refused>>
    PROVE  IInv'
<1>1. /\ Good(mtp', lastId) /\ SameMaps(m, mtp')
      /\ DOMAIN mtp'.flying = DOMAIN m.flying \cup ids
      /\ Free(mtp') = Free(m) \ ids
    BY SendPreparedGood
<1>2. /\ Known(mtp') = Known(mtp) /\ mtp'.parser = mtp.parser
      /\ mtp'.byDc = m.byDc
      /\ mtp'.waiters = mtp.waiters /\ mtp'.exports = mtp.exports
    BY <1>1 DEF SameMaps, Known
<1>3. DOMAIN mtp'.flying \subseteq Known(mtp')
    BY <1>1, <1>2 DEF Free
<1>4. Inv(mtp, lastId, refused)
    BY DEF IInv
<1>5. Inv(mtp', lastId, refused)
    BY <1>1, <1>2, <1>3, <1>4, QuietKeeps
<1> QED
    BY <1>5 DEF IInv

\* A request that goes to another dc is sent there at once.
LEMMA MigrateStep ==
    ASSUME IInv, NEW id, Migrate(id)
    PROVE  IInv'
<1>1. PICK dc \in Dcs : mtp' = Migrated(Landed(id), id, dc)
    BY DEF Migrate
<1> DEFINE m == Landed(id)
           n == [m EXCEPT !.byDc[id].dc = dc]
           answer == "migrate"
<1>2. Answered(id, answer) /\ UNCHANGED <<lastId, refused>>
    BY DEF Migrate
<1>3. answer \in UserAnswers
    BY DEF UserAnswers
<1> HIDE DEF answer
<1>4. /\ id \in DOMAIN mtp.flying /\ id \in Known(mtp)
      /\ id \notin Free(mtp) /\ mtp.parser[id] = "user"
    BY <1>2, <1>3, LandedUser
<1>5. /\ Good(m, lastId) /\ SameMaps(mtp, m)
      /\ DOMAIN m.flying = DOMAIN mtp.flying \ {id}
      /\ Free(m) = Free(mtp) \cup {id}
    BY <1>4, LandedGood DEF IInv, Inv
<1>6. mtp' = SendPrepared(n, {id})
    BY <1>1 DEF Migrated
<1> HIDE DEF m
<1>7. /\ Good(n, lastId)
      /\ n.parser = m.parser /\ Known(n) = Known(m)
      /\ \A e \in Known(m) \ {id} : n.byDc[e] = m.byDc[e]
      /\ n.waiters = m.waiters /\ n.exports = m.exports
      /\ n.flying = m.flying
      /\ Free(n) = Free(m)
    BY <1>5, MovedGood
<1> HIDE DEF n
<1>8. /\ n.parser = mtp.parser /\ Known(n) = Known(mtp)
      /\ \A e \in Known(mtp) \ {id} : n.byDc[e] = mtp.byDc[e]
      /\ n.waiters = mtp.waiters /\ n.exports = mtp.exports
      /\ DOMAIN n.flying \subseteq Known(n)
    BY <1>5, <1>7 DEF SameMaps, Known, IInv, Inv
<1>9. {id} \subseteq Free(n) /\ Free(n) \ {id} \subseteq Free(mtp)
    BY <1>5, <1>7
<1> QED
    BY <1>2, <1>4, <1>6, <1>7, <1>8, <1>9, SentAgain

\* A request whose dependence failed waits for it, or is sent again.
LEMMA MsgWaitFailedStep ==
    ASSUME IInv, NEW id, MsgWaitFailed(id)
    PROVE  IInv'
<1> DEFINE m == Landed(id)
           answer == "msg_wait"
<1>1. Answered(id, answer) /\ UNCHANGED <<lastId, refused>>
    BY DEF MsgWaitFailed
<1> HIDE DEF answer
<1>2. /\ id \in DOMAIN mtp.flying /\ id \in Known(mtp) /\ id \notin Free(mtp)
      /\ Inv(mtp, lastId, refused)
    BY <1>1, LandedUser DEF IInv
<1>3. /\ Good(m, lastId) /\ SameMaps(mtp, m)
      /\ DOMAIN m.flying = DOMAIN mtp.flying \ {id}
      /\ Free(m) = Free(mtp) \cup {id}
    BY <1>2, LandedGood DEF Inv
<1>4. mtp' = IF Depends(m, id)
             THEN [m EXCEPT !.dependent = With(@, id, m.requests[id])]
             ELSE SendPrepared([m EXCEPT !.requests[id] = 0], {id})
    BY DEF MsgWaitFailed
<1> HIDE DEF m
<1>5. CASE Depends(m, id)
    <2>1. /\ m.requests[id] \in Known(m)
          /\ mtp' = [m EXCEPT !.dependent = With(@, id, m.requests[id])]
        BY <1>4, <1>5 DEF Depends
    <2>2. /\ Good(mtp', lastId)
          /\ mtp'.parser = m.parser /\ mtp'.byDc = m.byDc
          /\ Known(mtp') = Known(m)
          /\ mtp'.waiters = m.waiters /\ mtp'.exports = m.exports
          /\ mtp'.flying = m.flying
          /\ Free(mtp') = Free(m) \ {id}
        BY <1>3, <2>1, DependentGood
    <2>3. /\ mtp'.parser = mtp.parser /\ mtp'.byDc = mtp.byDc
          /\ Known(mtp') = Known(mtp)
          /\ mtp'.waiters = mtp.waiters /\ mtp'.exports = mtp.exports
          /\ DOMAIN mtp'.flying \subseteq Known(mtp')
          /\ Free(mtp') \subseteq Free(mtp)
        BY <1>2, <1>3, <2>2 DEF SameMaps, Known, Inv
    <2>4. Inv(mtp', lastId, refused)
        BY <1>2, <2>2, <2>3, QuietKeeps
    <2> QED
        BY <1>1, <2>4 DEF IInv
<1>6. CASE ~Depends(m, id)
    <2> DEFINE n == [m EXCEPT !.requests[id] = 0]
    <2>1. mtp' = SendPrepared(n, {id})
        BY <1>4, <1>6
    <2>2. /\ Good(n, lastId)
          /\ n.parser = m.parser /\ n.byDc = m.byDc /\ Known(n) = Known(m)
          /\ n.waiters = m.waiters /\ n.exports = m.exports
          /\ n.flying = m.flying
          /\ Free(n) = Free(m)
        BY <1>3, IndependentGood
    <2> HIDE DEF n
    <2>3. /\ n.parser = mtp.parser /\ Known(n) = Known(mtp)
          /\ n.byDc = mtp.byDc
          /\ n.waiters = mtp.waiters /\ n.exports = mtp.exports
          /\ DOMAIN n.flying \subseteq Known(n)
        BY <1>2, <1>3, <2>2 DEF SameMaps, Known, Inv
    <2>4. {id} \subseteq Free(n) /\ Free(n) \ {id} \subseteq Free(mtp)
        BY <1>3, <2>2
    <2> QED
        BY <1>1, <2>1, <2>2, <2>3, <2>4, SentAgain
<1> QED
    BY <1>5, <1>6

\* A request is sent again at once (CONNECTION_NOT_INITED).
LEMMA SendAgainStep ==
    ASSUME IInv, NEW id, SendAgain(id)
    PROVE  IInv'
<1> DEFINE m == Landed(id)
           answer == "not_inited"
<1>1. /\ Answered(id, answer) /\ UNCHANGED <<lastId, refused>>
      /\ mtp' = SendPrepared(m, {id})
    BY DEF SendAgain
<1> HIDE DEF answer
<1>2. id \in DOMAIN mtp.flying /\ id \in Known(mtp)
    BY <1>1, LandedUser
<1>3. /\ Good(m, lastId) /\ SameMaps(mtp, m)
      /\ DOMAIN m.flying = DOMAIN mtp.flying \ {id}
      /\ Free(m) = Free(mtp) \cup {id}
    BY <1>2, LandedGood DEF IInv, Inv
<1> HIDE DEF m
<1>4. /\ m.parser = mtp.parser /\ Known(m) = Known(mtp)
      /\ m.byDc = mtp.byDc
      /\ m.waiters = mtp.waiters /\ m.exports = mtp.exports
      /\ DOMAIN m.flying \subseteq Known(m)
    BY <1>3 DEF SameMaps, Known, IInv, Inv
<1>5. {id} \subseteq Free(m) /\ Free(m) \ {id} \subseteq Free(mtp)
    BY <1>3
<1> QED
    BY <1>1, <1>3, <1>4, <1>5, SentAgain

\* A request is delayed, and those are sent whose time has come.
LEMMA CheckDelayedStep ==
    ASSUME IInv, NEW m, Good(m, lastId),
           NEW due, NEW delayed, delayed \subseteq m.delayed \cup Free(m),
           m.delayed \subseteq delayed \cup due,
           Free(m) \ delayed \subseteq Free(mtp),
           due \subseteq m.delayed, due \cap delayed = {},
           DOMAIN m.flying \subseteq Known(m),
           m.waiters = mtp.waiters, m.exports = mtp.exports,
           m.parser = mtp.parser, m.byDc = mtp.byDc, Known(m) = Known(mtp),
           NEW n, n = [m EXCEPT !.delayed = delayed],
           NEW sent, sent = due \cap Known(m),
           mtp' = SendPrepared(n, sent), UNCHANGED <<lastId, refused>>
    PROVE  IInv'
<1>1. /\ Good(n, lastId)
      /\ n.parser = m.parser /\ n.byDc = m.byDc /\ Known(n) = Known(m)
      /\ n.waiters = m.waiters /\ n.exports = m.exports
      /\ n.flying = m.flying
      /\ Free(n) = (Free(m) \cup (m.delayed \cap Known(m))) \ delayed
    BY DelayedGood
<1>2. sent \subseteq Free(n) /\ Free(n) \ sent \subseteq Free(mtp)
    BY <1>1
<1>3. /\ n.parser = mtp.parser /\ Known(n) = Known(mtp)
      /\ n.byDc = mtp.byDc
      /\ n.waiters = mtp.waiters /\ n.exports = mtp.exports
      /\ DOMAIN n.flying \subseteq Known(n)
    BY <1>1
<1> QED
    BY <1>1, <1>2, <1>3, SentAgain

\* A request is delayed after an error the server will get over.
LEMMA DelayStep ==
    ASSUME IInv, NEW id, Delay(id)
    PROVE  IInv'
<1> DEFINE m == Landed(id)
           answer == "temporary"
<1>1. Answered(id, answer) /\ UNCHANGED <<lastId, refused>>
    BY DEF Delay
<1> HIDE DEF answer
<1>2. /\ id \in DOMAIN mtp.flying /\ id \in Known(mtp)
      /\ id \notin mtp.delayed
    BY <1>1, LandedUser
<1>3. /\ Good(m, lastId) /\ SameMaps(mtp, m)
      /\ DOMAIN m.flying = DOMAIN mtp.flying \ {id}
      /\ Free(m) = Free(mtp) \cup {id}
    BY <1>2, LandedGood DEF IInv, Inv
<1>4. PICK due \in SUBSET mtp.delayed :
        mtp' = CheckDelayedRequests([m EXCEPT !.delayed = @ \cup {id}], due)
    BY DEF Delay
<1> HIDE DEF m
<1> DEFINE n == [m EXCEPT !.delayed = m.delayed \cup {id}]
           delayed == (m.delayed \cup {id}) \ due
<1>5. n.delayed = m.delayed \cup {id} /\ Known(n) = Known(m)
    BY <1>3 DEF Good, MapsTyped, Maps, Known
<1>6. [n EXCEPT !.delayed = n.delayed \ due] = [m EXCEPT !.delayed = delayed]
    <2>1. n.delayed \ due = delayed
        BY <1>5
    <2> HIDE DEF delayed
    <2>2. [n EXCEPT !.delayed = delayed] = [m EXCEPT !.delayed = delayed]
        OBVIOUS
    <2> QED
        BY <2>1, <2>2
<1>7. mtp' = SendPrepared([m EXCEPT !.delayed = delayed], due \cap Known(m))
    BY <1>4, <1>5, <1>6 DEF CheckDelayedRequests
<1> HIDE DEF n
<1>8. /\ m.parser = mtp.parser /\ Known(m) = Known(mtp)
      /\ m.byDc = mtp.byDc /\ m.delayed = mtp.delayed
      /\ m.waiters = mtp.waiters /\ m.exports = mtp.exports
      /\ DOMAIN m.flying \subseteq Known(m)
    BY <1>3 DEF SameMaps, Known, IInv, Inv
<1>9. /\ delayed \subseteq m.delayed \cup Free(m)
      /\ m.delayed \subseteq delayed \cup due
      /\ Free(m) \ delayed \subseteq Free(mtp)
      /\ due \subseteq m.delayed /\ due \cap delayed = {}
    BY <1>2, <1>3, <1>8
<1> HIDE DEF delayed
<1> QED
    BY <1>1, <1>3, <1>7, <1>8, <1>9, CheckDelayedStep

\* The timer of the delayed requests fires.
LEMMA DelayTimerStep ==
    ASSUME IInv, DelayTimer
    PROVE  IInv'
<1>1. PICK due \in SUBSET mtp.delayed : mtp' = CheckDelayedRequests(mtp, due)
    BY DEF DelayTimer
<1> DEFINE delayed == mtp.delayed \ due
<1>2. mtp' = SendPrepared([mtp EXCEPT !.delayed = delayed], due \cap Known(mtp))
    BY <1>1 DEF CheckDelayedRequests
<1>3. /\ delayed \subseteq mtp.delayed \cup Free(mtp)
      /\ mtp.delayed \subseteq delayed \cup due
      /\ Free(mtp) \ delayed \subseteq Free(mtp)
      /\ due \subseteq mtp.delayed /\ due \cap delayed = {}
    OBVIOUS
<1>4. /\ Good(mtp, lastId) /\ DOMAIN mtp.flying \subseteq Known(mtp)
      /\ UNCHANGED <<lastId, refused>>
    BY DEF IInv, Inv, DelayTimer
<1> HIDE DEF delayed
<1> QED
    BY <1>2, <1>3, <1>4, CheckDelayedStep

\* What the server may answer depends on whose request it is.
LEMMA AnswersAreKnown ==
    ASSUME NEW id, NEW a \in Answers(id)
    PROVE  /\ a \in AllAnswers
           /\ a \in UserAnswers => mtp.parser[id] = "user"
BY DEF Answers, AllAnswers, UserAnswers, Troubles

\* The server decides on an answer.
LEMMA ServeStep ==
    ASSUME IInv, NEW id, Serve(id)
    PROVE  IInv'
<1>1. PICK a \in Answers(id) : mtp' = [mtp EXCEPT !.flying[id].answer = a]
    BY DEF Serve
<1> DEFINE flying == [mtp.flying EXCEPT ![id].answer = a]
<1>2. /\ Inv(mtp, lastId, refused) /\ Good(mtp, lastId)
      /\ id \in DOMAIN mtp.flying /\ id \in Known(mtp)
      /\ UNCHANGED <<lastId, refused>>
    BY DEF IInv, Inv, Serve
<1>3. mtp.flying \in [DOMAIN mtp.flying -> Flight] /\ mtp.flying[id] \in Flight
    BY <1>2 DEF Good, MapsTyped
<1>4. a \in AllAnswers /\ (a \in UserAnswers => mtp.parser[id] = "user")
    BY AnswersAreKnown
<1>5. /\ [mtp.flying[id] EXCEPT !.answer = a] \in Flight
      /\ [mtp.flying[id] EXCEPT !.answer = a].dc = mtp.flying[id].dc
      /\ [mtp.flying[id] EXCEPT !.answer = a].answer = a
    BY <1>3, <1>4 DEF Flight
<1>6. /\ flying \in [DOMAIN flying -> Flight]
      /\ DOMAIN flying = DOMAIN mtp.flying
      /\ flying[id].dc = mtp.flying[id].dc /\ flying[id].answer = a
      /\ \A e \in DOMAIN mtp.flying \ {id} : flying[e] = mtp.flying[e]
    BY <1>2, <1>3, <1>5
<1>7. mtp' = [mtp EXCEPT !.flying = flying]
    BY <1>1
<1> HIDE DEF flying
<1>8. \A e \in DOMAIN flying \cap Known(mtp) :
        /\ flying[e].dc = mtp.byDc[e].dc
        /\ flying[e].answer \in UserAnswers => mtp.parser[e] = "user"
    BY <1>2, <1>4, <1>6 DEF Good, Alone
<1>9. /\ Good(mtp', lastId)
      /\ mtp'.parser = mtp.parser /\ mtp'.byDc = mtp.byDc
      /\ Known(mtp') = Known(mtp)
      /\ mtp'.waiters = mtp.waiters /\ mtp'.exports = mtp.exports
      /\ mtp'.flying = flying
      /\ Free(mtp') = Free(mtp)
           \cup (Known(mtp) \cap (DOMAIN mtp.flying \ DOMAIN flying))
    BY <1>2, <1>6, <1>7, <1>8, FlyingGood
<1>10. Free(mtp') \subseteq Free(mtp) /\ DOMAIN mtp'.flying \subseteq Known(mtp')
    BY <1>2, <1>6, <1>9 DEF Inv
<1>11. Inv(mtp', lastId, refused)
    BY <1>2, <1>9, <1>10, QuietKeeps
<1> QED
    BY <1>2, <1>11 DEF IInv

\* A cancelled request leaves all the maps, and nothing waits for it.
LEMMA CancelStep ==
    ASSUME IInv, NEW id, Cancel(id)
    PROVE  IInv'
<1> DEFINE gone == UnregisterRequest(mtp, id)
           found == /\ id \in DOMAIN gone.flying
                    /\ gone.flying[id].dc = mtp.byDc[id].dc
           flying == IF found THEN Without(gone.flying, {id}) ELSE gone.flying
<1>1. /\ Inv(mtp, lastId, refused) /\ Good(mtp, lastId)
      /\ id \in Known(mtp) /\ mtp.parser[id] = "user"
      /\ UNCHANGED <<lastId, refused>>
    BY DEF IInv, Inv, Cancel
<1>2. mtp' = [gone EXCEPT !.flying = flying]
    BY DEF Cancel, Cancelled
<1>3. /\ Good(gone, lastId)
      /\ Known(gone) = Known(mtp) \ {id}
      /\ \A e \in Known(gone) : /\ gone.parser[e] = mtp.parser[e]
                                /\ gone.byDc[e] = mtp.byDc[e]
      /\ DOMAIN gone.flying \subseteq DOMAIN mtp.flying \cup Known(gone)
      /\ \A e \in DOMAIN mtp.flying : /\ e \in DOMAIN gone.flying
                                      /\ gone.flying[e] = mtp.flying[e]
      /\ gone.waiters = mtp.waiters /\ gone.exports = mtp.exports
      /\ Free(gone) = Free(mtp) \ {id}
    BY <1>1, UnregisterGood
<1> HIDE DEF gone
<1>4. id \in DOMAIN gone.flying => found
    BY <1>1, <1>3 DEF Good, Alone
<1>5. gone.flying \in [DOMAIN gone.flying -> Flight]
    BY <1>3 DEF Good, MapsTyped
<1>6. /\ flying \in [DOMAIN flying -> Flight]
      /\ DOMAIN flying = DOMAIN gone.flying \ {id}
      /\ \A e \in DOMAIN flying : flying[e] = gone.flying[e]
    <2>1. CASE found
        BY <1>5, <2>1 DEF Without, Restrict
    <2>2. CASE ~found
        BY <1>4, <1>5, <2>2
    <2> QED
        BY <2>1, <2>2
<1> HIDE DEF flying, found
<1>7. \A e \in DOMAIN flying \cap Known(gone) :
        /\ flying[e].dc = gone.byDc[e].dc
        /\ flying[e].answer \in UserAnswers => gone.parser[e] = "user"
    BY <1>3, <1>6 DEF Good, Alone
<1>8. /\ Good(mtp', lastId)
      /\ mtp'.parser = gone.parser /\ mtp'.byDc = gone.byDc
      /\ Known(mtp') = Known(gone)
      /\ mtp'.waiters = gone.waiters /\ mtp'.exports = gone.exports
      /\ mtp'.flying = flying
      /\ Free(mtp') = Free(gone)
           \cup (Known(gone) \cap (DOMAIN gone.flying \ DOMAIN flying))
    BY <1>2, <1>3, <1>6, <1>7, FlyingGood
<1>9. /\ Free(mtp') \subseteq Free(mtp)
      /\ DOMAIN mtp'.flying \subseteq Known(mtp')
    BY <1>1, <1>3, <1>6, <1>8 DEF Inv
<1>10. Inv(mtp', lastId, refused)
    BY <1>1, <1>3, <1>8, <1>9, QuietKeeps
<1> QED
    BY <1>1, <1>10 DEF IInv

\* A new request of the program.
LEMMA SendStep ==
    ASSUME IInv, Send
    PROVE  IInv'
<1>1. PICK dc \in Dcs, after \in 0..lastId :
        mtp' = SendRequest(mtp, lastId + 1, "user", dc = MainDc, dc, after)
    BY DEF Send
<1> DEFINE id == lastId + 1
           handler == "user"
           toMain == dc = MainDc
<1>2. /\ handler \in Handlers /\ toMain \in BOOLEAN /\ after \in Nat
      /\ handler # "export" /\ handler # "import"
      /\ mtp' = SendRequest(mtp, id, handler, toMain, dc, after)
    BY <1>1 DEF Handlers
<1>3. /\ Inv(mtp, lastId, refused) /\ Good(mtp, lastId)
      /\ DOMAIN mtp.flying \subseteq Known(mtp)
      /\ lastId' = id /\ refused' = refused /\ id = lastId + 1
      /\ lastId \in Nat
    BY DEF IInv, Inv, Send, Good, MapsTyped
<1> HIDE DEF id, handler, toMain
<1>4. /\ Good(mtp', id) /\ id \notin Known(mtp)
      /\ Known(mtp') = Known(mtp) \cup {id}
      /\ DOMAIN mtp'.flying \subseteq Known(mtp')
      /\ mtp'.parser[id] = handler /\ mtp'.byDc[id].dc = dc
      /\ \A e \in Known(mtp) : /\ mtp'.parser[e] = mtp.parser[e]
                               /\ mtp'.byDc[e] = mtp.byDc[e]
      /\ mtp'.waiters = mtp.waiters /\ mtp'.exports = mtp.exports
      /\ Free(mtp') = Free(mtp)
    BY <1>2, <1>3, SendRequestGood
<1>5. \A e \in Free(mtp') : mtp'.byDc[e].dc \in refused
    BY <1>3, <1>4 DEF Inv, Free
<1>6. DOMAIN mtp'.exports \subseteq 1..id /\ id \notin DOMAIN mtp'.exports
    BY <1>3, <1>4 DEF Inv
<1>7. \A d \in Dcs : TransfersOf(mtp', d) = TransfersOf(mtp, d)
    BY <1>2, <1>4 DEF TransfersOf
<1>8. Transfers(mtp', refused)
    BY <1>2, <1>3, <1>4, <1>6, <1>7 DEF Inv, Transfers
<1>9. Inv(mtp', id, refused)
    BY <1>4, <1>5, <1>6, <1>8 DEF Inv
<1> QED
    BY <1>3, <1>9 DEF IInv

\* A request is refused by a dc that does not know the account: it ends, or it
\* waits, and the first one asks for the authorization.
LEMMA UnauthorizedStep ==
    ASSUME IInv, NEW id, Unauthorized(id)
    PROVE  IInv'
<1>1. PICK answer \in {"unauthorized", "bad_file"} : Answered(id, answer)
    BY DEF Unauthorized
<1>2. answer \in UserAnswers
    BY DEF UserAnswers
<1>3. /\ id \in DOMAIN mtp.flying /\ id \in Known(mtp)
      /\ id \notin Free(mtp) /\ mtp.parser[id] = "user"
      /\ Inv(mtp, lastId, refused) /\ refused' = refused
    BY <1>1, <1>2, LandedUser DEF IInv, Unauthorized
<1> DEFINE m == Landed(id)
           dc == m.byDc[id].dc
           bad == mtp.flying[id].answer = "bad_file"
           guests == IF bad THEN m.badGuest \cup {id} ELSE m.badGuest
           guests2 == IF dc = MainDc THEN m.badGuest ELSE m.badGuest \ {id}
           waiters == [m.waiters EXCEPT ![dc] = @ \cup {id}]
           there == [m EXCEPT !.waiters = waiters]
           waiting == [there EXCEPT !.badGuest = guests]
           export == lastId + 1
           exports == With(waiting.exports, export, dc)
           asking == [waiting EXCEPT !.exports = exports]
           ended == [m EXCEPT !.badGuest = guests2]
<1>4. \/ /\ mtp' = UnregisterRequest(ended, id)
         /\ lastId' = lastId
      \/ /\ m.waiters[dc] = {}
         /\ mtp' = SendRequest(asking, export, "export", TRUE, MainDc, 0)
         /\ lastId' = export
      \/ /\ m.waiters[dc] # {}
         /\ mtp' = waiting
         /\ lastId' = lastId
    BY DEF Unauthorized
<1>5. /\ Good(m, lastId) /\ SameMaps(mtp, m)
      /\ DOMAIN m.flying = DOMAIN mtp.flying \ {id}
      /\ Free(m) = Free(mtp) \cup {id}
    BY <1>3, LandedGood DEF Inv
<1> HIDE DEF m, guests, guests2
<1>6. /\ Known(m) = Known(mtp) /\ m.parser = mtp.parser /\ m.byDc = mtp.byDc
      /\ m.waiters = mtp.waiters /\ m.exports = mtp.exports
      /\ DOMAIN m.flying \subseteq Known(m)
      /\ dc = mtp.byDc[id].dc /\ dc \in Dcs
    BY <1>3, <1>5 DEF SameMaps, Known, Inv, Good, MapsTyped, RegisteredRequest
<1>7. CASE mtp' = UnregisterRequest(ended, id) /\ lastId' = lastId
    <2>1. /\ Good(ended, lastId)
          /\ ended.parser = m.parser /\ ended.byDc = m.byDc
          /\ Known(ended) = Known(m)
          /\ ended.waiters = m.waiters /\ ended.exports = m.exports
          /\ ended.flying = m.flying
          /\ Free(ended) = Free(m)
        BY <1>5, BadGuestGood
    <2> HIDE DEF ended
    <2>2. /\ Good(mtp', lastId)
          /\ Known(mtp') = Known(ended) \ {id}
          /\ \A e \in Known(mtp') : /\ mtp'.parser[e] = ended.parser[e]
                                    /\ mtp'.byDc[e] = ended.byDc[e]
          /\ DOMAIN mtp'.flying \subseteq DOMAIN ended.flying \cup Known(mtp')
          /\ mtp'.waiters = ended.waiters /\ mtp'.exports = ended.exports
          /\ Free(mtp') = Free(ended) \ {id}
        BY <1>3, <1>6, <1>7, <2>1, UnregisterGood
    <2>3. /\ Known(mtp') = Known(mtp) \ {id} /\ Free(mtp') \subseteq Free(mtp)
          /\ mtp'.waiters = mtp.waiters /\ mtp'.exports = mtp.exports
          /\ \A e \in Known(mtp') : /\ mtp'.parser[e] = mtp.parser[e]
                                    /\ mtp'.byDc[e] = mtp.byDc[e]
        BY <1>5, <1>6, <2>1, <2>2
    <2>4. DOMAIN mtp'.flying \subseteq Known(mtp')
        BY <1>5, <1>6, <2>1, <2>2, <2>3
    <2>5. Inv(mtp', lastId, refused)
        BY <1>3, <2>2, <2>3, <2>4, QuietKeeps
    <2> QED
        BY <1>3, <1>7, <2>5 DEF IInv
<1>8. /\ Good(waiting, lastId)
      /\ waiting.parser = m.parser /\ waiting.byDc = m.byDc
      /\ Known(waiting) = Known(m)
      /\ waiting.waiters = waiters
      /\ waiting.exports = m.exports /\ waiting.flying = m.flying
      /\ Free(waiting) = Free(m) \ {id}
    <2>1. id \in Free(m) /\ dc = m.byDc[id].dc
        BY <1>5
    <2> HIDE DEF dc
    <2>2. waiters = [m.waiters EXCEPT ![dc] = @ \cup {id}]
        OBVIOUS
    <2> HIDE DEF waiters
    <2>3. /\ Good(there, lastId)
          /\ there.parser = m.parser /\ there.byDc = m.byDc
          /\ Known(there) = Known(m)
          /\ there.waiters = waiters
          /\ there.exports = m.exports /\ there.flying = m.flying
          /\ Free(there) = Free(m) \ {id}
        BY <1>5, <2>1, <2>2, WaiterGood
    <2> HIDE DEF there
    <2> QED
        BY <2>3, BadGuestGood
<1> HIDE DEF waiting, there, waiters, dc
<1>9. /\ DOMAIN waiting.waiters = Dcs /\ waiting.waiters[dc] # {}
      /\ \A d \in Dcs \ {dc} : waiting.waiters[d] = mtp.waiters[d]
      /\ DOMAIN waiting.flying \subseteq Known(waiting)
      /\ Free(waiting) = Free(mtp)
    <2>1. DOMAIN m.waiters = Dcs /\ dc \in Dcs
        BY <1>5, <1>6 DEF Good, MapsTyped
    <2>2. /\ DOMAIN waiting.waiters = Dcs /\ id \in waiting.waiters[dc]
          /\ \A d \in Dcs \ {dc} : waiting.waiters[d] = m.waiters[d]
        BY <1>8, <2>1 DEF waiters
    <2>3. id \notin Free(mtp) /\ Known(waiting) = Known(m)
        BY <1>3, <1>8
    <2> QED
        BY <1>5, <1>6, <1>8, <2>2, <2>3
<1>10. CASE m.waiters[dc] # {} /\ mtp' = waiting /\ lastId' = lastId
    <2>1. \A d \in Dcs : waiting.waiters[d] = {} <=> mtp.waiters[d] = {}
        BY <1>6, <1>9, <1>10
    <2>2. /\ waiting.exports = mtp.exports /\ waiting.parser = mtp.parser
          /\ waiting.byDc = mtp.byDc /\ Known(waiting) = Known(mtp)
          /\ Free(waiting) \subseteq Free(mtp)
          /\ DOMAIN waiting.flying \subseteq Known(waiting)
        BY <1>6, <1>8, <1>9
    <2>3. Inv(waiting, lastId, refused)
        BY <1>3, <1>8, <2>1, <2>2, QuietKeeps
    <2> QED
        BY <1>3, <1>10, <2>3 DEF IInv
<1>11. CASE /\ m.waiters[dc] = {}
            /\ mtp' = SendRequest(asking, export, "export", TRUE, MainDc, 0)
            /\ lastId' = export
    <2>1. exports = With(mtp.exports, export, dc)
        BY <1>6, <1>8
    <2>2. /\ DOMAIN mtp.exports \subseteq 1..lastId /\ lastId \in Nat
          /\ mtp.exports \in [DOMAIN mtp.exports -> Dcs]
          /\ export \notin DOMAIN mtp.exports /\ export \notin Known(mtp)
        BY <1>3 DEF Inv, Good, MapsTyped
    <2>3. /\ exports \in [DOMAIN exports -> Dcs]
          /\ DOMAIN exports = DOMAIN mtp.exports \cup {export}
          /\ exports[export] = dc
          /\ \A e \in DOMAIN mtp.exports : exports[e] = mtp.exports[e]
        BY <1>6, <2>1, <2>2 DEF With
    <2> HIDE DEF exports
    <2>4. /\ Good(asking, lastId)
          /\ asking.parser = waiting.parser /\ asking.byDc = waiting.byDc
          /\ Known(asking) = Known(waiting)
          /\ asking.waiters = waiting.waiters /\ asking.exports = exports
          /\ asking.flying = waiting.flying
          /\ Free(asking) = Free(waiting)
        BY <1>8, <2>3, ExportsGood
    <2> HIDE DEF asking
    <2> DEFINE handler == "export"
               toMain == TRUE
               after == 0
    <2>5. /\ handler \in Handlers /\ toMain \in BOOLEAN /\ after \in Nat
          /\ handler = "export" /\ handler # "import" /\ MainDc \in Dcs
          /\ mtp' = SendRequest(asking, export, handler, toMain, MainDc, after)
        BY <1>11, RequestsAssumption DEF Handlers
    <2>6. export = lastId + 1 /\ DOMAIN asking.flying \subseteq Known(asking)
        BY <1>9, <2>4
    <2> HIDE DEF handler, toMain, after, export
    <2>7. /\ Good(mtp', export)
          /\ Known(mtp') = Known(asking) \cup {export}
          /\ DOMAIN mtp'.flying \subseteq Known(mtp')
          /\ mtp'.parser[export] = handler
          /\ \A e \in Known(asking) : /\ mtp'.parser[e] = asking.parser[e]
                                      /\ mtp'.byDc[e] = asking.byDc[e]
          /\ mtp'.waiters = asking.waiters /\ mtp'.exports = asking.exports
          /\ Free(mtp') = Free(asking)
        BY <2>4, <2>5, <2>6, SendRequestGood
    <2>8. /\ Known(mtp') = Known(mtp) \cup {export}
          /\ \A e \in Known(mtp) : /\ mtp'.parser[e] = mtp.parser[e]
                                   /\ mtp'.byDc[e] = mtp.byDc[e]
          /\ mtp'.waiters = waiting.waiters /\ mtp'.exports = exports
          /\ Free(mtp') = Free(mtp)
        BY <1>6, <1>8, <1>9, <2>4, <2>7
    <2>9. \A e \in Free(mtp') : mtp'.byDc[e].dc \in refused
        BY <1>3, <2>8 DEF Inv, Free
    <2>10. DOMAIN mtp'.exports \subseteq 1..export
        BY <2>2, <2>3, <2>6, <2>8
    <2>11. TransfersOf(mtp, dc) = {}
        BY <1>3, <1>6, <1>11 DEF Inv, Transfers
    <2>12. \A e \in Known(mtp) : mtp.parser[e] = "export" <=> e \in DOMAIN mtp.exports
        BY <1>3 DEF Inv, Transfers
    <2>13. TransfersOf(mtp', dc) = {export}
        <3>1. export \in TransfersOf(mtp', dc)
            BY <2>3, <2>5, <2>7, <2>8 DEF TransfersOf
        <3>2. ASSUME NEW e \in TransfersOf(mtp', dc), e # export
              PROVE  FALSE
            <4>1. e \in Known(mtp)
                BY <2>8, <3>2 DEF TransfersOf
            <4>2. e \in TransfersOf(mtp, dc)
                BY <2>3, <2>8, <2>12, <3>2, <4>1 DEF TransfersOf
            <4> QED
                BY <2>11, <4>2
        <3> QED
            BY <3>1, <3>2
    <2>14. \A d \in Dcs \ {dc} : TransfersOf(mtp', d) = TransfersOf(mtp, d)
        BY <2>2, <2>3, <2>5, <2>7, <2>8, <2>12 DEF TransfersOf
    <2>15. \A e \in Known(mtp') :
                mtp'.parser[e] = "export" <=> e \in DOMAIN mtp'.exports
        BY <2>2, <2>3, <2>5, <2>7, <2>8, <2>12
    <2>16. Transfers(mtp', refused)
        BY <1>3, <1>9, <2>8, <2>13, <2>14, <2>15 DEF Inv, Transfers
    <2>17. Inv(mtp', export, refused)
        BY <2>7, <2>9, <2>10, <2>16 DEF Inv
    <2> QED
        BY <1>3, <1>11, <2>17 DEF IInv
<1> QED
    BY <1>4, <1>7, <1>10, <1>11

-----------------------------------------------------------------------------
(* The end of a transfer *)

\* The one transfer for a dc ends: nothing waits for the dc, or it has refused.
LEMMA TransferEnds ==
    ASSUME NEW m, NEW l, NEW R, Inv(m, l, R),
           NEW d \in Dcs, NEW id \in TransfersOf(m, d),
           NEW n, Known(n) = Known(m) \ {id}, n.exports = m.exports,
           \A e \in Known(n) : /\ n.parser[e] = m.parser[e]
                               /\ n.byDc[e] = m.byDc[e],
           \A dc \in Dcs \ {d} : n.waiters[dc] = m.waiters[dc],
           NEW S, R \subseteq S, n.waiters[d] = {} \/ d \in S
    PROVE  Transfers(n, S)
<1>1. \A e \in TransfersOf(m, d) : e = id
    BY DEF Inv, Transfers
<1>2. \A dc \in Dcs \ {d} : id \notin TransfersOf(m, dc)
    BY DEF TransfersOf
<1>3. TransfersOf(n, d) = {}
    BY <1>1 DEF TransfersOf
<1>4. ASSUME NEW dc \in Dcs \ {d}
      PROVE  TransfersOf(n, dc) = TransfersOf(m, dc)
    BY <1>2 DEF TransfersOf
<1>5. \A e \in Known(n) : n.parser[e] = "export" <=> e \in DOMAIN n.exports
    BY DEF Inv, Transfers
<1>6. ASSUME NEW dc \in Dcs
      PROVE  /\ \A e, f \in TransfersOf(n, dc) : e = f
             /\ TransfersOf(n, dc) # {} => n.waiters[dc] # {}
             /\ n.waiters[dc] # {} => TransfersOf(n, dc) # {} \/ dc \in S
    <2>1. CASE dc = d
        BY <1>3, <2>1
    <2>2. CASE dc # d
        BY <1>4, <2>2 DEF Inv, Transfers
    <2> QED
        BY <2>1, <2>2
<1> QED
    BY <1>5, <1>6 DEF Transfers

\* An export fails: what waits for it is forgotten, and the dc is refused.
LEMMA ExportFailStep ==
    ASSUME IInv, NEW id, ExportFail(id)
    PROVE  IInv'
<1> DEFINE answer == "fail"
           m == Landed(id)
           d == mtp.exports[id]
           waiters == [m.waiters EXCEPT ![d] = {}]
           cleared == [m EXCEPT !.waiters = waiters]
<1>1. /\ Answered(id, answer) /\ mtp.parser[id] = "export"
      /\ mtp' = UnregisterRequest(cleared, id)
      /\ refused' = refused \cup {d} /\ lastId' = lastId
    BY DEF ExportFail
<1> HIDE DEF answer
<1>2. /\ id \in DOMAIN mtp.flying /\ id \in Known(mtp)
      /\ Inv(mtp, lastId, refused) /\ Good(mtp, lastId)
    BY <1>1, LandedUser DEF IInv, Inv
<1>3. id \in DOMAIN mtp.exports /\ d \in Dcs /\ id \in TransfersOf(mtp, d)
    BY <1>1, <1>2 DEF Inv, Transfers, TransfersOf, Good, MapsTyped
<1>4. /\ Good(m, lastId) /\ SameMaps(mtp, m)
      /\ DOMAIN m.flying = DOMAIN mtp.flying \ {id}
      /\ Free(m) = Free(mtp) \cup {id}
    BY <1>2, LandedGood
<1>5. waiters = [m.waiters EXCEPT ![d] = {}]
    OBVIOUS
<1> HIDE DEF m, d, waiters
<1>6. /\ Good(cleared, lastId)
      /\ cleared.parser = m.parser /\ cleared.byDc = m.byDc
      /\ Known(cleared) = Known(m)
      /\ cleared.waiters = waiters
      /\ cleared.exports = m.exports /\ cleared.flying = m.flying
      /\ Free(cleared) = Free(m) \cup (m.waiters[d] \cap Known(m))
    BY <1>3, <1>4, <1>5, ClearedGood
<1> HIDE DEF cleared
<1>7. Known(m) = Known(mtp)
    BY <1>4 DEF SameMaps, Known
<1>8. /\ Good(mtp', lastId)
      /\ Known(mtp') = Known(cleared) \ {id}
      /\ \A e \in Known(mtp') : /\ mtp'.parser[e] = cleared.parser[e]
                                /\ mtp'.byDc[e] = cleared.byDc[e]
      /\ DOMAIN mtp'.flying \subseteq DOMAIN cleared.flying \cup Known(mtp')
      /\ mtp'.waiters = cleared.waiters /\ mtp'.exports = cleared.exports
      /\ Free(mtp') = Free(cleared) \ {id}
    BY <1>1, <1>2, <1>6, <1>7, UnregisterGood
<1>9. /\ Known(mtp') = Known(mtp) \ {id} /\ mtp'.exports = mtp.exports
      /\ \A e \in Known(mtp') : /\ mtp'.parser[e] = mtp.parser[e]
                                /\ mtp'.byDc[e] = mtp.byDc[e]
    BY <1>4, <1>6, <1>7, <1>8 DEF SameMaps
<1>10. /\ mtp'.waiters[d] = {}
       /\ \A dc \in Dcs \ {d} : mtp'.waiters[dc] = mtp.waiters[dc]
    BY <1>3, <1>4, <1>5, <1>6, <1>8 DEF SameMaps, Good, MapsTyped
<1>11. Transfers(mtp', refused')
    <2>1. refused \subseteq refused'
        BY <1>1
    <2> QED
        BY <1>2, <1>3, <1>9, <1>10, <2>1, TransferEnds
<1>12. DOMAIN mtp'.flying \subseteq Known(mtp')
    BY <1>2, <1>4, <1>6, <1>8, <1>9 DEF Inv
<1>13. ASSUME NEW e \in Free(mtp')
       PROVE  mtp'.byDc[e].dc \in refused'
    <2>1. e \in Known(mtp) /\ e \in Known(mtp') /\ mtp'.byDc[e] = mtp.byDc[e]
        BY <1>9 DEF Free
    <2>2. CASE e \in Free(mtp)
        BY <1>1, <1>2, <2>1, <2>2 DEF Inv
    <2>3. CASE e \notin Free(mtp)
        <3>1. e \in mtp.waiters[d]
            BY <1>4, <1>6, <1>8, <2>3 DEF SameMaps
        <3>2. mtp.byDc[e].dc = d
            BY <1>2, <1>3, <2>1, <3>1 DEF Good, Alone
        <3> QED
            BY <1>1, <2>1, <3>2
    <2> QED
        BY <2>2, <2>3
<1>14. DOMAIN mtp'.exports \subseteq 1..lastId
    BY <1>2, <1>9 DEF Inv
<1>15. Inv(mtp', lastId, refused')
    BY <1>8, <1>11, <1>12, <1>13, <1>14 DEF Inv
<1> QED
    BY <1>1, <1>15 DEF IInv

\* An import fails: what waits for it stays where it is, in a dc that is
\* refused.
LEMMA ImportFailStep ==
    ASSUME IInv, NEW id, ImportFail(id)
    PROVE  IInv'
<1> DEFINE answer == "fail"
           m == Landed(id)
           d == mtp.byDc[id].dc
<1>1. /\ Answered(id, answer) /\ mtp.parser[id] = "import"
      /\ mtp' = UnregisterRequest(m, id)
      /\ refused' = refused \cup {d} /\ lastId' = lastId
    BY DEF ImportFail, End
<1> HIDE DEF answer
<1>2. /\ id \in DOMAIN mtp.flying /\ id \in Known(mtp)
      /\ Inv(mtp, lastId, refused) /\ Good(mtp, lastId)
    BY <1>1, LandedUser DEF IInv, Inv
<1>3. d \in Dcs /\ id \in TransfersOf(mtp, d)
    BY <1>1, <1>2 DEF TransfersOf, Good, MapsTyped, RegisteredRequest
<1>4. /\ Good(m, lastId) /\ SameMaps(mtp, m)
      /\ DOMAIN m.flying = DOMAIN mtp.flying \ {id}
      /\ Free(m) = Free(mtp) \cup {id}
    BY <1>2, LandedGood
<1> HIDE DEF m, d
<1>5. Known(m) = Known(mtp)
    BY <1>4 DEF SameMaps, Known
<1>6. /\ Good(mtp', lastId)
      /\ Known(mtp') = Known(m) \ {id}
      /\ \A e \in Known(mtp') : /\ mtp'.parser[e] = m.parser[e]
                                /\ mtp'.byDc[e] = m.byDc[e]
      /\ DOMAIN mtp'.flying \subseteq DOMAIN m.flying \cup Known(mtp')
      /\ mtp'.waiters = m.waiters /\ mtp'.exports = m.exports
      /\ Free(mtp') = Free(m) \ {id}
    BY <1>1, <1>2, <1>4, <1>5, UnregisterGood
<1>7. /\ Known(mtp') = Known(mtp) \ {id} /\ mtp'.exports = mtp.exports
      /\ mtp'.waiters = mtp.waiters
      /\ \A e \in Known(mtp') : /\ mtp'.parser[e] = mtp.parser[e]
                                /\ mtp'.byDc[e] = mtp.byDc[e]
    BY <1>4, <1>5, <1>6 DEF SameMaps
<1>8. Transfers(mtp', refused')
    <2>1. refused \subseteq refused' /\ d \in refused'
        BY <1>1
    <2> QED
        BY <1>2, <1>3, <1>7, <2>1, TransferEnds
<1>9. DOMAIN mtp'.flying \subseteq Known(mtp')
    BY <1>2, <1>4, <1>5, <1>6 DEF Inv
<1>10. \A e \in Free(mtp') : mtp'.byDc[e].dc \in refused'
    <2>1. \A e \in Free(mtp') : e \in Free(mtp) /\ e \in Known(mtp')
        BY <1>4, <1>6 DEF Free
    <2> QED
        BY <1>1, <1>2, <1>7, <2>1 DEF Inv
<1>11. DOMAIN mtp'.exports \subseteq 1..lastId
    BY <1>2, <1>7 DEF Inv
<1>12. Inv(mtp', lastId, refused')
    BY <1>6, <1>8, <1>9, <1>10, <1>11 DEF Inv
<1> QED
    BY <1>1, <1>12 DEF IInv

\* Sending does not look at what waits for an authorization.
LEMMA SentOrCleared ==
    ASSUME NEW m, NEW l, Good(m, l), NEW ids, NEW waiters,
           NEW c, c = [m EXCEPT !.waiters = waiters]
    PROVE  [SendPrepared(m, ids) EXCEPT !.waiters = waiters]
             = SendPrepared(c, ids)
<1>1. Maps(m)
    BY DEF Good, MapsTyped
<1>2. c.flying = m.flying /\ c.requests = m.requests /\ c.byDc = m.byDc
    BY <1>1 DEF Maps
<1> DEFINE sent == DOMAIN m.flying \cup ids
           DcOf(id) == IF id \in DOMAIN m.flying THEN m.flying[id].dc
                                                 ELSE m.byDc[id].dc
           Waits(id) == /\ m.requests[id] \in sent
                        /\ DcOf(m.requests[id]) = DcOf(id)
           flying == [id \in sent |->
                IF id \in DOMAIN m.flying
                THEN m.flying[id]
                ELSE [dc |-> DcOf(id), waits |-> Waits(id), answer |-> "none"]]
<1>3. SendPrepared(m, ids) = [m EXCEPT !.flying = flying]
    BY DEF SendPrepared
<1>4. SendPrepared(c, ids) = [c EXCEPT !.flying = flying]
    BY <1>2 DEF SendPrepared
<1> HIDE DEF flying
<1>5. [[m EXCEPT !.flying = flying] EXCEPT !.waiters = waiters]
        = [[m EXCEPT !.waiters = waiters] EXCEPT !.flying = flying]
    BY <1>1 DEF Maps
<1> QED
    BY <1>3, <1>4, <1>5

\* An import ends: what has waited for it is sent.
LEMMA ImportDoneStep ==
    ASSUME IInv, NEW id, ImportDone(id)
    PROVE  IInv'
<1> DEFINE answer == "done"
           m == Landed(id)
           d == mtp.byDc[id].dc
           waited == mtp.waiters[d] \cap Known(mtp)
           waiters == [m.waiters EXCEPT ![d] = {}]
           cleared == [m EXCEPT !.waiters = waiters]
           sent == SendPrepared(cleared, waited)
           old == SendPrepared(m, waited)
<1>1. /\ Answered(id, answer) /\ mtp.parser[id] = "import"
      /\ mtp' = UnregisterRequest([old EXCEPT !.waiters[d] = {}], id)
      /\ refused' = refused /\ lastId' = lastId
    BY DEF ImportDone
<1> HIDE DEF answer
<1>2. /\ id \in DOMAIN mtp.flying /\ id \in Known(mtp)
      /\ Inv(mtp, lastId, refused) /\ Good(mtp, lastId)
    BY <1>1, LandedUser DEF IInv, Inv
<1>3. d \in Dcs /\ id \in TransfersOf(mtp, d)
    BY <1>1, <1>2 DEF TransfersOf, Good, MapsTyped, RegisteredRequest
<1>4. /\ Good(m, lastId) /\ SameMaps(mtp, m)
      /\ DOMAIN m.flying = DOMAIN mtp.flying \ {id}
      /\ Free(m) = Free(mtp) \cup {id}
    BY <1>2, LandedGood
<1>5. waiters = [m.waiters EXCEPT ![d] = {}]
    OBVIOUS
<1>6. [old EXCEPT !.waiters[d] = {}] = sent
    <2>1. old.waiters = m.waiters
        BY <1>4 DEF SendPrepared, Good, MapsTyped, Maps
    <2>2. [old EXCEPT !.waiters[d] = {}] = [old EXCEPT !.waiters = waiters]
        BY <2>1
    <2>3. /\ cleared = [m EXCEPT !.waiters = waiters]
          /\ sent = SendPrepared(cleared, waited)
          /\ old = SendPrepared(m, waited)
        OBVIOUS
    <2> HIDE DEF waiters, m, waited, cleared
    <2>4. [SendPrepared(m, waited) EXCEPT !.waiters = waiters]
            = SendPrepared(cleared, waited)
        BY <1>4, <2>3, SentOrCleared
    <2> QED
        BY <2>2, <2>3, <2>4
<1> HIDE DEF m, d, waiters, old
<1>7. /\ Good(cleared, lastId)
      /\ cleared.parser = m.parser /\ cleared.byDc = m.byDc
      /\ Known(cleared) = Known(m)
      /\ cleared.waiters = waiters
      /\ cleared.exports = m.exports /\ cleared.flying = m.flying
      /\ Free(cleared) = Free(m) \cup (m.waiters[d] \cap Known(m))
    BY <1>3, <1>4, <1>5, ClearedGood
<1> HIDE DEF cleared
<1>8. Known(m) = Known(mtp) /\ waited = m.waiters[d] \cap Known(m)
    BY <1>4 DEF SameMaps, Known
<1> HIDE DEF waited
<1>9. waited \subseteq Free(cleared) /\ Free(cleared) \ waited \subseteq Free(m)
    BY <1>7, <1>8
<1>10. /\ Good(sent, lastId) /\ SameMaps(cleared, sent)
       /\ DOMAIN sent.flying = DOMAIN cleared.flying \cup waited
       /\ Free(sent) = Free(cleared) \ waited
    BY <1>7, <1>9, SendPreparedGood
<1> HIDE DEF sent
<1>11. Known(sent) = Known(mtp)
    BY <1>7, <1>8, <1>10 DEF SameMaps, Known
<1>12. mtp' = UnregisterRequest(sent, id) /\ id \in Known(sent)
    BY <1>1, <1>2, <1>6, <1>11
<1>13. /\ Good(mtp', lastId)
       /\ Known(mtp') = Known(sent) \ {id}
       /\ \A e \in Known(mtp') : /\ mtp'.parser[e] = sent.parser[e]
                                 /\ mtp'.byDc[e] = sent.byDc[e]
       /\ DOMAIN mtp'.flying \subseteq DOMAIN sent.flying \cup Known(mtp')
       /\ mtp'.waiters = sent.waiters /\ mtp'.exports = sent.exports
       /\ Free(mtp') = Free(sent) \ {id}
    BY <1>10, <1>12, UnregisterGood
<1>14. /\ Known(mtp') = Known(mtp) \ {id} /\ mtp'.exports = mtp.exports
       /\ \A e \in Known(mtp') : /\ mtp'.parser[e] = mtp.parser[e]
                                 /\ mtp'.byDc[e] = mtp.byDc[e]
    BY <1>4, <1>7, <1>10, <1>11, <1>13 DEF SameMaps
<1>15. /\ mtp'.waiters[d] = {}
       /\ \A dc \in Dcs \ {d} : mtp'.waiters[dc] = mtp.waiters[dc]
    <2>1. mtp'.waiters = waiters /\ m.waiters = mtp.waiters
        BY <1>4, <1>7, <1>10, <1>13 DEF SameMaps
    <2>2. DOMAIN m.waiters = Dcs
        BY <1>4 DEF Good, MapsTyped
    <2> QED
        BY <1>3, <1>5, <2>1, <2>2
<1>16. Transfers(mtp', refused)
    BY <1>2, <1>3, <1>14, <1>15, TransferEnds
<1>17. DOMAIN mtp'.flying \subseteq Known(mtp')
    <2>1. id \notin waited
        BY <1>2, <1>3, <1>4, <1>8 DEF Good, Alone, Waiting, SameMaps
    <2>2. waited \subseteq Known(mtp)
        BY <1>8
    <2> QED
        BY <1>2, <1>4, <1>7, <1>10, <1>13, <1>14, <2>1, <2>2 DEF Inv
<1>18. \A e \in Free(mtp') : mtp'.byDc[e].dc \in refused
    <2>1. \A e \in Free(mtp') : e \in Free(mtp) /\ e \in Known(mtp')
        BY <1>4, <1>9, <1>10, <1>13 DEF Free
    <2> QED
        BY <1>2, <1>14, <2>1 DEF Inv
<1>19. DOMAIN mtp'.exports \subseteq 1..lastId
    BY <1>2, <1>14 DEF Inv
<1>20. Inv(mtp', lastId, refused)
    BY <1>13, <1>16, <1>17, <1>18, <1>19 DEF Inv
<1> QED
    BY <1>1, <1>20 DEF IInv

\* An export ends: an import follows, and the same requests wait for that.
LEMMA ExportDoneStep ==
    ASSUME IInv, NEW id, ExportDone(id)
    PROVE  IInv'
<1> DEFINE answer == "done"
           m == Landed(id)
           d == mtp.exports[id]
           import == lastId + 1
           handler == "import"
           toMain == FALSE
           after == 0
           s == SendRequest(m, import, handler, toMain, d, after)
           exports == Without(s.exports, {id})
           n == [s EXCEPT !.exports = exports]
<1>1. /\ Answered(id, answer) /\ mtp.parser[id] = "export"
      /\ mtp' = UnregisterRequest(n, id)
      /\ refused' = refused /\ lastId' = import
    BY DEF ExportDone
<1> HIDE DEF answer
<1>2. /\ id \in DOMAIN mtp.flying /\ id \in Known(mtp)
      /\ Inv(mtp, lastId, refused) /\ Good(mtp, lastId)
    BY <1>1, LandedUser DEF IInv, Inv
<1>3. id \in DOMAIN mtp.exports /\ d \in Dcs /\ id \in TransfersOf(mtp, d)
    BY <1>1, <1>2 DEF Inv, Transfers, TransfersOf, Good, MapsTyped
<1>4. /\ Good(m, lastId) /\ SameMaps(mtp, m)
      /\ DOMAIN m.flying = DOMAIN mtp.flying \ {id}
      /\ Free(m) = Free(mtp) \cup {id}
    BY <1>2, LandedGood
<1>5. Known(m) = Known(mtp) /\ DOMAIN m.flying \subseteq Known(m)
    BY <1>2, <1>4 DEF SameMaps, Known, Inv
<1>6. /\ handler \in Handlers /\ toMain \in BOOLEAN /\ after \in Nat
      /\ handler = "import" /\ handler # "export" /\ import = lastId + 1
    BY DEF Handlers
<1>7. s = SendRequest(m, import, handler, toMain, d, after)
    OBVIOUS
<1>8. exports = Without(s.exports, {id})
    OBVIOUS
<1> HIDE DEF m, d, import, handler, toMain, after, s
<1>9. /\ Good(s, import) /\ import \notin Known(m)
      /\ Known(s) = Known(m) \cup {import}
      /\ DOMAIN s.flying \subseteq Known(s)
      /\ DOMAIN s.flying \subseteq DOMAIN m.flying \cup {import}
      /\ s.parser[import] = handler /\ s.byDc[import].dc = d
      /\ \A e \in Known(m) : /\ s.parser[e] = m.parser[e]
                             /\ s.byDc[e] = m.byDc[e]
      /\ s.waiters = m.waiters /\ s.exports = m.exports
      /\ Free(s) = Free(m)
    BY <1>3, <1>4, <1>5, <1>6, <1>7, SendRequestGood
<1>10. s.exports = mtp.exports /\ mtp.exports \in [DOMAIN mtp.exports -> Dcs]
    BY <1>2, <1>4, <1>9 DEF SameMaps, Good, MapsTyped
<1>11. /\ exports \in [DOMAIN exports -> Dcs]
       /\ DOMAIN exports = DOMAIN mtp.exports \ {id}
       /\ \A e \in DOMAIN mtp.exports \ {id} : exports[e] = mtp.exports[e]
    BY <1>8, <1>10 DEF Without, Restrict
<1> HIDE DEF exports
<1>12. /\ Good(n, import)
       /\ n.parser = s.parser /\ n.byDc = s.byDc /\ Known(n) = Known(s)
       /\ n.waiters = s.waiters /\ n.exports = exports
       /\ n.flying = s.flying
       /\ Free(n) = Free(s)
    BY <1>9, <1>11, ExportsGood
<1> HIDE DEF n
<1>13. id \in Known(n)
    BY <1>2, <1>5, <1>9, <1>12
<1>14. /\ Good(mtp', import)
       /\ Known(mtp') = Known(n) \ {id}
       /\ \A e \in Known(mtp') : /\ mtp'.parser[e] = n.parser[e]
                                 /\ mtp'.byDc[e] = n.byDc[e]
       /\ DOMAIN mtp'.flying \subseteq DOMAIN n.flying \cup Known(mtp')
       /\ mtp'.waiters = n.waiters /\ mtp'.exports = n.exports
       /\ Free(mtp') = Free(n) \ {id}
    BY <1>1, <1>12, <1>13, UnregisterGood
<1>15. import \notin Known(mtp) /\ import \notin DOMAIN mtp.exports /\ import # id
    BY <1>2, <1>5, <1>6, <1>9 DEF Inv, Good, MapsTyped
<1>16. /\ Known(mtp') = (Known(mtp) \ {id}) \cup {import}
       /\ \A e \in Known(mtp) \ {id} : /\ mtp'.parser[e] = mtp.parser[e]
                                       /\ mtp'.byDc[e] = mtp.byDc[e]
       /\ mtp'.parser[import] = handler /\ mtp'.byDc[import].dc = d
       /\ mtp'.exports = exports /\ mtp'.waiters = mtp.waiters
    BY <1>4, <1>5, <1>9, <1>12, <1>14, <1>15 DEF SameMaps
<1>17. \A e \in TransfersOf(mtp, d) : e = id
    BY <1>2, <1>3 DEF Inv, Transfers
<1>18. \A e \in Known(mtp) : mtp.parser[e] = "export" <=> e \in DOMAIN mtp.exports
    BY <1>2 DEF Inv, Transfers
<1>19. TransfersOf(mtp', d) = {import}
    <2>1. import \in TransfersOf(mtp', d)
        BY <1>6, <1>16 DEF TransfersOf
    <2>2. ASSUME NEW e \in TransfersOf(mtp', d), e # import
          PROVE  FALSE
        <3>1. e \in Known(mtp) \ {id}
            BY <1>16, <2>2 DEF TransfersOf
        <3>2. e \in TransfersOf(mtp, d)
            BY <1>11, <1>16, <1>18, <2>2, <3>1 DEF TransfersOf
        <3> QED
            BY <1>17, <3>1, <3>2
    <2> QED
        BY <2>1, <2>2
<1>20. ASSUME NEW dc \in Dcs \ {d}
       PROVE  TransfersOf(mtp', dc) = TransfersOf(mtp, dc)
    <2>1. import \notin TransfersOf(mtp', dc) /\ id \notin TransfersOf(mtp, dc)
        BY <1>1, <1>3, <1>6, <1>16 DEF TransfersOf
    <2>2. ASSUME NEW e \in Known(mtp) \ {id}
          PROVE  e \in TransfersOf(mtp', dc) <=> e \in TransfersOf(mtp, dc)
        BY <1>11, <1>16, <1>18, <2>2 DEF TransfersOf
    <2>3. /\ TransfersOf(mtp', dc) \subseteq Known(mtp')
          /\ TransfersOf(mtp, dc) \subseteq Known(mtp)
        BY DEF TransfersOf
    <2> QED
        BY <1>16, <2>1, <2>2, <2>3
<1>21. \A e \in Known(mtp') :
            mtp'.parser[e] = "export" <=> e \in DOMAIN mtp'.exports
    BY <1>6, <1>11, <1>15, <1>16, <1>18
<1>22. Transfers(mtp', refused)
    <2>1. mtp.waiters[d] # {}
        BY <1>2, <1>3 DEF Inv, Transfers
    <2> QED
        BY <1>2, <1>16, <1>19, <1>20, <1>21, <2>1 DEF Inv, Transfers
<1>23. DOMAIN mtp'.flying \subseteq Known(mtp')
    <2>1. id \notin DOMAIN m.flying /\ id # import
        BY <1>4, <1>15
    <2>2. id \notin DOMAIN s.flying
        BY <1>9, <2>1
    <2>3. Known(mtp') = Known(s) \ {id}
        BY <1>12, <1>14
    <2> QED
        BY <1>9, <1>12, <1>14, <2>2, <2>3
<1>24. \A e \in Free(mtp') : mtp'.byDc[e].dc \in refused
    <2>1. Free(mtp') \subseteq Free(mtp)
        BY <1>4, <1>9, <1>12, <1>14
    <2>2. \A e \in Free(mtp) : e \in Known(mtp)
        BY DEF Free
    <2>3. \A e \in Free(mtp') : e # id
        BY <1>14
    <2> QED
        BY <1>2, <1>16, <2>1, <2>2, <2>3 DEF Inv
<1>25. DOMAIN mtp'.exports \subseteq 1..import
    <2>1. lastId \in Nat /\ 1..lastId \subseteq 1..import
        BY <1>2, <1>6 DEF Good, MapsTyped
    <2> QED
        BY <1>2, <1>11, <1>16, <2>1 DEF Inv
<1>26. Inv(mtp', import, refused)
    BY <1>14, <1>22, <1>23, <1>24, <1>25 DEF Inv
<1> QED
    BY <1>1, <1>26 DEF IInv

-----------------------------------------------------------------------------
(* The invariant *)

\* At first there are no requests.
LEMMA RequestsInitHolds == Init => IInv
<1> SUFFICES ASSUME Init PROVE IInv
    OBVIOUS
<1> DEFINE Empty == [id \in {} |-> 0]
<1>1. /\ mtp.requests = Empty /\ mtp.parser = Empty /\ mtp.byDc = Empty
      /\ mtp.delayed = {} /\ mtp.dependent = Empty
      /\ mtp.waiters = [dc \in Dcs |-> {}] /\ mtp.exports = Empty
      /\ mtp.flying = Empty
      /\ Maps(mtp)
      /\ lastId = 0 /\ refused = {}
    BY DEF Init, NoRequests, Maps
<1>2. DOMAIN Empty = {} /\ \A S : Empty \in [{} -> S]
    OBVIOUS
<1> HIDE DEF Empty
<1>3. Known(mtp) = {}
    BY <1>1, <1>2 DEF Known
<1>4. mtp.waiters \in [Dcs -> SUBSET (1..lastId)]
    BY <1>1
<1>5. MapsTyped(mtp, lastId)
    BY <1>1, <1>2, <1>3, <1>4 DEF MapsTyped
<1>6. Ordered(mtp) /\ Alone(mtp)
    BY <1>1, <1>2, <1>3 DEF Ordered, Alone
<1>7. Free(mtp) = {} /\ \A dc \in Dcs : TransfersOf(mtp, dc) = {}
    BY <1>3 DEF Free, TransfersOf
<1>8. \A dc \in Dcs : mtp.waiters[dc] = {}
    BY <1>1
<1>9. Transfers(mtp, refused)
    BY <1>3, <1>7, <1>8 DEF Transfers
<1> QED
    BY <1>1, <1>2, <1>3, <1>5, <1>6, <1>7, <1>9 DEF IInv, Inv, Good

\* Whatever the answer is, its handler keeps the invariant.
LEMMA AnswerStep ==
    ASSUME IInv, NEW id, Answer(id)
    PROVE  IInv'
<1>1. CASE UserDone(id)
    <2> DEFINE answer == "done"
    <2>1. /\ Answered(id, answer) /\ End(id) /\ mtp.parser[id] = "user"
          /\ UNCHANGED <<lastId, refused>>
        BY <1>1 DEF UserDone
    <2> HIDE DEF answer
    <2> QED
        BY <2>1, EndStep
<1>2. CASE UserFail(id)
    <2> DEFINE answer == "temporary"
    <2>1. /\ Answered(id, answer) /\ End(id) /\ mtp.parser[id] = "user"
          /\ UNCHANGED <<lastId, refused>>
        BY <1>2 DEF UserFail
    <2> HIDE DEF answer
    <2> QED
        BY <2>1, EndStep
<1>3. CASE ExportDone(id)
    BY <1>3, ExportDoneStep
<1>4. CASE ExportFail(id)
    BY <1>4, ExportFailStep
<1>5. CASE ImportDone(id)
    BY <1>5, ImportDoneStep
<1>6. CASE ImportFail(id)
    BY <1>6, ImportFailStep
<1>7. CASE Migrate(id)
    BY <1>7, MigrateStep
<1>8. CASE MsgWaitFailed(id)
    BY <1>8, MsgWaitFailedStep
<1>9. CASE Delay(id)
    BY <1>9, DelayStep
<1>10. CASE SendAgain(id)
    BY <1>10, SendAgainStep
<1>11. CASE Unauthorized(id)
    BY <1>11, UnauthorizedStep
<1> QED
    BY <1>1, <1>2, <1>3, <1>4, <1>5, <1>6, <1>7, <1>8, <1>9, <1>10, <1>11
    DEF Answer

\* Every step of MtpRequests keeps its invariant.
LEMMA StepKeeps == IInv /\ [Next]_vars => IInv'
<1> SUFFICES ASSUME IInv, [Next]_vars PROVE IInv'
    OBVIOUS
<1>1. CASE Send
    BY <1>1, SendStep
<1>2. CASE DelayTimer
    BY <1>2, DelayTimerStep
<1>3. ASSUME NEW id \in Ids, Serve(id)
      PROVE  IInv'
    BY <1>3, ServeStep
<1>4. ASSUME NEW id \in Ids, Answer(id)
      PROVE  IInv'
    BY <1>4, AnswerStep
<1>5. ASSUME NEW id \in Ids, Cancel(id)
      PROVE  IInv'
    BY <1>5, CancelStep
<1>6. CASE UNCHANGED vars
    <2>1. mtp' = mtp /\ lastId' = lastId /\ refused' = refused
        BY <1>6 DEF vars
    <2> QED
        BY <2>1 DEF IInv
<1> QED
    BY <1>1, <1>2, <1>3, <1>4, <1>5, <1>6 DEF Next

\* The maps of the instance fit together, for any dcs and any number of
\* requests and troubles.
THEOREM Invariance == Spec => []IInv
<1> QED
    BY RequestsInitHolds, StepKeeps, PTL DEF Spec

-----------------------------------------------------------------------------
(* The properties *)

\* The transfers of the property are those of the invariant.
LEMMA TransfersAre ==
    ASSUME IInv, NEW dc
    PROVE  Exporting(dc) \cup Importing(dc) = TransfersOf(mtp, dc)
<1>1. \A id \in Known(mtp) : mtp.parser[id] = "export" <=> id \in DOMAIN mtp.exports
    BY DEF IInv, Inv, Transfers
<1>2. ASSUME NEW id \in Known(mtp)
      PROVE  id \in Exporting(dc) \cup Importing(dc) <=> id \in TransfersOf(mtp, dc)
    BY <1>1 DEF Exporting, Importing, TransfersOf
<1>3. /\ Exporting(dc) \cup Importing(dc) \subseteq Known(mtp)
      /\ TransfersOf(mtp, dc) \subseteq Known(mtp)
    BY DEF Exporting, Importing, TransfersOf
<1> QED
    BY <1>2, <1>3

\* However many requests a dc refuses, there is one export or import for it at
\* a time, because something waits for the dc as long as there is one:
\* onErrorDefault(), exportDone(), exportFail(), importDone().
THEOREM TransfersAreSingle == Spec => []OneTransfer
<1>1. IInv => OneTransfer
    <2> SUFFICES ASSUME IInv, NEW dc \in Dcs
                 PROVE  \A e, f \in Exporting(dc) \cup Importing(dc) : e = f
        BY DEF OneTransfer
    <2>1. \A e, f \in TransfersOf(mtp, dc) : e = f
        BY DEF IInv, Inv, Transfers
    <2> QED
        BY <2>1, TransfersAre
<1> QED
    BY <1>1, Invariance, PTL

\* A request in flight is registered, and with the dc it flies to: cancel()
\* finds it, however often it has been migrated, delayed or transferred.
THEOREM CancelReaches == Spec => []CancelFindsIt
<1>1. IInv => CancelFindsIt
    BY DEF IInv, Inv, Good, Alone, CancelFindsIt
<1> QED
    BY <1>1, Invariance, PTL

\* The places of the property are the maps of the invariant.
LEMMA PlacesAre ==
    ASSUME NEW id, NEW p \in Places(id)
    PROVE  \/ p = "session" /\ id \in DOMAIN mtp.flying
           \/ p = "delay" /\ id \in mtp.delayed
           \/ p = "request" /\ id \in DOMAIN mtp.dependent
           \/ p = "transfer" /\ Waiting(mtp, id)
    BY DEF Places, Waiting

\* Every request that the program waits for is in exactly one place: in a
\* session, delayed, behind another request, or behind a transfer that goes on,
\* unless the transfer to its dc has been refused.
THEOREM RequestsHaveAPlace == Spec => []NothingIsStranded
<1>1. ASSUME IInv, NEW id \in Known(mtp), NEW p \in Places(id), NEW q \in Places(id)
      PROVE  p = q
    <2>1. /\ id \in DOMAIN mtp.flying =>
                /\ id \notin mtp.delayed /\ id \notin DOMAIN mtp.dependent
                /\ ~Waiting(mtp, id)
          /\ id \in mtp.delayed => id \notin DOMAIN mtp.dependent /\ ~Waiting(mtp, id)
          /\ id \in DOMAIN mtp.dependent => ~Waiting(mtp, id)
        BY <1>1 DEF IInv, Inv, Good, Alone
    <2> QED
        BY <2>1, PlacesAre
<1>2. ASSUME IInv, NEW id \in Known(mtp), Places(id) = {}
      PROVE  mtp.byDc[id].dc \in refused
    <2>1. "session" \notin Places(id) /\ "delay" \notin Places(id)
          /\ "request" \notin Places(id) /\ "transfer" \notin Places(id)
        BY <1>2
    <2>2. id \notin DOMAIN mtp.flying /\ id \notin mtp.delayed
        BY <2>1 DEF Places
    <2>3. id \notin DOMAIN mtp.dependent
        <3>1. id \in DOMAIN mtp.dependent => mtp.dependent[id] \in Known(mtp)
            BY <1>2 DEF IInv, Inv, Good, Ordered
        <3> QED
            BY <2>1, <3>1 DEF Places
    <2>4. CASE Waiting(mtp, id)
        <3>1. PICK dc \in Dcs : id \in mtp.waiters[dc]
            BY <2>4 DEF Waiting
        <3>2. Exporting(dc) \cup Importing(dc) = {}
            BY <2>1, <3>1 DEF Places
        <3>3. TransfersOf(mtp, dc) = {}
            BY <1>2, <3>2, TransfersAre
        <3>4. mtp.byDc[id].dc = dc
            BY <1>2, <3>1 DEF IInv, Inv, Good, Alone
        <3> QED
            BY <1>2, <3>1, <3>3, <3>4 DEF IInv, Inv, Transfers
    <2>5. CASE ~Waiting(mtp, id)
        BY <1>2, <2>2, <2>3, <2>5 DEF IInv, Inv, Free
    <2> QED
        BY <2>4, <2>5
<1>3. IInv => NothingIsStranded
    BY <1>1, <1>2 DEF NothingIsStranded
<1> QED
    BY <1>3, Invariance, PTL

-----------------------------------------------------------------------------
(* MtpSession                                                               *)
(*                                                                          *)
(* SessionInv is inductive.  Its heart is Owned: all the entries of message *)
(* ids and requests, in the maps, in buffers, in a cancel, on the wire and  *)
(* at the server, agree, and new ids are greater.  Current adds that what   *)
(* the server may execute has the id of the buffer, unless the request has  *)
(* failed; that is why ids may only be given anew to a request that was     *)
(* never sent, that has failed, or when the session is new (NewStart).      *)

-----------------------------------------------------------------------------
(* The types of the session's records.                                     *)

Response == [request : Requests, of : Requests, error : BOOLEAN]

Attempt == [id : Nat, request : Requests, answer : Nat, error : BOOLEAN]

OnWire == [id : Nat, messages : SUBSET Entries, asked : SUBSET Nat]

FromServer ==
  [kind  : {"result", "ack", "resend", "fatal", "states", "newSession",
            "reset"},
   id    : Nat,
   to    : Nat,
   of    : Nat,
   error : BOOLEAN,
   asked : SUBSET Nat,
   got   : SUBSET Nat]

\* The fields whose values no invariant is about may have any.
SessionTyped(s) ==
  s \in [toSend : SUBSET Requests, haveSent : SUBSET Entries,
         received : Seq(Response), resending : SUBSET Entries,
         acked : SUBSET Entries, containers : {s.containers},
         forced : {s.forced}, hand : SUBSET Entries,
         sending : SUBSET Requests, todo : {s.todo}, lastId : Nat,
         started : BOOLEAN, forceNewId : BOOLEAN, seen : {s.seen},
         checkTimer : {s.checkTimer}, link : {s.link}]

MainTyped(m) ==
  m \in [handlers : SUBSET Requests, known : SUBSET Requests,
         delayed : SUBSET Requests,
         cancelling : SUBSET [request : Requests, id : Nat, queued : BOOLEAN],
         issued : SUBSET Requests]

ServerTyped(v) ==
  v \in [alive : BOOLEAN, done : SUBSET Attempt, owed : SUBSET Nat,
         failed : SUBSET Requests, lastId : Nat]

SessionStateTyped ==
  /\ buffer \in [Requests -> Nat]
  /\ SessionTyped(session)
  /\ MainTyped(main)
  /\ up \in Seq(OnWire)
  /\ down \in Seq(FromServer)
  /\ ServerTyped(server)

-----------------------------------------------------------------------------
(* What a message id stands for.                                           *)

\* The maps of the session.
Kept(s) == s.haveSent \cup s.resending \cup s.acked \cup s.hand

Buffered(b) == {Entry(b[r], r) : r \in {q \in Requests : b[q] # 0}}

BeingCancelled(m) ==
  {Entry(c.id, c.request) : c \in {d \in m.cancelling : d.id # 0}}

Wire(u) == UNION {p.messages : p \in Range(u)}

Executed(v) == {Entry(d.id, d.request) : d \in v.done}

\* What a result or a refusal on its way says of a message id.
Promised(w) ==
  {Entry(x.to, x.of) : x \in {y \in Range(w) : y.kind \in {"result", "fatal"}}}

Named(s, b, m, u, w, v) ==
  Kept(s) \cup Buffered(b) \cup BeingCancelled(m) \cup Wire(u)
    \cup Executed(v) \cup Promised(w)

\* An id is given to one request, and the next ids are greater.
Agree(entries, last) ==
  /\ \A e \in entries : e \in Entries /\ e.id # 0 /\ e.id <= last
  /\ \A e, f \in entries : e.id = f.id => e = f

Owned == Agree(Named(session, buffer, main, up, down, server), session.lastId)

-----------------------------------------------------------------------------
\* What is in a queue after an append, and after its head is taken.
LEMMA RangeOf ==
  ASSUME NEW T, NEW q \in Seq(T)
  PROVE  /\ Range(q) \subseteq T
         /\ \A x : Range(Append(q, x)) = Range(q) \cup {x}
         /\ q # <<>> => /\ Head(q) \in T
                        /\ Tail(q) \in Seq(T)
                        /\ Head(q) \in Range(q)
                        /\ Range(Tail(q)) \subseteq Range(q)
                        /\ Range(q) \subseteq Range(Tail(q)) \cup {Head(q)}
<1>1. Range(q) \subseteq T
  BY DEF Range
<1>2. ASSUME NEW x
      PROVE  Range(Append(q, x)) = Range(q) \cup {x}
  <2>1. /\ DOMAIN Append(q, x) = 1 .. Len(q) + 1
        /\ DOMAIN q = 1 .. Len(q)
        /\ Len(q) \in Nat
        /\ \A i \in 1 .. Len(q) : Append(q, x)[i] = q[i]
        /\ Append(q, x)[Len(q) + 1] = x
    OBVIOUS
  <2>2. Range(Append(q, x)) \subseteq Range(q) \cup {x}
    <3> SUFFICES ASSUME NEW i \in 1 .. Len(q) + 1
                 PROVE  Append(q, x)[i] \in Range(q) \cup {x}
      BY <2>1 DEF Range
    <3>1. CASE i = Len(q) + 1
      BY <3>1, <2>1
    <3>2. CASE i \in 1 .. Len(q)
      BY <3>2, <2>1 DEF Range
    <3> QED
      BY <3>1, <3>2, <2>1
  <2>3. \A i \in 1 .. Len(q) : i \in 1 .. Len(q) + 1
    BY <2>1
  <2>4. Range(q) \subseteq Range(Append(q, x))
    BY <2>1, <2>3 DEF Range
  <2>5. Len(q) + 1 \in 1 .. Len(q) + 1
    BY <2>1
  <2>6. x \in Range(Append(q, x))
    BY <2>1, <2>5 DEF Range
  <2> QED
    BY <2>2, <2>4, <2>6
<1>3. ASSUME q # <<>>
      PROVE  /\ Head(q) \in T
             /\ Tail(q) \in Seq(T)
             /\ Head(q) \in Range(q)
             /\ Range(Tail(q)) \subseteq Range(q)
             /\ Range(q) \subseteq Range(Tail(q)) \cup {Head(q)}
  <2>1. /\ DOMAIN q = 1 .. Len(q)
        /\ Len(q) \in Nat
        /\ Len(q) >= 1
        /\ Head(q) = q[1]
        /\ Tail(q) \in Seq(T)
        /\ DOMAIN Tail(q) = 1 .. Len(q) - 1
        /\ \A i \in 1 .. Len(q) - 1 : Tail(q)[i] = q[i + 1]
    BY <1>3
  <2>2. Head(q) \in Range(q)
    BY <2>1 DEF Range
  <2>3. \A i \in 1 .. Len(q) - 1 : i + 1 \in 1 .. Len(q)
    BY <2>1
  <2>4. Range(Tail(q)) \subseteq Range(q)
    BY <2>1, <2>3 DEF Range
  <2>5. \A i \in 1 .. Len(q) : i = 1 \/ (i - 1 \in 1 .. Len(q) - 1 /\ q[i] = Tail(q)[i - 1])
    BY <2>1
  <2>6. Range(q) \subseteq Range(Tail(q)) \cup {Head(q)}
    <3> SUFFICES ASSUME NEW i \in 1 .. Len(q)
                 PROVE  q[i] \in Range(Tail(q)) \cup {Head(q)}
      BY <2>1 DEF Range
    <3>1. CASE i = 1
      BY <3>1, <2>1
    <3>2. CASE i - 1 \in 1 .. Len(q) - 1 /\ q[i] = Tail(q)[i - 1]
      <4>1. i - 1 \in DOMAIN Tail(q)
        BY <3>2, <2>1
      <4> QED
        BY <3>2, <4>1 DEF Range
    <3> QED
      BY <3>1, <3>2, <2>5
  <2> QED
    BY <2>1, <2>2, <2>4, <2>6, <1>1
<1> QED
  BY <1>1, <1>2, <1>3

\* What is in two queues, one after the other.
LEMMA RangeOfCat ==
  ASSUME NEW T, NEW p \in Seq(T), NEW q \in Seq(T)
  PROVE  p \o q \in Seq(T) /\ Range(p \o q) = Range(p) \cup Range(q)
<1>1. /\ p \o q \in Seq(T)
      /\ DOMAIN p = 1 .. Len(p)
      /\ DOMAIN q = 1 .. Len(q)
      /\ Len(p) \in Nat
      /\ Len(q) \in Nat
      /\ DOMAIN (p \o q) = 1 .. Len(p) + Len(q)
      /\ \A i \in 1 .. Len(p) : (p \o q)[i] = p[i]
      /\ \A i \in 1 .. Len(p) + Len(q) : i > Len(p) => (p \o q)[i] = q[i - Len(p)]
  OBVIOUS
<1>2. Range(p \o q) \subseteq Range(p) \cup Range(q)
  <2> SUFFICES ASSUME NEW i \in 1 .. Len(p) + Len(q)
               PROVE  (p \o q)[i] \in Range(p) \cup Range(q)
    BY <1>1 DEF Range
  <2>1. CASE i <= Len(p)
    <3>1. i \in 1 .. Len(p)
      BY <2>1, <1>1
    <3> QED
      BY <3>1, <1>1 DEF Range
  <2>2. CASE i > Len(p)
    <3>1. i - Len(p) \in 1 .. Len(q)
      BY <2>2, <1>1
    <3> QED
      BY <3>1, <2>2, <1>1 DEF Range
  <2> QED
    BY <2>1, <2>2, <1>1
<1>3. Range(p) \subseteq Range(p \o q)
  <2>1. \A i \in 1 .. Len(p) : i \in 1 .. Len(p) + Len(q)
    BY <1>1
  <2> QED
    BY <2>1, <1>1 DEF Range
<1>4. Range(q) \subseteq Range(p \o q)
  <2> SUFFICES ASSUME NEW i \in 1 .. Len(q)
               PROVE  q[i] \in Range(p \o q)
    BY <1>1 DEF Range
  <2>1. /\ i + Len(p) \in 1 .. Len(p) + Len(q)
        /\ i + Len(p) > Len(p)
        /\ (i + Len(p)) - Len(p) = i
    BY <1>1
  <2>2. (p \o q)[i + Len(p)] = q[i]
    BY <2>1, <1>1
  <2> QED
    BY <2>1, <2>2, <1>1 DEF Range
<1> QED
  BY <1>1, <1>2, <1>3, <1>4

-----------------------------------------------------------------------------
(* Acknowledging.                                                          *)

\* The fields of a session that acknowledging, resending and the numbers of
\* messages leave alone.
SameMoves(s, t) ==
  /\ t.received = s.received
  /\ t.hand = s.hand
  /\ t.sending = s.sending
  /\ t.lastId = s.lastId
  /\ t.started = s.started
  /\ t.forceNewId = s.forceNewId
  /\ t.toSend \subseteq s.toSend

\* Acknowledging only takes entries out of the maps, or moves them to acked.
LEMMA AckMessagesKeeps ==
  ASSUME NEW s, SessionTyped(s), NEW ids, NEW byResponse, NEW waited
  PROVE  LET t == AckMessages(s, ids, byResponse, waited)
         IN /\ SessionTyped(t)
            /\ SameMoves(s, t)
            /\ Kept(t) \subseteq Kept(s)
            /\ t.containers = s.containers
<1> DEFINE sent == {e \in s.haveSent : Done(e, ids, byResponse, waited)}
           queued == {e \in s.resending :
                        /\ Done(e, ids, byResponse, waited)
                        /\ e.id \notin IdsOf(s.haveSent)}
           unqueued == {e \in queued : e.request \in s.toSend}
           acked == Trim(Emplace(s.acked, sent \cup unqueued))
           toSend == s.toSend \ RequestsOf(unqueued)
<1> DEFINE t == AckMessages(s, ids, byResponse, waited)
<1>1. t = [s EXCEPT !.haveSent = @ \ sent, !.resending = @ \ queued,
                    !.toSend = toSend, !.acked = acked]
  BY DEF AckMessages
<1>2. acked \subseteq s.acked \cup s.haveSent \cup s.resending
  BY DEF Trim, Emplace
<1>3. acked \subseteq Entries
  BY <1>2 DEF SessionTyped
<1> HIDE DEF sent, queued, toSend, acked, t
<1>4. toSend \subseteq s.toSend
  BY DEF toSend
<1>5. SessionTyped(t) /\ SameMoves(s, t) /\ t.containers = s.containers
  BY <1>1, <1>3, <1>4 DEF SessionTyped, SameMoves
<1>6. /\ t.haveSent = s.haveSent \ sent
      /\ t.resending = s.resending \ queued
      /\ t.acked = acked
      /\ t.hand = s.hand
  BY <1>1 DEF SessionTyped
<1>7. Kept(t) \subseteq Kept(s)
  BY <1>2, <1>6 DEF Kept
<1> QED
  BY <1>5, <1>7 DEF t

\* So does acknowledging with the containers.
LEMMA RequestsAckedKeeps ==
  ASSUME NEW s, SessionTyped(s), NEW ids, NEW byResponse, NEW waited
  PROVE  LET t == RequestsAcked(s, ids, byResponse, waited)
         IN /\ SessionTyped(t)
            /\ SameMoves(s, t)
            /\ Kept(t) \subseteq Kept(s)
<1> DEFINE known == {c \in s.containers : c.id \in ids}
           inner == UNION {c.messages : c \in known}
           own == AckMessages(s, ids \ IdsOf(known), byResponse, waited)
           bare == [own EXCEPT !.containers = @ \ known]
           t == RequestsAcked(s, ids, byResponse, waited)
<1>1. t = IF known = {} THEN own ELSE AckMessages(bare, inner, FALSE, waited)
  BY DEF RequestsAcked
<1>2. /\ SessionTyped(own)
      /\ SameMoves(s, own)
      /\ Kept(own) \subseteq Kept(s)
  BY AckMessagesKeeps
<1> HIDE DEF known, inner, own
<1>3. /\ SessionTyped(bare)
      /\ SameMoves(own, bare)
      /\ Kept(bare) = Kept(own)
  BY <1>2 DEF SessionTyped, SameMoves, Kept
<1> HIDE DEF bare, t
<1>4. LET u == AckMessages(bare, inner, FALSE, waited)
      IN /\ SessionTyped(u)
         /\ SameMoves(bare, u)
         /\ Kept(u) \subseteq Kept(bare)
  BY <1>3, AckMessagesKeeps
<1>5. SessionTyped(t) /\ SameMoves(s, t) /\ Kept(t) \subseteq Kept(s)
  <2>1. CASE known = {}
    BY <2>1, <1>1, <1>2
  <2>2. CASE known # {}
    BY <2>2, <1>1, <1>2, <1>3, <1>4 DEF SameMoves
  <2> QED
    BY <2>1, <2>2
<1> QED
  BY <1>5 DEF t

\* A message of r with one of these ids went to the acknowledged ones.
TakenOut(s, t, ids, r) ==
  \E moved \in SUBSET (s.haveSent \cup s.resending) :
    /\ t.acked = Trim(Emplace(s.acked, moved))
    /\ \A e \in moved : e.id \in ids
    /\ \E e \in moved : e.request = r

\* What is forgotten though somebody waits for it was answered.
LEMMA AckMessagesForgets ==
  ASSUME NEW s, SessionTyped(s), NEW ids, NEW byResponse,
         NEW waited, NEW r \in waited, r \in WaitingIn(s),
         r \notin WaitingIn(AckMessages(s, ids, byResponse, waited))
  PROVE  /\ byResponse
         /\ TakenOut(s, AckMessages(s, ids, byResponse, waited), ids, r)
<1> DEFINE sent == {e \in s.haveSent : Done(e, ids, byResponse, waited)}
           queued == {e \in s.resending :
                        /\ Done(e, ids, byResponse, waited)
                        /\ e.id \notin IdsOf(s.haveSent)}
           unqueued == {e \in queued : e.request \in s.toSend}
           t == AckMessages(s, ids, byResponse, waited)
<1>1. t = [s EXCEPT !.haveSent = @ \ sent, !.resending = @ \ queued,
                    !.toSend = @ \ RequestsOf(unqueued),
                    !.acked = Trim(Emplace(@, sent \cup unqueued))]
  BY DEF AckMessages
<1> HIDE DEF sent, queued, unqueued, t
<1>2. /\ t.haveSent = s.haveSent \ sent
      /\ t.toSend = s.toSend \ RequestsOf(unqueued)
      /\ t.acked = Trim(Emplace(s.acked, sent \cup unqueued))
      /\ t.hand = s.hand
      /\ t.sending = s.sending
  BY <1>1 DEF SessionTyped
<1>3. r \notin WaitingIn(t)
  BY DEF t
<1>4. PICK e \in sent \cup unqueued : e.request = r
  <2>1. CASE r \in RequestsOf(s.haveSent)
    BY <2>1, <1>2, <1>3 DEF WaitingIn, RequestsOf
  <2>2. CASE r \in s.toSend
    BY <2>2, <1>2, <1>3 DEF WaitingIn, RequestsOf
  <2> QED
    BY <2>1, <2>2, <1>2, <1>3 DEF WaitingIn
<1>5. /\ sent \cup unqueued \subseteq s.haveSent \cup s.resending
      /\ \A x \in sent \cup unqueued : Done(x, ids, byResponse, waited)
  BY DEF sent, queued, unqueued
<1>6. byResponse /\ \A x \in sent \cup unqueued : x.id \in ids
  BY <1>4, <1>5 DEF Done
<1>7. sent \cup unqueued \in SUBSET (s.haveSent \cup s.resending)
  BY <1>5
<1> QED
  BY <1>2, <1>4, <1>6, <1>7 DEF t, TakenOut

\* The request a message id stands for is in one of the maps under this id.
LEMMA WasSentIsKept ==
  ASSUME NEW s, NEW id
  PROVE  \A r \in WasSent(s, id) : \E e \in Kept(s) : e.id = id /\ e.request = r
BY DEF WasSent, RequestsOf, At, Kept

\* The request whose result takes it out of the session is found again.
LEMMA ResultIsForIt ==
  ASSUME NEW s, SessionTyped(s), NEW last \in Nat, Agree(Kept(s), last),
         \A e \in s.haveSent \cup s.resending :
           Cardinality({f \in s.acked : f.id > e.id}) < AckedLimit,
         NEW to, NEW waited, NEW r \in waited, r \in WaitingIn(s),
         r \notin WaitingIn(RequestsAcked(s, {to}, TRUE, waited))
  PROVE  WasSent(RequestsAcked(s, {to}, TRUE, waited), to) = {r}
<1> DEFINE known == {c \in s.containers : c.id \in {to}}
           inner == UNION {c.messages : c \in known}
           own == AckMessages(s, {to} \ IdsOf(known), TRUE, waited)
           bare == [own EXCEPT !.containers = @ \ known]
           t == RequestsAcked(s, {to}, TRUE, waited)
<1>1. t = IF known = {} THEN own ELSE AckMessages(bare, inner, FALSE, waited)
  BY DEF RequestsAcked
<1>2. /\ SessionTyped(own)
      /\ Kept(own) \subseteq Kept(s)
  BY AckMessagesKeeps
<1>3. CASE known # {}
  <2>1. {to} \ IdsOf(known) = {}
    BY <1>3 DEF IdsOf
  <2>2. r \in WaitingIn(own)
    <3>1. SUFFICES ASSUME r \notin WaitingIn(own)
                   PROVE  FALSE
      OBVIOUS
    <3>2. TakenOut(s, own, {to} \ IdsOf(known), r)
      <4> HIDE DEF known
      <4> QED
        BY <3>1, AckMessagesForgets
    <3> QED
      BY <2>1, <3>2 DEF TakenOut
  <2> HIDE DEF known, inner, own
  <2>3. SessionTyped(bare) /\ WaitingIn(bare) = WaitingIn(own)
    BY <1>2 DEF SessionTyped, WaitingIn
  <2>4. t = AckMessages(bare, inner, FALSE, waited)
    BY <1>1, <1>3
  <2> HIDE DEF bare
  <2>5. r \in WaitingIn(bare) /\ r \notin WaitingIn(t)
    BY <2>2, <2>3
  <2> HIDE DEF t
  <2>6. FALSE
    BY <2>3, <2>4, <2>5, AckMessagesForgets
  <2> QED
    BY <2>6
<1>4. CASE known = {}
  <2>1. {to} \ IdsOf(known) = {to}
    BY <1>4 DEF IdsOf
  <2>2. t = AckMessages(s, {to}, TRUE, waited)
    BY <1>1, <1>4, <2>1
  <2> HIDE DEF known, inner, own, bare, t
  <2>3. SessionTyped(t) /\ Kept(t) \subseteq Kept(s)
    BY <2>2, AckMessagesKeeps
  <2>4. r \notin WaitingIn(t)
    BY DEF t
  <2>17. TakenOut(s, t, {to}, r)
    BY <2>2, <2>4, AckMessagesForgets
  <2>5. PICK moved \in SUBSET (s.haveSent \cup s.resending) :
          /\ t.acked = Trim(Emplace(s.acked, moved))
          /\ \A e \in moved : e.id \in {to}
          /\ \E e \in moved : e.request = r
    BY <2>17 DEF TakenOut
  <2>6. PICK e \in moved : e.request = r
    BY <2>5
  <2>7. e.id = to /\ e \in s.haveSent \cup s.resending /\ e \in Kept(s)
    BY <2>5, <2>6 DEF Kept
  <2>8. \A x \in Kept(s) : x.id = to => x = e
    BY <2>7 DEF Agree
  <2>9. e \in Emplace(s.acked, moved)
    <3>1. CASE to \in IdsOf(s.acked)
      <4>1. PICK x \in s.acked : x.id = to
        BY <3>1 DEF IdsOf
      <4>2. x = e
        BY <4>1, <2>8 DEF Kept
      <4> QED
        BY <4>1, <4>2 DEF Emplace
    <3>2. CASE to \notin IdsOf(s.acked)
      BY <3>2, <2>6, <2>7 DEF Emplace
    <3> QED
      BY <3>1, <3>2
  <2>10. e.id \in Nat
    BY <2>7 DEF Agree, Entries
  <2>11. {f \in Emplace(s.acked, moved) : f.id > e.id}
           = {f \in s.acked : f.id > e.id}
    <3>1. \A f \in moved : ~(f.id > e.id)
      BY <2>5, <2>7, <2>10
    <3> QED
      BY <3>1 DEF Emplace
  <2>12. e \in t.acked
    BY <2>5, <2>7, <2>9, <2>11 DEF Trim
  <2>13. to \in IdsOf(t.acked)
    BY <2>7, <2>12 DEF IdsOf
  <2>14. ASSUME NEW map, map \subseteq Kept(t), to \in IdsOf(map)
         PROVE  RequestsOf(At(map, {to})) = {r}
    <3>1. PICK x \in map : x.id = to
      BY <2>14 DEF IdsOf
    <3>2. \A y \in map : y.id = to => y = e
      BY <2>14, <2>3, <2>8
    <3>3. At(map, {to}) = {e}
      BY <3>1, <3>2 DEF At
    <3> QED
      BY <3>3, <2>6 DEF RequestsOf
  <2>15. t.resending \subseteq Kept(t) /\ t.acked \subseteq Kept(t)
    BY DEF Kept
  <2>16. WasSent(t, to) = {r}
    BY <2>13, <2>14, <2>15 DEF WasSent
  <2> QED
    BY <2>16 DEF t
<1> QED
  BY <1>3, <1>4

-----------------------------------------------------------------------------
(* Giving out message ids.                                                 *)

\* Requests are ordered.
LEMMA RequestsAreNat == Requests \subseteq Nat
BY MtpSessionAssumption

\* A set of numbers has a smallest one.
LEMMA SmallestIsIn ==
  ASSUME NEW S, S \subseteq Nat, S # {}
  PROVE  Smallest(S) \in S /\ \A k \in S : Smallest(S) <= k
<1>1. PICK n \in S : \A k \in S : ~(<<k, n>> \in OpToRel(<, Nat))
  BY NatLessThanWellFounded, WFMin, Zenon
<1>2. \A k \in S : n <= k
  <2> SUFFICES ASSUME NEW k \in S, ~(n <= k)
               PROVE  FALSE
    OBVIOUS
  <2>1. k < n /\ k \in Nat /\ n \in Nat
    OBVIOUS
  <2>2. <<k, n>> \in OpToRel(<, Nat)
    BY <2>1, Zenon DEF OpToRel
  <2> QED
    BY <2>2, <1>1
<1> QED
  BY <1>2 DEF Smallest

\* There are finitely many numbers up to one.
LEMMA UpToIsFinite ==
  ASSUME NEW S, S \subseteq Nat, NEW n \in Nat
  PROVE  IsFiniteSet({k \in S : k <= n})
<1>1. IsFiniteSet(0 .. n)
  BY FS_Interval
<1>2. ASSUME NEW k \in S, k <= n
      PROVE  k \in 0 .. n
  <2>1. k \in Nat
    OBVIOUS
  <2> QED
    BY <2>1, <1>2
<1>3. {k \in S : k <= n} \subseteq 0 .. n
  BY <1>2
<1> QED
  BY <1>1, <1>3, FS_Subset

\* Numbers given in the order of the requests are different.
LEMMA CountsDiffer ==
  ASSUME NEW R, R \subseteq Nat, IsFiniteSet(R)
  PROVE  /\ Cardinality(R) \in Nat
         /\ \A r \in R : /\ Cardinality({q \in R : q <= r}) \in Nat
                         /\ 1 <= Cardinality({q \in R : q <= r})
                         /\ Cardinality({q \in R : q <= r}) <= Cardinality(R)
         /\ \A r, t \in R : r < t => Cardinality({q \in R : q <= r})
                                       < Cardinality({q \in R : q <= t})
<1>1. ASSUME NEW S, NEW T, T \subseteq R, S \subseteq T
      PROVE  /\ Cardinality(S) \in Nat
             /\ Cardinality(S) <= Cardinality(T)
             /\ S # T => Cardinality(S) < Cardinality(T)
  <2>1. IsFiniteSet(T)
    BY <1>1, FS_Subset
  <2>2. IsFiniteSet(S)
    BY <2>1, <1>1, FS_Subset
  <2>3. Cardinality(S) \in Nat /\ Cardinality(T) \in Nat
    BY <2>1, <2>2, FS_CardinalityType
  <2>4. /\ Cardinality(S) <= Cardinality(T)
        /\ Cardinality(S) = Cardinality(T) => S = T
    BY <2>1, <1>1, FS_Subset
  <2> QED
    BY <2>3, <2>4
<1>2. Cardinality(R) \in Nat
  BY FS_CardinalityType
<1>3. ASSUME NEW r \in R
      PROVE  /\ Cardinality({q \in R : q <= r}) \in Nat
             /\ 1 <= Cardinality({q \in R : q <= r})
             /\ Cardinality({q \in R : q <= r}) <= Cardinality(R)
  <2>1. {q \in R : q <= r} \subseteq R /\ {} \subseteq {q \in R : q <= r}
    OBVIOUS
  <2>2. {} # {q \in R : q <= r}
    <3>1. r \in {q \in R : q <= r}
      OBVIOUS
    <3> QED
      BY <3>1
  <2>3. /\ Cardinality({q \in R : q <= r}) \in Nat
        /\ Cardinality({q \in R : q <= r}) <= Cardinality(R)
    BY <2>1, <1>1
  <2>4. Cardinality({}) < Cardinality({q \in R : q <= r})
    BY <2>1, <2>2, <1>1
  <2>5. Cardinality({}) = 0
    BY FS_EmptySet
  <2> QED
    BY <2>3, <2>4, <2>5
<1>4. ASSUME NEW r \in R, NEW t \in R, r < t
      PROVE  Cardinality({q \in R : q <= r}) < Cardinality({q \in R : q <= t})
  <2>1. {q \in R : q <= t} \subseteq R
    OBVIOUS
  <2>2. {q \in R : q <= r} \subseteq {q \in R : q <= t}
    <3> SUFFICES ASSUME NEW q \in R, q <= r
                 PROVE  q <= t
      OBVIOUS
    <3>1. q \in Nat /\ r \in Nat /\ t \in Nat
      OBVIOUS
    <3> QED
      BY <3>1, <1>4
  <2>3. t \in {q \in R : q <= t} /\ t \notin {q \in R : q <= r}
    BY <1>4
  <2>4. {q \in R : q <= r} # {q \in R : q <= t}
    BY <2>3
  <2> QED
    BY <2>1, <2>2, <2>4, <1>1
<1> QED
  BY <1>2, <1>3, <1>4

\* The buffers b after messages for range were made out of those before.
NewlyNumbered(b, range, force) ==
  LET fresh == Renumbered(range, force)
      last == session.lastId + Cardinality(fresh)
  IN /\ b \in [Requests -> Nat]
     /\ fresh \subseteq range
     /\ Cardinality(fresh) \in Nat
     /\ \A r \in fresh : session.lastId < b[r] /\ b[r] <= last
     /\ \A r, q \in fresh : b[r] = b[q] => r = q
     /\ \A r \in Requests \ fresh : b[r] = buffer[r]
     /\ \A r \in range : b[r] # 0
     /\ \A r \in fresh : buffer[r] = 0 \/ force

\* prepareToSend() gives ids that nobody has had, each to one request, and
\* leaves no request of the range without one.
LEMMA NewBufferFresh ==
  ASSUME buffer \in [Requests -> Nat], session.lastId \in Nat,
         NEW range, range \subseteq Requests, IsFiniteSet(range), NEW force,
         NEW b, b = NewBuffer(range, force)
  PROVE  NewlyNumbered(b, range, force)
<1> DEFINE fresh == Renumbered(range, force)
           count(r) == Cardinality({q \in fresh : q <= r})
<1>1. /\ fresh \subseteq range
      /\ \A r \in range \ fresh : buffer[r] # 0
      /\ \A r \in fresh : buffer[r] = 0 \/ force
  BY DEF Renumbered
<1>2. IsFiniteSet(fresh) /\ fresh \subseteq Nat
  BY <1>1, FS_Subset, RequestsAreNat
<1>3. b = [r \in Requests |-> IF r \in fresh
                               THEN session.lastId + count(r) ELSE buffer[r]]
  BY DEF NewBuffer
<1> HIDE DEF fresh
<1>4. /\ Cardinality(fresh) \in Nat
      /\ \A r \in fresh : /\ count(r) \in Nat
                           /\ 1 <= count(r)
                           /\ count(r) <= Cardinality(fresh)
      /\ \A r, t \in fresh : r < t => count(r) < count(t)
  BY <1>2, CountsDiffer
<1> HIDE DEF count
<1>5. b \in [Requests -> Nat]
  BY <1>3, <1>4
<1>6. \A r \in fresh : b[r] = session.lastId + count(r)
  BY <1>3, <1>1
<1>7. \A r \in Requests \ fresh : b[r] = buffer[r]
  BY <1>3
<1>8. \A r \in fresh : /\ session.lastId < b[r]
                       /\ b[r] <= session.lastId + Cardinality(fresh)
  BY <1>4, <1>6
<1>9. \A r, q \in fresh : b[r] = b[q] => r = q
  <2> SUFFICES ASSUME NEW r \in fresh, NEW q \in fresh, r < q
               PROVE  b[r] # b[q]
    BY <1>2
  <2> QED
    BY <1>4, <1>6
<1>10. \A r \in range : b[r] # 0
  BY <1>1, <1>5, <1>7, <1>8
<1> QED
  BY <1>1, <1>4, <1>5, <1>7, <1>8, <1>9, <1>10 DEF fresh, NewlyNumbered

\* Fewer entries agree as well.
LEMMA AgreeShrinks ==
  ASSUME NEW N, NEW last, Agree(N, last), NEW M, M \subseteq N
  PROVE  Agree(M, last)
BY DEF Agree

\* Entries with new and different ids.
FreshEntries(F, last, k) ==
  /\ F \subseteq Entries
  /\ \A e \in F : last < e.id /\ e.id <= last + k
  /\ \A e, f \in F : e.id = f.id => e = f

\* Entries with new ids agree with those that were there.
LEMMA AgreeGrows ==
  ASSUME NEW last \in Nat, NEW k \in Nat, NEW more \in Nat, k <= more,
         NEW N, Agree(N, last), NEW F, FreshEntries(F, last, k),
         NEW M, M \subseteq N \cup F
  PROVE  Agree(M, last + more)
<1>1. \A e \in Entries : e.id \in Nat
  BY DEF Entries
<1>2. \A e \in M : e \in Entries /\ e.id # 0 /\ e.id <= last + more
  BY <1>1 DEF Agree, FreshEntries
<1>3. \A e, f \in M : e.id = f.id => e = f
  <2> SUFFICES ASSUME NEW e \in M, NEW f \in M, e.id = f.id
               PROVE  e = f
    OBVIOUS
  <2>1. \A x \in N, y \in F : x.id # y.id
    BY <1>1 DEF Agree, FreshEntries
  <2> QED
    BY <2>1 DEF Agree, FreshEntries
<1> QED
  BY <1>2, <1>3 DEF Agree

-----------------------------------------------------------------------------
(* The inductive invariant.                                                *)

\* What the server may execute or has executed in the session it has.
Attempts(u, v) == Wire(u) \cup Executed(v)

\* A request without an error was sent under no other id than it has.
Current ==
  \A e \in Attempts(up, server) :
    /\ e.request \in main.issued
    /\ e.request \in server.failed \/ e.id = buffer[e.request]

Keyed == \A d, e \in server.done : d.id = e.id => d = e

\* Errors are remembered by the server, whatever becomes of its session.
Failing ==
  /\ \A d \in server.done : d.error => d.request \in server.failed
  /\ \A x \in Range(down) : x.error => x.of \in server.failed
  /\ \A x \in Range(session.received) : x.error => x.of \in server.failed
  /\ main.delayed \subseteq server.failed

\* Where everything is given a new id, nothing is there under an old one.
NewStart ==
  /\ ~session.started => session.sending = {} /\ Attempts(up, server) = {}
  /\ session.sending # {} /\ session.forceNewId => Attempts(up, server) = {}

OwnAnswers == \A x \in Range(session.received) : x.of = x.request

MainFits ==
  /\ main.handlers \subseteq main.known \cup RequestsOf(main.cancelling)
  /\ main.known \subseteq main.issued
  /\ \A c, d \in main.cancelling : c = d
  /\ IsFiniteSet(session.sending)
  /\ session.toSend \cup session.sending \subseteq main.issued
  /\ \A e \in Kept(session) : e.request \in main.issued

SessionInv ==
  /\ SessionStateTyped
  /\ Owned
  /\ Current
  /\ Keyed
  /\ Failing
  /\ NewStart
  /\ OwnAnswers
  /\ MainFits

\* At first nothing has an id.
LEMMA SessionInitHolds == SessionInit => SessionInv
<1> SUFFICES ASSUME SessionInit
             PROVE  SessionInv
  OBVIOUS
<1> USE DEF SessionInit
<1>1. /\ Range(up) = {}
      /\ Range(down) = {}
  BY DEF Range
<1>2. /\ session.haveSent = {}
      /\ session.resending = {}
      /\ session.acked = {}
      /\ session.hand = {}
      /\ session.sending = {}
      /\ session.received = <<>>
      /\ session.lastId = 0
      /\ session.started = TRUE
  BY DEF FreshSession
<1>3. SessionTyped(session)
  <2>1. session =
          [toSend |-> {}, haveSent |-> {}, received |-> <<>>,
           resending |-> {}, acked |-> {}, containers |-> {}, forced |-> {},
           hand |-> {}, sending |-> {}, todo |-> <<>>, lastId |-> 0,
           started |-> TRUE, forceNewId |-> FALSE, seen |-> {},
           checkTimer |-> FALSE, link |-> TRUE]
    BY DEF FreshSession
  <2>2. <<>> \in Seq(Response) /\ 0 \in Nat
    OBVIOUS
  <2>3. \A S : {} \in SUBSET S
    OBVIOUS
  <2> HIDE DEF SessionInit
  <2>4. session \in
          [toSend : {session.toSend}, haveSent : {session.haveSent},
           received : {session.received}, resending : {session.resending},
           acked : {session.acked}, containers : {session.containers},
           forced : {session.forced}, hand : {session.hand},
           sending : {session.sending}, todo : {session.todo},
           lastId : {session.lastId}, started : BOOLEAN, forceNewId : BOOLEAN,
           seen : {session.seen}, checkTimer : {session.checkTimer},
           link : {session.link}]
    BY <2>1
  <2> QED
    BY <2>1, <2>2, <2>3, <2>4 DEF SessionTyped
<1>4. SessionStateTyped
  BY <1>3 DEF SessionStateTyped, MainTyped, ServerTyped
<1>5. Range(session.received) = {}
  BY <1>2 DEF Range
<1>6. /\ Wire(up) = {}
      /\ Executed(server) = {}
      /\ Promised(down) = {}
      /\ BeingCancelled(main) = {}
      /\ Buffered(buffer) = {}
      /\ Kept(session) = {}
  BY <1>1, <1>2 DEF Wire, Executed, Promised, BeingCancelled, Buffered, Kept
<1>7. Owned
  BY <1>6 DEF Owned, Agree, Named
<1>8. Current /\ Keyed /\ NewStart
  BY <1>2, <1>6 DEF Current, Keyed, NewStart, Attempts
<1>9. Failing /\ OwnAnswers
  BY <1>1, <1>5 DEF Failing, OwnAnswers
<1>10. MainFits
  BY <1>2, <1>6, FS_EmptySet DEF MainFits, RequestsOf, FreshSession
<1> QED
  BY <1>4, <1>7, <1>8, <1>9, <1>10 DEF SessionInv

\* Less on the way, less to remember: what most of the steps come to.
LEMMA LessKeeps ==
  ASSUME SessionInv,
         buffer' = buffer, main' = main,
         SessionTyped(session)', Kept(session') \subseteq Kept(session),
         session'.lastId = session.lastId, IsFiniteSet(session'.sending),
         session'.toSend \cup session'.sending
           \subseteq session.toSend \cup session.sending
                       \cup RequestsOf(session.hand),
         up' \in Seq(OnWire), Wire(up') \subseteq Wire(up),
         down' \in Seq(FromServer), Range(down') \subseteq Range(down),
         ServerTyped(server)', server'.done \subseteq server.done,
         server'.failed = server.failed,
         \A m \in Range(session'.received) :
           \/ m \in Range(session.received)
           \/ \E x \in Range(down) : /\ m.of = x.of
                                     /\ m.error = x.error
                                     /\ m.request = m.of,
         NewStart'
  PROVE  SessionInv'
<1> USE DEF SessionInv
<1>1. SessionStateTyped'
  BY DEF SessionStateTyped
<1>2. Executed(server') \subseteq Executed(server)
  BY DEF Executed
<1>3. Promised(down') \subseteq Promised(down)
  BY DEF Promised
<1>4. Named(session, buffer, main, up, down, server)'
        \subseteq Named(session, buffer, main, up, down, server)
  BY <1>2, <1>3 DEF Named
<1>5. Owned'
  BY <1>4, AgreeShrinks DEF Owned
<1>6. Attempts(up', server') \subseteq Attempts(up, server)
  BY <1>2 DEF Attempts
<1>7. Current'
  BY <1>6 DEF Current
<1>8. Keyed'
  BY DEF Keyed
<1>9. Failing'
  BY DEF Failing
<1>10. OwnAnswers'
  BY DEF OwnAnswers
<1>11. MainFits'
  <2>1. \A r \in RequestsOf(session.hand) : r \in main.issued
    BY DEF MainFits, RequestsOf, Kept
  <2> QED
    BY <2>1 DEF MainFits
<1> QED
  BY <1>1, <1>5, <1>7, <1>8, <1>9, <1>10, <1>11

-----------------------------------------------------------------------------
(* Sending.                                                                *)

Messages(range) == {Entry(buffer'[r], r) : r \in range}

\* What SendTaken and SendContainer have in common.
LEMMA SendingKeeps ==
  ASSUME SessionInv, NEW range, range \subseteq Requests, IsFiniteSet(range),
         range \subseteq main.issued,
         NEW force \in BOOLEAN, force => Attempts(up, server) = {},
         buffer' = NewBuffer(range, force),
         main' = main, down' = down, server' = server,
         SessionTyped(session)',
         Kept(session') \subseteq Kept(session) \cup Messages(range),
         NEW more \in Nat, Cardinality(Renumbered(range, force)) <= more,
         session'.lastId = session.lastId + more,
         session'.received = session.received,
         session'.toSend \subseteq session.toSend,
         session'.sending = {}, session'.started,
         up' \in Seq(OnWire), Wire(up') \subseteq Wire(up) \cup Messages(range)
  PROVE  SessionInv'
<1> USE DEF SessionInv
<1> DEFINE fresh == Renumbered(range, force)
           F == {Entry(buffer'[r], r) : r \in fresh}
<1>1. /\ buffer' \in [Requests -> Nat]
      /\ fresh \subseteq range
      /\ Cardinality(fresh) \in Nat
      /\ \A r \in fresh : /\ session.lastId < buffer'[r]
                          /\ buffer'[r] <= session.lastId + Cardinality(fresh)
      /\ \A r, q \in fresh : buffer'[r] = buffer'[q] => r = q
      /\ \A r \in Requests \ fresh : buffer'[r] = buffer[r]
      /\ \A r \in range : buffer'[r] # 0
      /\ \A r \in fresh : buffer[r] = 0 \/ force
  <2>1. buffer \in [Requests -> Nat] /\ session.lastId \in Nat
    BY DEF SessionStateTyped, SessionTyped
  <2>2. NewlyNumbered(buffer', range, force)
    BY <2>1, NewBufferFresh
  <2> QED
    BY <2>2 DEF NewlyNumbered
<1>13. Cardinality(fresh) <= more
  OBVIOUS
<1> HIDE DEF fresh
<1>2. SessionStateTyped'
  BY <1>1 DEF SessionStateTyped
<1>3. FreshEntries(F, session.lastId, Cardinality(fresh))
  BY <1>1 DEF Entry, Entries, FreshEntries
<1>4. Messages(range) \subseteq Buffered(buffer')
  BY <1>1 DEF Messages, Buffered
<1>5. Buffered(buffer') \subseteq Buffered(buffer) \cup F
  BY <1>1 DEF Buffered
<1> HIDE DEF F
<1>6. Named(session, buffer, main, up, down, server)'
        \subseteq Named(session, buffer, main, up, down, server) \cup F
  BY <1>4, <1>5 DEF Named
<1>7. Owned'
  <2>1. session.lastId \in Nat
    BY DEF SessionStateTyped, SessionTyped
  <2>2. Agree(Named(session, buffer, main, up, down, server)',
              session.lastId + more)
    <3> DEFINE N == Named(session, buffer, main, up, down, server)
               M == Named(session, buffer, main, up, down, server)'
    <3>1. Agree(N, session.lastId) /\ M \subseteq N \cup F
      BY <1>6 DEF Owned
    <3> HIDE DEF N, M
    <3>2. Agree(M, session.lastId + more)
      BY <1>1, <1>3, <1>13, <2>1, <3>1, AgreeGrows
    <3> QED
      BY <3>2 DEF M
  <2> QED
    BY <2>2 DEF Owned
<1>8. Current'
  <2> SUFFICES ASSUME NEW e \in Attempts(up', server')
               PROVE  /\ e.request \in main.issued
                      /\ e.request \in server.failed
                           \/ e.id = buffer'[e.request]
    BY DEF Current
  <2>1. CASE e \in Messages(range)
    BY <2>1 DEF Messages, Entry
  <2>2. CASE e \in Attempts(up, server)
    <3>1. /\ e.request \in main.issued
          /\ e.request \in server.failed \/ e.id = buffer[e.request]
      BY <2>2 DEF Current
    <3>2. e \in Entries /\ e.id # 0
      BY <2>2 DEF Owned, Agree, Named, Attempts
    <3>3. e.request \in Requests
      BY <3>2 DEF Entries
    <3>4. CASE e.request \in fresh
      <4>1. ~force
        BY <2>2
      <4>2. buffer[e.request] = 0
        BY <3>4, <4>1, <1>1
      <4> QED
        BY <3>1, <3>2, <4>2
    <3>5. CASE e.request \notin fresh
      BY <3>5, <3>3, <3>1, <1>1
    <3> QED
      BY <3>4, <3>5
  <2> QED
    BY <2>1, <2>2 DEF Attempts
<1>9. Keyed' /\ Failing' /\ NewStart' /\ OwnAnswers'
  BY DEF Keyed, Failing, NewStart, OwnAnswers
<1>10. MainFits'
  <2>1. \A e \in Messages(range) : e.request \in main.issued
    BY DEF Messages, Entry
  <2> QED
    BY <2>1, FS_EmptySet DEF MainFits
<1> QED
  BY <1>2, <1>7, <1>8, <1>9, <1>10

\* What is sent stays in the maps under its new id, and nothing else comes.
LEMMA SentKeeps ==
  ASSUME SessionInv, buffer' \in [Requests -> Nat],
         NEW range, range \subseteq Requests
  PROVE  LET s == Sent(session, range)
         IN /\ SessionTyped(s)
            /\ SameMoves(session, s)
            /\ s.toSend = session.toSend
            /\ Kept(s) \subseteq Kept(session) \cup Messages(range)
<1> DEFINE s == Sent(session, range)
           resending == {e \in session.resending :
                           ~(e.request \in range /\ e.id = buffer[e.request])}
           acked == Renamed(session.acked, range)
           haveSent == Emplace(Renamed(session.haveSent, range),
                               Messages(range))
<1>1. SessionTyped(session)
  BY DEF SessionInv, SessionStateTyped
<1>2. Messages(range) \subseteq Entries
  BY DEF Messages, Entry, Entries
<1>3. \A map : Renamed(map, range) \subseteq map \cup Messages(range)
  BY DEF Renamed, Messages
<1>4. /\ resending \subseteq session.resending
      /\ acked \subseteq session.acked \cup Messages(range)
      /\ haveSent \subseteq session.haveSent \cup Messages(range)
  BY <1>3 DEF Emplace
<1>5. PICK containers : s = [session EXCEPT !.resending = resending,
                                            !.acked = acked,
                                            !.haveSent = haveSent,
                                            !.containers = containers]
  BY DEF Sent, Messages
<1> HIDE DEF s, resending, acked, haveSent
<1>6. /\ resending \subseteq Entries
      /\ acked \subseteq Entries
      /\ haveSent \subseteq Entries
  BY <1>1, <1>2, <1>4 DEF SessionTyped
<1>7. /\ SessionTyped(s)
      /\ SameMoves(session, s)
      /\ s.toSend = session.toSend
  BY <1>1, <1>5, <1>6 DEF SessionTyped, SameMoves
<1>8. /\ s.resending = resending
      /\ s.acked = acked
      /\ s.haveSent = haveSent
      /\ s.hand = session.hand
  BY <1>1, <1>5 DEF SessionTyped
<1>9. Kept(s) \subseteq Kept(session) \cup Messages(range)
  BY <1>4, <1>8 DEF Kept
<1> QED
  BY <1>7, <1>9 DEF s

\* What is on the wire after a packet leaves, and after one is taken.
LEMMA WireOf ==
  ASSUME NEW u \in Seq(OnWire)
  PROVE  /\ \A p \in OnWire : /\ Append(u, p) \in Seq(OnWire)
                              /\ Wire(Append(u, p)) = Wire(u) \cup p.messages
         /\ u # <<>> => /\ Tail(u) \in Seq(OnWire)
                        /\ Wire(Tail(u)) \subseteq Wire(u)
                        /\ Head(u) \in OnWire
                        /\ Head(u).messages \subseteq Wire(u)
<1>1. ASSUME NEW p \in OnWire
      PROVE  /\ Append(u, p) \in Seq(OnWire)
             /\ Wire(Append(u, p)) = Wire(u) \cup p.messages
  <2>1. Range(Append(u, p)) = Range(u) \cup {p}
    BY RangeOf
  <2>2. Wire(Append(u, p)) = Wire(u) \cup p.messages
    BY <2>1 DEF Wire
  <2> QED
    BY <2>2
<1>2. ASSUME u # <<>>
      PROVE  /\ Tail(u) \in Seq(OnWire)
             /\ Wire(Tail(u)) \subseteq Wire(u)
             /\ Head(u) \in OnWire
             /\ Head(u).messages \subseteq Wire(u)
  <2>1. /\ Head(u) \in OnWire
        /\ Tail(u) \in Seq(OnWire)
        /\ Head(u) \in Range(u)
        /\ Range(Tail(u)) \subseteq Range(u)
    BY <1>2, RangeOf
  <2>2. /\ Wire(Tail(u)) \subseteq Wire(u)
        /\ Head(u).messages \subseteq Wire(u)
    BY <2>1 DEF Wire
  <2> QED
    BY <2>1, <2>2
<1> QED
  BY <1>1, <1>2

\* A request alone is sent: its id is the one it keeps, or a new one.
LEMMA SendTakenStep == SessionInv /\ SendTaken => SessionInv'
<1> SUFFICES ASSUME SessionInv, SendTaken
             PROVE  SessionInv'
  OBVIOUS
<1> DEFINE range == session.sending
           force == session.forceNewId
           fresh == Renumbered(range, force)
           s == Sent(session, range)
<1>1. /\ range # {}
      /\ range \subseteq Requests
      /\ IsFiniteSet(range)
      /\ range \subseteq main.issued
      /\ force \in BOOLEAN
      /\ force => Attempts(up, server) = {}
      /\ session.started
      /\ buffer \in [Requests -> Nat]
      /\ session.lastId \in Nat
      /\ up \in Seq(OnWire)
  BY DEF SessionInv, SessionStateTyped, SessionTyped, MainFits, NewStart, SendTaken
<1>2. buffer' = NewBuffer(range, force)
  BY DEF SendTaken
<1>3. NewlyNumbered(buffer', range, force)
  BY <1>1, <1>2, NewBufferFresh
<1>4. /\ buffer' \in [Requests -> Nat]
      /\ Cardinality(fresh) \in Nat
  BY <1>3 DEF NewlyNumbered
<1>5. /\ SessionTyped(s)
      /\ SameMoves(session, s)
      /\ s.toSend = session.toSend
      /\ Kept(s) \subseteq Kept(session) \cup Messages(range)
  BY <1>1, <1>4, SentKeeps
<1>6. /\ main' = main
      /\ down' = down
      /\ server' = server
      /\ session' = [s EXCEPT !.sending = {},
                              !.lastId = @ + Cardinality(fresh)]
      /\ up' = Append(up, Packet(Smallest(IdsOf(Messages(range))),
                                 Messages(range), {}))
  BY DEF SendTaken, Messages
<1>7. Packet(Smallest(IdsOf(Messages(range))), Messages(range), {}) \in OnWire
  <2>1. Messages(range) \subseteq Entries
    BY <1>1, <1>4 DEF Messages, Entry, Entries
  <2>2. IdsOf(Messages(range)) \subseteq Nat
    BY <2>1 DEF IdsOf, Entries
  <2>3. IdsOf(Messages(range)) # {}
    <3>1. PICK r \in range : TRUE
      BY <1>1
    <3>2. Entry(buffer'[r], r) \in Messages(range)
      BY <3>1 DEF Messages
    <3> QED
      BY <3>2 DEF IdsOf
  <2>4. Smallest(IdsOf(Messages(range))) \in Nat
    BY <2>2, <2>3, SmallestIsIn
  <2> QED
    BY <2>1, <2>4 DEF Packet, OnWire
<1>8. /\ up' \in Seq(OnWire)
      /\ Wire(up') \subseteq Wire(up) \cup Messages(range)
  BY <1>1, <1>6, <1>7, WireOf DEF Packet
<1> DEFINE k == Cardinality(fresh)
<1> HIDE DEF s, k
<1>12. /\ session' = [s EXCEPT !.sending = {}, !.lastId = s.lastId + k]
       /\ s.lastId + k \in Nat
  BY <1>1, <1>4, <1>5, <1>6 DEF k, SameMoves
<1>9. /\ SessionTyped(session)'
      /\ session'.lastId = session.lastId + k
      /\ session'.received = session.received
      /\ session'.toSend \subseteq session.toSend
      /\ session'.sending = {}
      /\ session'.started
      /\ Kept(session') = Kept(s)
  BY <1>1, <1>5, <1>12 DEF SessionTyped, SameMoves, Kept
<1>10. Kept(session') \subseteq Kept(session) \cup Messages(range)
  BY <1>5, <1>9
<1>11. k \in Nat /\ Cardinality(fresh) <= k
  BY <1>4 DEF k
<1> QED
  BY <1>1, <1>2, <1>4, <1>6, <1>8, <1>9, <1>10, <1>11, SendingKeeps

\* So it is with the requests of a container, whose own id is new.
LEMMA SendContainerStep ==
  SessionInv /\ (\E range \in Ranges(session) : SendContainer(range))
    => SessionInv'
<1> SUFFICES ASSUME SessionInv,
                    NEW range \in Ranges(session), SendContainer(range)
             PROVE  SessionInv'
  OBVIOUS
<1> DEFINE force == ~session.started
           fresh == Renumbered(range, force)
           s == Sent(session, range)
<1>1. /\ session.toSend \subseteq Requests
      /\ session.toSend \subseteq main.issued
      /\ force \in BOOLEAN
      /\ force => Attempts(up, server) = {}
      /\ session.sending = {}
      /\ buffer \in [Requests -> Nat]
      /\ session.lastId \in Nat
      /\ up \in Seq(OnWire)
  BY DEF SessionInv, SessionStateTyped, SessionTyped, MainFits, NewStart, SendContainer,
         CanSend, Idle
<1>2. PICK q \in session.toSend : range = {r \in session.toSend : r <= q}
  BY DEF Ranges
<1>3. /\ range \subseteq Requests
      /\ range \subseteq main.issued
      /\ IsFiniteSet(range)
  <2>1. session.toSend \subseteq Nat /\ q \in Nat
    BY <1>1, RequestsAreNat
  <2>2. IsFiniteSet(range)
    BY <1>2, <2>1, UpToIsFinite
  <2> QED
    BY <1>1, <1>2, <2>2
<1>4. buffer' = NewBuffer(range, force)
  BY DEF SendContainer
<1>5. NewlyNumbered(buffer', range, force)
  BY <1>1, <1>3, <1>4, NewBufferFresh
<1>6. /\ buffer' \in [Requests -> Nat]
      /\ Cardinality(fresh) \in Nat
  BY <1>5 DEF NewlyNumbered
<1>7. /\ SessionTyped(s)
      /\ SameMoves(session, s)
      /\ s.toSend = session.toSend
      /\ Kept(s) \subseteq Kept(session) \cup Messages(range)
  BY <1>3, <1>6, SentKeeps
<1>8. PICK containers :
        session' = [s EXCEPT !.toSend = @ \ range,
                             !.started = TRUE,
                             !.lastId = session.lastId + Cardinality(fresh) + 1,
                             !.checkTimer = TRUE,
                             !.containers = containers]
  BY DEF SendContainer
<1>9. /\ main' = main
      /\ down' = down
      /\ server' = server
      /\ up' = Append(up, Packet(session.lastId + Cardinality(fresh) + 1,
                                 Messages(range), {}))
  BY DEF SendContainer, Messages
<1>10. Packet(session.lastId + Cardinality(fresh) + 1, Messages(range), {})
         \in OnWire
  <2>1. Messages(range) \subseteq Entries
    BY <1>3, <1>6 DEF Messages, Entry, Entries
  <2>2. session.lastId + Cardinality(fresh) + 1 \in Nat
    BY <1>1, <1>6
  <2> QED
    BY <2>1, <2>2 DEF Packet, OnWire
<1>11. /\ up' \in Seq(OnWire)
       /\ Wire(up') \subseteq Wire(up) \cup Messages(range)
  BY <1>1, <1>9, <1>10, WireOf DEF Packet
<1> DEFINE k == Cardinality(fresh) + 1
<1>12. /\ session.lastId + Cardinality(fresh) + 1 = session.lastId + k
       /\ k \in Nat
       /\ Cardinality(fresh) <= k
       /\ session.lastId + k \in Nat
  <2>1. \A m, n \in Nat : /\ m + n + 1 = m + (n + 1)
                          /\ n + 1 \in Nat
                          /\ n <= n + 1
                          /\ m + (n + 1) \in Nat
    OBVIOUS
  <2> HIDE DEF fresh
  <2> QED
    BY <1>1, <1>6, <2>1, Zenon
<1> HIDE DEF s, k
<1>13. /\ SessionTyped(session)'
       /\ session'.lastId = session.lastId + k
       /\ session'.received = session.received
       /\ session'.toSend \subseteq session.toSend
       /\ session'.sending = {}
       /\ session'.started
       /\ Kept(session') = Kept(s)
  BY <1>1, <1>7, <1>8, <1>12 DEF SessionTyped, SameMoves, Kept
<1>14. Kept(session') \subseteq Kept(session) \cup Messages(range)
  BY <1>7, <1>13
<1> QED
  BY <1>1, <1>3, <1>4, <1>6, <1>9, <1>11, <1>12, <1>13, <1>14, SendingKeeps

-----------------------------------------------------------------------------
(* Moving requests between the maps.                                       *)

\* The session alone changes, and only in where it keeps its requests.
LEMMA MoveKeeps ==
  ASSUME SessionInv, OthersUnchanged, UNCHANGED <<up, down, server>>,
         SessionTyped(session)', Kept(session') \subseteq Kept(session),
         session'.lastId = session.lastId,
         session'.received = session.received,
         session'.toSend \cup session'.sending
           \subseteq session.toSend \cup session.sending
                       \cup RequestsOf(session.hand),
         IsFiniteSet(session'.sending),
         NewStart'
  PROVE  SessionInv'
<1>1. /\ buffer' = buffer
      /\ main' = main
      /\ up' = up
      /\ down' = down
      /\ server' = server
      /\ up' \in Seq(OnWire)
      /\ down' \in Seq(FromServer)
      /\ ServerTyped(server)'
  BY DEF SessionInv, SessionStateTyped, OthersUnchanged, ServerTyped
<1> QED
  BY <1>1, LessKeeps

\* A request is taken from toSend to be sent alone; when the session is a new
\* one, this decides that it gets a new id.
LEMMA TakeToSendStep == SessionInv /\ TakeToSend => SessionInv'
<1> SUFFICES ASSUME SessionInv, TakeToSend
             PROVE  SessionInv'
  OBVIOUS
<1> DEFINE r == Smallest(session.toSend)
<1>1. /\ session.toSend \subseteq Requests
      /\ session.toSend # {}
      /\ session.started \in BOOLEAN
      /\ SessionTyped(session)
  BY DEF SessionInv, SessionStateTyped, SessionTyped, TakeToSend, CanSend
<1>2. r \in session.toSend
  BY <1>1, RequestsAreNat, SmallestIsIn
<1>3. /\ session' = [session EXCEPT !.toSend = @ \ {r}, !.sending = {r},
                                    !.started = TRUE,
                                    !.forceNewId = ~session.started]
      /\ OthersUnchanged
      /\ UNCHANGED <<up, down, server>>
  BY DEF TakeToSend, NetworkUnchanged
<1> HIDE DEF r
<1>4. SessionTyped(session)'
  <2>1. PICK toSend \in SUBSET Requests, sending \in SUBSET Requests :
          session' = [session EXCEPT !.toSend = toSend, !.sending = sending,
                                     !.started = TRUE,
                                     !.forceNewId = ~session.started]
    BY <1>1, <1>2, <1>3
  <2> QED
    BY <1>1, <2>1 DEF SessionTyped
<1>5. /\ session'.toSend = session.toSend \ {r}
      /\ session'.sending = {r}
      /\ session'.started = TRUE
      /\ session'.forceNewId = ~session.started
      /\ session'.lastId = session.lastId
      /\ session'.received = session.received
      /\ Kept(session') = Kept(session)
  BY <1>1, <1>3 DEF SessionTyped, Kept
<1>6. NewStart'
  BY <1>3, <1>5 DEF NewStart, SessionInv
<1>7. IsFiniteSet({r})
  BY FS_Singleton
<1> QED
  BY <1>2, <1>3, <1>4, <1>5, <1>6, <1>7, MoveKeeps

\* The steps of a resend, and of a new connection.
LEMMA ResendStep ==
  ASSUME SessionInv, SessionTyped(session)', OthersUnchanged,
         UNCHANGED <<up, down, server>>,
         Kept(session') \subseteq Kept(session),
         session'.toSend \subseteq session.toSend \cup RequestsOf(session.hand),
         session'.received = session.received,
         session'.sending = session.sending,
         session'.lastId = session.lastId,
         session'.started = session.started,
         session'.forceNewId = session.forceNewId
  PROVE  SessionInv'
<1>1. NewStart'
  BY DEF NewStart, SessionInv
<1>2. IsFiniteSet(session'.sending)
  BY DEF SessionInv, MainFits
<1> QED
  BY <1>1, <1>2, MoveKeeps

\* resend() takes a message from haveSent.
LEMMA TakeToResendStep == SessionInv /\ TakeToResend => SessionInv'
<1> SUFFICES ASSUME SessionInv, TakeToResend
             PROVE  SessionInv'
  OBVIOUS
<1> DEFINE taken == At(session.haveSent, {Head(session.todo)})
<1>1. SessionTyped(session)
  BY DEF SessionInv, SessionStateTyped
<1>2. /\ session' = [session EXCEPT !.haveSent = @ \ taken, !.hand = taken,
                                    !.todo = Tail(@)]
      /\ OthersUnchanged
      /\ UNCHANGED <<up, down, server>>
  BY DEF TakeToResend, NetworkUnchanged
<1>3. taken \subseteq session.haveSent
  BY DEF At
<1> HIDE DEF taken
<1>4. SessionTyped(session)'
  BY <1>1, <1>2, <1>3 DEF SessionTyped
<1>5. /\ Kept(session') \subseteq Kept(session)
      /\ session'.toSend = session.toSend
      /\ session'.received = session.received
      /\ session'.sending = session.sending
      /\ session'.lastId = session.lastId
      /\ session'.started = session.started
      /\ session'.forceNewId = session.forceNewId
  BY <1>1, <1>2, <1>3 DEF SessionTyped, Kept
<1> QED
  BY <1>2, <1>4, <1>5, ResendStep

\* resend() puts it into toSend and into the map of what is sent again.
LEMMA PutToResendStep == SessionInv /\ PutToResend => SessionInv'
<1> SUFFICES ASSUME SessionInv, PutToResend
             PROVE  SessionInv'
  OBVIOUS
<1> DEFINE resending == Emplace(session.resending, session.hand)
           toSend == session.toSend \cup RequestsOf(session.hand)
<1>1. SessionTyped(session)
  BY DEF SessionInv, SessionStateTyped
<1>2. PICK forced : /\ session' = [session EXCEPT !.resending = resending,
                                                  !.forced = forced,
                                                  !.toSend = toSend,
                                                  !.hand = {}]
                    /\ OthersUnchanged
                    /\ UNCHANGED <<up, down, server>>
  BY DEF PutToResend, NetworkUnchanged
<1>3. /\ resending \subseteq session.resending \cup session.hand
      /\ RequestsOf(session.hand) \subseteq Requests
  BY <1>1 DEF Emplace, RequestsOf, SessionTyped, Entries
<1>4. resending \subseteq Entries /\ toSend \subseteq Requests
  BY <1>1, <1>3 DEF SessionTyped
<1>5. toSend \subseteq session.toSend \cup RequestsOf(session.hand)
  OBVIOUS
<1> HIDE DEF resending, toSend
<1>6. SessionTyped(session)'
  BY <1>1, <1>2, <1>4 DEF SessionTyped
<1>7. /\ Kept(session') \subseteq Kept(session)
      /\ session'.toSend = toSend
      /\ session'.received = session.received
      /\ session'.sending = session.sending
      /\ session'.lastId = session.lastId
      /\ session'.started = session.started
      /\ session'.forceNewId = session.forceNewId
  BY <1>1, <1>2, <1>3 DEF SessionTyped, Kept
<1> QED
  BY <1>2, <1>5, <1>6, <1>7, ResendStep

\* A new connection takes everything from haveSent.
LEMMA ConnectStep == SessionInv /\ Connect => SessionInv'
<1> SUFFICES ASSUME SessionInv, Connect
             PROVE  SessionInv'
  OBVIOUS
<1>1. SessionTyped(session)
  BY DEF SessionInv, SessionStateTyped
<1>2. /\ session' = [session EXCEPT !.link = TRUE, !.hand = session.haveSent,
                                    !.haveSent = {}]
      /\ OthersUnchanged
      /\ UNCHANGED <<up, down, server>>
  BY DEF Connect, NetworkUnchanged
<1>3. SessionTyped(session)'
  BY <1>1, <1>2 DEF SessionTyped
<1>4. /\ Kept(session') \subseteq Kept(session)
      /\ session'.toSend = session.toSend
      /\ session'.received = session.received
      /\ session'.sending = session.sending
      /\ session'.lastId = session.lastId
      /\ session'.started = session.started
      /\ session'.forceNewId = session.forceNewId
  BY <1>1, <1>2 DEF SessionTyped, Kept
<1> QED
  BY <1>2, <1>3, <1>4, ResendStep

\* resend() of a container or a message first leaves the maps alone.
LEMMA ResendKeeps ==
  ASSUME NEW s, SessionTyped(s), NEW id
  PROVE  /\ SessionTyped(Resend(s, id))
         /\ SameMoves(s, Resend(s, id))
         /\ Kept(Resend(s, id)) = Kept(s)
         /\ WaitingIn(Resend(s, id)) = WaitingIn(s)
<1> DEFINE t == Resend(s, id)
<1>1. PICK containers, todo :
        t = [s EXCEPT !.containers = containers, !.todo = todo]
  BY DEF Resend
<1> HIDE DEF t
<1>2. SessionTyped(t) /\ SameMoves(s, t)
  BY <1>1 DEF SessionTyped, SameMoves
<1>3. Kept(t) = Kept(s) /\ WaitingIn(t) = WaitingIn(s)
  BY <1>1 DEF SessionTyped, Kept, WaitingIn
<1> QED
  BY <1>2, <1>3 DEF t

\* An old container is given up.
LEMMA ClearOldContainerStep ==
  SessionInv /\ (\E c \in session.containers : ClearOldContainer(c))
    => SessionInv'
<1> SUFFICES ASSUME SessionInv, NEW c \in session.containers,
                    ClearOldContainer(c)
             PROVE  SessionInv'
  OBVIOUS
<1>1. /\ session' = Resend(session, c.id)
      /\ OthersUnchanged
      /\ UNCHANGED <<up, down, server>>
  BY DEF ClearOldContainer
<1>2. SessionTyped(session)
  BY DEF SessionInv, SessionStateTyped
<1>3. /\ SessionTyped(session)'
      /\ SameMoves(session, session')
      /\ Kept(session') = Kept(session)
  BY <1>1, <1>2, ResendKeeps
<1> QED
  BY <1>1, <1>3, ResendStep DEF SameMoves

\* Nothing is on an empty wire.
LEMMA NothingOnWire ==
  /\ <<>> \in Seq(OnWire)
  /\ <<>> \in Seq(FromServer)
  /\ Range(<<>>) = {}
  /\ Wire(<<>>) = {}
BY DEF Range, Wire

\* What is on the wire is lost with the connection.
LEMMA DisconnectStep == SessionInv /\ Disconnect => SessionInv'
<1> SUFFICES ASSUME SessionInv, Disconnect
             PROVE  SessionInv'
  OBVIOUS
<1>1. SessionTyped(session) /\ ServerTyped(server)
  BY DEF SessionInv, SessionStateTyped
<1>2. /\ session' = [session EXCEPT !.link = FALSE]
      /\ up' = <<>>
      /\ down' = <<>>
      /\ buffer' = buffer
      /\ main' = main
      /\ server' = server
  BY DEF Disconnect, Restart, OthersUnchanged
<1>3. SessionTyped(session)' /\ ServerTyped(server)'
  BY <1>1, <1>2 DEF SessionTyped, ServerTyped
<1>4. /\ Kept(session') = Kept(session)
      /\ session'.toSend = session.toSend
      /\ session'.received = session.received
      /\ session'.sending = session.sending
      /\ session'.lastId = session.lastId
      /\ session'.started = session.started
      /\ session'.forceNewId = session.forceNewId
  BY <1>1, <1>2 DEF SessionTyped, Kept
<1>5. NewStart'
  BY <1>2, <1>4, NothingOnWire DEF NewStart, SessionInv, Attempts
<1>6. IsFiniteSet(session'.sending)
  BY <1>4 DEF SessionInv, MainFits
<1> QED
  BY <1>2, <1>3, <1>4, <1>5, <1>6, NothingOnWire, LessKeeps

\* A packet without requests leaves for the server, or none does.
LEMMA ServiceStep ==
  ASSUME SessionInv, OthersUnchanged, UNCHANGED <<down, server>>,
         SessionTyped(session)', SameMoves(session, session'),
         Kept(session') = Kept(session),
         up' \in Seq(OnWire), Wire(up') \subseteq Wire(up)
  PROVE  SessionInv'
<1>1. /\ buffer' = buffer
      /\ main' = main
      /\ down' = down
      /\ server' = server
      /\ down' \in Seq(FromServer)
      /\ ServerTyped(server)'
  BY DEF SessionInv, SessionStateTyped, OthersUnchanged, ServerTyped
<1>2. NewStart'
  BY <1>1 DEF NewStart, SessionInv, Attempts, SameMoves
<1>3. IsFiniteSet(session'.sending)
  BY DEF SessionInv, MainFits, SameMoves
<1> QED
  BY <1>1, <1>2, <1>3, LessKeeps DEF SameMoves

\* A ping has no requests in it.
LEMMA PingStep == SessionInv /\ Ping => SessionInv'
<1> SUFFICES ASSUME SessionInv, Ping
             PROVE  SessionInv'
  OBVIOUS
<1> DEFINE p == Packet(session.lastId + 1, {}, {})
<1>1. /\ up = <<>>
      /\ up' = <<p>>
      /\ session' = session
      /\ OthersUnchanged
      /\ UNCHANGED <<down, server>>
  BY DEF Ping
<1>2. SessionTyped(session) /\ session.lastId + 1 \in Nat
  BY DEF SessionInv, SessionStateTyped, SessionTyped
<1>3. p \in OnWire /\ p.messages = {}
  BY <1>2 DEF Packet, OnWire
<1> HIDE DEF p
<1>4. up' = Append(up, p) /\ up \in Seq(OnWire)
  BY <1>1, NothingOnWire
<1>5. up' \in Seq(OnWire) /\ Wire(up') \subseteq Wire(up)
  BY <1>3, <1>4, WireOf
<1>6. SessionTyped(session)' /\ SameMoves(session, session')
  BY <1>1, <1>2 DEF SessionTyped, SameMoves
<1>7. Kept(session') = Kept(session)
  BY <1>1
<1> QED
  BY <1>1, <1>5, <1>6, <1>7, ServiceStep

\* Neither has the question for the state of what was sent.
LEMMA CheckSentRequestsStep == SessionInv /\ CheckSentRequests => SessionInv'
<1> SUFFICES ASSUME SessionInv, CheckSentRequests
             PROVE  SessionInv'
  OBVIOUS
<1> DEFINE p == Packet(session.lastId + 1, {}, IdsOf(session.haveSent))
<1>1. /\ session' = [session EXCEPT !.checkTimer = FALSE]
      /\ up' = IF session.haveSent = {} THEN up ELSE Append(up, p)
      /\ OthersUnchanged
      /\ UNCHANGED <<down, server>>
  BY DEF CheckSentRequests
<1>2. /\ SessionTyped(session)
      /\ up \in Seq(OnWire)
      /\ session.lastId + 1 \in Nat
  BY DEF SessionInv, SessionStateTyped, SessionTyped
<1>3. IdsOf(session.haveSent) \subseteq Nat
  BY <1>2 DEF SessionTyped, IdsOf, Entries
<1>4. p \in OnWire /\ p.messages = {}
  BY <1>2, <1>3 DEF Packet, OnWire
<1> HIDE DEF p
<1>5. up' \in Seq(OnWire) /\ Wire(up') \subseteq Wire(up)
  BY <1>1, <1>2, <1>4, WireOf
<1>6. SessionTyped(session)' /\ SameMoves(session, session')
  BY <1>1, <1>2 DEF SessionTyped, SameMoves
<1>7. Kept(session') = Kept(session)
  BY <1>1, <1>2 DEF SessionTyped, Kept
<1> QED
  BY <1>1, <1>5, <1>6, <1>7, ServiceStep

-----------------------------------------------------------------------------
(* Receiving.                                                              *)

\* A message that arrives is registered, and the maps stay as they are.
LEMMA ArrivedIs ==
  ASSUME SessionInv, NEW kind, Arrives(kind)
  PROVE  /\ SessionTyped(session)
         /\ SessionTyped(Registered)
         /\ SameMoves(session, Registered)
         /\ Kept(Registered) = Kept(session)
         /\ WaitingIn(Registered) = WaitingIn(session)
         /\ Message \in Range(down)
         /\ Message.kind = kind
         /\ Message \in FromServer
         /\ down' \in Seq(FromServer)
         /\ Range(down') \subseteq Range(down)
         /\ buffer' = buffer
         /\ main' = main
         /\ up' = up
         /\ server' = server
<1>1. SessionTyped(session) /\ down \in Seq(FromServer)
  BY DEF SessionInv, SessionStateTyped
<1>2. /\ down # <<>>
      /\ down' = Tail(down)
      /\ Message.kind = kind
      /\ buffer' = buffer
      /\ main' = main
      /\ up' = up
      /\ server' = server
  BY DEF Arrives
<1>3. PICK seen : Registered = [session EXCEPT !.seen = seen]
  BY DEF Registered
<1>4. /\ SessionTyped(Registered)
      /\ SameMoves(session, Registered)
  BY <1>1, <1>3 DEF SessionTyped, SameMoves
<1>5. /\ Kept(Registered) = Kept(session)
      /\ WaitingIn(Registered) = WaitingIn(session)
  BY <1>1, <1>3 DEF SessionTyped, Kept, WaitingIn
<1>6. /\ Message \in FromServer
      /\ Message \in Range(down)
      /\ down' \in Seq(FromServer)
      /\ Range(down') \subseteq Range(down)
  BY <1>1, <1>2, RangeOf DEF Message
<1> QED
  BY <1>1, <1>2, <1>4, <1>5, <1>6

\* Whatever a message makes of the session, it takes from it, but for a
\* response with what the message says.
LEMMA ArrivesKeeps ==
  ASSUME SessionInv, NEW kind, Arrives(kind),
         SessionTyped(session)', Kept(session') \subseteq Kept(session),
         session'.toSend \subseteq session.toSend,
         session'.sending = session.sending,
         session'.lastId = session.lastId,
         session'.started = session.started,
         session'.forceNewId = session.forceNewId,
         \A m \in Range(session'.received) :
           \/ m \in Range(session.received)
           \/ /\ m.of = Message.of
              /\ m.error = Message.error
              /\ m.request = m.of
  PROVE  SessionInv'
<1>1. /\ Message \in Range(down)
      /\ down' \in Seq(FromServer)
      /\ Range(down') \subseteq Range(down)
      /\ buffer' = buffer
      /\ main' = main
      /\ up' = up
      /\ server' = server
  BY ArrivedIs
<1>2. up' \in Seq(OnWire) /\ ServerTyped(server)'
  BY <1>1 DEF SessionInv, SessionStateTyped, ServerTyped
<1>3. NewStart'
  BY <1>1 DEF NewStart, SessionInv, Attempts
<1>4. IsFiniteSet(session'.sending)
  BY DEF SessionInv, MainFits
<1> QED
  BY <1>1, <1>2, <1>3, <1>4, LessKeeps

\* No response.
LEMMA ArrivesQuietly ==
  ASSUME SessionInv, NEW kind, Arrives(kind),
         SessionTyped(session)', Kept(session') \subseteq Kept(session),
         SameMoves(session, session')
  PROVE  SessionInv'
BY ArrivesKeeps DEF SameMoves

\* What a result or a refusal is for, if the session knows it.
LEMMA WasSentIsOwn ==
  ASSUME SessionInv, NEW kind \in {"result", "fatal"}, Arrives(kind),
         NEW s, Kept(s) \subseteq Kept(session),
         NEW r \in WasSent(s, Message.to)
  PROVE  r = Message.of /\ r \in Requests
<1>1. Message \in Range(down) /\ Message.kind = kind
  BY ArrivedIs
<1>2. Entry(Message.to, Message.of) \in Promised(down)
  BY <1>1 DEF Promised
<1>3. PICK e \in Kept(s) : e.id = Message.to /\ e.request = r
  BY WasSentIsKept
<1>4. /\ e \in Named(session, buffer, main, up, down, server)
      /\ Entry(Message.to, Message.of)
           \in Named(session, buffer, main, up, down, server)
  BY <1>2, <1>3 DEF Named
<1>5. e = Entry(Message.to, Message.of) /\ e \in Entries
  BY <1>3, <1>4 DEF SessionInv, Owned, Agree, Entry
<1> QED
  BY <1>3, <1>5 DEF Entry, Entries

\* A response is for the request that its message id stands for, and the
\* result is the one to that: nobody else has had the id.
LEMMA RespondKeeps ==
  ASSUME SessionInv, NEW kind \in {"result", "fatal"}, Arrives(kind),
         NEW s, SessionTyped(s), Kept(s) \subseteq Kept(session),
         SameMoves(session, s),
         NEW t, Kept(t) \subseteq Kept(session),
         session' = [s EXCEPT !.received = Respond(@, WasSent(t, Message.to))]
  PROVE  SessionInv'
<1> DEFINE requests == WasSent(t, Message.to)
           response == [request |-> CHOOSE r \in requests : TRUE,
                        of      |-> Message.of,
                        error   |-> Message.error]
           received == Respond(s.received, requests)
<1>1. Message \in FromServer
  BY ArrivedIs
<1>2. s.received = session.received /\ s.received \in Seq(Response)
  BY DEF SessionTyped, SameMoves
<1>3. received = IF requests = {} THEN s.received
                 ELSE Append(s.received, response)
  BY DEF Respond
<1>4. requests # {} => (CHOOSE r \in requests : TRUE) \in requests
  OBVIOUS
<1>5. \A r \in requests : r = Message.of /\ r \in Requests
  BY WasSentIsOwn
<1> HIDE DEF requests, received
<1>6. requests # {} => /\ response \in Response
                       /\ response.request = Message.of
                       /\ response.of = Message.of
                       /\ response.error = Message.error
  BY <1>1, <1>4, <1>5 DEF Response, FromServer
<1> HIDE DEF response
<1>7. /\ received \in Seq(Response)
      /\ Range(received) \subseteq Range(session.received)
                                     \cup {m \in {response} : requests # {}}
  <2>1. CASE requests = {}
    BY <2>1, <1>2, <1>3
  <2>2. CASE requests # {}
    BY <2>2, <1>2, <1>3, <1>6, RangeOf
  <2> QED
    BY <2>1, <2>2
<1>8. session' = [s EXCEPT !.received = received]
  BY DEF received, requests
<1>9. /\ SessionTyped(session)'
      /\ session'.received = received
      /\ session'.toSend \subseteq session.toSend
      /\ session'.sending = session.sending
      /\ session'.lastId = session.lastId
      /\ session'.started = session.started
      /\ session'.forceNewId = session.forceNewId
  BY <1>7, <1>8 DEF SessionTyped, SameMoves
<1>10. Kept(session') = Kept(s)
  BY <1>8 DEF SessionTyped, Kept
<1>11. \A m \in Range(session'.received) :
         \/ m \in Range(session.received)
         \/ /\ m.of = Message.of
            /\ m.error = Message.error
            /\ m.request = m.of
  BY <1>6, <1>7, <1>9
<1> QED
  BY <1>9, <1>10, <1>11, ArrivesKeeps

\* rpc_result.
LEMMA ReceiveResultStep == SessionInv /\ ReceiveResult => SessionInv'
<1> SUFFICES ASSUME SessionInv, ReceiveResult
             PROVE  SessionInv'
  OBVIOUS
<1> DEFINE s == RequestsAcked(Registered, {Message.to}, TRUE, main.handlers)
<1>1. /\ Arrives("result")
      /\ session' = [s EXCEPT !.received = Respond(@, WasSent(s, Message.to))]
  BY DEF ReceiveResult
<1>2. /\ SessionTyped(Registered)
      /\ SameMoves(session, Registered)
      /\ Kept(Registered) = Kept(session)
  BY <1>1, ArrivedIs
<1>3. /\ SessionTyped(s)
      /\ SameMoves(Registered, s)
      /\ Kept(s) \subseteq Kept(Registered)
  BY <1>2, RequestsAckedKeeps
<1> HIDE DEF s
<1>4. SameMoves(session, s) /\ Kept(s) \subseteq Kept(session)
  BY <1>2, <1>3 DEF SameMoves
<1>5. "result" \in {"result", "fatal"}
  OBVIOUS
<1> QED
  BY <1>1, <1>3, <1>4, <1>5, RespondKeeps

\* bad_msg_notification for which the request fails.
LEMMA ReceiveFatalStep == SessionInv /\ ReceiveFatal => SessionInv'
<1> SUFFICES ASSUME SessionInv, ReceiveFatal
             PROVE  SessionInv'
  OBVIOUS
<1>1. /\ Arrives("fatal")
      /\ session' = [Registered EXCEPT !.received =
                       Respond(@, WasSent(session, Message.to))]
  BY DEF ReceiveFatal
<1>2. /\ SessionTyped(Registered)
      /\ SameMoves(session, Registered)
      /\ Kept(Registered) = Kept(session)
  BY <1>1, ArrivedIs
<1>3. "fatal" \in {"result", "fatal"}
  OBVIOUS
<1> QED
  BY <1>1, <1>2, <1>3, RespondKeeps

\* msgs_ack.
LEMMA ReceiveAckStep == SessionInv /\ ReceiveAck => SessionInv'
<1> SUFFICES ASSUME SessionInv, ReceiveAck
             PROVE  SessionInv'
  OBVIOUS
<1>1. /\ Arrives("ack")
      /\ session' =
           RequestsAcked(Registered, {Message.to}, FALSE, main.handlers)
  BY DEF ReceiveAck
<1>2. /\ SessionTyped(Registered)
      /\ SameMoves(session, Registered)
      /\ Kept(Registered) = Kept(session)
  BY <1>1, ArrivedIs
<1>3. /\ SessionTyped(session')
      /\ SameMoves(Registered, session')
      /\ Kept(session') \subseteq Kept(Registered)
  BY <1>1, <1>2, RequestsAckedKeeps
<1>4. SameMoves(session, session')
  BY <1>2, <1>3 DEF SameMoves
<1> QED
  BY <1>1, <1>2, <1>3, <1>4, ArrivesQuietly

\* bad_msg_notification for which the message is sent again.
LEMMA ReceiveBadMessageStep == SessionInv /\ ReceiveBadMessage => SessionInv'
<1> SUFFICES ASSUME SessionInv, ReceiveBadMessage
             PROVE  SessionInv'
  OBVIOUS
<1>1. /\ Arrives("resend")
      /\ \/ session' = Resend(Registered, Message.to)
         \/ session' = Registered
  BY DEF ReceiveBadMessage
<1>2. /\ SessionTyped(Registered)
      /\ SameMoves(session, Registered)
      /\ Kept(Registered) = Kept(session)
  BY <1>1, ArrivedIs
<1>3. LET t == Resend(Registered, Message.to)
      IN /\ SessionTyped(t)
         /\ SameMoves(Registered, t)
         /\ Kept(t) = Kept(Registered)
  BY <1>2, ResendKeeps
<1>4. /\ SessionTyped(session')
      /\ SameMoves(session, session')
      /\ Kept(session') = Kept(session)
  BY <1>1, <1>2, <1>3 DEF SameMoves
<1> QED
  BY <1>1, <1>4, ArrivesQuietly

\* What remains to be looked at is nobody's type.
LEMMA TodoKeeps ==
  ASSUME NEW s, SessionTyped(s), NEW todo
  PROVE  LET t == [s EXCEPT !.todo = todo]
         IN /\ SessionTyped(t)
            /\ SameMoves(s, t)
            /\ Kept(t) = Kept(s)
            /\ WaitingIn(t) = WaitingIn(s)
<1> DEFINE t == [s EXCEPT !.todo = todo]
<1>1. SessionTyped(t) /\ SameMoves(s, t)
  BY DEF SessionTyped, SameMoves
<1>2. Kept(t) = Kept(s) /\ WaitingIn(t) = WaitingIn(s)
  BY DEF SessionTyped, Kept, WaitingIn
<1> QED
  BY <1>1, <1>2

\* msgs_state_info.
LEMMA ReceiveStatesStep == SessionInv /\ ReceiveStates => SessionInv'
<1> SUFFICES ASSUME SessionInv, ReceiveStates
             PROVE  SessionInv'
  OBVIOUS
<1> DEFINE s == RequestsAcked(Registered, Message.got, FALSE, main.handlers)
<1>1. PICK todo : Arrives("states") /\ session' = [s EXCEPT !.todo = todo]
  BY DEF ReceiveStates
<1>2. /\ SessionTyped(Registered)
      /\ SameMoves(session, Registered)
      /\ Kept(Registered) = Kept(session)
  BY <1>1, ArrivedIs
<1>3. /\ SessionTyped(s)
      /\ SameMoves(Registered, s)
      /\ Kept(s) \subseteq Kept(Registered)
  BY <1>2, RequestsAckedKeeps
<1> HIDE DEF s
<1>4. /\ SessionTyped(session')
      /\ SameMoves(s, session')
      /\ Kept(session') = Kept(s)
  BY <1>1, <1>3, TodoKeeps
<1>5. SameMoves(session, session')
  BY <1>2, <1>3, <1>4 DEF SameMoves
<1> QED
  BY <1>1, <1>2, <1>3, <1>4, <1>5, ArrivesQuietly

\* new_session_created.
LEMMA ReceiveNewSessionStep == SessionInv /\ ReceiveNewSession => SessionInv'
<1> SUFFICES ASSUME SessionInv, ReceiveNewSession
             PROVE  SessionInv'
  OBVIOUS
<1>1. PICK todo : /\ Arrives("newSession")
                  /\ session' = [Registered EXCEPT !.todo = todo]
  BY DEF ReceiveNewSession
<1>2. /\ SessionTyped(Registered)
      /\ SameMoves(session, Registered)
      /\ Kept(Registered) = Kept(session)
  BY <1>1, ArrivedIs
<1>3. /\ SessionTyped(session')
      /\ SameMoves(Registered, session')
      /\ Kept(session') = Kept(Registered)
  BY <1>1, <1>2, TodoKeeps
<1>4. SameMoves(session, session')
  BY <1>2, <1>3 DEF SameMoves
<1> QED
  BY <1>1, <1>2, <1>3, <1>4, ArrivesQuietly

\* bad_msg_notification about something unknown.
LEMMA ReceiveUnknownResetStep ==
  SessionInv /\ ReceiveUnknownReset => SessionInv'
<1> SUFFICES ASSUME SessionInv, ReceiveUnknownReset
             PROVE  SessionInv'
  OBVIOUS
<1>1. Arrives("reset") /\ session' = Registered
  BY DEF ReceiveUnknownReset
<1>2. /\ SessionTyped(Registered)
      /\ SameMoves(session, Registered)
      /\ Kept(Registered) = Kept(session)
  BY <1>1, ArrivedIs
<1> QED
  BY <1>1, <1>2, ArrivesQuietly

\* A message that has been handled is dropped.
LEMMA ReceiveDuplicateStep == SessionInv /\ ReceiveDuplicate => SessionInv'
<1> SUFFICES ASSUME SessionInv, ReceiveDuplicate
             PROVE  SessionInv'
  OBVIOUS
<1>1. /\ SessionTyped(session)
      /\ down \in Seq(FromServer)
      /\ up \in Seq(OnWire)
      /\ ServerTyped(server)
  BY DEF SessionInv, SessionStateTyped
<1>2. /\ down # <<>>
      /\ down' = Tail(down)
      /\ buffer' = buffer
      /\ main' = main
      /\ session' = session
      /\ up' = up
      /\ server' = server
  BY DEF ReceiveDuplicate, OthersUnchanged
<1>3. down' \in Seq(FromServer) /\ Range(down') \subseteq Range(down)
  BY <1>1, <1>2, RangeOf
<1>4. SessionTyped(session)' /\ ServerTyped(server)'
  BY <1>1, <1>2 DEF SessionTyped, ServerTyped
<1>5. NewStart'
  BY <1>2 DEF NewStart, SessionInv, Attempts
<1>6. IsFiniteSet(session'.sending)
  BY <1>2 DEF SessionInv, MainFits
<1> QED
  BY <1>1, <1>2, <1>3, <1>4, <1>5, <1>6, LessKeeps

\* The session begins anew: what was under an old id is neither on the wire
\* nor known to the server, so that everything may get a new id.
LEMMA ReceiveResetStep == SessionInv /\ ReceiveReset => SessionInv'
<1> SUFFICES ASSUME SessionInv, ReceiveReset
             PROVE  SessionInv'
  OBVIOUS
<1>1. SessionTyped(session) /\ ServerTyped(server)
  BY DEF SessionInv, SessionStateTyped
<1>2. /\ session' = [[session EXCEPT !.link = FALSE]
                       EXCEPT !.started = FALSE, !.seen = {}]
      /\ server' = [server EXCEPT !.alive = FALSE, !.done = {}, !.owed = {}]
      /\ up' = <<>>
      /\ down' = <<>>
      /\ buffer' = buffer
      /\ main' = main
      /\ session.sending = {}
  BY DEF ReceiveReset, ResetSession, Restart, OthersUnchanged, Idle
<1>3. SessionTyped(session)'
  BY <1>1, <1>2 DEF SessionTyped
<1>4. ServerTyped(server)' /\ server'.done = {} /\ server'.failed = server.failed
  BY <1>1, <1>2 DEF ServerTyped
<1>5. /\ Kept(session') = Kept(session)
      /\ session'.toSend = session.toSend
      /\ session'.received = session.received
      /\ session'.sending = {}
      /\ session'.lastId = session.lastId
  BY <1>1, <1>2 DEF SessionTyped, Kept
<1>6. Executed(server') = {}
  BY <1>4 DEF Executed
<1>7. NewStart'
  BY <1>2, <1>5, <1>6, NothingOnWire DEF NewStart, Attempts
<1> QED
  BY <1>2, <1>3, <1>4, <1>5, <1>7, NothingOnWire, FS_EmptySet, LessKeeps

-----------------------------------------------------------------------------
(* The main thread.                                                        *)

\* It may reset the buffers of requests that were not sent, or that failed.
LEMMA MainKeeps ==
  ASSUME SessionInv, UNCHANGED <<up, down, server>>,
         buffer' \in [Requests -> Nat], MainTyped(main)',
         SessionTyped(session)', Kept(session') \subseteq Kept(session),
         session'.sending = session.sending,
         session'.lastId = session.lastId,
         session'.started = session.started,
         session'.forceNewId = session.forceNewId,
         Range(session'.received) \subseteq Range(session.received),
         Buffered(buffer') \subseteq Buffered(buffer),
         BeingCancelled(main')
           \subseteq BeingCancelled(main) \cup Buffered(buffer),
         main.issued \subseteq main'.issued,
         session'.toSend \subseteq main'.issued,
         \A e \in Attempts(up, server) :
           e.request \in server.failed
             \/ buffer'[e.request] = buffer[e.request],
         main'.delayed \subseteq server.failed,
         main'.handlers \subseteq main'.known \cup RequestsOf(main'.cancelling),
         main'.known \subseteq main'.issued,
         \A c, d \in main'.cancelling : c = d
  PROVE  SessionInv'
<1> USE DEF SessionInv
<1>1. up' = up /\ down' = down /\ server' = server
  OBVIOUS
<1>2. SessionStateTyped'
  BY <1>1 DEF SessionStateTyped, ServerTyped
<1>3. Named(session, buffer, main, up, down, server)'
        \subseteq Named(session, buffer, main, up, down, server)
  BY <1>1 DEF Named
<1>4. Owned'
  BY <1>3, AgreeShrinks DEF Owned
<1>5. Current'
  BY <1>1 DEF Current
<1>6. Keyed' /\ Failing' /\ NewStart' /\ OwnAnswers'
  BY <1>1 DEF Keyed, Failing, NewStart, OwnAnswers
<1>7. MainFits'
  BY DEF MainFits
<1> QED
  BY <1>2, <1>4, <1>5, <1>6, <1>7

\* A request that is sent as a new one loses its id.
LEMMA BufferReset ==
  ASSUME buffer \in [Requests -> Nat], NEW r \in Requests,
         buffer' = [buffer EXCEPT ![r] = 0]
  PROVE  /\ buffer' \in [Requests -> Nat]
         /\ Buffered(buffer') \subseteq Buffered(buffer)
         /\ \A q \in Requests : q # r => buffer'[q] = buffer[q]
<1>1. /\ buffer' \in [Requests -> Nat]
      /\ \A q \in Requests : q # r => buffer'[q] = buffer[q]
      /\ buffer'[r] = 0
  OBVIOUS
<1>2. Buffered(buffer') \subseteq Buffered(buffer)
  BY <1>1 DEF Buffered
<1> QED
  BY <1>1, <1>2

\* Only what the program issued gets to the server.
LEMMA AttemptsAreOf ==
  ASSUME SessionInv
  PROVE  \A e \in Attempts(up, server) :
           e.request \in Requests /\ e.request \in main.issued
<1>1. Attempts(up, server)
        \subseteq Named(session, buffer, main, up, down, server)
  BY DEF Attempts, Named
<1> QED
  BY <1>1 DEF SessionInv, Owned, Agree, Entries, Current

\* A change of toSend leaves everything else alone.
LEMMA ToSendKeeps ==
  ASSUME NEW s, SessionTyped(s), NEW toSend, toSend \subseteq Requests
  PROVE  LET t == [s EXCEPT !.toSend = toSend]
         IN /\ SessionTyped(t)
            /\ Kept(t) = Kept(s)
            /\ t.toSend = toSend
            /\ t.received = s.received
            /\ t.sending = s.sending
            /\ t.lastId = s.lastId
            /\ t.started = s.started
            /\ t.forceNewId = s.forceNewId
<1> DEFINE t == [s EXCEPT !.toSend = toSend]
<1>1. SessionTyped(t)
  BY DEF SessionTyped
<1>2. /\ Kept(t) = Kept(s)
      /\ t.toSend = toSend
      /\ t.received = s.received
      /\ t.sending = s.sending
      /\ t.lastId = s.lastId
      /\ t.started = s.started
      /\ t.forceNewId = s.forceNewId
  BY DEF SessionTyped, Kept
<1> QED
  BY <1>1, <1>2

\* sendRequest(): a request that was never issued is known to nobody.
LEMMA IssueStep ==
  ASSUME SessionInv, NEW r \in Requests, Issue(r)
  PROVE  SessionInv'
<1>1. /\ MainTyped(main)
      /\ SessionTyped(session)
      /\ buffer \in [Requests -> Nat]
      /\ main.cancelling = {}
      /\ r \notin main.issued
  BY DEF SessionInv, SessionStateTyped, Issue, MainIdle
<1>2. /\ main' = [main EXCEPT !.issued = @ \cup {r},
                              !.known = @ \cup {r},
                              !.handlers = @ \cup ({r} \ Quiet)]
      /\ session' = [session EXCEPT !.toSend = session.toSend \cup {r}]
      /\ buffer' = [buffer EXCEPT ![r] = 0]
      /\ UNCHANGED <<up, down, server>>
  BY DEF Issue, NetworkUnchanged
<1>3. /\ MainTyped(main)'
      /\ main'.issued = main.issued \cup {r}
      /\ main'.known = main.known \cup {r}
      /\ main'.handlers = main.handlers \cup ({r} \ Quiet)
      /\ main'.delayed = main.delayed
      /\ main'.cancelling = {}
  BY <1>1, <1>2 DEF MainTyped
<1>4. session.toSend \cup {r} \subseteq Requests
  BY <1>1 DEF SessionTyped
<1>5. /\ SessionTyped(session)'
      /\ Kept(session') \subseteq Kept(session)
      /\ session'.toSend = session.toSend \cup {r}
      /\ session'.received = session.received
      /\ session'.sending = session.sending
      /\ session'.lastId = session.lastId
      /\ session'.started = session.started
      /\ session'.forceNewId = session.forceNewId
  BY <1>1, <1>2, <1>4, ToSendKeeps
<1>6. /\ buffer' \in [Requests -> Nat]
      /\ Buffered(buffer') \subseteq Buffered(buffer)
      /\ \A q \in Requests : q # r => buffer'[q] = buffer[q]
  BY <1>1, <1>2, BufferReset
<1>7. BeingCancelled(main') \subseteq BeingCancelled(main)
  BY <1>3 DEF BeingCancelled
<1>8. \A e \in Attempts(up, server) : buffer'[e.request] = buffer[e.request]
  BY <1>1, <1>6, AttemptsAreOf
<1>9. /\ main'.delayed \subseteq server.failed
      /\ session'.toSend \subseteq main'.issued
      /\ main'.handlers \subseteq main'.known
      /\ main'.known \subseteq main'.issued
  BY <1>1, <1>3, <1>5 DEF SessionInv, Failing, MainFits, RequestsOf
<1> QED
  BY <1>2, <1>3, <1>5, <1>6, <1>7, <1>8, <1>9, MainKeeps

\* A cancel reads the id of the request in its buffer.
LEMMA StartCancelStep ==
  ASSUME SessionInv, NEW r \in Requests, StartCancel(r)
  PROVE  SessionInv'
<1> DEFINE c == [request |-> r, id |-> buffer[r], queued |-> TRUE]
<1>1. /\ MainTyped(main)
      /\ SessionTyped(session)
      /\ buffer \in [Requests -> Nat]
      /\ main.cancelling = {}
  BY DEF SessionInv, SessionStateTyped, StartCancel, MainIdle
<1>2. /\ main' = [main EXCEPT !.cancelling = {c}, !.known = @ \ {r}]
      /\ session' = session
      /\ buffer' = buffer
      /\ UNCHANGED <<up, down, server>>
  BY DEF StartCancel
<1>3. c \in [request : Requests, id : Nat, queued : BOOLEAN]
  BY <1>1
<1>4. Entry(c.id, c.request) = Entry(buffer[r], r) /\ c.id = buffer[r]
  OBVIOUS
<1> HIDE DEF c
<1>5. /\ MainTyped(main)'
      /\ main'.issued = main.issued
      /\ main'.known = main.known \ {r}
      /\ main'.handlers = main.handlers
      /\ main'.delayed = main.delayed
      /\ main'.cancelling = {c}
  BY <1>1, <1>2, <1>3 DEF MainTyped
<1>6. BeingCancelled(main') \subseteq Buffered(buffer)
  BY <1>4, <1>5 DEF BeingCancelled, Buffered
<1>7. RequestsOf(main'.cancelling) = {r}
  BY <1>5 DEF RequestsOf, c
<1>8. /\ main'.handlers \subseteq main'.known \cup RequestsOf(main'.cancelling)
      /\ main'.known \subseteq main'.issued
      /\ main'.delayed \subseteq server.failed
      /\ session'.toSend \subseteq main'.issued
  BY <1>1, <1>2, <1>5, <1>7 DEF SessionInv, MainFits, Failing, RequestsOf
<1>9. SessionTyped(session)' /\ buffer' \in [Requests -> Nat]
  BY <1>1, <1>2 DEF SessionTyped
<1> QED
  BY <1>2, <1>5, <1>6, <1>8, <1>9, MainKeeps

\* A cancel takes the request from toSend.
LEMMA CancelQueuedStep ==
  ASSUME SessionInv, NEW c \in main.cancelling, CancelQueued(c)
  PROVE  SessionInv'
<1> DEFINE d == [c EXCEPT !.queued = FALSE]
<1>1. /\ MainTyped(main)
      /\ SessionTyped(session)
      /\ buffer \in [Requests -> Nat]
      /\ main.cancelling = {c}
      /\ c \in [request : Requests, id : Nat, queued : BOOLEAN]
  BY DEF SessionInv, SessionStateTyped, MainFits, MainTyped
<1>2. /\ main' = [main EXCEPT !.cancelling = {d}]
      /\ session' = [session EXCEPT !.toSend = session.toSend \ {c.request}]
      /\ buffer' = buffer
      /\ UNCHANGED <<up, down, server>>
  BY DEF CancelQueued, NetworkUnchanged
<1>3. /\ d \in [request : Requests, id : Nat, queued : BOOLEAN]
      /\ d.request = c.request
      /\ d.id = c.id
  BY <1>1
<1> HIDE DEF d
<1>4. /\ MainTyped(main)'
      /\ main'.issued = main.issued
      /\ main'.known = main.known
      /\ main'.handlers = main.handlers
      /\ main'.delayed = main.delayed
      /\ main'.cancelling = {d}
  BY <1>1, <1>2, <1>3 DEF MainTyped
<1>5. BeingCancelled(main') \subseteq BeingCancelled(main)
  BY <1>1, <1>3, <1>4 DEF BeingCancelled, Entry
<1>6. RequestsOf(main'.cancelling) = RequestsOf(main.cancelling)
  BY <1>1, <1>3, <1>4 DEF RequestsOf
<1>7. session.toSend \ {c.request} \subseteq Requests
  BY <1>1 DEF SessionTyped
<1>8. /\ SessionTyped(session)'
      /\ Kept(session') \subseteq Kept(session)
      /\ session'.toSend = session.toSend \ {c.request}
      /\ session'.received = session.received
      /\ session'.sending = session.sending
      /\ session'.lastId = session.lastId
      /\ session'.started = session.started
      /\ session'.forceNewId = session.forceNewId
  BY <1>1, <1>2, <1>7, ToSendKeeps
<1>9. /\ main'.handlers \subseteq main'.known \cup RequestsOf(main'.cancelling)
      /\ main'.known \subseteq main'.issued
      /\ main'.delayed \subseteq server.failed
      /\ session'.toSend \subseteq main'.issued
  BY <1>4, <1>6, <1>8 DEF SessionInv, MainFits, Failing
<1> QED
  BY <1>1, <1>2, <1>4, <1>5, <1>8, <1>9, MainKeeps

\* A cancel takes what has the id it read from haveSent.
LEMMA CancelSentStep ==
  ASSUME SessionInv, NEW c \in main.cancelling, CancelSent(c)
  PROVE  SessionInv'
<1> DEFINE haveSent == session.haveSent \ At(session.haveSent, {c.id})
<1>1. /\ MainTyped(main)
      /\ SessionTyped(session)
      /\ buffer \in [Requests -> Nat]
      /\ main.cancelling = {c}
  BY DEF SessionInv, SessionStateTyped, MainFits
<1>2. /\ main' = [main EXCEPT !.cancelling = {}, !.handlers = @ \ {c.request}]
      /\ session' = [session EXCEPT !.haveSent = haveSent]
      /\ buffer' = buffer
      /\ UNCHANGED <<up, down, server>>
  BY DEF CancelSent, NetworkUnchanged
<1>3. haveSent \subseteq session.haveSent
  OBVIOUS
<1> HIDE DEF haveSent
<1>4. /\ MainTyped(main)'
      /\ main'.issued = main.issued
      /\ main'.known = main.known
      /\ main'.handlers = main.handlers \ {c.request}
      /\ main'.delayed = main.delayed
      /\ main'.cancelling = {}
  BY <1>1, <1>2 DEF MainTyped
<1>5. BeingCancelled(main') \subseteq BeingCancelled(main)
  BY <1>4 DEF BeingCancelled
<1>6. /\ SessionTyped(session)'
      /\ Kept(session') \subseteq Kept(session)
      /\ session'.toSend = session.toSend
      /\ session'.received = session.received
      /\ session'.sending = session.sending
      /\ session'.lastId = session.lastId
      /\ session'.started = session.started
      /\ session'.forceNewId = session.forceNewId
  BY <1>1, <1>2, <1>3 DEF SessionTyped, Kept
<1>7. RequestsOf(main.cancelling) = {c.request}
  BY <1>1 DEF RequestsOf
<1>8. /\ main'.handlers \subseteq main'.known \cup RequestsOf(main'.cancelling)
      /\ main'.known \subseteq main'.issued
      /\ main'.delayed \subseteq server.failed
      /\ session'.toSend \subseteq main'.issued
  BY <1>4, <1>6, <1>7 DEF SessionInv, MainFits, Failing
<1> QED
  BY <1>1, <1>2, <1>4, <1>5, <1>6, <1>8, MainKeeps

\* A response leaves the queue of the main thread.
LEMMA ResponseTaken ==
  ASSUME SessionInv, session.received # <<>>,
         session' = [session EXCEPT !.received = Tail(@)]
  PROVE  /\ SessionTyped(session)'
         /\ Kept(session') \subseteq Kept(session)
         /\ WaitingIn(session') = WaitingIn(session)
         /\ session'.toSend = session.toSend
         /\ session'.sending = session.sending
         /\ session'.lastId = session.lastId
         /\ session'.started = session.started
         /\ session'.forceNewId = session.forceNewId
         /\ Head(session.received) \in Range(session.received)
         /\ Head(session.received) \in Response
         /\ Range(session'.received) \subseteq Range(session.received)
         /\ Range(session.received) \subseteq
              Range(session'.received) \cup {Head(session.received)}
<1> DEFINE received == Tail(session.received)
<1>1. SessionTyped(session) /\ session.received \in Seq(Response)
  BY DEF SessionInv, SessionStateTyped, SessionTyped
<1>2. /\ received \in Seq(Response)
      /\ Head(session.received) \in Range(session.received)
      /\ Head(session.received) \in Response
      /\ Range(received) \subseteq Range(session.received)
      /\ Range(session.received) \subseteq
           Range(received) \cup {Head(session.received)}
  BY <1>1, RangeOf
<1>3. session' = [session EXCEPT !.received = received]
  OBVIOUS
<1> HIDE DEF received
<1>4. SessionTyped(session)'
  BY <1>1, <1>2, <1>3 DEF SessionTyped
<1>5. /\ Kept(session') = Kept(session)
      /\ WaitingIn(session') = WaitingIn(session)
      /\ session'.toSend = session.toSend
      /\ session'.received = received
      /\ session'.sending = session.sending
      /\ session'.lastId = session.lastId
      /\ session'.started = session.started
      /\ session'.forceNewId = session.forceNewId
  BY <1>1, <1>3 DEF SessionTyped, Kept, WaitingIn
<1> QED
  BY <1>2, <1>4, <1>5

\* The main thread takes a response.
LEMMA ProcessCallbackStep == SessionInv /\ ProcessCallback => SessionInv'
<1> SUFFICES ASSUME SessionInv, ProcessCallback
             PROVE  SessionInv'
  OBVIOUS
<1> DEFINE r == Head(session.received).request
<1>1. /\ MainTyped(main)
      /\ buffer \in [Requests -> Nat]
      /\ main.cancelling = {}
      /\ session.received # <<>>
  BY DEF SessionInv, SessionStateTyped, ProcessCallback, MainIdle
<1>2. /\ main' = [main EXCEPT !.handlers = @ \ {r}, !.known = @ \ {r}]
      /\ session' = [session EXCEPT !.received = Tail(@)]
      /\ buffer' = buffer
      /\ UNCHANGED <<up, down, server>>
  BY DEF ProcessCallback, NetworkUnchanged
<1> HIDE DEF r
<1>3. /\ MainTyped(main)'
      /\ main'.issued = main.issued
      /\ main'.known = main.known \ {r}
      /\ main'.handlers = main.handlers \ {r}
      /\ main'.delayed = main.delayed
      /\ main'.cancelling = {}
  BY <1>1, <1>2 DEF MainTyped
<1>4. BeingCancelled(main') \subseteq BeingCancelled(main)
  BY <1>3 DEF BeingCancelled
<1>5. /\ SessionTyped(session)'
      /\ Kept(session') \subseteq Kept(session)
      /\ session'.toSend = session.toSend
      /\ session'.sending = session.sending
      /\ session'.lastId = session.lastId
      /\ session'.started = session.started
      /\ session'.forceNewId = session.forceNewId
      /\ Range(session'.received) \subseteq Range(session.received)
  BY <1>1, <1>2, ResponseTaken
<1>6. /\ main'.handlers \subseteq main'.known
      /\ main'.known \subseteq main'.issued
      /\ main'.delayed \subseteq server.failed
      /\ session'.toSend \subseteq main'.issued
  BY <1>1, <1>3, <1>5 DEF SessionInv, MainFits, Failing, RequestsOf
<1> QED
  BY <1>1, <1>2, <1>3, <1>4, <1>5, <1>6, MainKeeps

\* The main thread delays a request that was answered with an error.
LEMMA DelayRequestStep == SessionInv /\ DelayRequest => SessionInv'
<1> SUFFICES ASSUME SessionInv, DelayRequest
             PROVE  SessionInv'
  OBVIOUS
<1> DEFINE m == Head(session.received)
<1>1. /\ MainTyped(main)
      /\ buffer \in [Requests -> Nat]
      /\ main.cancelling = {}
      /\ session.received # <<>>
      /\ m.error
  BY DEF SessionInv, SessionStateTyped, DelayRequest, MainIdle
<1>2. /\ main' = [main EXCEPT !.delayed = @ \cup {m.request}]
      /\ session' = [session EXCEPT !.received = Tail(@)]
      /\ buffer' = buffer
      /\ UNCHANGED <<up, down, server>>
  BY DEF DelayRequest, NetworkUnchanged
<1>3. /\ SessionTyped(session)'
      /\ Kept(session') \subseteq Kept(session)
      /\ session'.toSend = session.toSend
      /\ session'.sending = session.sending
      /\ session'.lastId = session.lastId
      /\ session'.started = session.started
      /\ session'.forceNewId = session.forceNewId
      /\ m \in Range(session.received)
      /\ m \in Response
      /\ Range(session'.received) \subseteq Range(session.received)
  BY <1>1, <1>2, ResponseTaken
<1> HIDE DEF m
<1>4. m.request \in Requests /\ m.request \in server.failed
  BY <1>1, <1>3 DEF SessionInv, Failing, OwnAnswers, Response
<1>5. /\ MainTyped(main)'
      /\ main'.issued = main.issued
      /\ main'.known = main.known
      /\ main'.handlers = main.handlers
      /\ main'.delayed = main.delayed \cup {m.request}
      /\ main'.cancelling = {}
  BY <1>1, <1>2, <1>4 DEF MainTyped
<1>6. BeingCancelled(main') \subseteq BeingCancelled(main)
  BY <1>5 DEF BeingCancelled
<1>7. /\ main'.handlers \subseteq main'.known
      /\ main'.known \subseteq main'.issued
      /\ main'.delayed \subseteq server.failed
      /\ session'.toSend \subseteq main'.issued
  BY <1>1, <1>3, <1>4, <1>5 DEF SessionInv, MainFits, Failing, RequestsOf
<1> QED
  BY <1>1, <1>2, <1>3, <1>5, <1>6, <1>7, MainKeeps

\* A delayed request loses its id and is queued again: the server has
\* answered it with an error, so that it may be executed once more.
LEMMA SendDelayedStep ==
  ASSUME SessionInv, NEW r \in main.delayed, SendDelayed(r)
  PROVE  SessionInv'
<1>1. /\ MainTyped(main)
      /\ SessionTyped(session)
      /\ buffer \in [Requests -> Nat]
      /\ main.cancelling = {}
      /\ r \in Requests
      /\ r \in server.failed
  BY DEF SessionInv, SessionStateTyped, SendDelayed, MainIdle, MainTyped, Failing
<1>2. /\ main' = [main EXCEPT !.delayed = @ \ {r}]
      /\ UNCHANGED <<up, down, server>>
  BY DEF SendDelayed, NetworkUnchanged
<1>3. /\ MainTyped(main)'
      /\ main'.issued = main.issued
      /\ main'.known = main.known
      /\ main'.handlers = main.handlers
      /\ main'.delayed = main.delayed \ {r}
      /\ main'.cancelling = {}
  BY <1>1, <1>2 DEF MainTyped
<1>4. BeingCancelled(main') \subseteq BeingCancelled(main)
  BY <1>3 DEF BeingCancelled
<1>5. /\ main'.handlers \subseteq main'.known
      /\ main'.known \subseteq main'.issued
      /\ main'.delayed \subseteq server.failed
      /\ session.toSend \subseteq main'.issued
  BY <1>1, <1>3 DEF SessionInv, MainFits, Failing, RequestsOf
<1>6. CASE r \in main.known
  <2>1. /\ session' = [session EXCEPT !.toSend = session.toSend \cup {r}]
        /\ buffer' = [buffer EXCEPT ![r] = 0]
    BY <1>6 DEF SendDelayed
  <2>2. session.toSend \cup {r} \subseteq Requests
    BY <1>1 DEF SessionTyped
  <2>3. /\ SessionTyped(session)'
        /\ Kept(session') \subseteq Kept(session)
        /\ session'.toSend = session.toSend \cup {r}
        /\ session'.received = session.received
        /\ session'.sending = session.sending
        /\ session'.lastId = session.lastId
        /\ session'.started = session.started
        /\ session'.forceNewId = session.forceNewId
    BY <1>1, <2>1, <2>2, ToSendKeeps
  <2>4. /\ buffer' \in [Requests -> Nat]
        /\ Buffered(buffer') \subseteq Buffered(buffer)
        /\ \A q \in Requests : q # r => buffer'[q] = buffer[q]
    BY <1>1, <2>1, BufferReset
  <2>5. \A e \in Attempts(up, server) :
          e.request \in server.failed \/ buffer'[e.request] = buffer[e.request]
    BY <1>1, <2>4, AttemptsAreOf
  <2>6. session'.toSend \subseteq main'.issued
    BY <1>3, <1>5, <1>6, <2>3
  <2> QED
    BY <1>2, <1>3, <1>4, <1>5, <2>3, <2>4, <2>5, <2>6, MainKeeps
<1>7. CASE r \notin main.known
  <2>1. session' = session /\ buffer' = buffer
    BY <1>7 DEF SendDelayed
  <2>2. SessionTyped(session)'
    BY <1>1, <2>1 DEF SessionTyped
  <2> QED
    BY <1>1, <1>2, <1>3, <1>4, <1>5, <2>1, <2>2, MainKeeps
<1> QED
  BY <1>6, <1>7

-----------------------------------------------------------------------------
(* The server.                                                             *)

Kinds ==
  {"result", "ack", "resend", "fatal", "states", "newSession", "reset"}

\* A reply says nothing of an error until it is told to.
LEMMA ReplyTyped ==
  ASSUME NEW kind \in Kinds, NEW to \in Nat
  PROVE  /\ Reply(kind, to) \in FromServer
         /\ Reply(kind, to).kind = kind
         /\ Reply(kind, to).to = to
         /\ Reply(kind, to).error = FALSE
BY DEF Reply, FromServer, Kinds

\* Numbering replies leaves what they say alone.
LEMMA NumberedKeeps ==
  ASSUME server.lastId \in Nat, NEW replies \in Seq(FromServer)
  PROVE  /\ Numbered(replies) \in Seq(FromServer)
         /\ \A y \in Range(Numbered(replies)) : \E x \in Range(replies) :
              /\ y.kind = x.kind
              /\ y.to = x.to
              /\ y.of = x.of
              /\ y.error = x.error
<1> DEFINE numbered == Numbered(replies)
<1>1. numbered = [i \in 1 .. Len(replies) |->
                    [replies[i] EXCEPT !.id = server.lastId + i]]
  BY DEF Numbered
<1>2. /\ DOMAIN replies = 1 .. Len(replies)
      /\ Len(replies) \in Nat
      /\ \A i \in 1 .. Len(replies) : replies[i] \in FromServer
  OBVIOUS
<1>3. ASSUME NEW x \in FromServer, NEW n \in Nat
      PROVE  LET y == [x EXCEPT !.id = n]
             IN /\ y \in FromServer
                /\ y.kind = x.kind
                /\ y.to = x.to
                /\ y.of = x.of
                /\ y.error = x.error
  BY DEF FromServer
<1>4. \A i \in 1 .. Len(replies) : server.lastId + i \in Nat
  BY <1>2
<1>5. \A i \in 1 .. Len(replies) :
        [replies[i] EXCEPT !.id = server.lastId + i] \in FromServer
  BY <1>2, <1>3, <1>4
<1>6. numbered \in [1 .. Len(replies) -> FromServer]
  BY <1>1, <1>5
<1>7. numbered \in Seq(FromServer)
  BY <1>2, <1>6
<1>8. ASSUME NEW y \in Range(numbered)
      PROVE  \E x \in Range(replies) : /\ y.kind = x.kind
                                       /\ y.to = x.to
                                       /\ y.of = x.of
                                       /\ y.error = x.error
  <2>1. PICK i \in 1 .. Len(replies) :
          y = [replies[i] EXCEPT !.id = server.lastId + i]
    BY <1>1 DEF Range
  <2>2. replies[i] \in Range(replies)
    BY <1>2 DEF Range
  <2> QED
    BY <1>2, <1>3, <1>4, <2>1, <2>2
<1> QED
  BY <1>7, <1>8

\* A message of the server with nothing about a request in it.
Bare(x) == x.kind \notin {"result", "fatal"} /\ ~x.error

\* A queue of one reply.
LEMMA SingleReply ==
  ASSUME NEW x \in FromServer
  PROVE  /\ <<x>> \in Seq(FromServer)
         /\ Range(<<x>>) = {x}
<1>1. /\ <<x>> \in Seq(FromServer)
      /\ DOMAIN <<x>> = {1}
      /\ <<x>>[1] = x
  OBVIOUS
<1> QED
  BY <1>1 DEF Range

\* The server takes a packet: it executes only messages it has not executed,
\* and remembers what it answers with an error.
LEMMA TakeKeeps ==
  ASSUME SessionInv, up # <<>>,
         NEW executed, executed \subseteq Head(up).messages,
         NEW failed, failed \subseteq Requests,
         NEW replies \in Seq(FromServer),
         \A x \in Range(replies) :
           /\ x.kind \in {"result", "fatal"}
                => Entry(x.to, x.of) \in Head(up).messages
           /\ x.error => x.of \in failed,
         Take(executed, failed, replies)
  PROVE  SessionInv'
<1> USE DEF SessionInv
<1> DEFINE packet == Head(up)
           fresh == {m \in executed : m.id \notin IdsOf(server.done)}
           new == {[id |-> m.id, request |-> m.request, answer |-> 0,
                    error |-> FALSE] : m \in fresh}
           done == server.done \cup new
           news == IF server.alive THEN <<>>
                   ELSE <<Reply("newSession",
                            Smallest(IdsOf(packet.messages) \cup {packet.id}))>>
           state == [Reply("states", 0) EXCEPT
                       !.asked = packet.asked,
                       !.got = packet.asked \cap IdsOf(done)]
           states == IF packet.asked = {} THEN <<>> ELSE <<state>>
           all == news \o replies \o states
<1>1. /\ SessionTyped(session)
      /\ ServerTyped(server)
      /\ up \in Seq(OnWire)
      /\ down \in Seq(FromServer)
      /\ server.lastId \in Nat
      /\ server.done \subseteq Attempt
  BY DEF SessionStateTyped, ServerTyped
<1>2. /\ session.hand = {}
      /\ session.sending = {}
      /\ up' = Tail(up)
      /\ down' = down \o Numbered(all)
      /\ server' = [server EXCEPT !.alive = TRUE,
                                  !.done = done,
                                  !.owed = @ \cup IdsOf(executed),
                                  !.failed = @ \cup failed,
                                  !.lastId = @ + Len(all)]
      /\ buffer' = buffer
      /\ main' = main
      /\ session' = session
  BY DEF Take, Idle
<1>3. /\ packet \in OnWire
      /\ packet.messages \subseteq Wire(up)
      /\ up' \in Seq(OnWire)
      /\ Wire(up') \subseteq Wire(up)
  BY <1>1, <1>2, WireOf
<1>4. /\ packet.messages \subseteq Entries
      /\ packet.id \in Nat
      /\ packet.asked \subseteq Nat
  BY <1>3 DEF OnWire
<1>5. /\ news \in Seq(FromServer)
      /\ \A x \in Range(news) : Bare(x)
  <2> DEFINE ids == IdsOf(packet.messages) \cup {packet.id}
             x == Reply("newSession", Smallest(ids))
  <2>1. ids \subseteq Nat /\ ids # {}
    BY <1>4 DEF IdsOf, Entries
  <2>2. Smallest(ids) \in Nat
    BY <2>1, SmallestIsIn
  <2> HIDE DEF ids
  <2>3. x \in FromServer /\ Bare(x)
    BY <2>2, ReplyTyped DEF Bare, Kinds
  <2> HIDE DEF x
  <2>4. <<x>> \in Seq(FromServer) /\ Range(<<x>>) = {x}
    BY <2>3, SingleReply
  <2>5. news = <<>> \/ news = <<x>>
    BY DEF x, ids
  <2> QED
    BY <2>3, <2>4, <2>5, NothingOnWire
<1>6. /\ states \in Seq(FromServer)
      /\ \A x \in Range(states) : Bare(x)
  <2>1. /\ Reply("states", 0) \in FromServer
        /\ Reply("states", 0).kind = "states"
        /\ Reply("states", 0).error = FALSE
    BY ReplyTyped DEF Kinds
  <2>2. packet.asked \cap IdsOf(done) \subseteq Nat
    BY <1>4
  <2>3. state \in FromServer /\ Bare(state)
    <3> HIDE DEF done
    <3> QED
      BY <1>4, <2>1, <2>2 DEF FromServer, Bare
  <2> HIDE DEF state
  <2>4. <<state>> \in Seq(FromServer) /\ Range(<<state>>) = {state}
    BY <2>3, SingleReply
  <2> QED
    BY <2>3, <2>4, NothingOnWire
<1> HIDE DEF news, states
<1>7. /\ all \in Seq(FromServer)
      /\ Range(all) = Range(news) \cup Range(replies) \cup Range(states)
  <2> DEFINE some == news \o replies
  <2>1. /\ some \in Seq(FromServer)
        /\ Range(some) = Range(news) \cup Range(replies)
    BY <1>5, RangeOfCat
  <2>2. all = some \o states
    OBVIOUS
  <2> HIDE DEF some, all
  <2>3. /\ some \o states \in Seq(FromServer)
        /\ Range(some \o states) = Range(some) \cup Range(states)
    BY <1>6, <2>1, RangeOfCat
  <2> QED
    BY <2>1, <2>2, <2>3
<1> HIDE DEF all
<1>8. Len(all) \in Nat
  BY <1>7
<1>9. /\ Numbered(all) \in Seq(FromServer)
      /\ \A y \in Range(Numbered(all)) : \E x \in Range(all) :
           /\ y.kind = x.kind
           /\ y.to = x.to
           /\ y.of = x.of
           /\ y.error = x.error
  BY <1>1, <1>7, NumberedKeeps
<1>10. /\ down' \in Seq(FromServer)
       /\ Range(down') = Range(down) \cup Range(Numbered(all))
  BY <1>1, <1>2, <1>9, RangeOfCat
<1>11. \A y \in Range(Numbered(all)) :
         /\ y.kind \in {"result", "fatal"}
              => Entry(y.to, y.of) \in packet.messages
         /\ y.error => y.of \in failed
  <2> SUFFICES ASSUME NEW y \in Range(Numbered(all))
               PROVE  /\ y.kind \in {"result", "fatal"}
                           => Entry(y.to, y.of) \in packet.messages
                      /\ y.error => y.of \in failed
    OBVIOUS
  <2>1. PICK x \in Range(all) : /\ y.kind = x.kind
                                /\ y.to = x.to
                                /\ y.of = x.of
                                /\ y.error = x.error
    BY <1>9
  <2>2. CASE x \in Range(replies)
    BY <2>1, <2>2
  <2>3. CASE Bare(x)
    BY <2>1, <2>3 DEF Bare
  <2> QED
    BY <2>2, <2>3, <1>5, <1>6, <1>7
<1>12. Promised(down') \subseteq Promised(down) \cup Wire(up)
  BY <1>3, <1>10, <1>11 DEF Promised
<1>13. /\ new \subseteq Attempt
       /\ \A d \in new : /\ Entry(d.id, d.request) \in executed
                         /\ d.id \notin IdsOf(server.done)
                         /\ ~d.error
  <2> SUFFICES ASSUME NEW m \in fresh
               PROVE  LET d == [id |-> m.id, request |-> m.request,
                                answer |-> 0, error |-> FALSE]
                      IN /\ d \in Attempt
                         /\ Entry(d.id, d.request) \in executed
                         /\ d.id \notin IdsOf(server.done)
                         /\ ~d.error
    OBVIOUS
  <2>1. m \in Entries /\ m \in executed
    BY <1>4
  <2>2. Entry(m.id, m.request) = m
    BY <2>1 DEF Entry, Entries
  <2> QED
    BY <2>1, <2>2 DEF Attempt, Entries, Entry
<1>14. \A d, e \in new : d.id = e.id => d = e
  <2>1. \A m, n \in fresh : m.id = n.id => m = n
    <3>1. fresh \subseteq Wire(up)
      BY <1>3
    <3> QED
      BY <3>1 DEF Owned, Agree, Named
  <2> HIDE DEF fresh
  <2> SUFFICES ASSUME NEW d \in new, NEW e \in new, d.id = e.id
               PROVE  d = e
    OBVIOUS
  <2>2. PICK m \in fresh : d = [id |-> m.id, request |-> m.request,
                                answer |-> 0, error |-> FALSE]
    OBVIOUS
  <2>3. PICK n \in fresh : e = [id |-> n.id, request |-> n.request,
                                answer |-> 0, error |-> FALSE]
    OBVIOUS
  <2>4. m.id = n.id
    BY <2>2, <2>3
  <2> QED
    BY <2>1, <2>2, <2>3, <2>4
<1> HIDE DEF new
<1>15. IdsOf(executed) \subseteq Nat
  BY <1>4 DEF IdsOf, Entries
<1>16. done \subseteq Attempt
  BY <1>1, <1>13
<1>17. /\ server'.done = server.done \cup new
       /\ server'.failed = server.failed \cup failed
       /\ ServerTyped(server)'
  <2> HIDE DEF done
  <2>1. /\ server'.done = done
        /\ server'.failed = server.failed \cup failed
    BY <1>1, <1>2 DEF ServerTyped
  <2>2. ServerTyped(server)'
    <3> DEFINE owed == server.owed \cup IdsOf(executed)
               lost == server.failed \cup failed
               last == server.lastId + Len(all)
    <3>1. /\ owed \subseteq Nat
          /\ lost \subseteq Requests
          /\ last \in Nat
      BY <1>1, <1>8, <1>15 DEF ServerTyped
    <3>2. server' = [server EXCEPT !.alive = TRUE, !.done = done,
                                   !.owed = owed, !.failed = lost,
                                   !.lastId = last]
      BY <1>1, <1>2 DEF ServerTyped
    <3> HIDE DEF owed, lost, last
    <3> QED
      BY <1>1, <1>16, <3>1, <3>2 DEF ServerTyped
  <2> QED
    BY <2>1, <2>2 DEF done
<1>18. Executed(server') \subseteq Executed(server) \cup Wire(up)
  BY <1>3, <1>13, <1>17 DEF Executed
<1>19. SessionStateTyped'
  BY <1>2, <1>3, <1>10, <1>17 DEF SessionStateTyped, SessionTyped, MainTyped
<1>20. Owned'
  <2>1. Named(session, buffer, main, up, down, server)'
          \subseteq Named(session, buffer, main, up, down, server)
    BY <1>2, <1>3, <1>12, <1>18 DEF Named
  <2> QED
    BY <2>1, <1>2, AgreeShrinks DEF Owned
<1>21. Attempts(up', server') \subseteq Attempts(up, server)
  BY <1>3, <1>18 DEF Attempts
<1>22. Current'
  BY <1>2, <1>17, <1>21 DEF Current
<1>23. Keyed'
  BY <1>13, <1>14, <1>17 DEF Keyed, IdsOf
<1>24. Failing'
  <2>1. \A d \in server'.done : d.error => d.request \in server'.failed
    BY <1>13, <1>17 DEF Failing
  <2>2. \A x \in Range(down') : x.error => x.of \in server'.failed
    BY <1>10, <1>11, <1>17 DEF Failing
  <2> QED
    BY <2>1, <2>2, <1>2, <1>17 DEF Failing
<1>25. NewStart' /\ OwnAnswers' /\ MainFits'
  BY <1>2, <1>21 DEF NewStart, OwnAnswers, MainFits
<1> QED
  BY <1>19, <1>20, <1>22, <1>23, <1>24, <1>25

\* A packet that is there has an id and messages.
LEMMA HeadIsTyped ==
  ASSUME SessionInv, up # <<>>
  PROVE  /\ Head(up).id \in Nat
         /\ Head(up).messages \subseteq Entries
BY WireOf DEF SessionInv, SessionStateTyped, OnWire

\* The server executes what is in a packet.
LEMMA ExecuteStep == SessionInv /\ up # <<>> /\ Execute => SessionInv'
<1> SUFFICES ASSUME SessionInv, up # <<>>, Execute
             PROVE  SessionInv'
  OBVIOUS
<1>1. Take(Head(up).messages, {}, <<>>)
  BY DEF Execute
<1> QED
  BY <1>1, NothingOnWire, TakeKeeps

\* The server acknowledges the packet as well.
LEMMA AcknowledgeStep == SessionInv /\ up # <<>> /\ Acknowledge => SessionInv'
<1> SUFFICES ASSUME SessionInv, up # <<>>, Acknowledge
             PROVE  SessionInv'
  OBVIOUS
<1> DEFINE x == Reply("ack", Head(up).id)
<1>1. Take(Head(up).messages, {}, <<x>>)
  BY DEF Acknowledge
<1>2. /\ x \in FromServer
      /\ x.kind = "ack"
      /\ x.error = FALSE
  BY HeadIsTyped, ReplyTyped DEF Kinds
<1> HIDE DEF x
<1>3. <<x>> \in Seq(FromServer) /\ Range(<<x>>) = {x}
  BY <1>2, SingleReply
<1> QED
  BY <1>1, <1>2, <1>3, TakeKeeps

\* The server refuses a container as a whole.
LEMMA RefuseContainerStep ==
  SessionInv /\ up # <<>> /\ RefuseContainer => SessionInv'
<1> SUFFICES ASSUME SessionInv, up # <<>>, RefuseContainer
             PROVE  SessionInv'
  OBVIOUS
<1> DEFINE x == Reply("resend", Head(up).id)
<1>1. Take({}, {}, <<x>>)
  BY DEF RefuseContainer
<1>2. /\ x \in FromServer
      /\ x.kind = "resend"
      /\ x.error = FALSE
  BY HeadIsTyped, ReplyTyped DEF Kinds
<1> HIDE DEF x
<1>3. <<x>> \in Seq(FromServer) /\ Range(<<x>>) = {x}
  BY <1>2, SingleReply
<1> QED
  BY <1>1, <1>2, <1>3, TakeKeeps

\* The server refuses one message, and remembers that when the client takes
\* it for an error.
LEMMA RefuseMessageStep ==
  ASSUME SessionInv, up # <<>>, NEW m \in Head(up).messages,
         NEW kind \in {"resend", "reset", "fatal"}, RefuseMessage(m, kind)
  PROVE  SessionInv'
<1> DEFINE x == [Reply(kind, m.id) EXCEPT !.of = m.request,
                                          !.error = kind = "fatal"]
           failed == IF kind = "fatal" THEN {m.request} ELSE {}
<1>1. Take(Head(up).messages \ {m}, failed, <<x>>)
  BY DEF RefuseMessage
<1>2. m \in Entries /\ m.id \in Nat /\ m.request \in Requests
  BY HeadIsTyped DEF Entries
<1>3. m.request \in Nat
  BY <1>2, RequestsAreNat
<1>4. /\ Reply(kind, m.id) \in FromServer
      /\ Reply(kind, m.id).kind = kind
      /\ Reply(kind, m.id).to = m.id
  <2>1. kind \in Kinds
    BY DEF Kinds
  <2> QED
    BY <1>2, <2>1, ReplyTyped
<1>5. /\ x \in FromServer
      /\ x.kind = kind
      /\ x.to = m.id
      /\ x.of = m.request
      /\ x.error <=> kind = "fatal"
  <2>1. (kind = "fatal") \in BOOLEAN
    OBVIOUS
  <2> QED
    BY <1>3, <1>4, <2>1 DEF FromServer
<1>6. Entry(x.to, x.of) = m
  BY <1>2, <1>5 DEF Entry, Entries
<1> HIDE DEF x
<1>7. <<x>> \in Seq(FromServer) /\ Range(<<x>>) = {x}
  BY <1>5, SingleReply
<1>8. failed \subseteq Requests /\ (x.error => x.of \in failed)
  BY <1>2, <1>5
<1>9. Head(up).messages \ {m} \subseteq Head(up).messages
  OBVIOUS
<1> HIDE DEF failed
<1>10. \A y \in Range(<<x>>) :
         /\ y.kind \in {"result", "fatal"}
              => Entry(y.to, y.of) \in Head(up).messages
         /\ y.error => y.of \in failed
  BY <1>6, <1>7, <1>8
<1> QED
  BY <1>1, <1>7, <1>8, <1>9, <1>10, TakeKeeps

\* An answer is for the request that was executed under its message id.
LEMMA AnswerMessageStep ==
  ASSUME SessionInv, NEW d \in server.done, NEW error \in BOOLEAN,
         AnswerMessage(d, error)
  PROVE  SessionInv'
<1> USE DEF SessionInv
<1> DEFINE id == IF d.answer = 0 THEN server.lastId + 1 ELSE d.answer
           x == [Reply("result", d.id) EXCEPT !.id = id, !.of = d.request,
                                              !.error = error]
           e == [d EXCEPT !.answer = id, !.error = error]
           done == (server.done \ {d}) \cup {e}
           failed == IF error THEN server.failed \cup {d.request}
                     ELSE server.failed
           last == IF d.answer = 0 THEN id ELSE server.lastId
           owed == server.owed \ {d.id}
<1>1. /\ SessionTyped(session)
      /\ ServerTyped(server)
      /\ up \in Seq(OnWire)
      /\ down \in Seq(FromServer)
      /\ server.lastId \in Nat
      /\ server.done \subseteq Attempt
      /\ server.failed \subseteq Requests
      /\ server.owed \subseteq Nat
      /\ d \in Attempt
  BY DEF SessionStateTyped, ServerTyped
<1>2. /\ down' = Append(down, x)
      /\ server' = [server EXCEPT !.owed = owed, !.done = done,
                                  !.failed = failed, !.lastId = last]
      /\ buffer' = buffer
      /\ main' = main
      /\ session' = session
      /\ up' = up
  BY DEF AnswerMessage
<1>3. /\ d.id \in Nat
      /\ d.request \in Requests
      /\ d.request \in Nat
      /\ id \in Nat
      /\ last \in Nat
  <2>1. /\ d.id \in Nat
        /\ d.request \in Requests
        /\ d.answer \in Nat
    BY <1>1 DEF Attempt
  <2>2. id \in Nat
    BY <1>1, <2>1
  <2> HIDE DEF id
  <2>3. last \in Nat
    BY <1>1, <2>2
  <2> QED
    BY <2>1, <2>2, <2>3, RequestsAreNat
<1> HIDE DEF id
<1>4. /\ x \in FromServer
      /\ x.kind = "result"
      /\ x.to = d.id
      /\ x.of = d.request
      /\ x.error = error
  <2>1. /\ Reply("result", d.id) \in FromServer
        /\ Reply("result", d.id).kind = "result"
        /\ Reply("result", d.id).to = d.id
    <3>1. "result" \in Kinds
      BY DEF Kinds
    <3> QED
      BY <1>3, <3>1, ReplyTyped
  <2> QED
    BY <1>3, <2>1 DEF FromServer
<1>5. /\ e \in Attempt
      /\ e.id = d.id
      /\ e.request = d.request
      /\ e.error = error
  BY <1>1, <1>3 DEF Attempt
<1> HIDE DEF x, e
<1>6. /\ done \subseteq Attempt
      /\ failed \subseteq Requests
      /\ owed \subseteq Nat
      /\ server.failed \subseteq failed
      /\ error => d.request \in failed
  BY <1>1, <1>3, <1>5
<1> HIDE DEF failed, owed, last
<1>7. /\ ServerTyped(server)'
      /\ server'.done = done
      /\ server'.failed = failed
  <2> HIDE DEF done
  <2> QED
    BY <1>1, <1>2, <1>3, <1>6 DEF ServerTyped
<1>8. /\ down' \in Seq(FromServer)
      /\ Range(down') = Range(down) \cup {x}
  BY <1>1, <1>2, <1>4, RangeOf
<1>9. Executed(server') = Executed(server)
  <2>1. Entry(e.id, e.request) = Entry(d.id, d.request)
    BY <1>5
  <2> QED
    BY <1>7, <2>1 DEF Executed
<1>10. Promised(down') \subseteq Promised(down) \cup Executed(server)
  <2>1. Entry(x.to, x.of) \in Executed(server)
    BY <1>4 DEF Executed
  <2> QED
    BY <1>8, <2>1 DEF Promised
<1>11. SessionStateTyped'
  BY <1>1, <1>2, <1>7, <1>8 DEF SessionStateTyped, SessionTyped, MainTyped
<1>12. Owned'
  <2>1. Named(session, buffer, main, up, down, server)'
          \subseteq Named(session, buffer, main, up, down, server)
    BY <1>2, <1>9, <1>10 DEF Named
  <2> QED
    BY <2>1, <1>2, AgreeShrinks DEF Owned
<1>13. Attempts(up', server') = Attempts(up, server)
  BY <1>2, <1>9 DEF Attempts
<1>14. Current'
  BY <1>2, <1>6, <1>7, <1>13 DEF Current
<1>15. Keyed'
  BY <1>5, <1>7 DEF Keyed
<1>16. Failing'
  <2>1. \A c \in server'.done : c.error => c.request \in server'.failed
    BY <1>5, <1>6, <1>7 DEF Failing
  <2>2. \A y \in Range(down') : y.error => y.of \in server'.failed
    BY <1>4, <1>6, <1>7, <1>8 DEF Failing
  <2> QED
    BY <2>1, <2>2, <1>2, <1>6, <1>7 DEF Failing
<1>17. NewStart' /\ OwnAnswers' /\ MainFits'
  BY <1>2, <1>13 DEF NewStart, OwnAnswers, MainFits
<1> QED
  BY <1>11, <1>12, <1>14, <1>15, <1>16, <1>17

\* The server forgets the session, but not what has failed.
LEMMA LoseSessionStep == SessionInv /\ LoseSession => SessionInv'
<1> SUFFICES ASSUME SessionInv, LoseSession
             PROVE  SessionInv'
  OBVIOUS
<1>1. /\ SessionTyped(session)
      /\ ServerTyped(server)
      /\ up \in Seq(OnWire)
      /\ down \in Seq(FromServer)
  BY DEF SessionInv, SessionStateTyped
<1>2. /\ server' = [server EXCEPT !.alive = FALSE, !.done = {}, !.owed = {}]
      /\ buffer' = buffer
      /\ main' = main
      /\ session' = session
      /\ up' = up
      /\ down' = down
  BY DEF LoseSession
<1>3. ServerTyped(server)' /\ server'.done = {} /\ server'.failed = server.failed
  BY <1>1, <1>2 DEF ServerTyped
<1>4. Executed(server') = {}
  BY <1>3 DEF Executed
<1>5. NewStart'
  BY <1>2, <1>4 DEF NewStart, SessionInv, Attempts
<1>6. SessionTyped(session)' /\ IsFiniteSet(session'.sending)
  BY <1>1, <1>2 DEF SessionTyped, SessionInv, MainFits
<1> QED
  BY <1>1, <1>2, <1>3, <1>5, <1>6, LessKeeps

-----------------------------------------------------------------------------
(* The steps together.                                                     *)

\* The server at work.
LEMMA ServeKeeps == SessionInv /\ ServeSession => SessionInv'
<1> SUFFICES ASSUME SessionInv, ServeSession
             PROVE  SessionInv'
  OBVIOUS
<1>1. CASE up # <<>> /\ Execute
  BY <1>1, ExecuteStep
<1>2. CASE \E d \in server.done : AnswerMessage(d, d.error)
  <2>1. PICK d \in server.done : AnswerMessage(d, d.error)
    BY <1>2
  <2>2. d.error \in BOOLEAN
    BY DEF SessionInv, SessionStateTyped, ServerTyped, Attempt
  <2> QED
    BY <2>1, <2>2, AnswerMessageStep
<1> QED
  BY <1>1, <1>2 DEF ServeSession

\* What goes wrong.
LEMMA DisturbKeeps == SessionInv /\ Disturb => SessionInv'
<1> SUFFICES ASSUME SessionInv, Disturb
             PROVE  SessionInv'
  OBVIOUS
<1>1. CASE Disconnect
  BY <1>1, DisconnectStep
<1>2. CASE \E c \in session.containers : ClearOldContainer(c)
  BY <1>2, ClearOldContainerStep
<1>3. CASE up # <<>> /\ Acknowledge
  BY <1>3, AcknowledgeStep
<1>4. CASE /\ up # <<>>
           /\ \E m \in Head(up).messages, kind \in {"resend", "reset", "fatal"} :
                RefuseMessage(m, kind)
  BY <1>4, RefuseMessageStep
<1>5. CASE up # <<>> /\ RefuseContainer
  BY <1>5, RefuseContainerStep
<1>6. CASE \E d \in server.done : AnswerMessage(d, TRUE)
  BY <1>6, AnswerMessageStep
<1>7. CASE LoseSession
  BY <1>7, LoseSessionStep
<1> QED
  BY <1>1, <1>2, <1>3, <1>4, <1>5, <1>6, <1>7 DEF Disturb

\* Whatever arrives.
LEMMA ReceiveKeeps == SessionInv /\ Receive => SessionInv'
BY ReceiveResultStep, ReceiveAckStep, ReceiveBadMessageStep, ReceiveFatalStep,
   ReceiveStatesStep, ReceiveNewSessionStep, ReceiveDuplicateStep,
   ReceiveResetStep, ReceiveUnknownResetStep DEF Receive

\* Whatever the thread of the session moves.
LEMMA TransferKeeps == SessionInv /\ Transfer => SessionInv'
BY TakeToSendStep, SendTakenStep, SendContainerStep, TakeToResendStep,
   PutToResendStep, ConnectStep DEF Transfer

\* Whatever the main thread does.
LEMMA MainThreadKeeps == SessionInv /\ MainThread => SessionInv'
BY ProcessCallbackStep, DelayRequestStep, SendDelayedStep, CancelQueuedStep,
   CancelSentStep DEF MainThread

\* Every step of MtpSession keeps its invariant.
LEMMA SessionStepKeeps ==
  SessionInv /\ [SessionNext]_sessionVars => SessionInv'
<1> SUFFICES ASSUME SessionInv, [SessionNext]_sessionVars
             PROVE  SessionInv'
  OBVIOUS
<1>1. CASE \E r \in Requests : Issue(r) \/ StartCancel(r)
  BY <1>1, IssueStep, StartCancelStep
<1>2. CASE ServeSession \/ Disturb
  BY <1>2, ServeKeeps, DisturbKeeps
<1>3. CASE Receive \/ Transfer \/ MainThread
  BY <1>3, ReceiveKeeps, TransferKeeps, MainThreadKeeps
<1>4. CASE Ping \/ CheckSentRequests
  BY <1>4, PingStep, CheckSentRequestsStep
<1>5. CASE UNCHANGED sessionVars
  <2>1. /\ buffer' = buffer
        /\ main' = main
        /\ session' = session
        /\ up' = up
        /\ down' = down
        /\ server' = server
    BY <1>5 DEF sessionVars
  <2>2. /\ SessionTyped(session)'
        /\ ServerTyped(server)'
        /\ up' \in Seq(OnWire)
        /\ down' \in Seq(FromServer)
    BY <2>1 DEF SessionInv, SessionStateTyped, SessionTyped, ServerTyped
  <2>3. NewStart' /\ IsFiniteSet(session'.sending)
    BY <2>1 DEF SessionInv, NewStart, Attempts, MainFits
  <2> QED
    BY <2>1, <2>2, <2>3, LessKeeps
<1> QED
  BY <1>1, <1>2, <1>3, <1>4, <1>5 DEF SessionNext

\* The invariant of the session: a message id stands for one request, in every
\* map of the client, on the wire in both directions, at the server, and in a
\* cancel that has begun; and a request that has not failed was sent under
\* no id but the one in its buffer.  For any requests, limits and troubles.
THEOREM SessionInvariance == SessionSpec => []SessionInv
<1>1. SessionInit => SessionInv
  BY SessionInitHolds
<1>2. SessionInv /\ [SessionNext]_sessionVars => SessionInv'
  BY SessionStepKeeps
<1> QED
  BY <1>1, <1>2, PTL DEF SessionSpec

\* The responses of the properties are those of the invariant.
LEMMA ResponsesAreReceived ==
  ASSUME SessionInv
  PROVE  Responses = Range(session.received)
<1>1. session.received \in Seq(Response)
  BY DEF SessionInv, SessionStateTyped, SessionTyped
<1>2. DOMAIN session.received = 1 .. Len(session.received)
  BY <1>1
<1> QED
  BY <1>2 DEF Responses, Range

\* The response that wasSent() finds a request for is the response to this
\* request, however often ids were given anew, containers were sent again and
\* answers came late.
THEOREM AnswersAreOwn == SessionSpec => []AnswerIsItsOwn
<1>1. SessionInv => AnswerIsItsOwn
  BY ResponsesAreReceived DEF AnswerIsItsOwn, SessionInv, OwnAnswers
<1> QED
  BY <1>1, SessionInvariance, PTL

\* The server executes a request once in a session: the client sends it again
\* under the id it had, or under a new one only when the session is new or an
\* attempt has failed.
THEOREM RequestsRunOnce == SessionSpec => []ExecutedOnce
<1>1. SessionInv => ExecutedOnce
  <2> SUFFICES ASSUME SessionInv, NEW d \in server.done, NEW e \in server.done,
                      d.request = e.request, d.request \notin server.failed
               PROVE  d = e
    BY DEF ExecutedOnce
  <2>1. /\ Entry(d.id, d.request) \in Attempts(up, server)
        /\ Entry(e.id, e.request) \in Attempts(up, server)
    BY DEF Attempts, Executed
  <2>2. \A x \in Attempts(up, server) :
          x.request \in server.failed \/ x.id = buffer[x.request]
    BY DEF SessionInv, Current
  <2>3. d.id = buffer[d.request] /\ e.id = buffer[e.request]
    BY <2>1, <2>2 DEF Entry
  <2> QED
    BY <2>3 DEF SessionInv, Keyed
<1> QED
  BY <1>1, SessionInvariance, PTL

-----------------------------------------------------------------------------
(* No request is forgotten.                                                *)

\* Where a request is that somebody waits for.
PlacesIn(m, s) ==
  WaitingIn(s) \cup RequestsOf(Range(s.received)) \cup m.delayed
    \cup RequestsOf(m.cancelling)

Remembered == main.handlers \subseteq PlacesIn(main, session)

\* The property in the terms of the invariant.
LEMMA NothingIsForgottenIs == SessionInv => (NothingIsForgotten <=> Remembered)
BY ResponsesAreReceived DEF NothingIsForgotten, Remembered, PlacesIn

\* The thread of the session may move what it has, and may turn it into
\* responses.
LEMMA SessionRemembers ==
  ASSUME Remembered, main' = main,
         Range(session.received) \subseteq Range(session'.received),
         \A r \in main.handlers : r \in WaitingIn(session) =>
           r \in WaitingIn(session') \cup RequestsOf(Range(session'.received))
  PROVE  Remembered'
BY DEF Remembered, PlacesIn, RequestsOf

\* Moving requests between the maps forgets none.
LEMMA MoveRemembers ==
  ASSUME Remembered, main' = main, session'.received = session.received,
         WaitingIn(session) \subseteq WaitingIn(session')
  PROVE  Remembered'
BY SessionRemembers

\* What is sent is in haveSent after that.
LEMMA SentRemembers ==
  ASSUME SessionInv, SessionInv', NEW range, range \subseteq Requests,
         \A r \in range : buffer'[r] # 0,
         session'.haveSent = Emplace(Renamed(session.haveSent, range),
                                     Messages(range))
  PROVE  RequestsOf(session.haveSent) \cup range
           \subseteq RequestsOf(session'.haveSent)
<1> DEFINE renamed == Renamed(session.haveSent, range)
<1>1. renamed \subseteq session'.haveSent
  BY DEF Emplace
<1>2. RequestsOf(session.haveSent) \subseteq RequestsOf(renamed)
  <2> SUFFICES ASSUME NEW e \in session.haveSent
               PROVE  \E f \in renamed : f.request = e.request
    BY DEF RequestsOf
  <2>1. CASE e.request \in range /\ e.id = buffer[e.request]
    <3>1. Entry(buffer'[e.request], e.request) \in renamed
      BY <2>1 DEF Renamed
    <3> QED
      BY <3>1 DEF Entry
  <2>2. CASE ~(e.request \in range /\ e.id = buffer[e.request])
    <3>1. e \in renamed
      BY <2>2 DEF Renamed
    <3> QED
      BY <3>1
  <2> QED
    BY <2>1, <2>2
<1>3. ASSUME NEW r \in range
      PROVE  r \in RequestsOf(session'.haveSent)
  <2> DEFINE e == Entry(buffer'[r], r)
  <2>1. e \in Messages(range) /\ e.request = r
    BY DEF Messages, Entry
  <2>2. CASE e.id \notin IdsOf(renamed)
    <3>1. e \in session'.haveSent
      BY <2>1, <2>2 DEF Emplace
    <3> QED
      BY <2>1, <3>1 DEF RequestsOf
  <2>3. CASE e.id \in IdsOf(renamed)
    <3>1. PICK f \in renamed : f.id = e.id
      BY <2>3 DEF IdsOf
    <3>2. f \in session'.haveSent
      BY <1>1, <3>1
    <3>3. e \in Buffered(buffer')
      BY DEF Buffered
    <3>4. /\ e \in Named(session, buffer, main, up, down, server)'
          /\ f \in Named(session, buffer, main, up, down, server)'
      BY <3>2, <3>3 DEF Named, Kept
    <3>5. f = e
      BY <3>1, <3>4 DEF SessionInv, Owned, Agree
    <3> QED
      BY <2>1, <3>2, <3>5 DEF RequestsOf
  <2> QED
    BY <2>2, <2>3
<1>4. RequestsOf(renamed) \subseteq RequestsOf(session'.haveSent)
  BY <1>1 DEF RequestsOf
<1> QED
  BY <1>2, <1>3, <1>4

\* What sending makes of the maps.
LEMMA SentHaveSent ==
  ASSUME SessionTyped(session), NEW range
  PROVE  /\ Sent(session, range).haveSent =
              Emplace(Renamed(session.haveSent, range), Messages(range))
         /\ Sent(session, range).hand = session.hand
         /\ Sent(session, range).toSend = session.toSend
         /\ Sent(session, range).received = session.received
         /\ Sent(session, range).lastId = session.lastId
<1> DEFINE resending == {e \in session.resending :
                           ~(e.request \in range /\ e.id = buffer[e.request])}
           acked == Renamed(session.acked, range)
           haveSent == Emplace(Renamed(session.haveSent, range),
                               Messages(range))
           s == Sent(session, range)
<1>1. PICK containers : s = [session EXCEPT !.resending = resending,
                                            !.acked = acked,
                                            !.haveSent = haveSent,
                                            !.containers = containers]
  BY DEF Sent, Messages
<1> HIDE DEF s, resending, acked, haveSent
<1>2. /\ s.haveSent = haveSent
      /\ s.hand = session.hand
      /\ s.toSend = session.toSend
      /\ s.received = session.received
      /\ s.lastId = session.lastId
  BY <1>1 DEF SessionTyped
<1> QED
  BY <1>2 DEF s, haveSent

\* The request in the hand of the thread is in haveSent after that.
LEMMA SendTakenRemembers ==
  SessionInv /\ SessionInv' /\ Remembered /\ SendTaken => Remembered'
<1> SUFFICES ASSUME SessionInv, SessionInv', Remembered, SendTaken
             PROVE  Remembered'
  OBVIOUS
<1> DEFINE range == session.sending
           force == session.forceNewId
           s == Sent(session, range)
<1>1. /\ range \subseteq Requests
      /\ IsFiniteSet(range)
      /\ SessionTyped(session)
      /\ buffer \in [Requests -> Nat]
      /\ session.lastId \in Nat
  BY DEF SessionInv, SessionStateTyped, SessionTyped, MainFits
<1>2. buffer' = NewBuffer(range, force)
  BY DEF SendTaken
<1>3. NewlyNumbered(buffer', range, force)
  BY <1>1, <1>2, NewBufferFresh
<1>4. \A r \in range : buffer'[r] # 0
  BY <1>3 DEF NewlyNumbered
<1>5. PICK last : /\ main' = main
                  /\ session' = [s EXCEPT !.sending = {}, !.lastId = last]
  BY DEF SendTaken
<1>6. /\ s.haveSent = Emplace(Renamed(session.haveSent, range),
                              Messages(range))
      /\ s.hand = session.hand
      /\ s.toSend = session.toSend
      /\ s.received = session.received
  BY <1>1, SentHaveSent
<1> HIDE DEF s
<1>7. /\ session'.haveSent = s.haveSent
      /\ session'.hand = s.hand
      /\ session'.toSend = s.toSend
      /\ session'.received = s.received
  BY <1>5
<1>8. RequestsOf(session.haveSent) \cup range
        \subseteq RequestsOf(session'.haveSent)
  BY <1>1, <1>4, <1>6, <1>7, SentRemembers
<1>9. WaitingIn(session) \subseteq WaitingIn(session')
  BY <1>6, <1>7, <1>8 DEF WaitingIn
<1> QED
  BY <1>5, <1>6, <1>7, <1>9, MoveRemembers

\* So are those of a container.
LEMMA SendContainerRemembers ==
  ASSUME SessionInv, SessionInv', Remembered,
         NEW range \in Ranges(session), SendContainer(range)
  PROVE  Remembered'
<1> DEFINE force == ~session.started
           s == Sent(session, range)
<1>1. /\ session.toSend \subseteq Requests
      /\ session.sending = {}
      /\ SessionTyped(session)
      /\ buffer \in [Requests -> Nat]
      /\ session.lastId \in Nat
  BY DEF SessionInv, SessionStateTyped, SessionTyped, SendContainer, CanSend, Idle
<1>2. PICK q \in session.toSend : range = {r \in session.toSend : r <= q}
  BY DEF Ranges
<1>3. range \subseteq Requests /\ IsFiniteSet(range)
  <2>1. session.toSend \subseteq Nat /\ q \in Nat
    BY <1>1, RequestsAreNat
  <2>2. IsFiniteSet(range)
    BY <1>2, <2>1, UpToIsFinite
  <2> QED
    BY <1>1, <1>2, <2>2
<1>4. buffer' = NewBuffer(range, force)
  BY DEF SendContainer
<1>5. NewlyNumbered(buffer', range, force)
  BY <1>1, <1>3, <1>4, NewBufferFresh
<1>6. \A r \in range : buffer'[r] # 0
  BY <1>5 DEF NewlyNumbered
<1>7. PICK containers, last :
        /\ main' = main
        /\ session' = [s EXCEPT !.toSend = @ \ range,
                                !.started = TRUE,
                                !.lastId = last,
                                !.checkTimer = TRUE,
                                !.containers = containers]
  BY DEF SendContainer
<1>8. /\ s.haveSent = Emplace(Renamed(session.haveSent, range),
                              Messages(range))
      /\ s.hand = session.hand
      /\ s.toSend = session.toSend
      /\ s.received = session.received
      /\ SessionTyped(s)
  <2>1. buffer' \in [Requests -> Nat]
    BY <1>5 DEF NewlyNumbered
  <2> QED
    BY <1>1, <1>3, <2>1, SentHaveSent, SentKeeps
<1> HIDE DEF s
<1>9. /\ session'.haveSent = s.haveSent
      /\ session'.hand = s.hand
      /\ session'.toSend = s.toSend \ range
      /\ session'.received = s.received
  BY <1>7, <1>8 DEF SessionTyped
<1>10. RequestsOf(session.haveSent) \cup range
         \subseteq RequestsOf(session'.haveSent)
  BY <1>3, <1>6, <1>8, <1>9, SentRemembers
<1>11. WaitingIn(session) \subseteq WaitingIn(session')
  BY <1>1, <1>8, <1>9, <1>10 DEF WaitingIn
<1> QED
  BY <1>7, <1>8, <1>9, <1>11, MoveRemembers

\* Between two locks a request is in the hand of the thread.
LEMMA TransferRemembers ==
  SessionInv /\ SessionInv' /\ Remembered /\ Transfer => Remembered'
<1> SUFFICES ASSUME SessionInv, SessionInv', Remembered, Transfer
             PROVE  Remembered'
  OBVIOUS
<1>1. SessionTyped(session)
  BY DEF SessionInv, SessionStateTyped
<1>2. CASE TakeToSend
  <2> DEFINE r == Smallest(session.toSend)
  <2>1. /\ main' = main
        /\ session.sending = {}
        /\ session' = [session EXCEPT !.toSend = @ \ {r}, !.sending = {r},
                                      !.started = TRUE,
                                      !.forceNewId = ~session.started]
    BY <1>2 DEF TakeToSend, OthersUnchanged, CanSend, Idle
  <2> HIDE DEF r
  <2>2. /\ session'.received = session.received
        /\ WaitingIn(session) \subseteq WaitingIn(session')
    BY <1>1, <2>1 DEF SessionTyped, WaitingIn
  <2> QED
    BY <2>1, <2>2, MoveRemembers
<1>3. CASE TakeToResend
  <2> DEFINE taken == At(session.haveSent, {Head(session.todo)})
  <2>1. /\ main' = main
        /\ session.hand = {}
        /\ session' = [session EXCEPT !.haveSent = @ \ taken, !.hand = taken,
                                      !.todo = Tail(@)]
    BY <1>3 DEF TakeToResend, OthersUnchanged
  <2> HIDE DEF taken
  <2>2. /\ session'.received = session.received
        /\ WaitingIn(session) \subseteq WaitingIn(session')
    BY <1>1, <2>1 DEF SessionTyped, WaitingIn, RequestsOf
  <2> QED
    BY <2>1, <2>2, MoveRemembers
<1>4. CASE PutToResend
  <2>1. PICK resending, forced :
          /\ main' = main
          /\ session' = [session EXCEPT
                           !.resending = resending,
                           !.forced = forced,
                           !.toSend = @ \cup RequestsOf(session.hand),
                           !.hand = {}]
    BY <1>4 DEF PutToResend, OthersUnchanged
  <2>2. /\ session'.received = session.received
        /\ session'.haveSent = session.haveSent
        /\ session'.sending = session.sending
        /\ session'.toSend = session.toSend \cup RequestsOf(session.hand)
    BY <1>1, <2>1 DEF SessionTyped
  <2>3. WaitingIn(session) \subseteq WaitingIn(session')
    BY <2>2 DEF WaitingIn
  <2> QED
    BY <2>1, <2>2, <2>3, MoveRemembers
<1>5. CASE Connect
  <2>1. /\ main' = main
        /\ session.hand = {}
        /\ session' = [session EXCEPT !.link = TRUE, !.hand = session.haveSent,
                                      !.haveSent = {}]
    BY <1>5 DEF Connect, OthersUnchanged, Idle
  <2>2. /\ session'.received = session.received
        /\ WaitingIn(session) \subseteq WaitingIn(session')
    BY <1>1, <2>1 DEF SessionTyped, WaitingIn, RequestsOf
  <2> QED
    BY <2>1, <2>2, MoveRemembers
<1> QED
  BY <1>2, <1>3, <1>4, <1>5, SendTakenRemembers, SendContainerRemembers
     DEF Transfer

\* An acknowledgement that is no answer takes only what nobody waits for.
LEMMA AckRemembers ==
  ASSUME NEW s, SessionTyped(s), NEW ids, NEW waited, NEW r \in waited,
         r \in WaitingIn(s)
  PROVE  r \in WaitingIn(RequestsAcked(s, ids, FALSE, waited))
<1> DEFINE known == {c \in s.containers : c.id \in ids}
           inner == UNION {c.messages : c \in known}
           own == AckMessages(s, ids \ IdsOf(known), FALSE, waited)
           bare == [own EXCEPT !.containers = @ \ known]
           t == RequestsAcked(s, ids, FALSE, waited)
<1>1. t = IF known = {} THEN own ELSE AckMessages(bare, inner, FALSE, waited)
  BY DEF RequestsAcked
<1>2. SessionTyped(own)
  <2> HIDE DEF known
  <2> QED
    BY AckMessagesKeeps
<1>3. r \in WaitingIn(own)
  <2> HIDE DEF known
  <2> QED
    BY AckMessagesForgets
<1> HIDE DEF known, inner, own
<1>4. SessionTyped(bare) /\ WaitingIn(bare) = WaitingIn(own)
  BY <1>2 DEF SessionTyped, WaitingIn
<1> HIDE DEF bare
<1>5. r \in WaitingIn(AckMessages(bare, inner, FALSE, waited))
  BY <1>3, <1>4, AckMessagesForgets
<1> HIDE DEF t
<1>6. r \in WaitingIn(t)
  BY <1>1, <1>3, <1>5
<1> QED
  BY <1>6 DEF t

\* A result takes a request out of the maps only when wasSent() still finds it
\* among the acknowledged ones, and makes a response of it.
LEMMA ReceiveResultRemembers ==
  SessionInv /\ AnswersAreRecent /\ Remembered /\ ReceiveResult => Remembered'
<1> SUFFICES ASSUME SessionInv, AnswersAreRecent, Remembered, ReceiveResult
             PROVE  Remembered'
  OBVIOUS
<1> DEFINE g == Registered
           s == RequestsAcked(g, {Message.to}, TRUE, main.handlers)
           requests == WasSent(s, Message.to)
           response == [request |-> CHOOSE r \in requests : TRUE,
                        of      |-> Message.of,
                        error   |-> Message.error]
           received == Respond(s.received, requests)
<1>1. /\ Arrives("result")
      /\ session' = [s EXCEPT !.received = received]
  BY DEF ReceiveResult
<1>2. /\ SessionTyped(session)
      /\ SessionTyped(g)
      /\ SameMoves(session, g)
      /\ Kept(g) = Kept(session)
      /\ WaitingIn(g) = WaitingIn(session)
      /\ main' = main
  BY <1>1, ArrivedIs
<1>3. /\ g.haveSent = session.haveSent
      /\ g.resending = session.resending
      /\ g.acked = session.acked
  BY <1>2 DEF Registered, SessionTyped
<1>4. /\ session.lastId \in Nat
      /\ Agree(Kept(g), session.lastId)
  <2>1. Kept(session) \subseteq Named(session, buffer, main, up, down, server)
    BY DEF Named
  <2> QED
    BY <1>2, <2>1, AgreeShrinks DEF SessionInv, Owned, SessionTyped
<1>5. \A e \in g.haveSent \cup g.resending :
        Cardinality({f \in g.acked : f.id > e.id}) < AckedLimit
  BY <1>3 DEF AnswersAreRecent
<1> HIDE DEF g
<1>6. SessionTyped(s) /\ SameMoves(g, s)
  BY <1>2, RequestsAckedKeeps
<1>7. ASSUME NEW r \in main.handlers, r \in WaitingIn(g), r \notin WaitingIn(s)
      PROVE  requests = {r}
  BY <1>2, <1>4, <1>5, <1>7, ResultIsForIt
<1> HIDE DEF s
<1>8. s.received = session.received /\ s.received \in Seq(Response)
  BY <1>2, <1>6 DEF SameMoves, SessionTyped
<1>9. received = IF requests = {} THEN s.received
                 ELSE Append(s.received, response)
  BY DEF Respond
<1> HIDE DEF requests, received
<1>10. /\ session'.received = received
       /\ WaitingIn(session') = WaitingIn(s)
  BY <1>1, <1>6 DEF SessionTyped, WaitingIn
<1>11. /\ Range(session.received) \subseteq Range(received)
       /\ requests # {} => response \in Range(received)
  <2>1. CASE requests = {}
    BY <2>1, <1>8, <1>9
  <2>2. CASE requests # {}
    <3> HIDE DEF response
    <3> QED
      BY <2>2, <1>8, <1>9, RangeOf
  <2> QED
    BY <2>1, <2>2
<1>12. ASSUME NEW r \in main.handlers, r \in WaitingIn(session)
       PROVE  r \in WaitingIn(session')
                      \cup RequestsOf(Range(session'.received))
  <2>1. CASE r \in WaitingIn(s)
    BY <2>1, <1>10
  <2>2. CASE r \notin WaitingIn(s)
    <3>1. requests = {r}
      BY <2>2, <1>2, <1>7, <1>12
    <3>2. response.request = r /\ response \in Range(received)
      BY <3>1, <1>11
    <3> QED
      BY <3>2, <1>10 DEF RequestsOf
  <2> QED
    BY <2>1, <2>2
<1> QED
  BY <1>2, <1>10, <1>11, <1>12, SessionRemembers

\* A refusal takes nothing out of the maps.
LEMMA ReceiveFatalRemembers ==
  SessionInv /\ Remembered /\ ReceiveFatal => Remembered'
<1> SUFFICES ASSUME SessionInv, Remembered, ReceiveFatal
             PROVE  Remembered'
  OBVIOUS
<1> DEFINE g == Registered
           received == Respond(g.received, WasSent(session, Message.to))
<1>1. /\ Arrives("fatal")
      /\ session' = [g EXCEPT !.received = received]
  BY DEF ReceiveFatal
<1>2. /\ SessionTyped(g)
      /\ SameMoves(session, g)
      /\ WaitingIn(g) = WaitingIn(session)
      /\ main' = main
  BY <1>1, ArrivedIs
<1> HIDE DEF g
<1>3. g.received = session.received /\ g.received \in Seq(Response)
  BY <1>2 DEF SameMoves, SessionTyped
<1>4. Range(session.received) \subseteq Range(received)
  BY <1>3, RangeOf DEF Respond
<1> HIDE DEF received
<1>5. /\ session'.received = received
      /\ WaitingIn(session') = WaitingIn(g)
  BY <1>1, <1>2 DEF SessionTyped, WaitingIn
<1> QED
  BY <1>2, <1>4, <1>5, SessionRemembers

\* Whatever arrives, no request is forgotten.
LEMMA ReceiveRemembers ==
  SessionInv /\ AnswersAreRecent /\ Remembered /\ Receive => Remembered'
<1> SUFFICES ASSUME SessionInv, AnswersAreRecent, Remembered, Receive
             PROVE  Remembered'
  OBVIOUS
<1>1. ASSUME NEW kind, Arrives(kind)
      PROVE  /\ SessionTyped(Registered)
             /\ WaitingIn(Registered) = WaitingIn(session)
             /\ Registered.received = session.received
             /\ main' = main
  BY <1>1, ArrivedIs DEF SameMoves
<1>2. ASSUME NEW ids, NEW kind, Arrives(kind)
      PROVE  LET s == RequestsAcked(Registered, ids, FALSE, main.handlers)
             IN /\ SessionTyped(s)
                /\ s.received = session.received
                /\ \A r \in main.handlers :
                     r \in WaitingIn(session) => r \in WaitingIn(s)
  <2> DEFINE g == Registered
             s == RequestsAcked(g, ids, FALSE, main.handlers)
  <2>1. /\ SessionTyped(g)
        /\ WaitingIn(g) = WaitingIn(session)
        /\ g.received = session.received
    BY <1>1, <1>2
  <2> HIDE DEF g
  <2>2. SessionTyped(s) /\ SameMoves(g, s)
    BY <2>1, RequestsAckedKeeps
  <2>3. \A r \in main.handlers : r \in WaitingIn(g) => r \in WaitingIn(s)
    BY <2>1, AckRemembers
  <2> HIDE DEF s
  <2>4. /\ SessionTyped(s)
        /\ s.received = session.received
        /\ \A r \in main.handlers :
             r \in WaitingIn(session) => r \in WaitingIn(s)
    BY <2>1, <2>2, <2>3 DEF SameMoves
  <2> QED
    BY <2>4 DEF s, g
<1>3. CASE ReceiveAck
  <2>1. Arrives("ack")
    BY <1>3 DEF ReceiveAck
  <2>2. session' = RequestsAcked(Registered, {Message.to}, FALSE, main.handlers)
    BY <1>3 DEF ReceiveAck
  <2> QED
    BY <1>1, <1>2, <2>1, <2>2, SessionRemembers
<1>4. CASE ReceiveStates
  <2> DEFINE s == RequestsAcked(Registered, Message.got, FALSE, main.handlers)
  <2>1. PICK todo : Arrives("states") /\ session' = [s EXCEPT !.todo = todo]
    BY <1>4 DEF ReceiveStates
  <2>2. /\ SessionTyped(s)
        /\ s.received = session.received
        /\ \A r \in main.handlers :
             r \in WaitingIn(session) => r \in WaitingIn(s)
    BY <1>2, <2>1
  <2> HIDE DEF s
  <2>3. session'.received = s.received /\ WaitingIn(session') = WaitingIn(s)
    BY <2>1, <2>2 DEF SessionTyped, WaitingIn
  <2> QED
    BY <1>1, <2>1, <2>2, <2>3, SessionRemembers
<1>5. CASE ReceiveBadMessage
  <2>1. /\ Arrives("resend")
        /\ \/ session' = Resend(Registered, Message.to)
           \/ session' = Registered
    BY <1>5 DEF ReceiveBadMessage
  <2>2. LET t == Resend(Registered, Message.to)
        IN t.received = session.received /\ WaitingIn(t) = WaitingIn(session)
    BY <1>1, <2>1, ResendKeeps DEF SameMoves
  <2> QED
    BY <1>1, <2>1, <2>2, MoveRemembers
<1>6. CASE ReceiveNewSession
  <2>1. PICK todo : /\ Arrives("newSession")
                    /\ session' = [Registered EXCEPT !.todo = todo]
    BY <1>6 DEF ReceiveNewSession
  <2>2. /\ session'.received = session.received
        /\ WaitingIn(session') = WaitingIn(session)
    BY <1>1, <2>1, TodoKeeps DEF SameMoves
  <2> QED
    BY <1>1, <2>1, <2>2, MoveRemembers
<1>7. CASE ReceiveUnknownReset
  <2>1. Arrives("reset") /\ session' = Registered
    BY <1>7 DEF ReceiveUnknownReset
  <2> QED
    BY <1>1, <2>1, MoveRemembers
<1>8. CASE ReceiveDuplicate
  <2>1. main' = main /\ session' = session
    BY <1>8 DEF ReceiveDuplicate, OthersUnchanged
  <2> QED
    BY <2>1, MoveRemembers
<1>9. CASE ReceiveReset
  <2>1. /\ main' = main
        /\ session' = [[session EXCEPT !.link = FALSE]
                         EXCEPT !.started = FALSE, !.seen = {}]
    BY <1>9 DEF ReceiveReset, ResetSession, Restart, OthersUnchanged
  <2>2. SessionTyped(session)
    BY DEF SessionInv, SessionStateTyped
  <2>3. /\ session'.received = session.received
        /\ WaitingIn(session') = WaitingIn(session)
    BY <2>1, <2>2 DEF SessionTyped, WaitingIn
  <2> QED
    BY <2>1, <2>3, MoveRemembers
<1> QED
  BY <1>3, <1>4, <1>5, <1>6, <1>7, <1>8, <1>9, ReceiveResultRemembers,
     ReceiveFatalRemembers DEF Receive

\* A request leaves its place on the main thread only with its handler, or to
\* be queued again.
LEMMA MainThreadRemembers ==
  SessionInv /\ Remembered /\ MainThread => Remembered'
<1> SUFFICES ASSUME SessionInv, Remembered, MainThread
             PROVE  Remembered'
  OBVIOUS
<1>1. SessionTyped(session) /\ MainTyped(main)
  BY DEF SessionInv, SessionStateTyped
<1>2. CASE ProcessCallback
  <2> DEFINE m == Head(session.received)
  <2>1. /\ session.received # <<>>
        /\ main' = [main EXCEPT !.handlers = @ \ {m.request},
                                !.known = @ \ {m.request}]
        /\ session' = [session EXCEPT !.received = Tail(@)]
    BY <1>2 DEF ProcessCallback
  <2>2. /\ WaitingIn(session') = WaitingIn(session)
        /\ Range(session.received) \subseteq Range(session'.received) \cup {m}
    BY <2>1, ResponseTaken
  <2> HIDE DEF m
  <2>3. /\ main'.handlers = main.handlers \ {m.request}
        /\ main'.delayed = main.delayed
        /\ main'.cancelling = main.cancelling
    BY <1>1, <2>1 DEF MainTyped
  <2>4. RequestsOf(Range(session.received))
          \subseteq RequestsOf(Range(session'.received)) \cup {m.request}
    BY <2>2 DEF RequestsOf
  <2> QED
    BY <2>2, <2>3, <2>4 DEF Remembered, PlacesIn
<1>3. CASE DelayRequest
  <2> DEFINE m == Head(session.received)
  <2>1. /\ session.received # <<>>
        /\ main' = [main EXCEPT !.delayed = @ \cup {m.request}]
        /\ session' = [session EXCEPT !.received = Tail(@)]
    BY <1>3 DEF DelayRequest
  <2>2. /\ WaitingIn(session') = WaitingIn(session)
        /\ Range(session.received) \subseteq Range(session'.received) \cup {m}
    BY <2>1, ResponseTaken
  <2> HIDE DEF m
  <2>3. /\ main'.handlers = main.handlers
        /\ main'.delayed = main.delayed \cup {m.request}
        /\ main'.cancelling = main.cancelling
    BY <1>1, <2>1 DEF MainTyped
  <2>4. RequestsOf(Range(session.received))
          \subseteq RequestsOf(Range(session'.received)) \cup {m.request}
    BY <2>2 DEF RequestsOf
  <2> QED
    BY <2>2, <2>3, <2>4 DEF Remembered, PlacesIn
<1>4. ASSUME NEW r \in main.delayed, SendDelayed(r)
      PROVE  Remembered'
  <2>1. main.cancelling = {} /\ main' = [main EXCEPT !.delayed = @ \ {r}]
    BY <1>4 DEF SendDelayed, MainIdle
  <2>2. /\ main'.handlers = main.handlers
        /\ main'.delayed = main.delayed \ {r}
        /\ main'.cancelling = main.cancelling
    BY <1>1, <2>1 DEF MainTyped
  <2>3. CASE r \in main.known
    <3>1. session' = [session EXCEPT !.toSend = @ \cup {r}]
      BY <1>4, <2>3 DEF SendDelayed
    <3>2. /\ session'.received = session.received
          /\ WaitingIn(session') = WaitingIn(session) \cup {r}
      BY <1>1, <3>1 DEF SessionTyped, WaitingIn
    <3> QED
      BY <2>2, <3>2 DEF Remembered, PlacesIn
  <2>4. CASE r \notin main.known
    <3>1. session' = session
      BY <1>4, <2>4 DEF SendDelayed
    <3>2. r \notin main.handlers
      BY <2>1, <2>4 DEF SessionInv, MainFits, RequestsOf
    <3> QED
      BY <2>2, <3>1, <3>2 DEF Remembered, PlacesIn
  <2> QED
    BY <2>3, <2>4
<1>5. ASSUME NEW c \in main.cancelling, CancelQueued(c)
      PROVE  Remembered'
  <2> DEFINE d == [c EXCEPT !.queued = FALSE]
  <2>1. /\ main.cancelling = {c}
        /\ c \in [request : Requests, id : Nat, queued : BOOLEAN]
        /\ main' = [main EXCEPT !.cancelling = {d}]
        /\ session' = [session EXCEPT !.toSend = @ \ {c.request}]
    BY <1>1, <1>5 DEF CancelQueued, SessionInv, MainFits, MainTyped
  <2>2. d.request = c.request
    BY <2>1
  <2> HIDE DEF d
  <2>3. /\ main'.handlers = main.handlers
        /\ main'.delayed = main.delayed
        /\ main'.cancelling = {d}
    BY <1>1, <2>1 DEF MainTyped
  <2>4. /\ session'.received = session.received
        /\ WaitingIn(session) \subseteq WaitingIn(session') \cup {c.request}
    BY <1>1, <2>1 DEF SessionTyped, WaitingIn
  <2>5. RequestsOf(main.cancelling) = RequestsOf(main'.cancelling)
    BY <2>1, <2>2, <2>3 DEF RequestsOf
  <2>6. c.request \in RequestsOf(main.cancelling)
    BY <2>1 DEF RequestsOf
  <2> QED
    BY <2>3, <2>4, <2>5, <2>6 DEF Remembered, PlacesIn
<1>6. ASSUME NEW c \in main.cancelling, CancelSent(c)
      PROVE  Remembered'
  <2> DEFINE gone == At(session.haveSent, {c.id})
  <2>1. /\ main.cancelling = {c}
        /\ main' = [main EXCEPT !.cancelling = {}, !.handlers = @ \ {c.request}]
        /\ session' = [session EXCEPT !.haveSent = @ \ gone]
    BY <1>6 DEF CancelSent, SessionInv, MainFits
  <2>2. \A e \in gone : e.request = c.request
    <3> SUFFICES ASSUME NEW e \in session.haveSent, e.id = c.id
                 PROVE  e.request = c.request
      BY DEF At
    <3>1. e \in Named(session, buffer, main, up, down, server)
      BY DEF Named, Kept
    <3>2. c.id # 0
      BY <3>1 DEF SessionInv, Owned, Agree
    <3>3. Entry(c.id, c.request) \in BeingCancelled(main)
      BY <3>2 DEF BeingCancelled
    <3>4. Entry(c.id, c.request)
            \in Named(session, buffer, main, up, down, server)
      BY <3>3 DEF Named
    <3>5. e = Entry(c.id, c.request)
      BY <3>1, <3>4 DEF SessionInv, Owned, Agree, Entry
    <3> QED
      BY <3>5 DEF Entry
  <2> HIDE DEF gone
  <2>3. /\ main'.handlers = main.handlers \ {c.request}
        /\ main'.delayed = main.delayed
        /\ main'.cancelling = {}
    BY <1>1, <2>1 DEF MainTyped
  <2>4. /\ session'.received = session.received
        /\ session'.haveSent = session.haveSent \ gone
        /\ session'.hand = session.hand
        /\ session'.toSend = session.toSend
        /\ session'.sending = session.sending
    BY <1>1, <2>1 DEF SessionTyped
  <2>5. RequestsOf(session.haveSent)
          \subseteq RequestsOf(session'.haveSent) \cup {c.request}
    BY <2>2, <2>4 DEF RequestsOf
  <2>6. WaitingIn(session) \subseteq WaitingIn(session') \cup {c.request}
    BY <2>4, <2>5 DEF WaitingIn
  <2>7. RequestsOf(main.cancelling) = {c.request}
    BY <2>1 DEF RequestsOf
  <2> QED
    BY <2>3, <2>4, <2>6, <2>7 DEF Remembered, PlacesIn
<1> QED
  BY <1>2, <1>3, <1>4, <1>5, <1>6 DEF MainThread

\* A new request is queued, a cancelled one is on the list of cancels.
LEMMA CallerRemembers ==
  ASSUME SessionInv, Remembered, NEW r \in Requests, Issue(r) \/ StartCancel(r)
  PROVE  Remembered'
<1>1. SessionTyped(session) /\ MainTyped(main)
  BY DEF SessionInv, SessionStateTyped
<1>2. CASE Issue(r)
  <2>1. /\ main' = [main EXCEPT !.issued = @ \cup {r},
                                !.known = @ \cup {r},
                                !.handlers = @ \cup ({r} \ Quiet)]
        /\ session' = [session EXCEPT !.toSend = @ \cup {r}]
    BY <1>2 DEF Issue
  <2>2. /\ main'.handlers = main.handlers \cup ({r} \ Quiet)
        /\ main'.delayed = main.delayed
        /\ main'.cancelling = main.cancelling
    BY <1>1, <2>1 DEF MainTyped
  <2>3. /\ session'.received = session.received
        /\ WaitingIn(session') = WaitingIn(session) \cup {r}
    BY <1>1, <2>1 DEF SessionTyped, WaitingIn
  <2> QED
    BY <2>2, <2>3 DEF Remembered, PlacesIn
<1>3. CASE StartCancel(r)
  <2> DEFINE c == [request |-> r, id |-> buffer[r], queued |-> TRUE]
  <2>1. /\ main.cancelling = {}
        /\ main' = [main EXCEPT !.cancelling = {c}, !.known = @ \ {r}]
        /\ session' = session
    BY <1>3 DEF StartCancel, MainIdle
  <2> HIDE DEF c
  <2>2. /\ main'.handlers = main.handlers
        /\ main'.delayed = main.delayed
    BY <1>1, <2>1 DEF MainTyped
  <2>3. RequestsOf(main.cancelling) = {}
    BY <2>1 DEF RequestsOf
  <2> QED
    BY <2>1, <2>2, <2>3 DEF Remembered, PlacesIn
<1> QED
  BY <1>2, <1>3

\* The server, the network and what is sent without requests.
LEMMA OthersRemember ==
  ASSUME SessionInv, Remembered,
         \/ ServeSession
         \/ Disturb
         \/ Ping
         \/ CheckSentRequests
  PROVE  Remembered'
<1>1. SessionTyped(session)
  BY DEF SessionInv, SessionStateTyped
<1>2. CASE main' = main /\ session' = session
  BY <1>2, MoveRemembers
<1>3. CASE ServeSession \/ Ping \/ LoseSession
  BY <1>2, <1>3 DEF ServeSession, Execute, Take, AnswerMessage, Ping,
                    OthersUnchanged, LoseSession
<1>4. CASE CheckSentRequests
  <2>1. /\ main' = main
        /\ session' = [session EXCEPT !.checkTimer = FALSE]
    BY <1>4 DEF CheckSentRequests, OthersUnchanged
  <2>2. /\ session'.received = session.received
        /\ WaitingIn(session') = WaitingIn(session)
    BY <1>1, <2>1 DEF SessionTyped, WaitingIn
  <2> QED
    BY <2>1, <2>2, MoveRemembers
<1>5. CASE Disconnect
  <2>1. main' = main /\ session' = [session EXCEPT !.link = FALSE]
    BY <1>5 DEF Disconnect, Restart, OthersUnchanged
  <2>2. /\ session'.received = session.received
        /\ WaitingIn(session') = WaitingIn(session)
    BY <1>1, <2>1 DEF SessionTyped, WaitingIn
  <2> QED
    BY <2>1, <2>2, MoveRemembers
<1>6. ASSUME NEW c \in session.containers, ClearOldContainer(c)
      PROVE  Remembered'
  <2>1. main' = main /\ session' = Resend(session, c.id)
    BY <1>6 DEF ClearOldContainer, OthersUnchanged
  <2>2. /\ session'.received = session.received
        /\ WaitingIn(session') = WaitingIn(session)
    BY <1>1, <2>1, ResendKeeps DEF SameMoves
  <2> QED
    BY <2>1, <2>2, MoveRemembers
<1>7. CASE Acknowledge \/ RefuseContainer
  BY <1>2, <1>7 DEF Acknowledge, RefuseContainer, Take
<1>8. ASSUME NEW m, NEW kind, RefuseMessage(m, kind)
      PROVE  Remembered'
  BY <1>2, <1>8 DEF RefuseMessage, Take
<1>9. ASSUME NEW d, AnswerMessage(d, TRUE)
      PROVE  Remembered'
  BY <1>2, <1>9 DEF AnswerMessage
<1> QED
  BY <1>3, <1>4, <1>5, <1>6, <1>7, <1>8, <1>9 DEF Disturb

\* No step of MtpSession forgets a request, when no message that is out is
\* older than all the answered ones that are remembered.
LEMMA StepRemembers ==
  SessionInv /\ SessionInv' /\ AnswersAreRecent /\ Remembered
    /\ [SessionNext]_sessionVars => Remembered'
<1> SUFFICES ASSUME SessionInv, SessionInv', AnswersAreRecent, Remembered,
                    [SessionNext]_sessionVars
             PROVE  Remembered'
  OBVIOUS
<1>1. CASE UNCHANGED sessionVars
  <2>1. main' = main /\ session' = session
    BY <1>1 DEF sessionVars
  <2> QED
    BY <2>1, MoveRemembers
<1>2. CASE \E r \in Requests : Issue(r) \/ StartCancel(r)
  BY <1>2, CallerRemembers
<1>3. CASE Receive \/ Transfer \/ MainThread
  BY <1>3, ReceiveRemembers, TransferRemembers, MainThreadRemembers
<1>4. CASE ServeSession \/ Disturb \/ Ping \/ CheckSentRequests
  BY <1>4, OthersRemember
<1> QED
  BY <1>1, <1>2, <1>3, <1>4 DEF SessionNext

\* No step of the two threads, of resending or of acknowledging loses a request
\* that somebody waits for, in every behaviour in which no message is out for
\* longer than AckedLimit answered ones.  Without that a result that comes late
\* is for a message whose id was dropped from the acknowledged ones in the
\* moment it was put there (SessionData::_ackedIds, kIdsBufferSize), and the
\* request waits for ever.
THEOREM NothingForgotten ==
  SessionSpec /\ []AnswersAreRecent => []NothingIsForgotten
<1>1. SessionInit => Remembered
  BY DEF SessionInit, Remembered
<1>2. SessionInv /\ SessionInv' /\ AnswersAreRecent /\ Remembered
        /\ [SessionNext]_sessionVars => Remembered'
  BY StepRemembers
<1>3. SessionInv => (NothingIsForgotten <=> Remembered)
  BY NothingIsForgottenIs
<1>4. SessionSpec => []SessionInv
  BY SessionInvariance
<1> QED
  BY <1>1, <1>2, <1>3, <1>4, PTL DEF SessionSpec

-----------------------------------------------------------------------------
(* The bounds of the session's maps.                                       *)

Container == [id : Nat, messages : SUBSET Nat]

\* The maps of a session are finite, and what is remembered has its limit.
\* The thread has not begun anything else when it takes a request to send.
Bounded(s) ==
  /\ IsFiniteSet(Kept(s))
  /\ Cardinality(s.acked) <= AckedLimit
  /\ s.seen \subseteq Nat
  /\ IsFiniteSet(s.seen)
  /\ Cardinality(s.seen) <= SeenLimit
  /\ Cardinality(s.sending) <= 1
  /\ s.sending # {} => s.hand = {} /\ s.todo = <<>>

\* The id of a container is nobody else's.
Contained(s, b) ==
  \A c \in s.containers :
    /\ c \in Container
    /\ c.id # 0
    /\ c.id <= s.lastId
    /\ c.id \notin IdsOf(s.haveSent)
    /\ \A r \in Requests : b[r] # c.id
    /\ c.messages # {}

Fit(s, b, issued) ==
  /\ Bounded(s)
  /\ Contained(s, b)
  /\ s.forced \subseteq issued

\* No list of the server or of the main thread has what the others do not.
ListsFit ==
  /\ main.delayed \subseteq main.issued
  /\ main.handlers \subseteq main.issued \ Quiet
  /\ server.owed \subseteq IdsOf(server.done)

SessionFits == Fit(session, buffer, main.issued) /\ ListsFit

\* Fewer entries and containers, and buffers that are reset, fit as well.
LEMMA FitShrinks ==
  ASSUME NEW s, NEW b, NEW issued, Fit(s, b, issued),
         NEW t, Kept(t) \subseteq Kept(s), t.haveSent \subseteq s.haveSent,
         t.acked = s.acked, t.seen = s.seen,
         t.containers \subseteq s.containers, t.lastId = s.lastId,
         t.forced = s.forced,
         t.sending = {} \/ /\ t.sending = s.sending
                           /\ t.hand = s.hand
                           /\ t.todo = s.todo,
         NEW c, \A r \in Requests : c[r] = b[r] \/ c[r] = 0,
         NEW more, issued \subseteq more
  PROVE  Fit(t, c, more)
<1>1. IsFiniteSet(Kept(t))
  BY FS_Subset DEF Fit, Bounded
<1>2. Cardinality(t.sending) <= 1
  <2>1. CASE t.sending = {}
    <3>1. Cardinality({}) <= 1
      BY FS_EmptySet
    <3> QED
      BY <2>1, <3>1
  <2>2. CASE t.sending = s.sending
    BY <2>2 DEF Fit, Bounded
  <2> QED
    BY <2>1, <2>2
<1>3. Bounded(t)
  BY <1>1, <1>2 DEF Fit, Bounded
<1>4. IdsOf(t.haveSent) \subseteq IdsOf(s.haveSent)
  BY DEF IdsOf
<1>5. Contained(t, c)
  BY <1>4 DEF Fit, Contained
<1> QED
  BY <1>3, <1>5 DEF Fit

-----------------------------------------------------------------------------
(* Only the newest are kept.                                               *)

\* Of a finite set of entries with different ids not more than limit have fewer
\* than limit newer ones.
LEMMA NewestAreFew ==
  ASSUME NEW A, IsFiniteSet(A), NEW limit \in Nat \ {0},
         \A e \in A : e.id \in Nat,
         \A e, f \in A : e.id = f.id => e = f
  PROVE  LET B == {e \in A : Cardinality({f \in A : f.id > e.id}) < limit}
         IN IsFiniteSet(B) /\ Cardinality(B) <= limit
<1> DEFINE above(e) == {f \in A : f.id > e.id}
           B == {e \in A : Cardinality(above(e)) < limit}
<1>1. IsFiniteSet(B) /\ Cardinality(B) \in Nat
  BY FS_Subset, FS_CardinalityType
<1>2. ASSUME B = {}
      PROVE  Cardinality(B) <= limit
  <2> HIDE DEF B
  <2>1. Cardinality(B) = 0
    BY <1>2, FS_EmptySet
  <2> QED
    BY <2>1
<1>3. ASSUME B # {}
      PROVE  Cardinality(B) <= limit
  <2> DEFINE n == Smallest(IdsOf(B))
  <2>1. IdsOf(B) \subseteq Nat /\ IdsOf(B) # {}
    BY <1>3 DEF IdsOf
  <2>2. n \in IdsOf(B) /\ \A k \in IdsOf(B) : n <= k
    BY <2>1, SmallestIsIn
  <2> HIDE DEF n
  <2>3. PICK e \in B : e.id = n
    BY <2>2 DEF IdsOf
  <2>4. B \ {e} \subseteq above(e)
    <3> SUFFICES ASSUME NEW f \in B, f # e
                 PROVE  f \in above(e)
      OBVIOUS
    <3>1. f.id \in IdsOf(B) /\ f \in A /\ e \in A
      BY DEF IdsOf
    <3>2. n <= f.id /\ f.id # n /\ f.id \in Nat /\ n \in Nat
      BY <2>1, <2>2, <2>3, <3>1
    <3>3. f.id > e.id
      BY <2>3, <3>2
    <3> QED
      BY <3>1, <3>3
  <2>5. IsFiniteSet(above(e)) /\ Cardinality(above(e)) \in Nat
    <3>1. above(e) \subseteq A
      OBVIOUS
    <3> QED
      BY <3>1, FS_Subset, FS_CardinalityType
  <2>6. Cardinality(above(e)) < limit
    BY <2>3
  <2> HIDE DEF above, B
  <2>7. Cardinality(B \ {e}) = Cardinality(B) - 1
    BY <1>1, <2>3, FS_RemoveElement
  <2>8. Cardinality(B \ {e}) <= Cardinality(above(e))
    BY <2>4, <2>5, FS_Subset
  <2>9. Cardinality(B) <= limit
    BY <1>1, <2>5, <2>6, <2>7, <2>8
  <2> QED
    BY <2>9 DEF B, above
<1>4. IsFiniteSet(B) /\ Cardinality(B) <= limit
  BY <1>1, <1>2, <1>3
<1> QED
  BY <1>4

\* So not more than AckedLimit acknowledged messages are remembered,
LEMMA TrimIsBounded ==
  ASSUME NEW A, IsFiniteSet(A), NEW last, Agree(A, last)
  PROVE  IsFiniteSet(Trim(A)) /\ Cardinality(Trim(A)) <= AckedLimit
<1>1. /\ \A e \in A : e.id \in Nat
      /\ \A e, f \in A : e.id = f.id => e = f
  BY DEF Agree, Entries
<1> QED
  BY <1>1, NewestAreFew, MtpSessionAssumption DEF Trim

\* and not more than SeenLimit received ones.
LEMMA RegisterIsBounded ==
  ASSUME NEW seen, seen \subseteq Nat, IsFiniteSet(seen), NEW id \in Nat
  PROVE  /\ Register(seen, id) \subseteq Nat
         /\ IsFiniteSet(Register(seen, id))
         /\ Cardinality(Register(seen, id)) <= SeenLimit
<1> DEFINE S == seen \cup {id}
           above(n) == {k \in S : k > n}
           B == {n \in S : Cardinality(above(n)) < SeenLimit}
<1>1. Register(seen, id) = B
  BY DEF Register
<1>2. S \subseteq Nat /\ IsFiniteSet(S)
  BY FS_AddElement
<1> HIDE DEF S
<1>3. IsFiniteSet(B) /\ Cardinality(B) \in Nat /\ B \subseteq Nat
  BY <1>2, FS_Subset, FS_CardinalityType
<1>4. Cardinality(B) <= SeenLimit
  <2>1. CASE B = {}
    <3> HIDE DEF B
    <3>1. Cardinality(B) = 0
      BY <2>1, FS_EmptySet
    <3> QED
      BY <3>1, MtpSessionAssumption
  <2>2. CASE B # {}
    <3> DEFINE n == Smallest(B)
    <3>1. n \in B /\ \A k \in B : n <= k
      BY <2>2, <1>3, SmallestIsIn
    <3> HIDE DEF n
    <3>2. B \ {n} \subseteq above(n)
      <4> SUFFICES ASSUME NEW k \in B, k # n
                   PROVE  k \in above(n)
        OBVIOUS
      <4>1. n <= k /\ k \in Nat /\ n \in Nat
        BY <3>1, <1>3
      <4> QED
        BY <4>1
    <3>3. IsFiniteSet(above(n)) /\ Cardinality(above(n)) \in Nat
      <4>1. above(n) \subseteq S
        OBVIOUS
      <4> QED
        BY <1>2, <4>1, FS_Subset, FS_CardinalityType
    <3>4. Cardinality(above(n)) < SeenLimit
      BY <3>1
    <3> HIDE DEF above, B
    <3>5. Cardinality(B \ {n}) = Cardinality(B) - 1
      BY <1>3, <3>1, FS_RemoveElement
    <3>6. Cardinality(B \ {n}) <= Cardinality(above(n))
      BY <3>2, <3>3, FS_Subset
    <3> QED
      BY <1>3, <3>3, <3>4, <3>5, <3>6, MtpSessionAssumption
  <2> QED
    BY <2>1, <2>2
<1> QED
  BY <1>1, <1>3, <1>4

-----------------------------------------------------------------------------
(* What arrives.                                                           *)

\* Acknowledging keeps to the limit, and adds to no other map.
LEMMA AckMessagesFits ==
  ASSUME NEW s, SessionTyped(s), NEW last, Agree(Kept(s), last),
         NEW b, NEW issued, Fit(s, b, issued),
         NEW ids, NEW byResponse, NEW waited
  PROVE  LET t == AckMessages(s, ids, byResponse, waited)
         IN /\ Fit(t, b, issued)
            /\ SessionTyped(t)
            /\ Agree(Kept(t), last)
            /\ t.todo = s.todo
            /\ t.sending = s.sending
<1> DEFINE sent == {e \in s.haveSent : Done(e, ids, byResponse, waited)}
           queued == {e \in s.resending :
                        /\ Done(e, ids, byResponse, waited)
                        /\ e.id \notin IdsOf(s.haveSent)}
           unqueued == {e \in queued : e.request \in s.toSend}
           all == Emplace(s.acked, sent \cup unqueued)
           toSend == s.toSend \ RequestsOf(unqueued)
           t == AckMessages(s, ids, byResponse, waited)
<1>1. t = [s EXCEPT !.haveSent = @ \ sent, !.resending = @ \ queued,
                    !.toSend = toSend, !.acked = Trim(all)]
  BY DEF AckMessages
<1>2. all \subseteq Kept(s)
  BY DEF Emplace, Kept
<1>3. SessionTyped(t) /\ Kept(t) \subseteq Kept(s)
  BY AckMessagesKeeps
<1> HIDE DEF sent, queued, toSend, all, t
<1>4. IsFiniteSet(Kept(s))
  BY DEF Fit, Bounded
<1>5. IsFiniteSet(all) /\ Agree(all, last)
  BY <1>2, <1>4, FS_Subset, AgreeShrinks
<1>6. Cardinality(Trim(all)) <= AckedLimit
  BY <1>5, TrimIsBounded
<1>7. /\ t.haveSent \subseteq s.haveSent
      /\ t.acked = Trim(all)
      /\ t.seen = s.seen
      /\ t.sending = s.sending
      /\ t.hand = s.hand
      /\ t.todo = s.todo
      /\ t.containers = s.containers
      /\ t.lastId = s.lastId
      /\ t.forced = s.forced
  BY <1>1 DEF SessionTyped
<1>8. IsFiniteSet(Kept(t)) /\ Agree(Kept(t), last)
  BY <1>3, <1>4, FS_Subset, AgreeShrinks
<1>9. Bounded(t)
  BY <1>6, <1>7, <1>8 DEF Fit, Bounded
<1>10. IdsOf(t.haveSent) \subseteq IdsOf(s.haveSent)
  BY <1>7 DEF IdsOf
<1>11. Contained(t, b)
  BY <1>7, <1>10 DEF Fit, Contained
<1>12. Fit(t, b, issued)
  BY <1>7, <1>9, <1>11 DEF Fit
<1> QED
  BY <1>3, <1>7, <1>8, <1>12 DEF t

\* So does acknowledging with the containers.
LEMMA RequestsAckedFits ==
  ASSUME NEW s, SessionTyped(s), NEW last, Agree(Kept(s), last),
         NEW b, NEW issued, Fit(s, b, issued),
         NEW ids, NEW byResponse, NEW waited
  PROVE  LET t == RequestsAcked(s, ids, byResponse, waited)
         IN /\ Fit(t, b, issued)
            /\ SessionTyped(t)
            /\ t.sending = s.sending
<1> DEFINE known == {c \in s.containers : c.id \in ids}
           inner == UNION {c.messages : c \in known}
           own == AckMessages(s, ids \ IdsOf(known), byResponse, waited)
           bare == [own EXCEPT !.containers = @ \ known]
           t == RequestsAcked(s, ids, byResponse, waited)
<1>1. t = IF known = {} THEN own ELSE AckMessages(bare, inner, FALSE, waited)
  BY DEF RequestsAcked
<1>2. /\ Fit(own, b, issued)
      /\ SessionTyped(own)
      /\ Agree(Kept(own), last)
      /\ own.sending = s.sending
  <2> HIDE DEF known
  <2> QED
    BY AckMessagesFits
<1> HIDE DEF known, inner, own
<1>3. /\ SessionTyped(bare)
      /\ Kept(bare) = Kept(own)
      /\ bare.haveSent = own.haveSent
      /\ bare.acked = own.acked
      /\ bare.seen = own.seen
      /\ bare.containers \subseteq own.containers
      /\ bare.lastId = own.lastId
      /\ bare.forced = own.forced
      /\ bare.sending = own.sending
      /\ bare.hand = own.hand
      /\ bare.todo = own.todo
  BY <1>2 DEF SessionTyped, Kept
<1> HIDE DEF bare
<1>4. Fit(bare, b, issued)
  BY <1>2, <1>3, FitShrinks
<1>5. Agree(Kept(bare), last)
  BY <1>2, <1>3
<1> DEFINE u == AckMessages(bare, inner, FALSE, waited)
<1>6. /\ Fit(u, b, issued)
      /\ SessionTyped(u)
      /\ u.sending = bare.sending
  <2> DEFINE no == FALSE
             v == AckMessages(bare, inner, no, waited)
  <2>1. SessionTyped(bare) /\ u = v
    BY <1>3
  <2> HIDE DEF no, u
  <2>2. /\ Fit(v, b, issued)
        /\ SessionTyped(v)
        /\ v.sending = bare.sending
    BY <2>1, <1>4, <1>5, AckMessagesFits
  <2> QED
    BY <2>1, <2>2
<1> HIDE DEF t, u
<1>7. Fit(t, b, issued) /\ SessionTyped(t) /\ t.sending = s.sending
  BY <1>1, <1>2, <1>3, <1>6 DEF u
<1> QED
  BY <1>7 DEF t

\* The handlers of the thread, where only the session changes.
HandlerFits ==
  /\ buffer' = buffer
  /\ main' = main
  /\ Fit(session', buffer, main.issued)
  /\ server'.owed \subseteq IdsOf(server'.done)

\* It is enough that the session fits when nothing else has changed.
LEMMA HandlerKeeps == SessionFits /\ HandlerFits => SessionFits'
BY DEF SessionFits, HandlerFits, ListsFit

\* What only takes from the maps and containers keeps the bounds.
LEMMA MovedFits ==
  ASSUME SessionInv, SessionFits, buffer' = buffer, main' = main,
         Kept(session') \subseteq Kept(session),
         session'.haveSent \subseteq session.haveSent,
         session'.acked = session.acked, session'.seen = session.seen,
         session'.containers \subseteq session.containers,
         session'.lastId = session.lastId, session'.forced = session.forced,
         session'.sending = {} \/ /\ session'.sending = session.sending
                                  /\ session'.hand = session.hand
                                  /\ session'.todo = session.todo,
         server'.owed \subseteq IdsOf(server'.done)
  PROVE  SessionFits'
<1>1. \A r \in Requests : buffer[r] = buffer[r] \/ buffer[r] = 0
  OBVIOUS
<1>2. Fit(session, buffer, main.issued)
  BY DEF SessionFits
<1>3. Fit(session', buffer, main.issued)
  BY <1>1, <1>2, FitShrinks
<1> QED
  BY <1>3, HandlerKeeps DEF HandlerFits

\* A message that arrives is registered within the limit.
LEMMA ArrivedFits ==
  ASSUME SessionInv, SessionFits, NEW kind, Arrives(kind)
  PROVE  /\ Fit(Registered, buffer, main.issued)
         /\ SessionTyped(Registered)
         /\ Agree(Kept(Registered), session.lastId)
         /\ Registered.sending = {}
         /\ buffer' = buffer
         /\ main' = main
         /\ server' = server
         /\ server'.owed \subseteq IdsOf(server'.done)
<1>1. /\ SessionTyped(session)
      /\ SessionTyped(Registered)
      /\ SameMoves(session, Registered)
      /\ Kept(Registered) = Kept(session)
      /\ Message \in FromServer
      /\ buffer' = buffer
      /\ main' = main
      /\ server' = server
  BY ArrivedIs
<1>2. session.sending = {}
  BY DEF Arrives, Idle
<1>3. Message.id \in Nat
  BY <1>1 DEF FromServer
<1> DEFINE seen == Register(session.seen, Message.id)
           s == Registered
<1>4. s = [session EXCEPT !.seen = seen]
  BY DEF Registered
<1>5. Fit(session, buffer, main.issued)
  BY DEF SessionFits
<1>6. /\ seen \subseteq Nat
      /\ IsFiniteSet(seen)
      /\ Cardinality(seen) <= SeenLimit
  BY <1>3, <1>5, RegisterIsBounded DEF Fit, Bounded
<1> HIDE DEF seen, s
<1>7. /\ s.haveSent = session.haveSent
      /\ s.acked = session.acked
      /\ s.seen = seen
      /\ s.containers = session.containers
      /\ s.lastId = session.lastId
      /\ s.forced = session.forced
      /\ s.sending = {}
  BY <1>1, <1>2, <1>4 DEF SessionTyped
<1>8. Kept(s) = Kept(session)
  BY <1>1 DEF s
<1>9. Cardinality(s.sending) <= 1
  BY <1>7, FS_EmptySet
<1>10. Bounded(s)
  BY <1>5, <1>6, <1>7, <1>8, <1>9 DEF Fit, Bounded
<1>11. Contained(s, buffer)
  BY <1>5, <1>7 DEF Fit, Contained
<1>12. Fit(s, buffer, main.issued)
  BY <1>5, <1>7, <1>10, <1>11 DEF Fit
<1>13. Agree(Kept(session), session.lastId)
  <2>1. Kept(session) \subseteq Named(session, buffer, main, up, down, server)
    BY DEF Named
  <2> QED
    BY <2>1, AgreeShrinks DEF SessionInv, Owned
<1>14. server.owed \subseteq IdsOf(server.done)
  BY DEF SessionFits, ListsFit
<1> QED
  BY <1>1, <1>7, <1>8, <1>12, <1>13, <1>14 DEF s

\* t has fewer containers, and something to resend.
Resent(s, t) ==
  \E containers, todo :
    /\ containers \subseteq s.containers
    /\ t = [s EXCEPT !.containers = containers, !.todo = todo]

\* What a handler adds to what it made of the maps fits as well.
LEMMA DressedFits ==
  ASSUME NEW s, SessionTyped(s), NEW b, NEW issued, Fit(s, b, issued),
         s.sending = {}, NEW t,
         \/ t = s
         \/ \E received : t = [s EXCEPT !.received = received]
         \/ \E todo : t = [s EXCEPT !.todo = todo]
         \/ Resent(s, t)
  PROVE  Fit(t, b, issued)
<1>1. /\ t.haveSent = s.haveSent
      /\ t.acked = s.acked
      /\ t.seen = s.seen
      /\ t.containers \subseteq s.containers
      /\ t.lastId = s.lastId
      /\ t.forced = s.forced
      /\ t.sending = {}
      /\ t.resending = s.resending
      /\ t.hand = s.hand
  BY DEF SessionTyped, Resent
<1>2. Kept(t) = Kept(s)
  BY <1>1 DEF Kept
<1>3. \A r \in Requests : b[r] = b[r] \/ b[r] = 0
  OBVIOUS
<1> QED
  BY <1>1, <1>2, <1>3, FitShrinks

\* What resend() changes before it takes its first lock.
LEMMA ResendIs ==
  ASSUME NEW s, NEW id
  PROVE  Resent(s, Resend(s, id))
<1> DEFINE known == {c \in s.containers : c.id = id}
           todo == IF known = {} THEN <<id>>
                   ELSE Ascending(UNION {c.messages : c \in known})
<1>1. Resend(s, id) = [s EXCEPT !.containers = s.containers \ known,
                                !.todo = todo]
  BY DEF Resend
<1>2. s.containers \ known \subseteq s.containers
  OBVIOUS
<1> HIDE DEF known, todo
<1> QED
  BY <1>1, <1>2 DEF Resent

\* A message that arrives and acknowledges others keeps the bounds.
LEMMA AckedFits ==
  ASSUME SessionInv, SessionFits, NEW kind, Arrives(kind),
         NEW ids, NEW byResponse
  PROVE  LET t == RequestsAcked(Registered, ids, byResponse, main.handlers)
         IN /\ Fit(t, buffer, main.issued)
            /\ SessionTyped(t)
            /\ t.sending = {}
<1> DEFINE s == Registered
           t == RequestsAcked(s, ids, byResponse, main.handlers)
<1>1. /\ Fit(s, buffer, main.issued)
      /\ SessionTyped(s)
      /\ Agree(Kept(s), session.lastId)
      /\ s.sending = {}
  BY ArrivedFits
<1> HIDE DEF s
<1>2. /\ Fit(t, buffer, main.issued)
      /\ SessionTyped(t)
      /\ t.sending = {}
  BY <1>1, RequestsAckedFits
<1> HIDE DEF t
<1> QED
  BY <1>2 DEF s, t

\* Whatever arrives keeps the bounds.
LEMMA ReceiveFits == SessionInv /\ SessionFits /\ Receive => SessionFits'
<1> SUFFICES ASSUME SessionInv, SessionFits, Receive
             PROVE  SessionFits'
  OBVIOUS
<1>1. ASSUME NEW kind, Arrives(kind)
      PROVE  /\ Fit(Registered, buffer, main.issued)
             /\ SessionTyped(Registered)
             /\ Registered.sending = {}
             /\ buffer' = buffer
             /\ main' = main
             /\ server'.owed \subseteq IdsOf(server'.done)
  BY <1>1, ArrivedFits
<1>2. ASSUME NEW kind, Arrives(kind), Fit(session', buffer, main.issued)
      PROVE  SessionFits'
  BY <1>1, <1>2, HandlerKeeps DEF HandlerFits
<1>3. CASE ReceiveResult
  <2> DEFINE s == RequestsAcked(Registered, {Message.to}, TRUE, main.handlers)
  <2>1. PICK received :
          Arrives("result") /\ session' = [s EXCEPT !.received = received]
    BY <1>3 DEF ReceiveResult
  <2>2. /\ Fit(s, buffer, main.issued)
        /\ SessionTyped(s)
        /\ s.sending = {}
    BY <2>1, AckedFits
  <2> HIDE DEF s
  <2>3. Fit(session', buffer, main.issued)
    BY <2>1, <2>2, DressedFits
  <2> QED
    BY <1>2, <2>1, <2>3
<1>4. CASE ReceiveAck
  <2>1. /\ Arrives("ack")
        /\ session' =
             RequestsAcked(Registered, {Message.to}, FALSE, main.handlers)
    BY <1>4 DEF ReceiveAck
  <2> DEFINE no == FALSE
             s == RequestsAcked(Registered, {Message.to}, no, main.handlers)
  <2> HIDE DEF no
  <2>2. /\ Fit(s, buffer, main.issued)
        /\ SessionTyped(s)
        /\ s.sending = {}
    BY <2>1, AckedFits
  <2>3. session' = s
    BY <2>1 DEF no
  <2>4. Fit(session', buffer, main.issued)
    BY <2>2, <2>3
  <2> QED
    BY <1>2, <2>1, <2>4
<1>5. CASE ReceiveStates
  <2> DEFINE s == RequestsAcked(Registered, Message.got, FALSE, main.handlers)
  <2>1. PICK todo : Arrives("states") /\ session' = [s EXCEPT !.todo = todo]
    BY <1>5 DEF ReceiveStates
  <2>2. /\ Fit(s, buffer, main.issued)
        /\ SessionTyped(s)
        /\ s.sending = {}
    BY <2>1, AckedFits
  <2> HIDE DEF s
  <2>3. Fit(session', buffer, main.issued)
    BY <2>1, <2>2, DressedFits
  <2> QED
    BY <1>2, <2>1, <2>3
<1>6. CASE ReceiveBadMessage
  <2>1. /\ Arrives("resend")
        /\ \/ session' = Resend(Registered, Message.to)
           \/ session' = Registered
    BY <1>6 DEF ReceiveBadMessage
  <2> DEFINE s == Registered
             t == Resend(s, Message.to)
  <2>2. /\ Fit(s, buffer, main.issued)
        /\ SessionTyped(s)
        /\ s.sending = {}
    BY <1>1, <2>1
  <2> HIDE DEF s
  <2>3. Resent(s, t)
    BY ResendIs
  <2> HIDE DEF t
  <2>4. Fit(t, buffer, main.issued)
    BY <2>2, <2>3, DressedFits
  <2>5. session' = t \/ session' = s
    BY <2>1 DEF s, t
  <2> QED
    BY <1>2, <2>1, <2>2, <2>4, <2>5
<1>7. CASE ReceiveFatal
  <2>1. PICK received : /\ Arrives("fatal")
                        /\ session' = [Registered EXCEPT !.received = received]
    BY <1>7 DEF ReceiveFatal
  <2>2. Fit(session', buffer, main.issued)
    BY <1>1, <2>1, DressedFits
  <2> QED
    BY <1>2, <2>1, <2>2
<1>8. CASE ReceiveNewSession
  <2>1. PICK todo : /\ Arrives("newSession")
                    /\ session' = [Registered EXCEPT !.todo = todo]
    BY <1>8 DEF ReceiveNewSession
  <2>2. Fit(session', buffer, main.issued)
    BY <1>1, <2>1, DressedFits
  <2> QED
    BY <1>2, <2>1, <2>2
<1>9. CASE ReceiveUnknownReset
  <2>1. Arrives("reset") /\ session' = Registered
    BY <1>9 DEF ReceiveUnknownReset
  <2>2. Fit(session', buffer, main.issued)
    BY <1>1, <2>1
  <2> QED
    BY <1>2, <2>1, <2>2
<1>10. CASE ReceiveDuplicate
  BY <1>10 DEF ReceiveDuplicate, OthersUnchanged, SessionFits, ListsFit
<1>11. CASE ReceiveReset
  <2>1. /\ main' = main
        /\ buffer' = buffer
        /\ session.sending = {}
        /\ session' = [[session EXCEPT !.link = FALSE]
                         EXCEPT !.started = FALSE, !.seen = {}]
        /\ server' = [server EXCEPT !.alive = FALSE, !.done = {}, !.owed = {}]
    BY <1>11 DEF ReceiveReset, ResetSession, Restart, OthersUnchanged, Idle
  <2>2. SessionTyped(session) /\ ServerTyped(server)
    BY DEF SessionInv, SessionStateTyped
  <2>3. server'.owed \subseteq IdsOf(server'.done)
    BY <2>1, <2>2 DEF ServerTyped
  <2>4. /\ session'.haveSent = session.haveSent
        /\ session'.acked = session.acked
        /\ session'.seen = {}
        /\ session'.containers = session.containers
        /\ session'.lastId = session.lastId
        /\ session'.forced = session.forced
        /\ session'.sending = {}
        /\ Kept(session') = Kept(session)
    BY <2>1, <2>2 DEF SessionTyped, Kept
  <2>5. /\ IsFiniteSet({})
        /\ Cardinality({}) <= 1
        /\ Cardinality({}) <= SeenLimit
    BY FS_EmptySet, MtpSessionAssumption
  <2>6. Fit(session', buffer, main.issued)
    BY <2>4, <2>5 DEF SessionFits, Fit, Bounded, Contained
  <2> QED
    BY <2>1, <2>3, <2>6, HandlerKeeps DEF HandlerFits
<1> QED
  BY <1>3, <1>4, <1>5, <1>6, <1>7, <1>8, <1>9, <1>10, <1>11 DEF Receive

-----------------------------------------------------------------------------
(* What is sent.                                                           *)

\* The ids of the messages of a container move on with those of the buffers.
Moved(c, range) ==
  [c EXCEPT !.messages =
     {IF \E r \in range : n = buffer[r]
        THEN buffer'[CHOOSE r \in range : n = buffer[r]] ELSE n : n \in @}]

\* A container whose messages get new ids has as little to be empty.
LEMMA MovedIs ==
  ASSUME NEW c \in Container, NEW range, range \subseteq Requests,
         buffer' \in [Requests -> Nat]
  PROVE  /\ Moved(c, range) \in Container
         /\ Moved(c, range).id = c.id
         /\ c.messages # {} => Moved(c, range).messages # {}
<1> DEFINE next(n) == IF \E r \in range : n = buffer[r]
                        THEN buffer'[CHOOSE r \in range : n = buffer[r]] ELSE n
           messages == {next(n) : n \in c.messages}
<1>1. ASSUME NEW n \in c.messages
      PROVE  next(n) \in Nat
  <2>1. n \in Nat
    BY DEF Container
  <2>2. CASE \E r \in range : n = buffer[r]
    <3>1. (CHOOSE r \in range : n = buffer[r]) \in range
      BY <2>2
    <3> QED
      BY <2>2, <3>1
  <2> QED
    BY <2>1, <2>2
<1> HIDE DEF next
<1>2. messages \subseteq Nat /\ (c.messages # {} => messages # {})
  BY <1>1
<1>3. Moved(c, range) = [c EXCEPT !.messages = messages]
  BY DEF Moved, Container, next
<1> HIDE DEF messages
<1> QED
  BY <1>2, <1>3 DEF Container

\* The maps of a session are images of those before, and one message for each
\* request that leaves.
LEMMA ImageIsFinite ==
  ASSUME NEW S, IsFiniteSet(S), NEW f, f = [x \in S |-> f[x]],
         NEW T, T = {f[x] : x \in S}
  PROVE  IsFiniteSet(T) /\ Cardinality(T) <= Cardinality(S)
<1>1. f \in Surjection(S, T)
  BY DEF Surjection
<1> QED
  BY <1>1, FS_Surjection

\* A finite range has finitely many messages.
LEMMA MessagesAreFinite ==
  ASSUME NEW range, IsFiniteSet(range)
  PROVE  IsFiniteSet(Messages(range))
<1> DEFINE f == [r \in range |-> Entry(buffer'[r], r)]
<1>1. f = [r \in range |-> f[r]] /\ Messages(range) = {f[r] : r \in range}
  BY DEF Messages
<1> HIDE DEF f
<1> QED
  BY <1>1, ImageIsFinite

\* Renaming makes no map longer.
LEMMA RenamedIsFinite ==
  ASSUME NEW map, IsFiniteSet(map), NEW range
  PROVE  /\ IsFiniteSet(Renamed(map, range))
         /\ Cardinality(Renamed(map, range)) <= Cardinality(map)
<1> DEFINE f == [e \in map |->
                   IF e.request \in range /\ e.id = buffer[e.request]
                     THEN Entry(buffer'[e.request], e.request) ELSE e]
<1>1. f = [e \in map |-> f[e]] /\ Renamed(map, range) = {f[e] : e \in map}
  BY DEF Renamed
<1> HIDE DEF f
<1> QED
  BY <1>1, ImageIsFinite

\* Sending keeps the bounds: a container has an id that is new, and the ids that
\* are given to messages are no container's.
LEMMA SentFits ==
  ASSUME SessionInv, Fit(session, buffer, main.issued),
         session.todo = <<>>, session.hand = {},
         NEW range, range \subseteq Requests, IsFiniteSet(range),
         NEW force, buffer' = NewBuffer(range, force),
         NEW more \in Nat, Cardinality(Renumbered(range, force)) <= more,
         NEW toSend, NEW started, NEW timer
  PROVE  LET s == Sent(session, range)
             t == [s EXCEPT !.toSend = toSend, !.sending = {},
                            !.started = started, !.checkTimer = timer,
                            !.lastId = session.lastId + more]
         IN Fit(t, buffer', main.issued)
<1> DEFINE s == Sent(session, range)
           t == [s EXCEPT !.toSend = toSend, !.sending = {},
                          !.started = started, !.checkTimer = timer,
                          !.lastId = session.lastId + more]
           resending == {e \in session.resending :
                           ~(e.request \in range /\ e.id = buffer[e.request])}
           acked == Renamed(session.acked, range)
           haveSent == Emplace(Renamed(session.haveSent, range),
                               Messages(range))
           containers == {Moved(c, range) : c \in session.containers}
           last == session.lastId + more
<1>1. /\ SessionTyped(session)
      /\ session.lastId \in Nat
      /\ buffer \in [Requests -> Nat]
  BY DEF SessionInv, SessionStateTyped, SessionTyped
<1>2. NewlyNumbered(buffer', range, force)
  BY <1>1, NewBufferFresh
<1>3. /\ buffer' \in [Requests -> Nat]
      /\ last \in Nat
      /\ session.lastId <= last
      /\ \A r \in Requests : \/ buffer'[r] = buffer[r]
                             \/ session.lastId < buffer'[r]
  BY <1>1, <1>2 DEF NewlyNumbered
<1>4. s = [session EXCEPT !.resending = resending, !.acked = acked,
                          !.haveSent = haveSent, !.containers = containers]
  BY DEF Sent, Messages, Moved
<1>5. t = [s EXCEPT !.toSend = toSend, !.sending = {},
                    !.started = started, !.checkTimer = timer,
                    !.lastId = last]
  OBVIOUS
<1> HIDE DEF s, t, resending, acked, haveSent, containers, last
<1>6. /\ t.resending = resending
      /\ t.acked = acked
      /\ t.haveSent = haveSent
      /\ t.containers = containers
      /\ t.seen = session.seen
      /\ t.sending = {}
      /\ t.hand = session.hand
      /\ t.lastId = last
      /\ t.forced = session.forced
  BY <1>1, <1>4, <1>5 DEF SessionTyped
<1>7. /\ IsFiniteSet(session.haveSent)
      /\ IsFiniteSet(session.resending)
      /\ IsFiniteSet(session.acked)
      /\ IsFiniteSet(session.hand)
  <2>1. /\ session.haveSent \subseteq Kept(session)
        /\ session.resending \subseteq Kept(session)
        /\ session.acked \subseteq Kept(session)
        /\ session.hand \subseteq Kept(session)
    BY DEF Kept
  <2> QED
    BY <2>1, FS_Subset DEF Fit, Bounded
<1>8. IsFiniteSet(acked) /\ Cardinality(acked) <= Cardinality(session.acked)
  BY <1>7, RenamedIsFinite DEF acked
<1>9. Cardinality(acked) <= AckedLimit
  <2>1. /\ Cardinality(acked) \in Nat
        /\ Cardinality(session.acked) \in Nat
    BY <1>7, <1>8, FS_CardinalityType
  <2> QED
    BY <1>8, <2>1, MtpSessionAssumption DEF Fit, Bounded
<1>10. IsFiniteSet(haveSent)
  <2> DEFINE renamed == Renamed(session.haveSent, range)
             both == renamed \cup Messages(range)
  <2>1. IsFiniteSet(renamed) /\ IsFiniteSet(Messages(range))
    BY <1>7, RenamedIsFinite, MessagesAreFinite
  <2>2. haveSent \subseteq both
    BY DEF haveSent, Emplace
  <2> HIDE DEF renamed
  <2>3. IsFiniteSet(both)
    BY <2>1, FS_Union
  <2> QED
    BY <2>2, <2>3, FS_Subset
<1>11. IsFiniteSet(Kept(t))
  <2>1. resending \subseteq session.resending
    BY DEF resending
  <2>2. IsFiniteSet(resending)
    BY <1>7, <2>1, FS_Subset
  <2>3. IsFiniteSet(haveSent \cup resending)
    BY <1>10, <2>2, FS_Union
  <2>4. IsFiniteSet((haveSent \cup resending) \cup acked)
    BY <1>8, <2>3, FS_Union
  <2>5. IsFiniteSet(((haveSent \cup resending) \cup acked) \cup session.hand)
    BY <1>7, <2>4, FS_Union
  <2>6. Kept(t) = ((haveSent \cup resending) \cup acked) \cup session.hand
    BY <1>6 DEF Kept
  <2> QED
    BY <2>5, <2>6
<1>12. Cardinality(t.sending) <= 1
  BY <1>6, FS_EmptySet
<1>13. Bounded(t)
  BY <1>6, <1>9, <1>11, <1>12 DEF Fit, Bounded
<1>14. ASSUME NEW c \in session.containers
       PROVE  LET d == Moved(c, range)
              IN /\ d \in Container
                 /\ d.id # 0
                 /\ d.id <= last
                 /\ d.id \notin IdsOf(haveSent)
                 /\ \A r \in Requests : buffer'[r] # d.id
                 /\ d.messages # {}
  <2> DEFINE d == Moved(c, range)
  <2>1. /\ c \in Container
        /\ c.id # 0
        /\ c.id <= session.lastId
        /\ c.id \notin IdsOf(session.haveSent)
        /\ \A r \in Requests : buffer[r] # c.id
        /\ c.messages # {}
    BY DEF Fit, Contained
  <2>2. /\ d \in Container
        /\ d.id = c.id
        /\ d.messages # {}
    BY <1>3, <2>1, MovedIs
  <2>3. c.id \in Nat
    BY <2>1 DEF Container
  <2>4. \A r \in Requests : buffer'[r] # c.id
    BY <1>1, <1>3, <2>1, <2>3
  <2>5. c.id \notin IdsOf(haveSent)
    <3> SUFFICES ASSUME NEW e \in haveSent
                 PROVE  e.id # c.id
      BY DEF IdsOf
    <3>1. CASE e \in Messages(range)
      BY <2>4, <3>1 DEF Messages, Entry
    <3>2. CASE e \in session.haveSent
      BY <2>1, <3>2 DEF IdsOf
    <3>3. haveSent \subseteq session.haveSent \cup Messages(range)
      BY DEF haveSent, Emplace, Renamed, Messages
    <3> QED
      BY <3>1, <3>2, <3>3
  <2>6. c.id <= last
    BY <1>1, <1>3, <2>1, <2>3
  <2> HIDE DEF d
  <2>7. /\ d \in Container
        /\ d.id # 0
        /\ d.id <= last
        /\ d.id \notin IdsOf(haveSent)
        /\ \A r \in Requests : buffer'[r] # d.id
        /\ d.messages # {}
    BY <2>1, <2>2, <2>4, <2>5, <2>6
  <2> QED
    BY <2>7 DEF d
<1>15. Contained(t, buffer')
  BY <1>6, <1>14 DEF Contained, containers
<1>16. Fit(t, buffer', main.issued)
  BY <1>6, <1>13, <1>15 DEF Fit
<1> QED
  BY <1>16 DEF s, t, last

\* A request that is sent alone.
LEMMA SendTakenFits == SessionInv /\ SessionFits /\ SendTaken => SessionFits'
<1> SUFFICES ASSUME SessionInv, SessionFits, SendTaken
             PROVE  SessionFits'
  OBVIOUS
<1> DEFINE range == session.sending
           force == session.forceNewId
           more == Cardinality(Renumbered(range, force))
           s == Sent(session, range)
<1>1. /\ range # {}
      /\ range \subseteq Requests
      /\ IsFiniteSet(range)
      /\ SessionTyped(session)
      /\ buffer \in [Requests -> Nat]
      /\ session.lastId \in Nat
      /\ Fit(session, buffer, main.issued)
  BY DEF SessionInv, SessionStateTyped, SessionTyped, MainFits, SessionFits, SendTaken
<1>2. session.hand = {} /\ session.todo = <<>>
  BY <1>1 DEF Fit, Bounded
<1>3. /\ buffer' = NewBuffer(range, force)
      /\ main' = main
      /\ server' = server
      /\ session' = [s EXCEPT !.sending = {}, !.lastId = @ + more]
  BY DEF SendTaken
<1>4. NewlyNumbered(buffer', range, force)
  BY <1>1, <1>3, NewBufferFresh
<1>5. more \in Nat /\ buffer' \in [Requests -> Nat]
  BY <1>4 DEF NewlyNumbered
<1>6. SessionTyped(s) /\ s.lastId = session.lastId
  BY <1>1, <1>5, SentKeeps DEF SameMoves
<1>7. Cardinality(Renumbered(range, force)) <= more
  BY <1>5
<1> HIDE DEF more
<1> DEFINE t == [s EXCEPT !.toSend = s.toSend, !.sending = {},
                          !.started = s.started, !.checkTimer = s.checkTimer,
                          !.lastId = session.lastId + more]
<1>8. Fit(t, buffer', main.issued)
  BY <1>1, <1>2, <1>3, <1>5, <1>7, SentFits
<1> HIDE DEF s
<1>9. session' = t
  BY <1>3, <1>6 DEF SessionTyped
<1>10. ListsFit'
  BY <1>3 DEF SessionFits, ListsFit
<1> QED
  BY <1>3, <1>8, <1>9, <1>10 DEF SessionFits

\* Requests that are sent in a container.
LEMMA SendContainerFits ==
  ASSUME SessionInv, SessionFits, NEW range \in Ranges(session),
         SendContainer(range)
  PROVE  SessionFits'
<1> DEFINE force == ~session.started
           count == Cardinality(Renumbered(range, force))
           last == session.lastId + count + 1
           s == Sent(session, range)
           c == [id |-> last, messages |-> IdsOf(Messages(range))]
<1>1. /\ session.toSend \subseteq Requests
      /\ SessionTyped(session)
      /\ buffer \in [Requests -> Nat]
      /\ session.lastId \in Nat
      /\ Fit(session, buffer, main.issued)
      /\ session.hand = {}
      /\ session.todo = <<>>
  BY DEF SessionInv, SessionStateTyped, SessionTyped, SessionFits, SendContainer, CanSend,
         Idle
<1>2. PICK q \in session.toSend : range = {r \in session.toSend : r <= q}
  BY DEF Ranges
<1>3. /\ range \subseteq Requests
      /\ IsFiniteSet(range)
      /\ q \in range
  <2>1. session.toSend \subseteq Nat /\ q \in Nat
    BY <1>1, RequestsAreNat
  <2>2. IsFiniteSet(range)
    BY <1>2, <2>1, UpToIsFinite
  <2> QED
    BY <1>1, <1>2, <2>1, <2>2
<1>4. /\ buffer' = NewBuffer(range, force)
      /\ main' = main
      /\ server' = server
      /\ session' = [s EXCEPT !.toSend = @ \ range,
                              !.started = TRUE,
                              !.lastId = last,
                              !.checkTimer = TRUE,
                              !.containers = @ \cup {c}]
  BY DEF SendContainer, Messages
<1>5. NewlyNumbered(buffer', range, force)
  BY <1>1, <1>3, <1>4, NewBufferFresh
<1>6. /\ count \in Nat
      /\ buffer' \in [Requests -> Nat]
      /\ \A r \in Requests : \/ buffer'[r] = buffer[r]
                             \/ buffer'[r] <= session.lastId + count
  BY <1>5 DEF NewlyNumbered
<1>7. SessionTyped(s)
  BY <1>1, <1>3, <1>6, SentKeeps
<1> DEFINE more == count + 1
<1>8. more \in Nat /\ Cardinality(Renumbered(range, force)) <= more
  BY <1>6
<1>9. last = session.lastId + more /\ last \in Nat /\ last # 0
  <2>1. \A m, n \in Nat : /\ m + n + 1 = m + (n + 1)
                          /\ m + n + 1 \in Nat
                          /\ m + n + 1 # 0
    OBVIOUS
  <2> HIDE DEF count
  <2> QED
    BY <1>1, <1>6, <2>1, Zenon
<1> DEFINE t == [s EXCEPT !.toSend = s.toSend \ range, !.sending = {},
                          !.started = TRUE, !.checkTimer = TRUE,
                          !.lastId = session.lastId + more]
<1> HIDE DEF more
<1>10. Fit(t, buffer', main.issued)
  BY <1>1, <1>3, <1>4, <1>8, SentFits
<1>11. /\ SessionInv'
       /\ session.sending = {}
  BY SendContainerStep DEF SendContainer, CanSend, Idle
<1> HIDE DEF s, last
<1>12. /\ session'.haveSent = t.haveSent
       /\ session'.resending = t.resending
       /\ session'.acked = t.acked
       /\ session'.hand = t.hand
       /\ session'.seen = t.seen
       /\ session'.containers = t.containers \cup {c}
       /\ session'.lastId = last
       /\ t.lastId = last
       /\ session'.forced = t.forced
       /\ session'.sending = s.sending
       /\ Kept(session') = Kept(t)
  BY <1>4, <1>7, <1>9 DEF SessionTyped, Kept
<1>13. s.sending = {}
  BY <1>1, <1>3, <1>6, <1>11, SentKeeps DEF SameMoves, s
<1>14. Cardinality(session'.sending) <= 1
  BY <1>12, <1>13, FS_EmptySet
<1> HIDE DEF t
<1>15. Bounded(session')
  BY <1>10, <1>12, <1>13, <1>14 DEF Fit, Bounded
<1>16. \A r \in Requests : buffer'[r] # last /\ buffer'[r] < last
  <2> SUFFICES ASSUME NEW r \in Requests
               PROVE  buffer'[r] < last
    BY <1>6, <1>9
  <2>1. buffer'[r] \in Nat
    BY <1>6
  <2>2. buffer[r] \in Nat /\ buffer[r] <= session.lastId
    <3>1. buffer[r] \in Nat
      BY <1>1
    <3>2. CASE buffer[r] = 0
      BY <1>1, <3>2
    <3>3. CASE buffer[r] # 0
      <4>1. Entry(buffer[r], r) \in Buffered(buffer)
        BY <3>3 DEF Buffered
      <4>2. Entry(buffer[r], r)
              \in Named(session, buffer, main, up, down, server)
        BY <4>1 DEF Named
      <4> QED
        BY <3>1, <4>2 DEF SessionInv, Owned, Agree, Entry
    <3> QED
      BY <3>1, <3>2, <3>3
  <2>3. last = session.lastId + count + 1
    BY DEF last
  <2> HIDE DEF count
  <2> QED
    BY <1>1, <1>6, <2>1, <2>2, <2>3
<1>17. last \notin IdsOf(session'.haveSent)
  <2> SUFFICES ASSUME NEW e \in session'.haveSent
               PROVE  e.id # last
    BY DEF IdsOf
  <2>1. CASE e \in Messages(range)
    BY <1>3, <1>16, <2>1 DEF Messages, Entry
  <2>2. CASE e \in session.haveSent
    <3>1. e \in Named(session, buffer, main, up, down, server)
      BY <2>2 DEF Named, Kept
    <3>2. e.id <= session.lastId /\ e.id \in Nat
      BY <3>1 DEF SessionInv, Owned, Agree, Entries
    <3>3. session.lastId < last
      <4>1. last = session.lastId + count + 1
        BY DEF last
      <4> HIDE DEF count
      <4> QED
        BY <1>1, <1>6, <4>1
    <3> QED
      BY <1>1, <1>9, <3>2, <3>3
  <2>3. session'.haveSent \subseteq session.haveSent \cup Messages(range)
    <3>1. s.haveSent = Emplace(Renamed(session.haveSent, range),
                               Messages(range))
      BY <1>1, SentHaveSent DEF s
    <3>2. session'.haveSent = s.haveSent
      BY <1>4, <1>7 DEF SessionTyped
    <3> QED
      BY <3>1, <3>2 DEF Emplace, Renamed, Messages
  <2> QED
    BY <2>1, <2>2, <2>3
<1>18. c \in Container /\ c.id = last /\ c.messages # {}
  <2>1. Messages(range) \subseteq Entries
    BY <1>3, <1>6 DEF Messages, Entry, Entries
  <2>2. IdsOf(Messages(range)) \subseteq Nat
    BY <2>1 DEF IdsOf, Entries
  <2>3. IdsOf(Messages(range)) # {}
    BY <1>3 DEF IdsOf, Messages
  <2> QED
    BY <1>9, <2>2, <2>3 DEF Container
<1> HIDE DEF c
<1>19. Contained(session', buffer')
  <2> SUFFICES ASSUME NEW d \in session'.containers
               PROVE  /\ d \in Container
                      /\ d.id # 0
                      /\ d.id <= session'.lastId
                      /\ d.id \notin IdsOf(session'.haveSent)
                      /\ \A r \in Requests : buffer'[r] # d.id
                      /\ d.messages # {}
    BY DEF Contained
  <2>1. CASE d \in t.containers
    BY <2>1, <1>10, <1>12 DEF Fit, Contained
  <2>2. CASE d = c
    BY <2>2, <1>9, <1>12, <1>16, <1>17, <1>18
  <2> QED
    BY <2>1, <2>2, <1>12
<1>20. Fit(session', buffer', main.issued)
  BY <1>10, <1>12, <1>15, <1>19 DEF Fit
<1>21. ListsFit'
  BY <1>4 DEF SessionFits, ListsFit
<1> QED
  BY <1>4, <1>20, <1>21 DEF SessionFits

\* Whatever the thread of the session moves keeps the bounds.
LEMMA TransferFits == SessionInv /\ SessionFits /\ Transfer => SessionFits'
<1> SUFFICES ASSUME SessionInv, SessionFits, Transfer
             PROVE  SessionFits'
  OBVIOUS
<1>1. /\ SessionTyped(session)
      /\ Fit(session, buffer, main.issued)
      /\ server.owed \subseteq IdsOf(server.done)
  BY DEF SessionInv, SessionStateTyped, SessionFits, ListsFit
<1>2. CASE TakeToSend
  <2> DEFINE r == Smallest(session.toSend)
  <2>1. /\ main' = main
        /\ buffer' = buffer
        /\ server' = server
        /\ session.hand = {}
        /\ session.todo = <<>>
        /\ session' = [session EXCEPT !.toSend = @ \ {r}, !.sending = {r},
                                      !.started = TRUE,
                                      !.forceNewId = ~session.started]
    BY <1>2 DEF TakeToSend, OthersUnchanged, NetworkUnchanged, CanSend, Idle
  <2> HIDE DEF r
  <2>2. /\ session'.haveSent = session.haveSent
        /\ session'.acked = session.acked
        /\ session'.seen = session.seen
        /\ session'.containers = session.containers
        /\ session'.lastId = session.lastId
        /\ session'.forced = session.forced
        /\ session'.hand = {}
        /\ session'.todo = <<>>
        /\ session'.sending = {r}
        /\ Kept(session') = Kept(session)
    BY <1>1, <2>1 DEF SessionTyped, Kept
  <2>3. Cardinality(session'.sending) <= 1
    <3>1. Cardinality({r}) = 1
      BY FS_Singleton
    <3> QED
      BY <2>2, <3>1
  <2>4. Bounded(session')
    BY <1>1, <2>2, <2>3 DEF Fit, Bounded
  <2>5. Contained(session', buffer)
    BY <1>1, <2>2 DEF Fit, Contained
  <2>6. Fit(session', buffer, main.issued)
    BY <1>1, <2>2, <2>4, <2>5 DEF Fit
  <2> QED
    BY <1>1, <2>1, <2>6, HandlerKeeps DEF HandlerFits
<1>3. CASE TakeToResend
  <2> DEFINE taken == At(session.haveSent, {Head(session.todo)})
  <2>1. /\ main' = main
        /\ buffer' = buffer
        /\ server' = server
        /\ session.todo # <<>>
        /\ session' = [session EXCEPT !.haveSent = @ \ taken, !.hand = taken,
                                      !.todo = Tail(@)]
    BY <1>3 DEF TakeToResend, OthersUnchanged, NetworkUnchanged
  <2>2. taken \subseteq session.haveSent
    BY DEF At
  <2>3. session.sending = {}
    BY <1>1, <2>1 DEF Fit, Bounded
  <2> HIDE DEF taken
  <2>4. /\ session'.haveSent \subseteq session.haveSent
        /\ session'.acked = session.acked
        /\ session'.seen = session.seen
        /\ session'.containers = session.containers
        /\ session'.lastId = session.lastId
        /\ session'.forced = session.forced
        /\ session'.sending = {}
        /\ Kept(session') \subseteq Kept(session)
    BY <1>1, <2>1, <2>2, <2>3 DEF SessionTyped, Kept
  <2> QED
    BY <1>1, <2>1, <2>4, MovedFits
<1>4. CASE PutToResend
  <2> DEFINE resending == Emplace(session.resending, session.hand)
             forced == session.forced \cup RequestsOf(session.hand)
  <2>1. /\ main' = main
        /\ buffer' = buffer
        /\ server' = server
        /\ session.hand # {}
        /\ session' = [session EXCEPT
                         !.resending = resending,
                         !.forced = forced,
                         !.toSend = @ \cup RequestsOf(session.hand),
                         !.hand = {}]
    BY <1>4 DEF PutToResend, OthersUnchanged, NetworkUnchanged
  <2>2. session.sending = {}
    BY <1>1, <2>1 DEF Fit, Bounded
  <2>3. resending \subseteq session.resending \cup session.hand
    BY DEF Emplace
  <2>4. forced \subseteq main.issued
    BY <1>1 DEF Fit, SessionInv, MainFits, RequestsOf, Kept
  <2> HIDE DEF resending, forced
  <2>5. /\ session'.haveSent = session.haveSent
        /\ session'.acked = session.acked
        /\ session'.seen = session.seen
        /\ session'.containers = session.containers
        /\ session'.lastId = session.lastId
        /\ session'.forced = forced
        /\ session'.sending = {}
        /\ Kept(session') \subseteq Kept(session)
    BY <1>1, <2>1, <2>2, <2>3 DEF SessionTyped, Kept
  <2>6. IsFiniteSet(Kept(session'))
    BY <1>1, <2>5, FS_Subset DEF Fit, Bounded
  <2>7. Cardinality(session'.sending) <= 1
    BY <2>5, FS_EmptySet
  <2>8. Bounded(session')
    BY <1>1, <2>5, <2>6, <2>7 DEF Fit, Bounded
  <2>9. Contained(session', buffer)
    BY <1>1, <2>5 DEF Fit, Contained
  <2>10. Fit(session', buffer, main.issued)
    BY <2>4, <2>5, <2>8, <2>9 DEF Fit
  <2> QED
    BY <1>1, <2>1, <2>10, HandlerKeeps DEF HandlerFits
<1>5. CASE Connect
  <2>1. /\ main' = main
        /\ buffer' = buffer
        /\ server' = server
        /\ session.sending = {}
        /\ session' = [session EXCEPT !.link = TRUE, !.hand = session.haveSent,
                                      !.haveSent = {}]
    BY <1>5 DEF Connect, OthersUnchanged, NetworkUnchanged, Idle
  <2>2. /\ session'.haveSent = {}
        /\ session'.acked = session.acked
        /\ session'.seen = session.seen
        /\ session'.containers = session.containers
        /\ session'.lastId = session.lastId
        /\ session'.forced = session.forced
        /\ session'.sending = {}
        /\ Kept(session') \subseteq Kept(session)
    BY <1>1, <2>1 DEF SessionTyped, Kept
  <2> QED
    BY <1>1, <2>1, <2>2, MovedFits
<1> QED
  BY <1>2, <1>3, <1>4, <1>5, SendTakenFits, SendContainerFits DEF Transfer

-----------------------------------------------------------------------------
(* The server.                                                             *)

\* What it is going to answer it has executed.
LEMMA ServerFits ==
  ASSUME SessionFits, UNCHANGED <<buffer, main, session>>,
         server'.owed \subseteq IdsOf(server'.done)
  PROVE  SessionFits'
BY DEF SessionFits, ListsFit

\* The server owes answers to what it has executed,
LEMMA TakeFits ==
  ASSUME SessionInv, SessionFits,
         NEW executed, NEW failed, NEW replies, Take(executed, failed, replies)
  PROVE  SessionFits'
<1> DEFINE fresh == {m \in executed : m.id \notin IdsOf(server.done)}
           new == {[id |-> m.id, request |-> m.request, answer |-> 0,
                    error |-> FALSE] : m \in fresh}
           done == server.done \cup new
           owed == server.owed \cup IdsOf(executed)
<1>1. ServerTyped(server)
  BY DEF SessionInv, SessionStateTyped
<1>2. PICK lost, last :
        /\ UNCHANGED <<buffer, main, session>>
        /\ server' = [server EXCEPT !.alive = TRUE, !.done = done,
                                    !.owed = owed, !.failed = lost,
                                    !.lastId = last]
  BY DEF Take
<1>3. IdsOf(executed) \subseteq IdsOf(done)
  <2> SUFFICES ASSUME NEW m \in executed
               PROVE  m.id \in IdsOf(done)
    BY DEF IdsOf
  <2>1. CASE m.id \in IdsOf(server.done)
    BY <2>1 DEF IdsOf
  <2>2. CASE m.id \notin IdsOf(server.done)
    <3> DEFINE d == [id |-> m.id, request |-> m.request, answer |-> 0,
                     error |-> FALSE]
    <3>1. d \in done /\ d.id = m.id
      BY <2>2
    <3> QED
      BY <3>1 DEF IdsOf
  <2> QED
    BY <2>1, <2>2
<1>4. IdsOf(server.done) \subseteq IdsOf(done)
  BY DEF IdsOf
<1>5. owed \subseteq IdsOf(done)
  BY <1>3, <1>4 DEF SessionFits, ListsFit
<1> HIDE DEF done, owed
<1>6. server'.owed = owed /\ server'.done = done
  BY <1>1, <1>2 DEF ServerTyped
<1> QED
  BY <1>2, <1>5, <1>6, ServerFits

\* also after it has answered one.
LEMMA AnswerFits ==
  ASSUME SessionInv, SessionFits, NEW d \in server.done, NEW error,
         AnswerMessage(d, error)
  PROVE  SessionFits'
<1>1. ServerTyped(server) /\ d \in Attempt
  BY DEF SessionInv, SessionStateTyped, ServerTyped
<1>2. PICK id, lost, last :
        /\ UNCHANGED <<buffer, main, session>>
        /\ server' = [server EXCEPT
                        !.owed = @ \ {d.id},
                        !.done = (@ \ {d}) \cup {[d EXCEPT !.answer = id,
                                                           !.error = error]},
                        !.failed = lost,
                        !.lastId = last]
  BY DEF AnswerMessage
<1> DEFINE e == [d EXCEPT !.answer = id, !.error = error]
<1>3. e.id = d.id
  BY <1>1 DEF Attempt
<1>4. /\ server'.owed = server.owed \ {d.id}
      /\ server'.done = (server.done \ {d}) \cup {e}
  BY <1>1, <1>2 DEF ServerTyped
<1> HIDE DEF e
<1>5. IdsOf(server'.done) = IdsOf(server.done)
  BY <1>3, <1>4 DEF IdsOf
<1>6. server'.owed \subseteq IdsOf(server'.done)
  BY <1>4, <1>5 DEF SessionFits, ListsFit
<1> QED
  BY <1>2, <1>6, ServerFits

\* The server, the troubles and the service messages keep the bounds.
LEMMA OthersFit ==
  ASSUME SessionInv, SessionFits,
         \/ ServeSession
         \/ Disturb
         \/ Ping
         \/ CheckSentRequests
  PROVE  SessionFits'
<1>1. /\ SessionTyped(session)
      /\ ServerTyped(server)
      /\ server.owed \subseteq IdsOf(server.done)
  BY DEF SessionInv, SessionStateTyped, SessionFits, ListsFit
<1>2. CASE Execute \/ Acknowledge \/ RefuseContainer
  BY <1>2, TakeFits DEF Execute, Acknowledge, RefuseContainer
<1>3. ASSUME NEW m, NEW kind, RefuseMessage(m, kind)
      PROVE  SessionFits'
  BY <1>3, TakeFits DEF RefuseMessage
<1>4. ASSUME NEW d \in server.done, NEW error, AnswerMessage(d, error)
      PROVE  SessionFits'
  BY <1>4, AnswerFits
<1>5. CASE LoseSession
  <2>1. /\ UNCHANGED <<buffer, main, session>>
        /\ server' = [server EXCEPT !.alive = FALSE, !.done = {}, !.owed = {}]
    BY <1>5 DEF LoseSession
  <2>2. server'.owed \subseteq IdsOf(server'.done)
    BY <1>1, <2>1 DEF ServerTyped
  <2> QED
    BY <2>1, <2>2, ServerFits
<1>6. CASE Ping
  <2>1. UNCHANGED <<buffer, main, session>> /\ server' = server
    BY <1>6 DEF Ping, OthersUnchanged
  <2> QED
    BY <1>1, <2>1, ServerFits
<1>7. CASE CheckSentRequests
  <2>1. /\ main' = main
        /\ buffer' = buffer
        /\ server' = server
        /\ session' = [session EXCEPT !.checkTimer = FALSE]
    BY <1>7 DEF CheckSentRequests, OthersUnchanged
  <2>2. /\ session'.haveSent = session.haveSent
        /\ session'.acked = session.acked
        /\ session'.seen = session.seen
        /\ session'.containers = session.containers
        /\ session'.lastId = session.lastId
        /\ session'.forced = session.forced
        /\ session'.sending = session.sending
        /\ session'.hand = session.hand
        /\ session'.todo = session.todo
        /\ Kept(session') = Kept(session)
    BY <1>1, <2>1 DEF SessionTyped, Kept
  <2> QED
    BY <1>1, <2>1, <2>2, MovedFits
<1>8. CASE Disconnect
  <2>1. /\ main' = main
        /\ buffer' = buffer
        /\ server' = server
        /\ session' = [session EXCEPT !.link = FALSE]
    BY <1>8 DEF Disconnect, Restart, OthersUnchanged
  <2>2. /\ session'.haveSent = session.haveSent
        /\ session'.acked = session.acked
        /\ session'.seen = session.seen
        /\ session'.containers = session.containers
        /\ session'.lastId = session.lastId
        /\ session'.forced = session.forced
        /\ session'.sending = session.sending
        /\ session'.hand = session.hand
        /\ session'.todo = session.todo
        /\ Kept(session') = Kept(session)
    BY <1>1, <2>1 DEF SessionTyped, Kept
  <2> QED
    BY <1>1, <2>1, <2>2, MovedFits
<1>9. ASSUME NEW c \in session.containers, ClearOldContainer(c)
      PROVE  SessionFits'
  <2>1. /\ main' = main
        /\ buffer' = buffer
        /\ server' = server
        /\ session.sending = {}
        /\ session' = Resend(session, c.id)
    BY <1>9 DEF ClearOldContainer, OthersUnchanged, Idle
  <2> DEFINE t == Resend(session, c.id)
  <2>2. Resent(session, t)
    BY ResendIs
  <2> HIDE DEF t
  <2>3. Fit(session, buffer, main.issued)
    BY DEF SessionFits
  <2>4. Fit(t, buffer, main.issued)
    BY <1>1, <2>1, <2>2, <2>3, DressedFits
  <2>5. Fit(session', buffer, main.issued)
    BY <2>1, <2>4 DEF t
  <2> QED
    BY <1>1, <2>1, <2>5, HandlerKeeps DEF HandlerFits
<1> QED
  BY <1>2, <1>3, <1>4, <1>5, <1>6, <1>7, <1>8, <1>9 DEF ServeSession, Disturb

-----------------------------------------------------------------------------
(* The main thread.                                                        *)

\* What the main thread does to a session leaves less in it.
LEMMA MainThreadMovedFits ==
  ASSUME SessionInv, SessionFits,
         NEW t, session' = t,
         Kept(t) \subseteq Kept(session),
         t.haveSent \subseteq session.haveSent,
         t.acked = session.acked, t.seen = session.seen,
         t.containers = session.containers,
         t.lastId = session.lastId, t.forced = session.forced,
         t.sending = session.sending, t.hand = session.hand,
         t.todo = session.todo,
         \A r \in Requests : buffer'[r] = buffer[r] \/ buffer'[r] = 0,
         main.issued \subseteq main'.issued,
         main'.delayed \subseteq main'.issued,
         main'.handlers \subseteq main'.issued \ Quiet,
         server' = server
  PROVE  SessionFits'
<1>1. Fit(session, buffer, main.issued)
  BY DEF SessionFits
<1> DEFINE c == buffer'
           more == main'.issued
<1>2. \A r \in Requests : c[r] = buffer[r] \/ c[r] = 0
  OBVIOUS
<1>3. main.issued \subseteq more
  OBVIOUS
<1> HIDE DEF c, more
<1>4. Fit(t, c, more)
  BY <1>1, <1>2, <1>3, FitShrinks
<1>5. Fit(session', buffer', main'.issued)
  BY <1>4 DEF c, more
<1>6. ListsFit'
  BY DEF SessionFits, ListsFit
<1> QED
  BY <1>5, <1>6 DEF SessionFits

\* The main thread keeps the bounds: it only takes from the session, and resets
\* buffers.
LEMMA MainThreadFits == SessionInv /\ SessionFits /\ MainThread => SessionFits'
<1> SUFFICES ASSUME SessionInv, SessionFits, MainThread
             PROVE  SessionFits'
  OBVIOUS
<1>1. /\ SessionTyped(session)
      /\ MainTyped(main)
      /\ buffer \in [Requests -> Nat]
      /\ main.delayed \subseteq main.issued
      /\ main.handlers \subseteq main.issued \ Quiet
  BY DEF SessionInv, SessionStateTyped, SessionFits, ListsFit
<1>2. CASE ProcessCallback
  <2>1. PICK r, received :
          /\ main' = [main EXCEPT !.handlers = @ \ {r}, !.known = @ \ {r}]
          /\ session' = [session EXCEPT !.received = received]
          /\ buffer' = buffer
          /\ server' = server
    BY <1>2 DEF ProcessCallback, NetworkUnchanged
  <2>2. /\ main'.issued = main.issued
        /\ main'.delayed = main.delayed
        /\ main'.handlers \subseteq main.handlers
    BY <1>1, <2>1 DEF MainTyped
  <2>3. /\ session'.haveSent = session.haveSent
        /\ session'.acked = session.acked
        /\ session'.seen = session.seen
        /\ session'.containers = session.containers
        /\ session'.lastId = session.lastId
        /\ session'.forced = session.forced
        /\ session'.sending = session.sending
        /\ session'.hand = session.hand
        /\ session'.todo = session.todo
        /\ Kept(session') = Kept(session)
    BY <1>1, <2>1 DEF SessionTyped, Kept
  <2> QED
    BY <1>1, <2>1, <2>2, <2>3, MainThreadMovedFits
<1>3. CASE DelayRequest
  <2>1. PICK r, received :
          /\ r \in main.handlers
          /\ main' = [main EXCEPT !.delayed = @ \cup {r}]
          /\ session' = [session EXCEPT !.received = received]
          /\ buffer' = buffer
          /\ server' = server
    BY <1>3 DEF DelayRequest, NetworkUnchanged
  <2>2. /\ main'.issued = main.issued
        /\ main'.delayed \subseteq main.issued
        /\ main'.handlers = main.handlers
    BY <1>1, <2>1 DEF MainTyped
  <2>3. /\ session'.haveSent = session.haveSent
        /\ session'.acked = session.acked
        /\ session'.seen = session.seen
        /\ session'.containers = session.containers
        /\ session'.lastId = session.lastId
        /\ session'.forced = session.forced
        /\ session'.sending = session.sending
        /\ session'.hand = session.hand
        /\ session'.todo = session.todo
        /\ Kept(session') = Kept(session)
    BY <1>1, <2>1 DEF SessionTyped, Kept
  <2> QED
    BY <1>1, <2>1, <2>2, <2>3, MainThreadMovedFits
<1>4. ASSUME NEW r \in main.delayed, SendDelayed(r)
      PROVE  SessionFits'
  <2>1. PICK toSend :
          /\ main' = [main EXCEPT !.delayed = @ \ {r}]
          /\ session' = [session EXCEPT !.toSend = toSend]
          /\ \A q \in Requests : buffer'[q] = buffer[q] \/ buffer'[q] = 0
          /\ server' = server
    <3>1. session = [session EXCEPT !.toSend = session.toSend]
      BY <1>1 DEF SessionTyped
    <3> QED
      BY <1>1, <1>4, <3>1 DEF SendDelayed, NetworkUnchanged
  <2>2. /\ main'.issued = main.issued
        /\ main'.delayed \subseteq main.delayed
        /\ main'.handlers = main.handlers
    BY <1>1, <2>1 DEF MainTyped
  <2>3. /\ session'.haveSent = session.haveSent
        /\ session'.acked = session.acked
        /\ session'.seen = session.seen
        /\ session'.containers = session.containers
        /\ session'.lastId = session.lastId
        /\ session'.forced = session.forced
        /\ session'.sending = session.sending
        /\ session'.hand = session.hand
        /\ session'.todo = session.todo
        /\ Kept(session') = Kept(session)
    BY <1>1, <2>1 DEF SessionTyped, Kept
  <2> QED
    BY <1>1, <2>1, <2>2, <2>3, MainThreadMovedFits
<1>5. ASSUME NEW c \in main.cancelling, CancelQueued(c)
      PROVE  SessionFits'
  <2>1. PICK cancelling :
          /\ main' = [main EXCEPT !.cancelling = cancelling]
          /\ session' = [session EXCEPT !.toSend = @ \ {c.request}]
          /\ buffer' = buffer
          /\ server' = server
    BY <1>5 DEF CancelQueued, NetworkUnchanged
  <2>2. /\ main'.issued = main.issued
        /\ main'.delayed = main.delayed
        /\ main'.handlers = main.handlers
    BY <1>1, <2>1 DEF MainTyped
  <2>3. /\ session'.haveSent = session.haveSent
        /\ session'.acked = session.acked
        /\ session'.seen = session.seen
        /\ session'.containers = session.containers
        /\ session'.lastId = session.lastId
        /\ session'.forced = session.forced
        /\ session'.sending = session.sending
        /\ session'.hand = session.hand
        /\ session'.todo = session.todo
        /\ Kept(session') = Kept(session)
    BY <1>1, <2>1 DEF SessionTyped, Kept
  <2> QED
    BY <1>1, <2>1, <2>2, <2>3, MainThreadMovedFits
<1>6. ASSUME NEW c \in main.cancelling, CancelSent(c)
      PROVE  SessionFits'
  <2>1. PICK gone :
          /\ main' = [main EXCEPT !.cancelling = {},
                                  !.handlers = @ \ {c.request}]
          /\ session' = [session EXCEPT !.haveSent = @ \ gone]
          /\ buffer' = buffer
          /\ server' = server
    BY <1>6 DEF CancelSent, NetworkUnchanged
  <2>2. /\ main'.issued = main.issued
        /\ main'.delayed = main.delayed
        /\ main'.handlers \subseteq main.handlers
    BY <1>1, <2>1 DEF MainTyped
  <2>3. /\ session'.haveSent \subseteq session.haveSent
        /\ session'.acked = session.acked
        /\ session'.seen = session.seen
        /\ session'.containers = session.containers
        /\ session'.lastId = session.lastId
        /\ session'.forced = session.forced
        /\ session'.sending = session.sending
        /\ session'.hand = session.hand
        /\ session'.todo = session.todo
        /\ Kept(session') \subseteq Kept(session)
    BY <1>1, <2>1 DEF SessionTyped, Kept
  <2> QED
    BY <1>1, <2>1, <2>2, <2>3, MainThreadMovedFits
<1> QED
  BY <1>2, <1>3, <1>4, <1>5, <1>6 DEF MainThread

\* The callers issue requests and cancel them.
LEMMA CallerFits ==
  ASSUME SessionInv, SessionFits, NEW r \in Requests, Issue(r) \/ StartCancel(r)
  PROVE  SessionFits'
<1>1. /\ SessionTyped(session)
      /\ MainTyped(main)
      /\ buffer \in [Requests -> Nat]
      /\ main.delayed \subseteq main.issued
      /\ main.handlers \subseteq main.issued \ Quiet
  BY DEF SessionInv, SessionStateTyped, SessionFits, ListsFit
<1>2. CASE Issue(r)
  <2>1. PICK toSend :
          /\ main' = [main EXCEPT !.issued = @ \cup {r},
                                  !.known = @ \cup {r},
                                  !.handlers = @ \cup ({r} \ Quiet)]
          /\ session' = [session EXCEPT !.toSend = toSend]
          /\ \A q \in Requests : buffer'[q] = buffer[q] \/ buffer'[q] = 0
          /\ server' = server
    BY <1>1, <1>2 DEF Issue, NetworkUnchanged
  <2>2. /\ main.issued \subseteq main'.issued
        /\ main'.delayed \subseteq main'.issued
        /\ main'.handlers \subseteq main'.issued \ Quiet
    BY <1>1, <2>1 DEF MainTyped
  <2>3. /\ session'.haveSent = session.haveSent
        /\ session'.acked = session.acked
        /\ session'.seen = session.seen
        /\ session'.containers = session.containers
        /\ session'.lastId = session.lastId
        /\ session'.forced = session.forced
        /\ session'.sending = session.sending
        /\ session'.hand = session.hand
        /\ session'.todo = session.todo
        /\ Kept(session') = Kept(session)
    BY <1>1, <2>1 DEF SessionTyped, Kept
  <2> QED
    BY <1>1, <2>1, <2>2, <2>3, MainThreadMovedFits
<1>3. CASE StartCancel(r)
  <2>1. PICK cancelling :
          /\ main' = [main EXCEPT !.cancelling = cancelling,
                                  !.known = @ \ {r}]
          /\ session' = session
          /\ buffer' = buffer
          /\ server' = server
    BY <1>3 DEF StartCancel
  <2>2. /\ main'.issued = main.issued
        /\ main'.delayed = main.delayed
        /\ main'.handlers = main.handlers
    BY <1>1, <2>1 DEF MainTyped
  <2> QED
    BY <1>1, <2>1, <2>2, MainThreadMovedFits
<1> QED
  BY <1>2, <1>3

\* At first everything is empty.
LEMMA InitFits == SessionInit => SessionFits
<1> SUFFICES ASSUME SessionInit
             PROVE  SessionFits
  OBVIOUS
<1>1. /\ session.haveSent = {}
      /\ session.resending = {}
      /\ session.acked = {}
      /\ session.hand = {}
      /\ session.containers = {}
      /\ session.forced = {}
      /\ session.seen = {}
      /\ session.sending = {}
  BY DEF SessionInit, FreshSession
<1>2. IsFiniteSet({}) /\ Cardinality({}) = 0
  BY FS_EmptySet
<1>3. Kept(session) = {}
  BY <1>1 DEF Kept
<1>4. Bounded(session)
  <2> DEFINE none == {}
  <2>1. /\ session.acked = none
        /\ session.seen = none
        /\ session.sending = none
        /\ Kept(session) = none
        /\ IsFiniteSet(none)
        /\ Cardinality(none) = 0
        /\ none = {}
    BY <1>1, <1>2, <1>3
  <2> HIDE DEF none
  <2> QED
    BY <2>1, MtpSessionAssumption DEF Bounded
<1>5. Contained(session, buffer) /\ session.forced \subseteq main.issued
  BY <1>1 DEF Contained
<1>6. ListsFit
  BY DEF SessionInit, ListsFit
<1> QED
  BY <1>4, <1>5, <1>6 DEF SessionFits, Fit

\* Every step of MtpSession keeps the bounds.
LEMMA FitStep ==
  SessionInv /\ SessionFits /\ [SessionNext]_sessionVars => SessionFits'
<1> SUFFICES ASSUME SessionInv, SessionFits, [SessionNext]_sessionVars
             PROVE  SessionFits'
  OBVIOUS
<1>1. CASE \E r \in Requests : Issue(r) \/ StartCancel(r)
  BY <1>1, CallerFits
<1>2. CASE ServeSession \/ Disturb \/ Ping \/ CheckSentRequests
  BY <1>2, OthersFit
<1>3. CASE Receive \/ Transfer \/ MainThread
  BY <1>3, ReceiveFits, TransferFits, MainThreadFits
<1>4. CASE UNCHANGED sessionVars
  <2>1. UNCHANGED <<buffer, main, session, server>>
    BY <1>4 DEF sessionVars
  <2> QED
    BY <2>1 DEF SessionFits, ListsFit
<1> QED
  BY <1>1, <1>2, <1>3, <1>4 DEF SessionNext

\* The two invariants imply the type invariant.
LEMMA TypesFollow == SessionInv /\ SessionFits => TypeOK
<1> SUFFICES ASSUME SessionInv, SessionFits
             PROVE  TypeOK
  OBVIOUS
<1>1. /\ SessionTyped(session)
      /\ MainTyped(main)
      /\ ServerTyped(server)
      /\ buffer \in [Requests -> Nat]
      /\ Agree(Named(session, buffer, main, up, down, server), session.lastId)
  BY DEF SessionInv, SessionStateTyped, Owned
<1>2. /\ main.known \subseteq main.issued
      /\ session.toSend \subseteq main.issued
      /\ \A c, d \in main.cancelling : c = d
  BY DEF SessionInv, MainFits
<1>3. /\ Bounded(session)
      /\ Contained(session, buffer)
      /\ session.forced \subseteq main.issued
      /\ main.delayed \subseteq main.issued
      /\ main.handlers \subseteq main.issued \ Quiet
      /\ server.owed \subseteq IdsOf(server.done)
  BY DEF SessionFits, Fit, ListsFit
<1>4. Cardinality(main.cancelling) <= 1
  <2>1. CASE main.cancelling = {}
    <3>1. Cardinality({}) <= 1
      BY FS_EmptySet
    <3> QED
      BY <2>1, <3>1
  <2>2. CASE main.cancelling # {}
    <3>1. PICK c \in main.cancelling : TRUE
      BY <2>2
    <3>2. main.cancelling = {c}
      BY <1>2, <3>1
    <3>3. Cardinality({c}) = 1
      BY FS_Singleton
    <3> QED
      BY <3>2, <3>3
  <2> QED
    BY <2>1, <2>2
<1>5. ASSUME NEW map, map \subseteq Kept(session)
      PROVE  IsMap(map)
  BY <1>1, <1>5 DEF IsMap, Agree, Named
<1>6. \A map \in {session.haveSent, session.resending, session.acked,
                  session.hand} : IsMap(map)
  <2>1. /\ session.haveSent \subseteq Kept(session)
        /\ session.resending \subseteq Kept(session)
        /\ session.acked \subseteq Kept(session)
        /\ session.hand \subseteq Kept(session)
    BY DEF Kept
  <2> QED
    BY <1>5, <2>1
<1>7. ASSUME NEW m \in server.done
      PROVE  buffer[m.request] <= session.lastId
  <2> DEFINE r == m.request
             e == Entry(buffer[r], r)
  <2>1. r \in Requests /\ buffer[r] \in Nat /\ session.lastId \in Nat
    BY <1>1 DEF ServerTyped, Attempt, SessionTyped
  <2>2. e.id = buffer[r]
    BY DEF Entry
  <2>3. buffer[r] # 0 => e \in Named(session, buffer, main, up, down, server)
    BY <2>1 DEF Named, Buffered
  <2> HIDE DEF e
  <2>4. buffer[r] # 0 => buffer[r] <= session.lastId
    BY <1>1, <2>2, <2>3 DEF Agree
  <2> QED
    BY <2>1, <2>4
<1>8. \A c \in session.containers :
        c.id \notin IdsOf(session.haveSent) /\ c.messages # {}
  BY <1>3 DEF Contained
<1>9. /\ Cardinality(session.acked) <= AckedLimit
      /\ Cardinality(session.seen) <= SeenLimit
      /\ Cardinality(session.sending) <= 1
      /\ session.sending = {} \/ session.hand = {}
  BY <1>3 DEF Bounded
<1> QED
  BY <1>1, <1>2, <1>3, <1>4, <1>6, <1>7, <1>8, <1>9 DEF TypeOK

\* The type invariant: the maps are maps, ids of containers are not ids of what
\* is out, the two buffers of ids keep to their limits, and a thread never has
\* more than one move in its hand.
THEOREM SessionTypes == SessionSpec => []TypeOK
<1>1. SessionInit => SessionFits
  BY InitFits
<1>2. SessionInv /\ SessionFits /\ [SessionNext]_sessionVars => SessionFits'
  BY FitStep
<1>3. SessionInv /\ SessionFits => TypeOK
  BY TypesFollow
<1> QED
  BY <1>1, <1>2, <1>3, SessionInvariance, PTL DEF SessionSpec
=============================================================================
