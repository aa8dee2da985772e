----------------------- MODULE HistoryRequests_proofs -----------------------
(* Proofs about HistoryRequests: what every handler keeps of one chat, as    *)
(* lemmas about the functions from chats to chats, and then of all chats.    *)
EXTENDS HistoryRequests, TLAPS

AllTypes == {"History", "ReadInbox", "Send"} \cup Deletes
Marks == 0 .. MaxMessage

Chat ==
  [postponed : SUBSET Nat, sent : SUBSET Requests,
   willReadTill : Marks, willReadLater : BOOLEAN,
   sentReadTill : Marks, sentReadDone : BOOLEAN,
   postponedRequestEntry : BOOLEAN, last : Nat, byRequest : SUBSET Nat,
   pending : BOOLEAN, requested : BOOLEAN, callback : BOOLEAN,
   read : Marks]

\* Ids are given out once, and each belongs to one request in one place.
Numbered(m) ==
  /\ m.postponed \cap SentIds(m) = {}
  /\ m.byRequest = m.postponed \cup SentIds(m)
  /\ m.byRequest \subseteq 1 .. m.last
  /\ \A e, f \in m.sent : e.id = f.id => e = f

Exclusive(m) ==
  IF PostponeHistoryRequest(m) THEN HistoryIds(m) = {} ELSE m.postponed = {}

EntryOK(m) ==
  /\ ~(m.pending /\ m.requested)
  /\ m.postponedRequestEntry => m.requested /\ PostponeEntryRequest(m)

\* What is to be reported lies behind all that was, and what was reported is
\* remembered until the entry of the chat knows about it.
Forward(m) ==
  /\ m.willReadTill # 0 =>
       /\ m.willReadTill > m.sentReadTill
       /\ \A e \in m.sent : e.type = "ReadInbox" => m.willReadTill > e.till
  /\ \A e \in m.sent : e.type = "ReadInbox" =>
       \/ m.sentReadTill >= e.till
       \/ m.sentReadTill = 0 /\ m.read >= e.till

Steady(m) == m \in Chat /\ Numbered(m) /\ Exclusive(m) /\ EntryOK(m)

Sound(m) == Steady(m) /\ Forward(m)

\* The history requests that a chat has in any place.
HistoryOf(m) == m.postponed \cup HistoryIds(m)

-----------------------------------------------------------------------------
(* sendRequest()                                                            *)

\* The request that waits, and nothing else changes.
LEMMA SendRequestWaits ==
  ASSUME NEW m, Steady(m), PostponeHistoryRequest(m), NEW till \in Marks,
         NEW r, r = SendRequest(m, "History", till)
  PROVE  /\ Steady(r)
         /\ HistoryOf(r) = HistoryOf(m) \cup {m.last + 1}
         /\ r.sent = m.sent
         /\ r.willReadTill = m.willReadTill
         /\ r.sentReadTill = m.sentReadTill
         /\ r.read = m.read
<1>0. m \in Chat
  BY DEF Steady
<1>1. r = [m EXCEPT !.last = m.last + 1, !.byRequest = @ \cup {m.last + 1},
                    !.postponed = @ \cup {m.last + 1}]
  BY <1>0 DEF SendRequest, Chat
<1>2. r \in Chat
  <2>1. m.last + 1 \in Nat
    BY <1>0 DEF Chat
  <2>2. m.byRequest \cup {m.last + 1} \in SUBSET Nat
    BY <1>0, <2>1 DEF Chat
  <2>3. m.postponed \cup {m.last + 1} \in SUBSET Nat
    BY <1>0, <2>1 DEF Chat
  <2> QED
    BY <1>0, <1>1, <2>1, <2>2, <2>3 DEF Chat
<1>3. /\ r.last = m.last + 1
      /\ r.byRequest = m.byRequest \cup {m.last + 1}
      /\ r.postponed = m.postponed \cup {m.last + 1}
      /\ r.sent = m.sent
      /\ r.pending = m.pending /\ r.requested = m.requested
      /\ r.postponedRequestEntry = m.postponedRequestEntry
      /\ r.willReadTill = m.willReadTill /\ r.sentReadTill = m.sentReadTill
      /\ r.read = m.read
  BY <1>0, <1>1 DEF Chat
<1>4. Numbered(r)
  <2>1. m.last + 1 \notin m.byRequest
    BY <1>0 DEF Steady, Numbered, Chat
  <2> QED
    BY <1>0, <1>3, <2>1 DEF Steady, Numbered, SentIds, Chat
<1>5. Exclusive(r) /\ EntryOK(r)
  BY <1>3 DEF Steady, Exclusive, EntryOK, PostponeHistoryRequest,
              PostponeEntryRequest, HistoryIds
<1>6. HistoryOf(r) = HistoryOf(m) \cup {m.last + 1}
  BY <1>3 DEF HistoryOf, HistoryIds
<1> QED
  BY <1>2, <1>3, <1>4, <1>5, <1>6 DEF Steady

\* What is on its way when a request is sent.
WithRequest(m, type, till) ==
  m.sent \cup {[id |-> m.last + 1, type |-> type, till |-> till]}

Deleting(es) == \E e \in es : e.type \in Deletes
Outdates(m, es) ==
  \/ m.postponedRequestEntry
  \/ m.requested /\ \E f \in es : f.type # "History"
OfHistory(es) == {e \in es : e.type = "History"}
IdsOf(es) == {e.id : e \in es}

\* The fields of a chat with a request that is sent: a deletion calls the
\* history requests back.
LEMMA SendRequestSends ==
  ASSUME NEW m \in Chat, NEW type \in AllTypes, NEW till \in Marks,
         ~(type = "History" /\ PostponeHistoryRequest(m)),
         NEW all, all = WithRequest(m, type, till),
         NEW r, r = SendRequest(m, type, till)
  PROVE  /\ r \in Chat
         /\ r.last = m.last + 1
         /\ r.byRequest = m.byRequest \cup {m.last + 1}
         /\ Deleting(all) =>
              /\ r.sent = all \ OfHistory(all)
              /\ r.postponed = m.postponed \cup IdsOf(OfHistory(all))
         /\ ~Deleting(all) => r.sent = all /\ r.postponed = m.postponed
         /\ r.pending = m.pending /\ r.requested = m.requested
         /\ r.postponedRequestEntry = Outdates(m, all)
         /\ r.willReadTill = m.willReadTill
         /\ r.sentReadTill = m.sentReadTill
         /\ r.read = m.read
<1> DEFINE ids == m.byRequest \cup {m.last + 1}
           n == [m EXCEPT !.last = m.last + 1, !.byRequest = ids,
                          !.sent = all]
           outdated == Outdates(m, all)
           o == [n EXCEPT !.postponedRequestEntry = outdated]
<1>1. PostponeEntryRequest(n) <=> \E f \in all : f.type # "History"
  BY DEF PostponeEntryRequest, Chat
<1>2. SendRequest(m, type, till) = CallBack(o)
  <2>1. n = [[m EXCEPT !.last = m.last + 1, !.byRequest = @ \cup {m.last + 1}]
               EXCEPT !.sent =
                 @ \cup {[id |-> m.last + 1, type |-> type, till |-> till]}]
    BY DEF WithRequest, Chat
  <2>2. OutdateEntry(n) = o
    BY <1>1 DEF OutdateEntry, Outdates, Chat
  <2> QED
    BY <2>1, <2>2 DEF SendRequest
<1>3. all \in SUBSET Requests
  <2>1. [id |-> m.last + 1, type |-> type, till |-> till] \in Requests
    BY DEF Requests, AllTypes, Marks, Chat
  <2> QED
    BY <2>1 DEF Chat, WithRequest
<1>4. m.last + 1 \in Nat /\ ids \in SUBSET Nat /\ outdated \in BOOLEAN
  BY DEF Outdates, Chat
<1> HIDE DEF ids, outdated
<1>5. /\ n \in Chat
      /\ n.last = m.last + 1 /\ n.byRequest = ids /\ n.sent = all
      /\ n.postponed = m.postponed
      /\ n.pending = m.pending /\ n.requested = m.requested
      /\ n.willReadTill = m.willReadTill /\ n.sentReadTill = m.sentReadTill
      /\ n.read = m.read
  BY <1>3, <1>4 DEF Chat
<1> HIDE DEF n
<1>6. /\ o \in Chat
      /\ o.last = m.last + 1 /\ o.byRequest = ids /\ o.sent = all
      /\ o.postponed = m.postponed
      /\ o.pending = m.pending /\ o.requested = m.requested
      /\ o.postponedRequestEntry = outdated
      /\ o.willReadTill = m.willReadTill /\ o.sentReadTill = m.sentReadTill
      /\ o.read = m.read
  BY <1>4, <1>5 DEF Chat
<1> HIDE DEF o
<1>7. CASE Deleting(all)
  <2>1. PostponeHistoryRequest(o)
    BY <1>6, <1>7 DEF PostponeHistoryRequest, Deleting
  <2> DEFINE sent == all \ OfHistory(all)
             waiting == m.postponed \cup IdsOf(OfHistory(all))
  <2>2. CallBack(o) = [o EXCEPT !.sent = sent, !.postponed = waiting]
    BY <2>1, <1>6 DEF CallBack, OfHistory, IdsOf, Chat
  <2>3. sent \in SUBSET Requests
    BY <1>3
  <2>4. waiting \in SUBSET Nat
    BY <1>3 DEF Requests, OfHistory, IdsOf, Chat
  <2> HIDE DEF sent, waiting
  <2>5. /\ CallBack(o) \in Chat
        /\ CallBack(o).sent = sent /\ CallBack(o).postponed = waiting
        /\ CallBack(o).last = o.last /\ CallBack(o).byRequest = o.byRequest
        /\ CallBack(o).pending = o.pending
        /\ CallBack(o).requested = o.requested
        /\ CallBack(o).postponedRequestEntry = o.postponedRequestEntry
        /\ CallBack(o).willReadTill = o.willReadTill
        /\ CallBack(o).sentReadTill = o.sentReadTill
        /\ CallBack(o).read = o.read
    BY <2>2, <2>3, <2>4, <1>6 DEF Chat
  <2> QED
    BY <1>2, <1>6, <1>7, <2>5 DEF ids, sent, waiting, outdated
<1>8. CASE ~Deleting(all)
  <2>1. CallBack(o) = o
    BY <1>6, <1>8 DEF PostponeHistoryRequest, CallBack, Deleting
  <2> QED
    BY <1>2, <1>6, <1>8, <2>1 DEF ids, outdated
<1> QED
  BY <1>7, <1>8

\* Whatever is sent, requests stay numbered, exclude each other, and entries
\* wait for what is on its way.
LEMMA SendRequestSteady ==
  ASSUME NEW m, Steady(m), NEW type \in AllTypes, NEW till \in Marks,
         NEW r, r = SendRequest(m, type, till)
  PROVE  /\ Steady(r)
         /\ HistoryOf(r) = HistoryOf(m)
              \cup (IF type = "History" THEN {m.last + 1} ELSE {})
         /\ r.sent \subseteq WithRequest(m, type, till)
         /\ r.willReadTill = m.willReadTill
         /\ r.sentReadTill = m.sentReadTill
         /\ r.read = m.read
<1>1. CASE type = "History" /\ PostponeHistoryRequest(m)
  BY <1>1, SendRequestWaits DEF WithRequest
<1>2. CASE ~(type = "History" /\ PostponeHistoryRequest(m))
  <2> DEFINE all == WithRequest(m, type, till)
             new == [id |-> m.last + 1, type |-> type, till |-> till]
  <2>1. m \in Chat /\ all = WithRequest(m, type, till)
    BY DEF Steady
  <2> HIDE DEF all
  <2>2. /\ r \in Chat
        /\ r.last = m.last + 1
        /\ r.byRequest = m.byRequest \cup {m.last + 1}
        /\ Deleting(all) =>
             /\ r.sent = all \ OfHistory(all)
             /\ r.postponed = m.postponed \cup IdsOf(OfHistory(all))
        /\ ~Deleting(all) => r.sent = all /\ r.postponed = m.postponed
        /\ r.pending = m.pending /\ r.requested = m.requested
        /\ r.postponedRequestEntry = Outdates(m, all)
        /\ r.willReadTill = m.willReadTill
        /\ r.sentReadTill = m.sentReadTill
        /\ r.read = m.read
    BY <1>2, <2>1, SendRequestSends
  <2>3. /\ m.last + 1 \notin m.byRequest
        /\ m.byRequest = m.postponed \cup IdsOf(m.sent)
        /\ m.postponed \cap IdsOf(m.sent) = {}
        /\ m.byRequest \subseteq 1 .. m.last
        /\ m.last \in Nat
        /\ \A e, f \in m.sent : e.id = f.id => e = f
    BY <2>1 DEF Steady, Numbered, SentIds, IdsOf, Chat
  <2>4. /\ all = m.sent \cup {new}
        /\ new.id = m.last + 1 /\ new.type = type
        /\ IdsOf(all) = IdsOf(m.sent) \cup {m.last + 1}
        /\ \A e, f \in all : e.id = f.id => e = f
    <3>1. all = m.sent \cup {new} /\ new.id = m.last + 1 /\ new.type = type
      BY <2>1 DEF WithRequest
    <3> HIDE DEF new
    <3>2. IdsOf(all) = IdsOf(m.sent) \cup {m.last + 1}
      BY <3>1 DEF IdsOf
    <3>3. \A e \in m.sent : e.id # m.last + 1
      BY <2>3 DEF IdsOf
    <3> QED
      BY <2>3, <3>1, <3>2, <3>3
  <2> HIDE DEF new
  <2>5. Numbered(r)
    <3>1. r.byRequest \subseteq 1 .. r.last
      BY <2>2, <2>3
    <3>2. CASE Deleting(all)
      <4>1. IdsOf(all \ OfHistory(all)) \cup IdsOf(OfHistory(all)) = IdsOf(all)
        BY DEF IdsOf, OfHistory
      <4>2. IdsOf(all \ OfHistory(all)) \cap IdsOf(OfHistory(all)) = {}
        BY <2>4 DEF IdsOf, OfHistory
      <4>3. IdsOf(all) \cap m.postponed = {}
        BY <2>3, <2>4
      <4> QED
        BY <2>2, <2>3, <2>4, <3>1, <3>2, <4>1, <4>2, <4>3 DEF Numbered, SentIds, IdsOf
    <3>3. CASE ~Deleting(all)
      BY <2>2, <2>3, <2>4, <3>1, <3>3 DEF Numbered, SentIds, IdsOf
    <3> QED
      BY <3>2, <3>3
  <2>6. Exclusive(r)
    <3>1. CASE Deleting(all)
      <4>1. r.sent = all \ OfHistory(all)
        BY <2>2, <3>1
      <4>2. Deleting(r.sent) /\ HistoryIds(r) = {}
        BY <3>1, <4>1 DEF Deleting, OfHistory, HistoryIds, Deletes
      <4> QED
        BY <4>2 DEF Exclusive, Deleting, PostponeHistoryRequest
    <3>2. CASE ~Deleting(all)
      <4>1. r.sent = all /\ r.postponed = m.postponed
        BY <2>2, <3>2
      <4>2. ~PostponeHistoryRequest(m) /\ ~PostponeHistoryRequest(r)
        BY <2>4, <3>2, <4>1 DEF PostponeHistoryRequest, Deleting
      <4> QED
        BY <4>1, <4>2 DEF Exclusive, Steady
    <3> QED
      BY <3>1, <3>2
  <2>7. EntryOK(r)
    <3>1. (\E f \in all : f.type # "History") => PostponeEntryRequest(r)
      BY <2>2 DEF PostponeEntryRequest, Deleting, OfHistory
    <3>2. PostponeEntryRequest(m) => \E f \in all : f.type # "History"
      BY <2>4 DEF PostponeEntryRequest
    <3> QED
      BY <2>2, <3>1, <3>2 DEF EntryOK, Steady, Outdates
  <2>8. HistoryOf(r) = HistoryOf(m)
             \cup (IF type = "History" THEN {m.last + 1} ELSE {})
    <3>1. IdsOf(OfHistory(all)) = HistoryIds(m)
             \cup (IF type = "History" THEN {m.last + 1} ELSE {})
      BY <2>4 DEF IdsOf, OfHistory, HistoryIds
    <3>2. HistoryIds(r) = IF Deleting(all) THEN {} ELSE IdsOf(OfHistory(all))
      BY <2>2 DEF HistoryIds, IdsOf, OfHistory
    <3> QED
      BY <2>2, <3>1, <3>2 DEF HistoryOf
  <2> QED
    BY <2>2, <2>5, <2>6, <2>7, <2>8 DEF Steady, all
<1> QED
  BY <1>1, <1>2

\* A request that reports nothing keeps the reports in order.
LEMMA SendRequestKeeps ==
  ASSUME NEW m, Sound(m), NEW type \in AllTypes \ {"ReadInbox"},
         NEW till \in Marks, NEW r, r = SendRequest(m, type, till)
  PROVE  /\ Sound(r)
         /\ HistoryOf(r) = HistoryOf(m)
              \cup (IF type = "History" THEN {m.last + 1} ELSE {})
<1>1. /\ Steady(r)
      /\ HistoryOf(r) = HistoryOf(m)
           \cup (IF type = "History" THEN {m.last + 1} ELSE {})
      /\ r.sent \subseteq WithRequest(m, type, till)
      /\ r.willReadTill = m.willReadTill
      /\ r.sentReadTill = m.sentReadTill
      /\ r.read = m.read
  BY SendRequestSteady DEF Sound
<1>2. \A e \in r.sent : e.type = "ReadInbox" => e \in m.sent
  BY <1>1 DEF WithRequest
<1> QED
  BY <1>1, <1>2 DEF Sound, Forward

\* A report is about a message behind all that was reported.
LEMMA SendReadRequestKeeps ==
  ASSUME NEW m, Sound(m), m.willReadTill # 0, NEW r, r = SendReadRequest(m)
  PROVE  /\ Sound(r) /\ HistoryOf(r) = HistoryOf(m)
         /\ r.willReadTill = 0 /\ r.read = m.read
<1> DEFINE till == m.willReadTill
           n == [m EXCEPT !.sentReadTill = till, !.willReadTill = 0,
                          !.willReadLater = FALSE, !.sentReadDone = FALSE]
<1>1. m \in Chat /\ till \in Marks /\ 0 \in Marks
  BY HistoryRequestsAssumption DEF Sound, Steady, Chat, Marks
<1>2. /\ n \in Chat
      /\ n.postponed = m.postponed /\ n.sent = m.sent
      /\ n.byRequest = m.byRequest /\ n.last = m.last
      /\ n.pending = m.pending /\ n.requested = m.requested
      /\ n.postponedRequestEntry = m.postponedRequestEntry
      /\ n.willReadTill = 0 /\ n.sentReadTill = till
      /\ n.read = m.read
  BY <1>1 DEF Chat
<1>3. r = SendRequest(n, "ReadInbox", till)
  BY DEF SendReadRequest
<1> HIDE DEF n, till
<1>4. Steady(n) /\ HistoryOf(n) = HistoryOf(m)
  BY <1>2 DEF Sound, Steady, Numbered, Exclusive, EntryOK, HistoryOf, SentIds,
              HistoryIds, PostponeHistoryRequest, PostponeEntryRequest
<1>5. /\ Steady(r) /\ HistoryOf(r) = HistoryOf(n)
      /\ r.sent \subseteq WithRequest(n, "ReadInbox", till)
      /\ r.willReadTill = 0 /\ r.sentReadTill = till
      /\ r.read = m.read
  <2> DEFINE type == "ReadInbox"
  <2>1. type \in AllTypes /\ type # "History"
    BY DEF AllTypes
  <2>2. r = SendRequest(n, type, till)
    BY <1>3
  <2> HIDE DEF type
  <2>3. /\ HistoryOf(r) = HistoryOf(n)
             \cup (IF type = "History" THEN {n.last + 1} ELSE {})
        /\ Steady(r)
        /\ r.sent \subseteq WithRequest(n, type, till)
        /\ r.willReadTill = n.willReadTill
        /\ r.sentReadTill = n.sentReadTill /\ r.read = n.read
    BY <1>1, <1>4, <2>1, <2>2, SendRequestSteady
  <2> QED
    BY <1>2, <2>1, <2>3 DEF type
<1>6. Forward(r)
  <2>1. \A e \in r.sent : e.type = "ReadInbox" =>
          e \in m.sent \/ e.till = till
    BY <1>2, <1>5 DEF WithRequest
  <2>2. \A e \in m.sent : e.type = "ReadInbox" =>
          till > e.till /\ e.till \in Nat
    BY <1>1 DEF Sound, Forward, Chat, Requests, till
  <2> QED
    BY <1>1, <1>5, <2>1, <2>2 DEF Forward, Marks
<1> QED
  BY <1>4, <1>5, <1>6 DEF Sound

-----------------------------------------------------------------------------
(* finishSentRequest()                                                      *)

\* A sound chat, but that the request that is answered or cancelled may have
\* been taken from where it waited.
Leaving(m, id) ==
  /\ m \in Chat
  /\ id \notin m.postponed
  /\ m.postponed \cap SentIds(m) = {}
  /\ m.byRequest \ {id} = m.postponed \cup (SentIds(m) \ {id})
  /\ m.byRequest \subseteq 1 .. m.last
  /\ \A e, f \in m.sent : e.id = f.id => e = f
  /\ Exclusive(m) /\ EntryOK(m) /\ Forward(m)

\* A sent request of a sound chat leaves it.
LEMMA SentIsLeaving ==
  ASSUME NEW m, Sound(m), NEW id \in SentIds(m)
  PROVE  Leaving(m, id)
BY DEF Sound, Steady, Numbered, Leaving

\* The postponed requests as they are sent.
Again(m) == {[id |-> n, type |-> "History", till |-> 0] : n \in m.postponed}

LEMMA AgainIds ==
  ASSUME NEW m
  PROVE  IdsOf(Again(m)) = m.postponed
<1>1. ASSUME NEW n \in m.postponed
      PROVE  n \in IdsOf(Again(m))
  <2>1. [id |-> n, type |-> "History", till |-> 0] \in Again(m)
    BY DEF Again
  <2>2. [id |-> n, type |-> "History", till |-> 0].id = n
    OBVIOUS
  <2> QED
    BY <2>1, <2>2 DEF IdsOf
<1>2. ASSUME NEW n \in IdsOf(Again(m))
      PROVE  n \in m.postponed
  <2>1. PICK e \in Again(m) : n = e.id
    BY <1>2 DEF IdsOf
  <2>2. PICK k \in m.postponed : e = [id |-> k, type |-> "History", till |-> 0]
    BY DEF Again
  <2> QED
    BY <2>1, <2>2
<1> QED
  BY <1>1, <1>2

LEMMA FinishKeeps ==
  ASSUME NEW m, NEW id, Leaving(m, id), NEW r, r = FinishSentRequest(m, id)
  PROVE  Sound(r) /\ HistoryOf(r) = HistoryOf(m) \ {id}
<1> DEFINE ids == m.byRequest \ {id}
           left == {e \in m.sent : e.id # id}
           n == [m EXCEPT !.byRequest = ids, !.sent = left]
           s == SendPostponed(n)
<1>1. m \in Chat /\ left \in SUBSET Requests /\ ids \in SUBSET Nat
  BY DEF Leaving, Chat
<1>2. r = RequestPostponedEntry(s)
  BY DEF FinishSentRequest, Leaving, Chat
<1>3. /\ left \subseteq m.sent /\ \A e \in left : e.id # id
      /\ \A e \in m.sent : e.id # id => e \in left
      /\ ids = m.postponed \cup IdsOf(left)
      /\ IdsOf(left) \cap m.postponed = {}
      /\ id \notin m.postponed
      /\ ids \subseteq 1 .. m.last
  BY DEF Leaving, SentIds, IdsOf
<1> HIDE DEF ids, left
<1>4. /\ n \in Chat
      /\ n.byRequest = ids /\ n.sent = left
      /\ n.postponed = m.postponed /\ n.last = m.last
      /\ n.pending = m.pending /\ n.requested = m.requested
      /\ n.postponedRequestEntry = m.postponedRequestEntry
      /\ n.willReadTill = m.willReadTill /\ n.sentReadTill = m.sentReadTill
      /\ n.read = m.read
  BY <1>1 DEF Chat
<1> HIDE DEF n
<1>5. /\ s \in Chat
      /\ PostponeHistoryRequest(n) => s.sent = left /\ s.postponed = m.postponed
      /\ ~PostponeHistoryRequest(n) =>
            s.sent = left \cup Again(m) /\ s.postponed = {}
      /\ s.byRequest = ids /\ s.last = m.last
      /\ s.pending = m.pending /\ s.requested = m.requested
      /\ s.postponedRequestEntry = m.postponedRequestEntry
      /\ s.willReadTill = m.willReadTill /\ s.sentReadTill = m.sentReadTill
      /\ s.read = m.read
  <2>1. CASE PostponeHistoryRequest(n)
    BY <1>4, <2>1 DEF SendPostponed
  <2>2. CASE ~PostponeHistoryRequest(n)
    <3> DEFINE all == left \cup Again(m)
    <3>1. s = [n EXCEPT !.postponed = {}, !.sent = all]
      BY <1>4, <2>2 DEF SendPostponed, Again, Chat
    <3>2. all \in SUBSET Requests
      BY <1>1, HistoryRequestsAssumption DEF Again, Requests, Chat
    <3> HIDE DEF all
    <3>3. s \in Chat
      BY <1>4, <3>1, <3>2 DEF Chat
    <3> QED
      BY <1>4, <2>2, <3>1, <3>3 DEF all, Chat
  <2> QED
    BY <2>1, <2>2
<1>6. PostponeHistoryRequest(n) => PostponeHistoryRequest(m) /\ Deleting(left)
  BY <1>3, <1>4 DEF PostponeHistoryRequest, Deleting
<1>7. Numbered(s) /\ Exclusive(s)
  <2>1. CASE PostponeHistoryRequest(n)
    <3>1. HistoryIds(s) = {} /\ PostponeHistoryRequest(s)
      BY <1>3, <1>5, <1>6, <2>1 DEF Leaving, Exclusive, HistoryIds,
                                    PostponeHistoryRequest, Deleting
    <3>2. SentIds(s) = IdsOf(left) /\ s.postponed = m.postponed
      BY <1>5, <2>1 DEF SentIds, IdsOf
    <3>3. \A e, f \in s.sent : e.id = f.id => e = f
      BY <1>3, <1>5, <2>1 DEF Leaving
    <3> QED
      BY <1>3, <1>5, <3>1, <3>2, <3>3 DEF Numbered, Exclusive
  <2>2. CASE ~PostponeHistoryRequest(n)
    <3>1. IdsOf(Again(m)) = m.postponed
      BY AgainIds
    <3>2. IdsOf(left \cup Again(m)) = IdsOf(left) \cup IdsOf(Again(m))
      BY DEF IdsOf
    <3>3. \A e, f \in left \cup Again(m) : e.id = f.id => e = f
      <4>1. \A e, f \in left : e.id = f.id => e = f
        BY <1>3 DEF Leaving
      <4>2. \A e, f \in Again(m) : e.id = f.id => e = f
        BY DEF Again
      <4>3. \A e \in left, f \in Again(m) : e.id # f.id
        BY <1>3, <3>1 DEF IdsOf
      <4> QED
        BY <4>1, <4>2, <4>3
    <3>4. SentIds(s) = IdsOf(left) \cup m.postponed /\ s.postponed = {}
      BY <1>5, <2>2, <3>1, <3>2 DEF SentIds, IdsOf
    <3>5. \A e, f \in s.sent : e.id = f.id => e = f
      BY <1>5, <2>2, <3>3
    <3>6. ~PostponeHistoryRequest(s)
      BY <1>4, <1>5, <2>2 DEF PostponeHistoryRequest, Again, Deletes
    <3> QED
      BY <1>3, <1>5, <3>4, <3>5, <3>6 DEF Numbered, Exclusive
  <2> QED
    BY <2>1, <2>2
<1>8. Forward(s)
  <2>1. \A e \in s.sent : e.type = "ReadInbox" => e \in m.sent
    BY <1>3, <1>5 DEF Again
  <2> QED
    BY <1>5, <2>1 DEF Leaving, Forward
<1>9. HistoryOf(s) = HistoryOf(m) \ {id}
  <2>1. HistoryIds(m) \ {id} = IdsOf(OfHistory(left))
    BY <1>3 DEF HistoryIds, IdsOf, OfHistory
  <2>2. CASE PostponeHistoryRequest(n)
    BY <1>3, <1>5, <2>1, <2>2 DEF HistoryOf, HistoryIds, IdsOf, OfHistory
  <2>3. CASE ~PostponeHistoryRequest(n)
    <3>1. HistoryIds(s) = IdsOf(OfHistory(left)) \cup IdsOf(Again(m))
      <4>1. {f \in s.sent : f.type = "History"} = OfHistory(left) \cup Again(m)
        BY <1>5, <2>3 DEF OfHistory, Again
      <4>2. IdsOf(OfHistory(left) \cup Again(m))
              = IdsOf(OfHistory(left)) \cup IdsOf(Again(m))
        BY DEF IdsOf
      <4> QED
        BY <4>1, <4>2 DEF HistoryIds, IdsOf
    <3>2. IdsOf(Again(m)) = m.postponed
      BY AgainIds
    <3> QED
      BY <1>3, <1>5, <2>1, <2>3, <3>1, <3>2 DEF HistoryOf
  <2> QED
    BY <2>2, <2>3
<1> HIDE DEF s
<1>10. CASE s.postponedRequestEntry /\ ~PostponeEntryRequest(s)
  <2>1. r = [s EXCEPT !.postponedRequestEntry = FALSE, !.requested = FALSE,
                      !.pending = TRUE]
    BY <1>2, <1>10 DEF RequestPostponedEntry
  <2>2. /\ r \in Chat
        /\ r.sent = s.sent /\ r.postponed = s.postponed
        /\ r.byRequest = s.byRequest /\ r.last = s.last
        /\ r.postponedRequestEntry = FALSE /\ r.requested = FALSE
        /\ r.willReadTill = s.willReadTill /\ r.sentReadTill = s.sentReadTill
        /\ r.read = s.read
    BY <1>5, <2>1 DEF Chat
  <2> QED
    BY <1>7, <1>8, <1>9, <2>2
       DEF Sound, Steady, Numbered, Exclusive, EntryOK, Forward, HistoryOf,
           SentIds, HistoryIds, PostponeHistoryRequest
<1>11. CASE ~(s.postponedRequestEntry /\ ~PostponeEntryRequest(s))
  <2>1. r = s
    BY <1>2, <1>11 DEF RequestPostponedEntry
  <2>2. EntryOK(s)
    BY <1>5, <1>11 DEF EntryOK, Leaving
  <2> QED
    BY <1>5, <1>7, <1>8, <1>9, <2>1, <2>2 DEF Sound, Steady
<1> QED
  BY <1>10, <1>11

\* What is no history request leaves without a trace among them.
LEMMA OtherIsLeaving ==
  ASSUME NEW m, Sound(m), NEW id, id \notin HistoryOf(m)
  PROVE  Leaving(m, id)
BY DEF Sound, Steady, Numbered, Leaving, HistoryOf

LEMMA OtherIsNoHistory ==
  ASSUME NEW m, Sound(m), NEW e \in m.sent, e.type # "History"
  PROVE  e.id \notin HistoryOf(m)
BY DEF Sound, Steady, Numbered, HistoryOf, HistoryIds, SentIds

\* A request that waited is taken from there before it leaves.
LEMMA CancelledIsLeaving ==
  ASSUME NEW m, Sound(m), NEW id,
         NEW r, r = [m EXCEPT !.postponed = @ \ {id}]
  PROVE  Leaving(r, id) /\ HistoryOf(r) \ {id} = HistoryOf(m) \ {id}
<1> DEFINE waiting == m.postponed \ {id}
<1>1. m \in Chat /\ waiting \in SUBSET Nat
  BY DEF Sound, Steady, Chat
<1>2. r = [m EXCEPT !.postponed = waiting]
  BY <1>1 DEF Chat
<1> HIDE DEF waiting
<1>3. /\ r \in Chat
      /\ r.sent = m.sent /\ r.postponed = waiting
      /\ r.byRequest = m.byRequest /\ r.last = m.last
      /\ r.pending = m.pending /\ r.requested = m.requested
      /\ r.postponedRequestEntry = m.postponedRequestEntry
      /\ r.willReadTill = m.willReadTill /\ r.sentReadTill = m.sentReadTill
      /\ r.read = m.read
  BY <1>1, <1>2 DEF Chat
<1>4. Exclusive(r)
  BY <1>3 DEF Sound, Steady, Exclusive, PostponeHistoryRequest, HistoryIds,
              waiting
<1>5. EntryOK(r) /\ Forward(r)
  BY <1>3 DEF Sound, Steady, EntryOK, PostponeEntryRequest, Forward
<1>6. /\ SentIds(r) = SentIds(m) /\ HistoryIds(r) = HistoryIds(m)
  BY <1>3 DEF SentIds, HistoryIds
<1>7. /\ id \notin r.postponed
      /\ r.postponed \cap SentIds(r) = {}
      /\ r.byRequest \ {id} = r.postponed \cup (SentIds(r) \ {id})
      /\ r.byRequest \subseteq 1 .. r.last
      /\ \A e, f \in r.sent : e.id = f.id => e = f
  BY <1>3, <1>6 DEF Sound, Steady, Numbered, waiting
<1> QED
  BY <1>3, <1>4, <1>5, <1>6, <1>7 DEF Leaving, HistoryOf, waiting

-----------------------------------------------------------------------------
(* Reading, and entries of the list of chats                                *)

\* What is on its way stays as it is.
LEMMA SameRequests ==
  ASSUME NEW m, Sound(m), NEW r \in Chat,
         r.sent = m.sent, r.postponed = m.postponed,
         r.byRequest = m.byRequest, r.last = m.last,
         EntryOK(r), Forward(r)
  PROVE  Sound(r) /\ HistoryOf(r) = HistoryOf(m)
BY DEF Sound, Steady, Numbered, Exclusive, HistoryOf, SentIds, HistoryIds,
       PostponeHistoryRequest

LEMMA LaterIsLater ==
  ASSUME NEW a \in Marks, NEW b \in Marks
  PROVE  Later(a, b) \in Marks /\ Later(a, b) >= a /\ Later(a, b) >= b
BY HistoryRequestsAssumption DEF Later, Marks

LEMMA Reported ==
  ASSUME NEW m \in Chat
  PROVE  /\ \A e \in m.sent : e.till \in Nat
         /\ m.willReadTill \in Nat /\ m.sentReadTill \in Nat
         /\ m.read \in Nat
BY DEF Chat, Requests, Marks

\* The read position moves forward.
LEMMA ReadMoves ==
  ASSUME NEW m, Sound(m), NEW till \in Marks, till >= m.read,
         NEW r, r = [m EXCEPT !.read = till]
  PROVE  Sound(r) /\ HistoryOf(r) = HistoryOf(m)
<1>1. m \in Chat
  BY DEF Sound, Steady
<1>2. /\ r \in Chat
      /\ r.sent = m.sent /\ r.postponed = m.postponed
      /\ r.byRequest = m.byRequest /\ r.last = m.last
      /\ r.pending = m.pending /\ r.requested = m.requested
      /\ r.postponedRequestEntry = m.postponedRequestEntry
      /\ r.willReadTill = m.willReadTill /\ r.sentReadTill = m.sentReadTill
      /\ r.read = till
  BY <1>1 DEF Chat
<1>3. EntryOK(r)
  BY <1>2 DEF Sound, Steady, EntryOK, PostponeEntryRequest
<1>4. Forward(r)
  <2>1. till \in Nat
    BY DEF Marks
  <2> QED
    BY <1>1, <1>2, <2>1, Reported DEF Sound, Forward
<1> QED
  BY <1>2, <1>3, <1>4, SameRequests

LEMMA ReadInboxTillKeeps ==
  ASSUME NEW m, Sound(m), NEW till \in Tills, NEW force \in BOOLEAN,
         NEW still, NEW r, r = ReadInboxTill(m, till, force, still)
  PROVE  Sound(r) /\ HistoryOf(r) = HistoryOf(m)
<1>1. m \in Chat /\ till \in Marks /\ till # 0 /\ m.read \in Marks
  BY DEF Sound, Steady, Chat, Tills, Marks
<1>2. CASE ReadBefore(m, till, force)
  BY <1>2 DEF ReadInboxTill
<1>3. CASE ~ReadBefore(m, till, force) /\ m.willReadTill >= till
  <2> DEFINE later == m.willReadLater /\ ~force
  <2>1. r = [m EXCEPT !.willReadLater = later]
    BY <1>1, <1>3 DEF ReadInboxTill, Chat
  <2>2. later \in BOOLEAN
    OBVIOUS
  <2> HIDE DEF later
  <2>3. /\ r \in Chat
        /\ r.sent = m.sent /\ r.postponed = m.postponed
        /\ r.byRequest = m.byRequest /\ r.last = m.last
        /\ r.pending = m.pending /\ r.requested = m.requested
        /\ r.postponedRequestEntry = m.postponedRequestEntry
        /\ r.willReadTill = m.willReadTill /\ r.sentReadTill = m.sentReadTill
        /\ r.read = m.read
    BY <1>1, <2>1, <2>2 DEF Chat
  <2>4. EntryOK(r) /\ Forward(r)
    BY <2>3 DEF Sound, Steady, EntryOK, PostponeEntryRequest, Forward
  <2> QED
    BY <2>3, <2>4, SameRequests
<1>4. CASE /\ ~ReadBefore(m, till, force) /\ ~(m.willReadTill >= till)
           /\ still = "same" /\ ~force
  <2>1. r = [m EXCEPT !.read = Later(m.read, till)]
    BY <1>1, <1>4 DEF ReadInboxTill, Chat
  <2>2. Later(m.read, till) \in Marks /\ Later(m.read, till) >= m.read
    BY <1>1, LaterIsLater
  <2> QED
    BY <2>1, <2>2, ReadMoves
<1>5. CASE /\ ~ReadBefore(m, till, force) /\ ~(m.willReadTill >= till)
           /\ ~(still = "same" /\ ~force)
  <2> DEFINE later == ~(force \/ still \in {"unknown", "none"})
             read == IF still = "unknown" THEN m.read ELSE Later(m.read, till)
  <2>1. r = [m EXCEPT !.willReadTill = till, !.willReadLater = later,
                      !.read = read]
    BY <1>1, <1>5 DEF ReadInboxTill, Chat
  <2>2. later \in BOOLEAN /\ read \in Marks /\ read >= m.read
    <3>1. m.read \in Nat
      BY <1>1, Reported
    <3> QED
      BY <1>1, <3>1, LaterIsLater
  <2> HIDE DEF later, read
  <2>3. /\ r \in Chat
        /\ r.sent = m.sent /\ r.postponed = m.postponed
        /\ r.byRequest = m.byRequest /\ r.last = m.last
        /\ r.pending = m.pending /\ r.requested = m.requested
        /\ r.postponedRequestEntry = m.postponedRequestEntry
        /\ r.willReadTill = till /\ r.sentReadTill = m.sentReadTill
        /\ r.read = read
    BY <1>1, <2>1, <2>2 DEF Chat
  <2>4. EntryOK(r)
    BY <2>3 DEF Sound, Steady, EntryOK, PostponeEntryRequest
  <2>5. /\ till \in Nat /\ read \in Nat
        /\ m.sentReadTill < till /\ m.willReadTill < till
        /\ m.read < till \/ m.willReadTill # 0
    BY <1>1, <1>5, <2>2, Reported DEF ReadBefore, Marks
  <2>6. ASSUME NEW e \in m.sent, e.type = "ReadInbox"
        PROVE  e.till < till
    BY <1>1, <2>5, <2>6, Reported DEF Sound, Forward
  <2>7. Forward(r)
    BY <1>1, <2>2, <2>3, <2>5, <2>6, Reported DEF Sound, Forward
  <2> QED
    BY <2>3, <2>4, <2>7, SameRequests
<1> QED
  BY <1>2, <1>3, <1>4, <1>5

LEMMA RequestEntryKeeps ==
  ASSUME NEW m, Sound(m), NEW callback \in BOOLEAN,
         NEW r, r = [RequestDialogEntry(m) EXCEPT !.callback = callback]
  PROVE  Sound(r) /\ HistoryOf(r) = HistoryOf(m)
<1> DEFINE pending == m.pending \/ ~m.requested
<1>1. m \in Chat /\ pending \in BOOLEAN
  BY DEF Sound, Steady, Chat
<1>2. r = [m EXCEPT !.pending = pending, !.callback = callback]
  BY <1>1 DEF RequestDialogEntry, Chat
<1> HIDE DEF pending
<1>3. /\ r \in Chat
      /\ r.sent = m.sent /\ r.postponed = m.postponed
      /\ r.byRequest = m.byRequest /\ r.last = m.last
      /\ r.pending = pending /\ r.requested = m.requested
      /\ r.postponedRequestEntry = m.postponedRequestEntry
      /\ r.willReadTill = m.willReadTill /\ r.sentReadTill = m.sentReadTill
      /\ r.read = m.read
  BY <1>1, <1>2 DEF Chat
<1>4. EntryOK(r) /\ Forward(r)
  BY <1>3 DEF Sound, Steady, EntryOK, PostponeEntryRequest, Forward, pending
<1> QED
  BY <1>3, <1>4, SameRequests

LEMMA RequestDialogEntryKeeps ==
  ASSUME NEW m, Sound(m), NEW r, r = RequestDialogEntry(m)
  PROVE  Sound(r) /\ HistoryOf(r) = HistoryOf(m)
<1>1. m \in Chat
  BY DEF Sound, Steady
<1>2. m.callback \in BOOLEAN /\ r = [r EXCEPT !.callback = m.callback]
  BY <1>1 DEF RequestDialogEntry, Chat
<1> QED
  BY <1>2, RequestEntryKeeps

\* The report that was sent last is done, and forgotten when the entry knows
\* about it.
LEMMA ReadDone ==
  ASSUME NEW m, Sound(m), NEW done \in BOOLEAN,
         NEW r, r = [m EXCEPT !.sentReadDone = done]
  PROVE  Sound(r) /\ HistoryOf(r) = HistoryOf(m)
<1>1. m \in Chat
  BY DEF Sound, Steady
<1>2. /\ r \in Chat
      /\ r.sent = m.sent /\ r.postponed = m.postponed
      /\ r.byRequest = m.byRequest /\ r.last = m.last
      /\ r.pending = m.pending /\ r.requested = m.requested
      /\ r.postponedRequestEntry = m.postponedRequestEntry
      /\ r.willReadTill = m.willReadTill /\ r.sentReadTill = m.sentReadTill
      /\ r.read = m.read
  BY <1>1 DEF Chat
<1>3. EntryOK(r) /\ Forward(r)
  BY <1>2 DEF Sound, Steady, EntryOK, PostponeEntryRequest, Forward
<1> QED
  BY <1>2, <1>3, SameRequests

LEMMA SentReadForgotten ==
  ASSUME NEW m, Sound(m), m.sentReadTill <= m.read,
         NEW r, r = [m EXCEPT !.sentReadTill = 0]
  PROVE  Sound(r) /\ HistoryOf(r) = HistoryOf(m)
<1>1. m \in Chat /\ 0 \in Marks
  BY HistoryRequestsAssumption DEF Sound, Steady, Marks
<1>2. /\ r \in Chat
      /\ r.sent = m.sent /\ r.postponed = m.postponed
      /\ r.byRequest = m.byRequest /\ r.last = m.last
      /\ r.pending = m.pending /\ r.requested = m.requested
      /\ r.postponedRequestEntry = m.postponedRequestEntry
      /\ r.willReadTill = m.willReadTill /\ r.sentReadTill = 0
      /\ r.read = m.read
  BY <1>1 DEF Chat
<1>3. EntryOK(r)
  BY <1>2 DEF Sound, Steady, EntryOK, PostponeEntryRequest
<1>4. Forward(r)
  BY <1>1, <1>2, Reported DEF Sound, Forward
<1> QED
  BY <1>2, <1>3, <1>4, SameRequests

LEMMA ReadFinishedKeeps ==
  ASSUME NEW m, Sound(m), NEW till, NEW known \in BOOLEAN,
         NEW r, r = ReadFinished(m, till, known)
  PROVE  Sound(r) /\ HistoryOf(r) = HistoryOf(m)
<1> DEFINE n == [m EXCEPT !.sentReadDone = TRUE]
<1>1. m \in Chat
  BY DEF Sound, Steady
<1>2. /\ Sound(n) /\ HistoryOf(n) = HistoryOf(m)
      /\ n.sentReadTill = m.sentReadTill /\ n.read = m.read
  BY <1>1, ReadDone DEF Chat
<1>3. CASE m.sentReadTill # till
  BY <1>3 DEF ReadFinished
<1>4. CASE m.sentReadTill = till /\ known /\ till <= m.read
  <2>1. r = [n EXCEPT !.sentReadTill = 0]
    BY <1>1, <1>4 DEF ReadFinished, Chat
  <2> HIDE DEF n
  <2> QED
    BY <1>2, <1>4, <2>1, SentReadForgotten
<1>5. CASE m.sentReadTill = till /\ ~(known /\ till <= m.read)
  <2>1. r = RequestDialogEntry(n)
    BY <1>5 DEF ReadFinished
  <2> HIDE DEF n
  <2> QED
    BY <1>2, <2>1, RequestDialogEntryKeeps
<1> QED
  BY <1>3, <1>4, <1>5

\* The entry of a chat has come, and nothing that it waits for is left.
LEMMA EntryTaken ==
  ASSUME NEW m, Sound(m), ~m.postponedRequestEntry,
         NEW r, r = [m EXCEPT !.pending = FALSE, !.requested = FALSE,
                              !.callback = FALSE]
  PROVE  Sound(r) /\ HistoryOf(r) = HistoryOf(m)
<1>1. m \in Chat
  BY DEF Sound, Steady
<1>2. /\ r \in Chat
      /\ r.sent = m.sent /\ r.postponed = m.postponed
      /\ r.byRequest = m.byRequest /\ r.last = m.last
      /\ r.pending = FALSE /\ r.requested = FALSE
      /\ r.postponedRequestEntry = m.postponedRequestEntry
      /\ r.willReadTill = m.willReadTill /\ r.sentReadTill = m.sentReadTill
      /\ r.read = m.read
  BY <1>1 DEF Chat
<1>3. EntryOK(r) /\ Forward(r)
  BY <1>2 DEF Sound, EntryOK, Forward
<1> QED
  BY <1>2, <1>3, SameRequests

LEMMA DialogEntryAppliedKeeps ==
  ASSUME NEW m, Sound(m), NEW till \in Tills, NEW still,
         NEW r, r = DialogEntryApplied(m, till, still)
  PROVE  Sound(r) /\ HistoryOf(r) = HistoryOf(m)
<1> DEFINE taken == [m EXCEPT !.pending = FALSE, !.requested = FALSE,
                              !.callback = FALSE]
           noted == IF m.callback THEN ReadInboxTill(taken, till, FALSE, still)
                    ELSE taken
           called == IF Due(noted) THEN SendReadRequest(noted) ELSE noted
           mark == Later(called.read, called.sentReadTill)
           known == [called EXCEPT !.read = mark]
<1>1. CASE m.postponedRequestEntry
  BY <1>1 DEF DialogEntryApplied
<1>2. CASE ~m.postponedRequestEntry
  <2>1. r = IF called.sentReadTill # 0 /\ called.sentReadDone
              THEN [called EXCEPT !.read = mark, !.sentReadTill = 0]
              ELSE called
    BY <1>2 DEF DialogEntryApplied
  <2>2. Sound(taken) /\ HistoryOf(taken) = HistoryOf(m)
    BY <1>2, EntryTaken
  <2> HIDE DEF taken
  <2>3. Sound(noted) /\ HistoryOf(noted) = HistoryOf(m)
    <3>1. CASE m.callback
      <4> DEFINE force == FALSE
      <4>1. force \in BOOLEAN /\ noted = ReadInboxTill(taken, till, force, still)
        BY <3>1
      <4> HIDE DEF force, noted
      <4> QED
        BY <2>2, <4>1, ReadInboxTillKeeps
    <3>2. CASE ~m.callback
      BY <2>2, <3>2
    <3> QED
      BY <3>1, <3>2
  <2> HIDE DEF noted
  <2>4. Sound(called) /\ HistoryOf(called) = HistoryOf(m)
    BY <2>3, SendReadRequestKeeps DEF Due
  <2> HIDE DEF called
  <2>5. /\ called \in Chat
        /\ called.read \in Marks /\ called.sentReadTill \in Marks
    BY <2>4 DEF Sound, Steady, Chat
  <2>6. mark \in Marks /\ mark >= called.read /\ mark >= called.sentReadTill
    BY <2>5, LaterIsLater
  <2> HIDE DEF mark
  <2>7. Sound(known) /\ HistoryOf(known) = HistoryOf(m)
    BY <2>4, <2>6, ReadMoves
  <2>8. /\ known.sentReadTill = called.sentReadTill /\ known.read = mark
        /\ [called EXCEPT !.read = mark, !.sentReadTill = 0]
             = [known EXCEPT !.sentReadTill = 0]
    BY <2>5 DEF Chat
  <2> HIDE DEF known
  <2>9. known.sentReadTill <= known.read
    <3>1. mark \in Nat /\ called.sentReadTill \in Nat
      BY <2>5, <2>6 DEF Marks
    <3> QED
      BY <2>6, <2>8, <3>1
  <2>10. /\ Sound([known EXCEPT !.sentReadTill = 0])
         /\ HistoryOf([known EXCEPT !.sentReadTill = 0]) = HistoryOf(m)
    BY <2>7, <2>9, SentReadForgotten
  <2> QED
    BY <2>1, <2>4, <2>8, <2>10
<1> QED
  BY <1>1, <1>2

LEMMA EntryAppliedKeeps ==
  ASSUME NEW c \in Chats, Sound(chat[c]), NEW known \in Marks,
         NEW till \in Tills, NEW still,
         NEW r, r = EntryApplied(c, known, till, still)
  PROVE  Sound(r) /\ HistoryOf(r) = HistoryOf(chat[c])
<1> DEFINE m == chat[c]
           mark == Later(m.read, known)
           n == [m EXCEPT !.read = mark]
<1>1. m \in Chat /\ m.read \in Marks
  BY DEF Sound, Steady, Chat
<1>2. mark \in Marks /\ mark >= m.read
  BY <1>1, LaterIsLater
<1>3. r = DialogEntryApplied(n, till, still)
  BY DEF EntryApplied
<1> HIDE DEF mark
<1>4. Sound(n) /\ HistoryOf(n) = HistoryOf(m)
  BY <1>2, ReadMoves
<1> HIDE DEF n
<1> QED
  BY <1>3, <1>4, DialogEntryAppliedKeeps

\* The entry of a chat is asked for now, or when nothing changes the chat.
LEMMA EntrySentKeeps ==
  ASSUME NEW m, Sound(m), m.pending, NEW wait \in BOOLEAN,
         wait => PostponeEntryRequest(m),
         NEW r, r = [m EXCEPT !.pending = FALSE, !.requested = TRUE,
                              !.postponedRequestEntry = @ \/ wait]
  PROVE  Sound(r) /\ HistoryOf(r) = HistoryOf(m)
<1> DEFINE postponed == m.postponedRequestEntry \/ wait
<1>1. m \in Chat /\ postponed \in BOOLEAN
  BY DEF Sound, Steady, Chat
<1>2. r = [m EXCEPT !.pending = FALSE, !.requested = TRUE,
                    !.postponedRequestEntry = postponed]
  BY <1>1 DEF Chat
<1> HIDE DEF postponed
<1>3. /\ r \in Chat
      /\ r.sent = m.sent /\ r.postponed = m.postponed
      /\ r.byRequest = m.byRequest /\ r.last = m.last
      /\ r.pending = FALSE /\ r.requested = TRUE
      /\ r.postponedRequestEntry = postponed
      /\ r.willReadTill = m.willReadTill /\ r.sentReadTill = m.sentReadTill
      /\ r.read = m.read
  BY <1>1, <1>2 DEF Chat
<1>4. EntryOK(r) /\ Forward(r)
  BY <1>3 DEF Sound, Steady, EntryOK, PostponeEntryRequest, Forward, postponed
<1> QED
  BY <1>3, <1>4, SameRequests

-----------------------------------------------------------------------------
(* All chats                                                                *)

AllSound(cs) ==
  /\ cs = [c \in Chats |-> cs[c]]
  /\ \A c \in Chats : Sound(cs[c])

SameHistory(cs, ds) == \A c \in Chats : HistoryOf(ds[c]) = HistoryOf(cs[c])

LEMMA WithKeeps ==
  ASSUME AllSound(chat), NEW c \in Chats, NEW m, Sound(m),
         NEW cs, cs = With(m, c)
  PROVE  /\ AllSound(cs)
         /\ cs[c] = m
         /\ \A d \in Chats \ {c} : cs[d] = chat[d]
         /\ HistoryOf(m) = HistoryOf(chat[c]) => SameHistory(chat, cs)
<1>1. cs[c] = m /\ \A d \in Chats \ {c} : cs[d] = chat[d]
  BY DEF AllSound, With
<1>2. cs = [d \in Chats |-> cs[d]]
  BY DEF AllSound, With
<1> QED
  BY <1>1, <1>2 DEF AllSound, SameHistory

LEMMA SendReadRequestsKeep ==
  ASSUME NEW cs, AllSound(cs), NEW expired,
         NEW ds, ds = SendReadRequests(cs, expired)
  PROVE  AllSound(ds) /\ SameHistory(cs, ds)
<1>1. ds = [c \in Chats |-> ds[c]]
  BY DEF SendReadRequests
<1>2. ASSUME NEW c \in Chats
      PROVE  Sound(ds[c]) /\ HistoryOf(ds[c]) = HistoryOf(cs[c])
  <2>1. Sound(cs[c])
    BY DEF AllSound
  <2>2. CASE cs[c].willReadTill # 0 /\ (Due(cs[c]) \/ c \in expired)
    <3>1. ds[c] = SendReadRequest(cs[c])
      BY <2>2 DEF SendReadRequests
    <3> QED
      BY <2>1, <2>2, <3>1, SendReadRequestKeeps
  <2>3. CASE ~(cs[c].willReadTill # 0 /\ (Due(cs[c]) \/ c \in expired))
    <3>1. ds[c] = cs[c]
      BY <2>3 DEF SendReadRequests
    <3> QED
      BY <2>1, <3>1
  <2> QED
    BY <2>2, <2>3
<1> QED
  BY <1>1, <1>2 DEF AllSound, SameHistory

LEMMA NotedKeeps ==
  ASSUME NEW cs, AllSound(cs), Noted(cs)
  PROVE  AllSound(chat') /\ SameHistory(cs, chat')
<1>1. CASE \E c \in Chats : Due(cs[c])
  <2>1. PICK expired : chat' = SendReadRequests(cs, expired)
    BY <1>1 DEF Noted, BecomeAndSend, Become
  <2> QED
    BY <2>1, SendReadRequestsKeep
<1>2. CASE ~\E c \in Chats : Due(cs[c])
  <2>1. chat' = cs
    BY <1>2 DEF Noted, Become
  <2> QED
    BY <2>1 DEF SameHistory
<1> QED
  BY <1>1, <1>2

-----------------------------------------------------------------------------
(* The invariant                                                            *)

\* Every open history request is in one place, and no other is.
Placed(cs, os) ==
  /\ os \subseteq Chats \X Nat
  /\ \A c \in Chats, id \in Nat : <<c, id>> \in os <=> id \in HistoryOf(cs[c])

IInv ==
  /\ AllSound(chat)
  /\ Placed(chat, open)
  /\ \A d \in asked : d.chats \subseteq Chats
  /\ server \in [Chats -> Marks]

LEMMA HistoryIdsAreNat ==
  ASSUME NEW m, Sound(m)
  PROVE  HistoryOf(m) \subseteq Nat
BY DEF Sound, Steady, Chat, Requests, HistoryOf, HistoryIds

\* Chats that keep their history requests keep what is open.
LEMMA StillPlaced ==
  ASSUME NEW cs, NEW ds, NEW os, Placed(cs, os), SameHistory(cs, ds)
  PROVE  Placed(ds, os)
BY DEF Placed, SameHistory

\* One request more, or one less.
LEMMA PlacedMore ==
  ASSUME AllSound(chat), Placed(chat, open), NEW c \in Chats, NEW id \in Nat,
         NEW m, Sound(m), HistoryOf(m) = HistoryOf(chat[c]) \cup {id}
  PROVE  Placed(With(m, c), open \cup {<<c, id>>})
<1> DEFINE cs == With(m, c)
           os == open \cup {<<c, id>>}
<1>1. cs[c] = m /\ \A d \in Chats \ {c} : cs[d] = chat[d]
  BY WithKeeps
<1> HIDE DEF cs
<1>2. os \subseteq Chats \X Nat
  BY DEF Placed
<1>3. ASSUME NEW d \in Chats, NEW n \in Nat
      PROVE  <<d, n>> \in os <=> n \in HistoryOf(cs[d])
  BY <1>1 DEF Placed
<1> QED
  BY <1>2, <1>3 DEF Placed, cs

LEMMA PlacedLess ==
  ASSUME AllSound(chat), Placed(chat, open), NEW c \in Chats, NEW id,
         NEW m, Sound(m), HistoryOf(m) = HistoryOf(chat[c]) \ {id}
  PROVE  Placed(With(m, c), open \ {<<c, id>>})
<1> DEFINE cs == With(m, c)
           os == open \ {<<c, id>>}
<1>1. cs[c] = m /\ \A d \in Chats \ {c} : cs[d] = chat[d]
  BY WithKeeps
<1> HIDE DEF cs
<1>2. os \subseteq Chats \X Nat
  BY DEF Placed
<1>3. ASSUME NEW d \in Chats, NEW n \in Nat
      PROVE  <<d, n>> \in os <=> n \in HistoryOf(cs[d])
  BY <1>1 DEF Placed
<1> QED
  BY <1>2, <1>3 DEF Placed, cs

LEMMA InitHolds == Init => IInv
<1> SUFFICES ASSUME Init PROVE IInv
  OBVIOUS
<1>1. 0 \in Marks
  BY HistoryRequestsAssumption DEF Marks
<1>2. FreshChat \in Chat
  BY <1>1 DEF FreshChat, Chat
<1>3. Sound(FreshChat) /\ HistoryOf(FreshChat) = {}
  BY <1>2 DEF FreshChat, Sound, Steady, Numbered, Exclusive, EntryOK, Forward,
              SentIds, HistoryIds, HistoryOf, PostponeHistoryRequest,
              PostponeEntryRequest
<1>4. chat = [c \in Chats |-> chat[c]] /\ \A c \in Chats : chat[c] = FreshChat
  BY DEF Init
<1>5. AllSound(chat)
  BY <1>3, <1>4 DEF AllSound
<1>6. Placed(chat, open)
  BY <1>3, <1>4 DEF Init, Placed
<1> QED
  BY <1>1, <1>5, <1>6 DEF Init, IInv

\* A step that changes one chat, and no history request of it.
LEMMA OneChatKeeps ==
  ASSUME IInv, NEW c \in Chats, NEW m, Sound(m),
         HistoryOf(m) = HistoryOf(chat[c]),
         chat' = With(m, c), open' = open
  PROVE  AllSound(chat') /\ Placed(chat', open')
<1>1. AllSound(chat') /\ SameHistory(chat, chat')
  BY WithKeeps DEF IInv
<1> QED
  BY <1>1, StillPlaced DEF IInv

LEMMA RequestStep ==
  ASSUME IInv, NEW c \in Chats, NEW type \in Types(c), Request(c, type)
  PROVE  IInv'
<1> DEFINE m == chat[c]
           till == 0
           r == SendRequest(m, type, till)
<1>1. /\ type \in AllTypes \ {"ReadInbox"} /\ till \in Marks
      /\ Sound(m) /\ m.last + 1 \in Nat
  BY HistoryRequestsAssumption
     DEF Types, AllTypes, Marks, Deletes, IInv, AllSound, Sound, Steady, Chat
<1>2. chat' = With(r, c) /\ UNCHANGED <<asked, server>>
  BY DEF Request, Become
<1> HIDE DEF r, till
<1>3. /\ Sound(r)
      /\ HistoryOf(r) = HistoryOf(m)
           \cup (IF type = "History" THEN {m.last + 1} ELSE {})
  BY <1>1, SendRequestKeeps DEF r
<1>4. AllSound(chat')
  BY <1>2, <1>3, WithKeeps DEF IInv
<1>5. Placed(chat', open')
  <2>1. CASE type = "History"
    <3>1. open' = open \cup {<<c, m.last + 1>>}
      BY <2>1 DEF Request
    <3>2. HistoryOf(r) = HistoryOf(m) \cup {m.last + 1}
      BY <1>3, <2>1
    <3> QED
      BY <1>1, <1>2, <1>3, <3>1, <3>2, PlacedMore DEF IInv
  <2>2. CASE type # "History"
    <3>1. open' = open /\ HistoryOf(r) = HistoryOf(m)
      BY <1>3, <2>2 DEF Request
    <3> QED
      BY <1>2, <1>3, <3>1, OneChatKeeps
  <2> QED
    BY <2>1, <2>2
<1> QED
  BY <1>2, <1>4, <1>5 DEF IInv

LEMMA CancelStep ==
  ASSUME IInv, NEW c \in Chats, NEW id, Cancel(c, id)
  PROVE  IInv'
<1> DEFINE n == [chat[c] EXCEPT !.postponed = @ \ {id}]
           r == FinishSentRequest(n, id)
<1>1. /\ chat' = With(r, c) /\ open' = open \ {<<c, id>>}
      /\ UNCHANGED <<asked, server>>
  BY DEF Cancel, Become
<1>2. Leaving(n, id) /\ HistoryOf(n) \ {id} = HistoryOf(chat[c]) \ {id}
  BY CancelledIsLeaving DEF IInv, AllSound
<1> HIDE DEF n
<1>3. Sound(r) /\ HistoryOf(r) = HistoryOf(chat[c]) \ {id}
  BY <1>2, FinishKeeps
<1> HIDE DEF r
<1>4. AllSound(chat') /\ Placed(chat', open')
  BY <1>1, <1>3, WithKeeps, PlacedLess DEF IInv
<1> QED
  BY <1>1, <1>4 DEF IInv

LEMMA ReadTillStep ==
  ASSUME IInv, NEW c \in Chats, NEW till \in Tills, NEW force \in BOOLEAN,
         NEW still, ReadTill(c, till, force, still)
  PROVE  IInv'
<1> DEFINE r == ReadInboxTill(chat[c], till, force, still)
           cs == With(r, c)
<1>1. Sound(r) /\ HistoryOf(r) = HistoryOf(chat[c])
  BY ReadInboxTillKeeps DEF IInv, AllSound
<1>2. Noted(cs) /\ UNCHANGED <<asked, server, open>>
  BY DEF ReadTill
<1> HIDE DEF r
<1>3. AllSound(cs) /\ SameHistory(chat, cs)
  BY <1>1, WithKeeps DEF IInv
<1> HIDE DEF cs
<1>4. AllSound(chat') /\ SameHistory(cs, chat')
  BY <1>2, <1>3, NotedKeeps
<1>5. Placed(chat', open)
  BY <1>3, <1>4, StillPlaced DEF IInv
<1> QED
  BY <1>2, <1>4, <1>5 DEF IInv

LEMMA RequestEntryStep ==
  ASSUME IInv, NEW c \in Chats, NEW callback \in BOOLEAN,
         RequestEntry(c, callback)
  PROVE  IInv'
<1> DEFINE m == chat[c]
           called == RequestDialogEntry(m).callback \/ callback
           r == [RequestDialogEntry(m) EXCEPT !.callback = called]
<1>1. Sound(m)
  BY DEF IInv, AllSound
<1>2. called \in BOOLEAN
  OBVIOUS
<1>3. [RequestDialogEntry(m) EXCEPT !.callback = @ \/ callback] = r
  OBVIOUS
<1>4. chat' = With(r, c) /\ UNCHANGED <<asked, server, open>>
  BY <1>3 DEF RequestEntry, Become
<1> HIDE DEF called
<1>5. Sound(r) /\ HistoryOf(r) = HistoryOf(m)
  BY <1>1, <1>2, RequestEntryKeeps
<1> HIDE DEF r
<1>6. AllSound(chat') /\ Placed(chat', open')
  BY <1>4, <1>5, OneChatKeeps
<1> QED
  BY <1>4, <1>6 DEF IInv

LEMMA ReadRequestsTimerStep ==
  ASSUME IInv, ReadRequestsTimer
  PROVE  IInv'
<1>1. PICK expired : /\ chat' = SendReadRequests(chat, expired)
                     /\ UNCHANGED <<asked, server, open>>
  BY DEF ReadRequestsTimer, Become
<1>2. AllSound(chat') /\ SameHistory(chat, chat')
  BY <1>1, SendReadRequestsKeep DEF IInv
<1> QED
  BY <1>1, <1>2, StillPlaced DEF IInv

LEMMA SendDialogRequestsStep ==
  ASSUME IInv, SendDialogRequests
  PROVE  IInv'
<1> DEFINE pending == Pending(chat)
           now == {c \in pending : ~PostponeEntryRequest(chat[c])}
           Entry(c) == [chat[c] EXCEPT !.pending = FALSE, !.requested = TRUE,
                                       !.postponedRequestEntry =
                                          @ \/ c \notin now]
<1>1. /\ chat' = [c \in Chats |-> IF c \in pending THEN Entry(c) ELSE chat[c]]
      /\ UNCHANGED <<server, open>>
  BY DEF SendDialogRequests
<1>2. ASSUME NEW c \in Chats
      PROVE  Sound(chat'[c]) /\ HistoryOf(chat'[c]) = HistoryOf(chat[c])
  <2>1. Sound(chat[c])
    BY DEF IInv, AllSound
  <2>2. CASE c \in pending
    <3> DEFINE wait == c \notin now
    <3>1. chat'[c] = [chat[c] EXCEPT !.pending = FALSE, !.requested = TRUE,
                                     !.postponedRequestEntry = @ \/ wait]
      BY <1>1, <2>2
    <3>2. /\ chat[c].pending /\ wait \in BOOLEAN
          /\ wait => PostponeEntryRequest(chat[c])
      BY <2>2 DEF Pending
    <3> HIDE DEF wait
    <3> QED
      BY <2>1, <3>1, <3>2, EntrySentKeeps
  <2>3. CASE c \notin pending
    BY <1>1, <2>1, <2>3
  <2> QED
    BY <2>2, <2>3
<1>3. AllSound(chat') /\ SameHistory(chat, chat')
  BY <1>1, <1>2 DEF AllSound, SameHistory
<1>4. Placed(chat', open')
  BY <1>1, <1>3, StillPlaced DEF IInv
<1>5. \A d \in asked' : d.chats \subseteq Chats
  <2>1. now \subseteq Chats
    BY DEF Pending
  <2>2. PICK number :
          asked' = asked \cup IF now = {} THEN {}
                              ELSE {[number |-> number, chats |-> now]}
    BY DEF SendDialogRequests
  <2> HIDE DEF now
  <2> QED
    BY <2>1, <2>2 DEF IInv
<1> QED
  BY <1>1, <1>3, <1>4, <1>5 DEF IInv

LEMMA EntriesAnsweredStep ==
  ASSUME IInv, NEW d \in asked, EntriesAnswered(d)
  PROVE  IInv'
<1>1. PICK known \in [d.chats -> 0 .. MaxMessage], till \in Tills,
           still \in Still :
        Noted([c \in Chats |-> IF c \in d.chats
                                 THEN EntryApplied(c, known[c], till, still)
                                 ELSE chat[c]])
  BY DEF EntriesAnswered
<1> DEFINE cs == [c \in Chats |-> IF c \in d.chats
                                    THEN EntryApplied(c, known[c], till, still)
                                    ELSE chat[c]]
<1>2. UNCHANGED <<server, open>> /\ asked' = asked \ {d}
  BY DEF EntriesAnswered
<1>3. ASSUME NEW c \in Chats
      PROVE  Sound(cs[c]) /\ HistoryOf(cs[c]) = HistoryOf(chat[c])
  <2>1. Sound(chat[c])
    BY DEF IInv, AllSound
  <2>2. CASE c \in d.chats
    <3>1. known[c] \in Marks /\ cs[c] = EntryApplied(c, known[c], till, still)
      BY <2>2 DEF Marks
    <3> HIDE DEF cs
    <3> QED
      BY <2>1, <3>1, EntryAppliedKeeps
  <2>3. CASE c \notin d.chats
    BY <2>1, <2>3
  <2> QED
    BY <2>2, <2>3
<1>4. AllSound(cs) /\ SameHistory(chat, cs)
  <2>1. cs = [c \in Chats |-> cs[c]]
    OBVIOUS
  <2> HIDE DEF cs
  <2> QED
    BY <1>3, <2>1 DEF AllSound, SameHistory
<1> HIDE DEF cs
<1>5. AllSound(chat') /\ SameHistory(cs, chat')
  BY <1>1, <1>4, NotedKeeps DEF cs
<1>6. Placed(chat', open')
  BY <1>2, <1>4, <1>5, StillPlaced DEF IInv
<1> QED
  BY <1>2, <1>5, <1>6 DEF IInv

LEMMA EntryLoadedStep ==
  ASSUME IInv, NEW c \in Chats, NEW known \in Marks, NEW till \in Tills,
         NEW still, EntryLoaded(c, known, till, still)
  PROVE  IInv'
<1> DEFINE r == EntryApplied(c, known, till, still)
           cs == With(r, c)
<1>1. Sound(r) /\ HistoryOf(r) = HistoryOf(chat[c])
  BY EntryAppliedKeeps DEF IInv, AllSound
<1>2. Noted(cs) /\ UNCHANGED <<asked, server, open>>
  BY DEF EntryLoaded
<1> HIDE DEF r
<1>3. AllSound(cs) /\ SameHistory(chat, cs)
  BY <1>1, WithKeeps DEF IInv
<1> HIDE DEF cs
<1>4. AllSound(chat') /\ SameHistory(cs, chat')
  BY <1>2, <1>3, NotedKeeps
<1>5. Placed(chat', open)
  BY <1>3, <1>4, StillPlaced DEF IInv
<1> QED
  BY <1>2, <1>4, <1>5 DEF IInv

LEMMA AnsweredStep ==
  ASSUME IInv, NEW c \in Chats, NEW e \in chat[c].sent, Answered(c, e)
  PROVE  IInv'
<1> DEFINE r == FinishSentRequest(chat[c], e.id)
<1>1. /\ chat' = With(r, c) /\ open' = open \ {<<c, e.id>>}
      /\ UNCHANGED <<asked, server>>
  BY DEF Answered, Become
<1>2. Sound(chat[c]) /\ e.id \in SentIds(chat[c])
  BY DEF IInv, AllSound, SentIds
<1>3. Sound(r) /\ HistoryOf(r) = HistoryOf(chat[c]) \ {e.id}
  BY <1>2, SentIsLeaving, FinishKeeps
<1> HIDE DEF r
<1>4. AllSound(chat') /\ Placed(chat', open')
  BY <1>1, <1>3, WithKeeps, PlacedLess DEF IInv
<1> QED
  BY <1>1, <1>4 DEF IInv

LEMMA DeletedStep ==
  ASSUME IInv, NEW c \in Chats, NEW e \in chat[c].sent,
         NEW again \in BOOLEAN, Deleted(c, e, again)
  PROVE  IInv'
<1> DEFINE m == IF again THEN SendRequest(chat[c], "Delete", 0) ELSE chat[c]
           r == FinishSentRequest(m, e.id)
<1>1. chat' = With(r, c) /\ UNCHANGED <<asked, server, open>>
  BY DEF Deleted, Become
<1>2. Sound(chat[c]) /\ e.id \notin HistoryOf(chat[c])
  BY OtherIsNoHistory DEF IInv, AllSound, Deleted
<1>3. Sound(m) /\ HistoryOf(m) = HistoryOf(chat[c])
  <2> DEFINE type == "Delete"
             till == 0
  <2>1. /\ type \in AllTypes \ {"ReadInbox"} /\ type # "History"
        /\ till \in Marks
    BY HistoryRequestsAssumption DEF AllTypes, Deletes, Marks
  <2>2. CASE again
    <3>1. m = SendRequest(chat[c], type, till)
      BY <2>2
    <3> HIDE DEF type, till, m
    <3> QED
      BY <1>2, <2>1, <3>1, SendRequestKeeps
  <2>3. CASE ~again
    BY <1>2, <2>3
  <2> QED
    BY <2>2, <2>3
<1> HIDE DEF m
<1>4. Sound(r) /\ HistoryOf(r) = HistoryOf(chat[c])
  <2>1. Leaving(m, e.id)
    BY <1>2, <1>3, OtherIsLeaving
  <2> QED
    BY <1>2, <1>3, <2>1, FinishKeeps
<1> HIDE DEF r
<1>5. AllSound(chat') /\ Placed(chat', open')
  BY <1>1, <1>4, OneChatKeeps
<1> QED
  BY <1>1, <1>5 DEF IInv

LEMMA ReadAnsweredStep ==
  ASSUME IInv, NEW c \in Chats, NEW e \in chat[c].sent,
         NEW ok \in BOOLEAN, NEW known \in BOOLEAN,
         ReadAnswered(c, e, ok, known)
  PROVE  IInv'
<1> DEFINE m == ReadFinished(chat[c], e.till, known)
           cs == With(m, c)
<1>1. PICK expired :
        /\ chat' = [SendReadRequests(cs, expired)
                      EXCEPT ![c] = FinishSentRequest(@, e.id)]
        /\ UNCHANGED <<asked, open>>
  BY DEF ReadAnswered, Become
<1> DEFINE first == SendReadRequests(cs, expired)
           r == FinishSentRequest(first[c], e.id)
<1>2. Sound(chat[c]) /\ e.id \notin HistoryOf(chat[c])
  BY OtherIsNoHistory DEF IInv, AllSound, ReadAnswered
<1>3. Sound(m) /\ HistoryOf(m) = HistoryOf(chat[c])
  BY <1>2, ReadFinishedKeeps
<1> HIDE DEF m
<1>4. AllSound(cs) /\ SameHistory(chat, cs)
  BY <1>3, WithKeeps DEF IInv
<1> HIDE DEF cs
<1>5. AllSound(first) /\ SameHistory(cs, first)
  BY <1>4, SendReadRequestsKeep
<1>6. chat' = [first EXCEPT ![c] = r]
  BY <1>1
<1> HIDE DEF first
<1>7. Sound(first[c]) /\ HistoryOf(first[c]) = HistoryOf(chat[c])
  BY <1>4, <1>5 DEF AllSound, SameHistory
<1>8. Leaving(first[c], e.id)
  BY <1>2, <1>7, OtherIsLeaving
<1>9. Sound(r) /\ HistoryOf(r) = HistoryOf(chat[c])
  BY <1>2, <1>7, <1>8, FinishKeeps
<1> HIDE DEF r
<1>10. AllSound(chat') /\ SameHistory(chat, chat')
  <2>1. chat'[c] = r /\ \A d \in Chats \ {c} : chat'[d] = first[d]
    BY <1>5, <1>6 DEF AllSound
  <2>2. chat' = [d \in Chats |-> chat'[d]]
    BY <1>5, <1>6 DEF AllSound
  <2>3. ASSUME NEW d \in Chats
        PROVE  Sound(chat'[d]) /\ HistoryOf(chat'[d]) = HistoryOf(chat[d])
    <3>1. CASE d = c
      BY <1>9, <2>1, <3>1
    <3>2. CASE d # c
      BY <1>4, <1>5, <2>1, <3>2 DEF AllSound, SameHistory
    <3> QED
      BY <3>1, <3>2
  <2> QED
    BY <2>2, <2>3 DEF AllSound, SameHistory
<1>11. server' \in [Chats -> Marks]
  <2>1. e.till \in Marks /\ server \in [Chats -> Marks]
    BY <1>2 DEF IInv, Sound, Steady, Chat, Requests, Marks
  <2>2. Later(server[c], e.till) \in Marks
    BY <2>1, LaterIsLater
  <2>3. \/ server' = [server EXCEPT ![c] = Later(server[c], e.till)]
        \/ server' = server
    BY DEF ReadAnswered
  <2> QED
    BY <2>1, <2>2, <2>3
<1> QED
  BY <1>1, <1>10, <1>11, StillPlaced DEF IInv

LEMMA InboxReadStep ==
  ASSUME IInv, NEW c \in Chats, NEW till \in Tills, NEW known \in BOOLEAN,
         InboxRead(c, till, known)
  PROVE  IInv'
<1> DEFINE m == IF known THEN chat[c] ELSE RequestDialogEntry(chat[c])
           r == [m EXCEPT !.read = till]
<1>1. chat' = With(r, c) /\ UNCHANGED <<asked, server, open>>
  BY DEF InboxRead, Become
<1>2. Sound(chat[c]) /\ chat[c].read \in Marks
  BY DEF IInv, AllSound, Sound, Steady, Chat
<1>3. Sound(m) /\ HistoryOf(m) = HistoryOf(chat[c])
  BY <1>2, RequestDialogEntryKeeps
<1>4. m.read = chat[c].read
  BY DEF RequestDialogEntry, IInv, AllSound, Sound, Steady, Chat
<1>5. till \in Marks /\ till >= m.read
  BY <1>2, <1>4 DEF InboxRead, Tills, Marks
<1> HIDE DEF m
<1>6. Sound(r) /\ HistoryOf(r) = HistoryOf(chat[c])
  BY <1>3, <1>5, ReadMoves
<1> HIDE DEF r
<1>7. AllSound(chat') /\ Placed(chat', open')
  BY <1>1, <1>6, OneChatKeeps
<1> QED
  BY <1>1, <1>7 DEF IInv

\* Every step keeps the invariant.
LEMMA StepKeeps == IInv /\ [Next]_vars => IInv'
<1> SUFFICES ASSUME IInv, [Next]_vars PROVE IInv'
  OBVIOUS
<1>1. ASSUME NEW c \in Chats, Ask(c)
      PROVE  IInv'
  BY <1>1, RequestStep, CancelStep, ReadTillStep, RequestEntryStep DEF Ask
<1>2. ASSUME NEW c \in Chats, Hear(c)
      PROVE  IInv'
  <2>1. ASSUME NEW known \in 0 .. MaxMessage, NEW till \in Tills,
               NEW still \in Still, EntryLoaded(c, known, till, still)
        PROVE  IInv'
    BY <2>1, EntryLoadedStep DEF Marks
  <2>2. ASSUME NEW till \in Tills, ReadElsewhere(c, till)
        PROVE  IInv'
    <3>1. till \in Marks
      BY DEF Tills, Marks
    <3> QED
      BY <2>2, <3>1 DEF ReadElsewhere, IInv
  <2>3. ASSUME NEW till \in Tills, NEW known \in BOOLEAN,
               InboxRead(c, till, known)
        PROVE  IInv'
    BY <2>3, InboxReadStep
  <2> QED
    BY <1>2, <2>1, <2>2, <2>3 DEF Hear
<1>3. ASSUME NEW c \in Chats, HearAnswer(c)
      PROVE  IInv'
  BY <1>3, AnsweredStep, DeletedStep, ReadAnsweredStep DEF HearAnswer
<1>4. CASE HearEntries
  BY <1>4, EntriesAnsweredStep DEF HearEntries
<1>5. CASE ReadRequestsTimer
  BY <1>5, ReadRequestsTimerStep
<1>6. CASE SendDialogRequests
  BY <1>6, SendDialogRequestsStep
<1>7. CASE UNCHANGED vars
  BY <1>7 DEF vars, IInv
<1> QED
  BY <1>1, <1>2, <1>3, <1>4, <1>5, <1>6, <1>7 DEF Next

\* Whatever is asked for and answered, in whatever order: every chat is sound
\* and what is open is in its place (Histories of data/data_histories.cpp).
THEOREM Invariance == Spec => []IInv
<1>1. Init => IInv
  BY InitHolds
<1>2. IInv /\ [Next]_vars => IInv'
  BY StepKeeps
<1> QED
  BY <1>1, <1>2, PTL DEF Spec

-----------------------------------------------------------------------------
(* What it means                                                            *)

\* Ids are given out once, and every mark is a message's or none.
THEOREM TypeCorrectness == Spec => []TypeOK
<1>1. IInv => TypeOK
  <2> SUFFICES ASSUME IInv PROVE TypeOK
    OBVIOUS
  <2>1. ASSUME NEW c \in Chats
        PROVE  /\ chat[c].sent \subseteq Requests
               /\ chat[c].postponed \cup SentIds(chat[c])
                    \subseteq 1 .. chat[c].last
               /\ \A e, f \in chat[c].sent : e.id = f.id => e = f
               /\ {chat[c].willReadTill, chat[c].sentReadTill, chat[c].read}
                    \subseteq 0 .. MaxMessage
    BY DEF IInv, AllSound, Sound, Steady, Chat, Numbered, Marks
  <2> QED
    BY <2>1 DEF TypeOK, IInv, Marks
<1> QED
  BY <1>1, Invariance, PTL

\* A part of the history is never asked for while messages are deleted, and
\* waits for nothing else (postponeHistoryRequest(), finishSentRequest()).
THEOREM HistoryWaits == Spec => []HistoryWaitsForDeletes
<1>1. IInv => HistoryWaitsForDeletes
  BY DEF IInv, AllSound, Sound, Steady, Exclusive, HistoryWaitsForDeletes
<1> QED
  BY <1>1, Invariance, PTL

\* A history request is in one place until it is answered or cancelled, where
\* cancelRequest() finds it, and in none after that.
THEOREM InOnePlace == Spec => []OpenIsInOnePlace
<1>1. IInv => OpenIsInOnePlace
  <2> SUFFICES ASSUME IInv, NEW c \in Chats
               PROVE  /\ chat[c].postponed \cap SentIds(chat[c]) = {}
                      /\ chat[c].byRequest
                           = chat[c].postponed \cup SentIds(chat[c])
                      /\ {o[2] : o \in {p \in open : p[1] = c}}
                           = chat[c].postponed \cup HistoryIds(chat[c])
    BY DEF OpenIsInOnePlace
  <2>1. Sound(chat[c]) /\ Placed(chat, open)
    BY DEF IInv, AllSound
  <2>2. HistoryOf(chat[c]) \subseteq Nat
    BY <2>1, HistoryIdsAreNat
  <2>3. ASSUME NEW id \in {o[2] : o \in {p \in open : p[1] = c}}
        PROVE  id \in HistoryOf(chat[c])
    <3>1. PICK o \in open : o[1] = c /\ o[2] = id
      OBVIOUS
    <3>2. id \in Nat /\ <<c, id>> \in open
      BY <2>1, <3>1 DEF Placed
    <3> QED
      BY <2>1, <3>2 DEF Placed
  <2>4. ASSUME NEW id \in HistoryOf(chat[c])
        PROVE  id \in {o[2] : o \in {p \in open : p[1] = c}}
    <3>1. <<c, id>> \in open
      BY <2>1, <2>2 DEF Placed
    <3>2. <<c, id>> \in {p \in open : p[1] = c}
      BY <3>1
    <3> QED
      BY <3>2
  <2> QED
    BY <2>1, <2>3, <2>4 DEF Sound, Steady, Numbered, HistoryOf
<1> QED
  BY <1>1, Invariance, PTL

\* The assertions of sendReadRequest() and of the answer to it hold: later
\* reports of reading are about later messages.
THEOREM ReportsGoForward == Spec => []ReadsGoForward
<1>1. IInv => ReadsGoForward
  BY DEF IInv, AllSound, Sound, Forward, ReadsGoForward
<1> QED
  BY <1>1, Invariance, PTL

\* The assertions of finishSentRequest() hold: an entry that waits is among
\* those that were asked for, and waits for something.
THEOREM EntryWaits == Spec => []PostponedEntryIsRequested
<1>1. IInv => PostponedEntryIsRequested
  BY DEF IInv, AllSound, Sound, Steady, EntryOK, PostponedEntryIsRequested
<1> QED
  BY <1>1, Invariance, PTL

=============================================================================
