------------------------- MODULE KeyCreation_proofs -------------------------
(* Proofs about KeyCreation.                                               *)
EXTENDS KeyCreation, TLAPS

-----------------------------------------------------------------------------
(* Steps of a session that touch neither the dc nor the server.            *)

LEMMA LocalStep ==
  ASSUME IInv,
         NEW s \in Sessions, NEW q \in SessionState,
         session' = [session EXCEPT ![s] = q],
         UNCHANGED <<dc, main, saved, server>>,
         told' \in [Sessions -> SUBSET {"updateAuthKey", "restart"}],
         \A r \in Sessions : r # s => told'[r] = told[r],
         PhaseOK(q),
         q.creator = session[s].creator,
         q.phase = "bound" =>
           session[s].phase = "bound" /\ q.key = session[s].key,
         q.phase # "bound" =>
           \/ q.key \in {NoKey, session[s].key}
           \/ \E slot \in Slots : q.key = dc.temporary[slot],
         session[s].phase = "bound" => q.phase = "bound",
         q.bind = "success" => server.bound[q.key] = q.perm,
         q.bind = "invalid" => q.perm \in server.dead,
         (/\ q.conn \in {"connected", "acquiring"}
          /\ q.key = NoKey
          /\ q.creator = "none"
          /\ dc.temporary[q.type] # NoKey) => IsTold(s)'
  PROVE  IInv'
<1>1. /\ session' \in [Sessions -> SessionState]
      /\ session'[s] = q
      /\ \A r \in Sessions : r # s => session'[r] = session[r]
  BY DEF IInv, TypeOK
<1>2. TypeOK'
  BY <1>1 DEF IInv, TypeOK
<1>3. OneCreator'
  BY <1>1 DEF IInv, OneCreator, Creates
<1>4. PersistentIsFirst'
  BY <1>1 DEF IInv, PersistentIsFirst
<1>5. KeysBelongTogether'
  BY DEF IInv, KeysBelongTogether
<1>6. BindingIsPrivate'
  BY <1>1 DEF IInv, BindingIsPrivate, TypeOK, PhaseOK
<1>7. UsedIsBound'
  BY <1>1 DEF IInv, UsedIsBound, KeysBelongTogether
<1>8. AnswersAreTrue'
  BY <1>1 DEF IInv, AnswersAreTrue
<1>9. WaitingOrAcquiringIsTold'
  BY <1>1 DEF IInv, WaitingOrAcquiringIsTold, IsTold
<1> QED
  BY <1>2, <1>3, <1>4, <1>5, <1>6, <1>7, <1>8, <1>9 DEF IInv

-----------------------------------------------------------------------------
(* The queue of the main thread.                                           *)

LEMMA PostingKeeps ==
  ASSUME main \in Seq(Calls), NEW calls \in Seq(Calls), Posting(calls)
  PROVE  /\ main' \in Seq(Calls)
         /\ \A i \in DOMAIN main : i \in DOMAIN main' /\ main'[i] = main[i]
         /\ \A i \in DOMAIN main' :
              \/ i \in DOMAIN main /\ main'[i] = main[i]
              \/ \E j \in DOMAIN calls : main'[i] = calls[j]
         /\ \A j \in DOMAIN calls :
              \E i \in DOMAIN main' : main'[i] = calls[j]
<1>1. main' = main \o calls
  BY DEF Posting
<1>2. /\ DOMAIN main = 1..Len(main)
      /\ DOMAIN calls = 1..Len(calls)
      /\ Len(main) \in Nat /\ Len(calls) \in Nat
      /\ main' \in Seq(Calls)
      /\ DOMAIN main' = 1..(Len(main) + Len(calls))
  BY <1>1
<1>3. \A i \in 1..(Len(main) + Len(calls)) :
        main'[i] = IF i <= Len(main) THEN main[i] ELSE calls[i - Len(main)]
  BY <1>1
<1>4. ASSUME NEW j \in DOMAIN calls
      PROVE  \E i \in DOMAIN main' : main'[i] = calls[j]
  <2>1. Len(main) + j \in DOMAIN main' /\ main'[Len(main) + j] = calls[j]
    BY <1>2, <1>3, <1>4
  <2> QED
    BY <2>1
<1>5. ASSUME NEW i \in DOMAIN main', i \notin DOMAIN main
      PROVE  \E j \in DOMAIN calls : main'[i] = calls[j]
  <2>1. /\ i - Len(main) \in DOMAIN calls
        /\ main'[i] = calls[i - Len(main)]
    BY <1>2, <1>3, <1>5
  <2> QED
    BY <2>1
<1> QED
  BY <1>2, <1>3, <1>4, <1>5

LEMMA HandlingKeeps ==
  ASSUME main \in Seq(Calls), main # <<>>, main' = Tail(main)
  PROVE  /\ Head(main) \in Calls
         /\ Head(main) = main[1] /\ 1 \in DOMAIN main
         /\ main' \in Seq(Calls)
         /\ \A i \in DOMAIN main' : \E j \in DOMAIN main : main'[i] = main[j]
         /\ \A i \in DOMAIN main :
              \/ main[i] = Head(main)
              \/ \E j \in DOMAIN main' : main'[j] = main[i]
<1>1. /\ DOMAIN main = 1..Len(main)
      /\ Len(main) \in Nat \ {0}
      /\ main' \in Seq(Calls)
      /\ DOMAIN main' = 1..(Len(main) - 1)
      /\ \A i \in 1..(Len(main) - 1) : main'[i] = main[i + 1]
      /\ Head(main) = main[1]
  OBVIOUS
<1>2. ASSUME NEW i \in DOMAIN main'
      PROVE  \E j \in DOMAIN main : main'[i] = main[j]
  BY <1>1, <1>2, i + 1 \in DOMAIN main
<1>3. ASSUME NEW i \in DOMAIN main, i # 1
      PROVE  \E j \in DOMAIN main' : main'[j] = main[i]
  <2>1. i - 1 \in DOMAIN main' /\ main'[i - 1] = main[i]
    BY <1>1, <1>3
  <2> QED
    BY <2>1
<1> QED
  BY <1>1, <1>2, <1>3

-----------------------------------------------------------------------------
(* Getting a slot and giving it up.                                        *)

LEMMA AcquirableFields ==
  ASSUME IInv, NEW type \in Slots, Acquirable(type) # "none"
  PROVE  /\ Acquirable(type) \in Kinds
         /\ SlotOf(Acquirable(type)) \in Slots
         /\ ~dc.creating[SlotOf(Acquirable(type))]
         /\ dc.temporary[SlotOf(Acquirable(type))] = NoKey
         /\ Acquirable(type) = "persistent" => dc.persistent = NoKey
BY DEF Acquirable, SlotOf, Slots, Kinds

\* A session acquires what it can and keeps the key it may still have.
LEMMA AcquireStep ==
  ASSUME IInv,
         NEW s \in Sessions, NEW q \in SessionState, NEW kind,
         kind = Acquirable(RealType(s)), kind # "none",
         session[s].creator = "none",
         session' = [session EXCEPT ![s] = q],
         dc' = Acquire(kind),
         UNCHANGED <<told, main, saved, server>>,
         PhaseOK(q),
         q.creator = kind,
         q.key = session[s].key,
         q.phase # "bound"
  PROVE  IInv'
<1>1. /\ session' \in [Sessions -> SessionState]
      /\ session'[s] = q
      /\ \A r \in Sessions : r # s => session'[r] = session[r]
  BY DEF IInv, TypeOK
<1>2. /\ RealType(s) \in Slots
      /\ kind \in Kinds
      /\ SlotOf(kind) \in Slots
      /\ ~dc.creating[SlotOf(kind)]
      /\ dc.temporary[SlotOf(kind)] = NoKey
      /\ kind = "persistent" => dc.persistent = NoKey
  <2>1. RealType(s) \in Slots
    BY DEF RealType, Slots
  <2> QED
    BY <2>1, AcquirableFields
<1>3. /\ dc' \in DcState
      /\ dc'.temporary = dc.temporary
      /\ dc'.persistent = dc.persistent
      /\ dc'.creating[SlotOf(kind)]
      /\ \A slot \in Slots : dc.creating[slot] => dc'.creating[slot]
  BY <1>2 DEF Acquire, IInv, TypeOK, DcState
<1>4. TypeOK'
  BY <1>1, <1>3 DEF IInv, TypeOK
<1>5. OneCreator'
  <2>1. \A r \in Sessions : ~Creates(r, SlotOf(kind))
    BY <1>2 DEF IInv, OneCreator
  <2> QED
    BY <1>1, <1>2, <1>3, <2>1 DEF IInv, OneCreator, Creates
<1>6. PersistentIsFirst'
  BY <1>1, <1>2, <1>3 DEF IInv, PersistentIsFirst
<1>7. KeysBelongTogether'
  BY <1>3 DEF IInv, KeysBelongTogether
<1>8. BindingIsPrivate'
  BY <1>1, <1>3 DEF IInv, BindingIsPrivate
<1>9. UsedIsBound'
  BY <1>1 DEF IInv, UsedIsBound, TypeOK, PhaseOK
<1>10. AnswersAreTrue'
  BY <1>1 DEF IInv, AnswersAreTrue, PhaseOK
<1>11. WaitingOrAcquiringIsTold'
  BY <1>1, <1>3 DEF IInv, WaitingOrAcquiringIsTold, IsTold
<1> QED
  BY <1>4, <1>5, <1>6, <1>7, <1>8, <1>9, <1>10, <1>11 DEF IInv

\* A session is left with neither creator nor key.
LEMMA GiveUpStep ==
  ASSUME IInv,
         NEW s \in Sessions, NEW q \in SessionState,
         session' = [session EXCEPT ![s] = q],
         UNCHANGED <<saved, server>>,
         told' \in [Sessions -> SUBSET {"updateAuthKey", "restart"}],
         \A r \in Sessions : r # s => told'[r] = told[r],
         q.conn \in {"none", "stopped"}, q.key = NoKey, q.creator = "none",
         q.phase = "idle", q.perm = NoKey, q.bind = "none",
         dc' \in DcState,
         dc'.persistent = dc.persistent,
         \A slot \in Slots :
           dc'.temporary[slot] \in {dc.temporary[slot], NoKey},
         \A slot \in Slots :
           dc'.creating[slot] = dc.creating[slot] \/ Creates(s, slot),
         main' \in Seq(Calls),
         \A i \in DOMAIN main : i \in DOMAIN main' /\ main'[i] = main[i],
         \A i \in DOMAIN main' :
           main'[i].call = "destroyed" => main'[i].key \in server.dead
  PROVE  IInv'
<1>1. /\ session' \in [Sessions -> SessionState]
      /\ session'[s] = q
      /\ \A r \in Sessions : r # s => session'[r] = session[r]
  BY DEF IInv, TypeOK
<1>2. TypeOK'
  BY <1>1 DEF IInv, TypeOK, PhaseOK
<1>3. OneCreator'
  BY <1>1 DEF IInv, OneCreator, Creates
<1>4. PersistentIsFirst'
  BY <1>1 DEF IInv, PersistentIsFirst
<1>5. KeysBelongTogether'
  BY DEF IInv, KeysBelongTogether
<1>6. BindingIsPrivate'
  BY <1>1 DEF IInv, BindingIsPrivate, TypeOK, PhaseOK
<1>7. UsedIsBound'
  BY <1>1 DEF IInv, UsedIsBound
<1>8. AnswersAreTrue'
  BY <1>1 DEF IInv, AnswersAreTrue
<1>9. WaitingOrAcquiringIsTold'
  <2>1. \A r \in Sessions : r # s /\ IsTold(r) => IsTold(r)'
    BY DEF IsTold
  <2> QED
    BY <1>1, <2>1 DEF IInv, WaitingOrAcquiringIsTold, TypeOK, SessionState
<1> QED
  BY <1>2, <1>3, <1>4, <1>5, <1>6, <1>7, <1>8, <1>9 DEF IInv

-----------------------------------------------------------------------------
(* The sessions.                                                           *)

LEMMA RestartedFields ==
  ASSUME NEW p \in SessionState, PhaseOK(p)
  PROVE  /\ Restarted(p) \in SessionState
         /\ PhaseOK(Restarted(p))
         /\ Restarted(p).conn = "none"
         /\ Restarted(p).creator = p.creator
         /\ Restarted(p).key = p.key
         /\ Restarted(p).perm = p.perm
         /\ Restarted(p).bind = p.bind
         /\ Restarted(p).phase = "bound" <=> p.phase = "bound"
BY DEF Restarted, PhaseOK, SessionState

LEMMA TakeKeyOrCreateFields ==
  ASSUME IInv, NEW p \in SessionState, PhaseOK(p),
         p.key = NoKey, p.phase = "idle",
         NEW q, q = TakeKeyOrCreate(p)
  PROVE  /\ q \in SessionState
         /\ q.creator = p.creator
         /\ q.type = p.type
         /\ q.phase # "bound"
         /\ q.key # NoKey => q.key = dc.temporary[p.type]
         /\ q.key = NoKey => dc.temporary[p.type] = NoKey
         /\ PhaseOK(q)
         /\ q.bind = p.bind
BY DEF TakeKeyOrCreate, PhaseOK, SessionState, IInv, TypeOK, DcState, Slots

LEMMA ConnectKeeps ==
  ASSUME IInv, NEW s \in Sessions, Connect(s)
  PROVE  IInv'
<1> DEFINE p == session[s]
           kind == IF p.creator = "none" THEN Acquirable(RealType(s))
                                         ELSE "none"
           q == session'[s]
<1>1. p \in SessionState /\ PhaseOK(p) /\ RealType(s) \in Slots
  BY DEF IInv, TypeOK, RealType, Slots
<1>2. kind \in Kinds
  BY <1>1, AcquirableFields DEF Kinds
<1>3. /\ q = [p EXCEPT
                !.conn = "connecting",
                !.type = IF p.creator = "none" THEN TypeFor(s, kind) ELSE @,
                !.creator = IF p.creator = "none" THEN kind ELSE @,
                !.bind = "none"]
      /\ session' = [session EXCEPT ![s] = q]
  BY DEF Connect, IInv, TypeOK
<1>4. q \in SessionState
  BY <1>1, <1>2, <1>3 DEF SessionState, TypeFor, Slots
<1>5. /\ q.conn = "connecting" /\ q.key = p.key /\ q.phase = p.phase
      /\ q.perm = p.perm /\ q.bind = "none"
      /\ q.creator = IF p.creator = "none" THEN kind ELSE p.creator
  BY <1>1, <1>3 DEF SessionState
<1>6. p.conn = "none" /\ PhaseOK(q)
  BY <1>1, <1>5 DEF Connect, PhaseOK
<1>7. dc' = Acquire(kind) /\ UNCHANGED <<told, main, saved, server>>
  BY DEF Connect
<1>8. CASE kind = "none"
  <2>1. UNCHANGED <<dc, told, main, saved, server>> /\ q.creator = p.creator
    BY <1>5, <1>7, <1>8 DEF Acquire
  <2> HIDE DEF p, q
  <2>2. told' \in [Sessions -> SUBSET {"updateAuthKey", "restart"}]
    BY <2>1 DEF IInv, TypeOK
  <2> QED
    BY <1>3, <1>4, <1>5, <1>6, <2>1, <2>2, LocalStep DEF p
<1>9. CASE kind # "none"
  <2>1. p.creator = "none" /\ kind = Acquirable(RealType(s))
    BY <1>9
  <2>2. p.phase # "bound"
    BY <1>1, <2>1 DEF PhaseOK
  <2> HIDE DEF kind, q
  <2> QED
    BY <1>3, <1>4, <1>5, <1>6, <1>7, <1>9, <2>1, <2>2, AcquireStep
<1> QED
  BY <1>8, <1>9

LEMMA ConnectedKeeps ==
  ASSUME IInv, NEW s \in Sessions, Connected(s)
  PROVE  IInv'
<1> DEFINE p == session[s]
           q == session'[s]
<1>1. /\ p \in SessionState /\ PhaseOK(p)
      /\ told \in [Sessions -> SUBSET {"updateAuthKey", "restart"}]
  BY DEF IInv, TypeOK
<1>2. /\ p.conn = "connecting"
      /\ q = IF p.key # NoKey THEN [p EXCEPT !.conn = "connected"]
                              ELSE TakeKeyOrCreate(p)
      /\ session' = [session EXCEPT ![s] = q]
      /\ UNCHANGED <<dc, told, main, saved, server>>
  BY DEF Connected, IInv, TypeOK
<1>3. CASE p.key # NoKey
  <2>1. /\ q \in SessionState /\ PhaseOK(q)
        /\ q.key = p.key /\ q.creator = p.creator /\ q.phase = p.phase
        /\ q.bind = p.bind /\ q.perm = p.perm
    BY <1>1, <1>2, <1>3 DEF SessionState, PhaseOK
  <2> HIDE DEF q
  <2> QED
    BY <1>1, <1>2, <1>3, <2>1, LocalStep DEF IInv, AnswersAreTrue
<1>4. CASE p.key = NoKey
  <2>1. p.phase = "idle"
    BY <1>1, <1>2, <1>4 DEF PhaseOK, SessionState
  <2>2. p.bind = "none"
    BY <1>1, <2>1 DEF PhaseOK
  <2> HIDE DEF p, q
  <2>3. /\ q \in SessionState /\ PhaseOK(q)
        /\ q.creator = p.creator /\ q.type = p.type
        /\ q.phase # "bound" /\ q.bind = p.bind
        /\ q.key # NoKey => q.key = dc.temporary[p.type]
        /\ q.key = NoKey => dc.temporary[p.type] = NoKey
    BY <1>1, <1>2, <1>4, <2>1, TakeKeyOrCreateFields
  <2>4. p.type \in Slots
    BY <1>1 DEF SessionState
  <2> QED
    BY <1>1, <1>2, <2>1, <2>2, <2>3, <2>4, LocalStep DEF p
<1> QED
  BY <1>3, <1>4

LEMMA AcquireMediaKeeps ==
  ASSUME IInv, NEW s \in Sessions, AcquireMedia(s)
  PROVE  IInv'
<1> DEFINE p == session[s]
           kind == Acquirable(RealType(s))
           q == session'[s]
<1>1. /\ p \in SessionState /\ PhaseOK(p) /\ RealType(s) \in Slots
      /\ told \in [Sessions -> SUBSET {"updateAuthKey", "restart"}]
  BY DEF IInv, TypeOK, RealType, Slots
<1>2. /\ p.conn = "acquiring" /\ p.key = NoKey /\ p.phase = "idle"
      /\ p.bind = "none" /\ p.perm = NoKey
      /\ UNCHANGED <<told, main, saved, server>>
  BY <1>1 DEF AcquireMedia, PhaseOK
<1>3. CASE /\ p.creator # "none"
           /\ session' = [session EXCEPT ![s].conn = "connected",
                                         ![s].phase = "working"]
           /\ dc' = dc
  <2>1. /\ q = [p EXCEPT !.conn = "connected", !.phase = "working"]
        /\ session' = [session EXCEPT ![s] = q]
    BY <1>3 DEF IInv, TypeOK
  <2>2. /\ q \in SessionState
        /\ q.key = NoKey /\ q.creator = p.creator /\ q.phase = "working"
        /\ q.bind = "none" /\ q.perm = NoKey /\ q.conn = "connected"
    BY <1>1, <1>2, <2>1 DEF SessionState
  <2>3. PhaseOK(q)
    BY <1>3, <2>2 DEF PhaseOK
  <2> HIDE DEF q
  <2> QED
    BY <1>1, <1>2, <1>3, <2>1, <2>2, <2>3, LocalStep
<1>4. CASE p.creator = "none"
  <2>1. /\ dc' = Acquire(kind)
        /\ q = IF kind = "none" THEN [p EXCEPT !.conn = "connected"]
               ELSE IF TypeFor(s, kind) # p.type
                 THEN Restarted([p EXCEPT !.creator = kind])
               ELSE [p EXCEPT !.conn = "connected", !.creator = kind,
                              !.phase = "working"]
        /\ session' = [session EXCEPT ![s] = q]
    BY <1>4 DEF AcquireMedia, IInv, TypeOK
  <2>2. CASE kind = "none"
    <3>1. /\ q \in SessionState /\ PhaseOK(q) /\ dc' = dc
          /\ q.key = NoKey /\ q.creator = "none" /\ q.phase = "idle"
          /\ q.bind = "none" /\ q.type = p.type /\ q.conn = "connected"
      BY <1>1, <1>2, <1>4, <2>1, <2>2 DEF SessionState, PhaseOK, Acquire
    <3>2. dc.temporary[q.type] # NoKey => IsTold(s)'
      BY <1>2, <1>4, <3>1
        DEF IInv, WaitingOrAcquiringIsTold, IsTold
    <3> HIDE DEF q, kind
    <3> QED
      BY <1>1, <1>2, <1>4, <2>1, <3>1, <3>2, LocalStep
  <2>3. CASE kind # "none"
    <3>1. kind \in Kinds
      BY <1>1, <2>3, AcquirableFields
    <3> HIDE DEF kind
    <3>2. /\ q \in SessionState /\ PhaseOK(q)
          /\ q.key = NoKey /\ q.creator = kind /\ q.phase # "bound"
      BY <1>1, <1>2, <1>4, <2>1, <2>3, <3>1
        DEF SessionState, PhaseOK, Restarted
    <3> HIDE DEF q
    <3> QED
      BY <1>2, <1>4, <2>1, <2>3, <3>2, AcquireStep DEF kind
  <2> QED
    BY <2>2, <2>3
<1> QED
  BY <1>3, <1>4 DEF AcquireMedia

LEMMA UpdateAuthKeyKeeps ==
  ASSUME IInv, NEW s \in Sessions, UpdateAuthKey(s)
  PROVE  IInv'
<1> DEFINE p == session[s]
           q == session'[s]
<1>1. /\ p \in SessionState /\ PhaseOK(p) /\ p.type \in Slots
      /\ told \in [Sessions -> SUBSET {"updateAuthKey", "restart"}]
  BY DEF IInv, TypeOK, SessionState
<1>2. /\ p.conn # "acquiring"
      /\ q = IF p.creator # "none" \/ p.conn # "connected" THEN p
             ELSE IF p.key = NoKey THEN TakeKeyOrCreate(p)
             ELSE IF p.key = dc.temporary[p.type] THEN p
             ELSE Restarted([p EXCEPT !.key = NoKey])
      /\ session' = [session EXCEPT ![s] = q]
      /\ UNCHANGED <<dc, main, saved, server>>
      /\ told' = [told EXCEPT ![s] = @ \ {"updateAuthKey"}]
  BY DEF UpdateAuthKey, IInv, TypeOK
<1>3. /\ told' \in [Sessions -> SUBSET {"updateAuthKey", "restart"}]
      /\ \A r \in Sessions : r # s => told'[r] = told[r]
  BY <1>1, <1>2
<1>4. /\ p.bind = "success" => server.bound[p.key] = p.perm
      /\ p.bind = "invalid" => p.perm \in server.dead
  BY DEF IInv, AnswersAreTrue
<1>5. CASE p.creator # "none" \/ p.conn # "connected"
  <2>1. /\ q = p
        /\ q.creator # "none" \/ q.conn \notin {"connected", "acquiring"}
    BY <1>2, <1>5
  <2> HIDE DEF q
  <2> QED
    BY <1>1, <1>2, <1>3, <1>4, <2>1, LocalStep
<1>6. CASE p.creator = "none" /\ p.conn = "connected" /\ p.key = NoKey
  <2>1. q = TakeKeyOrCreate(p) /\ p.phase = "idle" /\ p.bind = "none"
    BY <1>1, <1>2, <1>6 DEF PhaseOK
  <2> HIDE DEF p, q
  <2>2. /\ q \in SessionState /\ PhaseOK(q)
        /\ q.creator = p.creator /\ q.type = p.type
        /\ q.phase # "bound" /\ q.bind = p.bind
        /\ q.key # NoKey => q.key = dc.temporary[p.type]
        /\ q.key = NoKey => dc.temporary[p.type] = NoKey
    BY <1>1, <1>6, <2>1, TakeKeyOrCreateFields
  <2> QED
    BY <1>1, <1>2, <1>3, <2>1, <2>2, LocalStep DEF p
<1>7. CASE /\ p.creator = "none" /\ p.conn = "connected" /\ p.key # NoKey
           /\ p.key = dc.temporary[p.type]
  <2>1. q = p
    BY <1>2, <1>7
  <2> HIDE DEF q
  <2> QED
    BY <1>1, <1>2, <1>3, <1>4, <1>7, <2>1, LocalStep
<1>8. CASE /\ p.creator = "none" /\ p.conn = "connected" /\ p.key # NoKey
           /\ p.key # dc.temporary[p.type]
  <2>1. q = Restarted([p EXCEPT !.key = NoKey]) /\ p.phase = "idle"
    BY <1>1, <1>2, <1>8 DEF PhaseOK
  <2>2. /\ q \in SessionState /\ PhaseOK(q)
        /\ q.creator = p.creator /\ q.key = NoKey /\ q.phase = "idle"
        /\ q.bind = "none" /\ q.conn = "none"
    BY <1>1, <1>8, <2>1 DEF SessionState, PhaseOK, Restarted
  <2> HIDE DEF q
  <2> QED
    BY <1>1, <1>2, <1>3, <2>1, <2>2, LocalStep
<1> QED
  BY <1>5, <1>6, <1>7, <1>8

\* Disconnect and RestartNow: the session drops its connection.
LEMMA RestartKeeps ==
  ASSUME IInv, NEW s \in Sessions,
         session' = [session EXCEPT ![s] = Restarted(@)],
         UNCHANGED <<dc, main, saved, server>>,
         told' \in [Sessions -> SUBSET {"updateAuthKey", "restart"}],
         \A r \in Sessions : r # s => told'[r] = told[r]
  PROVE  IInv'
<1> DEFINE p == session[s]
           q == session'[s]
<1>1. /\ p \in SessionState /\ PhaseOK(p)
      /\ q = Restarted(p)
      /\ session' = [session EXCEPT ![s] = q]
      /\ p.bind = "success" => server.bound[p.key] = p.perm
      /\ p.bind = "invalid" => p.perm \in server.dead
  BY DEF IInv, TypeOK, AnswersAreTrue
<1> HIDE DEF q
<1>2. /\ q \in SessionState /\ PhaseOK(q)
      /\ q.conn = "none" /\ q.creator = p.creator
      /\ q.key = p.key /\ q.perm = p.perm /\ q.bind = p.bind
      /\ q.phase = "bound" <=> p.phase = "bound"
  BY <1>1, RestartedFields
<1> QED
  BY <1>1, <1>2, LocalStep

LEMMA ReleaseFields ==
  ASSUME IInv, NEW s \in Sessions, NEW kind \in {"none", session[s].creator}
  PROVE  /\ Release(kind) \in DcState
         /\ Release(kind).temporary = dc.temporary
         /\ Release(kind).persistent = dc.persistent
         /\ \A slot \in Slots :
              \/ Release(kind).creating[slot] = dc.creating[slot]
              \/ Creates(s, slot)
<1>1. dc \in DcState
  BY DEF IInv, TypeOK
<1>2. CASE kind = "none"
  BY <1>1, <1>2 DEF Release
<1>3. CASE kind # "none"
  <2>1. kind = session[s].creator
    BY <1>3
  <2> DEFINE slotOf == SlotOf(kind)
  <2>2. /\ slotOf \in Slots
        /\ Release(kind) = [dc EXCEPT !.creating[slotOf] = FALSE]
    BY <1>3 DEF Release, SlotOf, Slots
  <2> HIDE DEF slotOf
  <2>3. /\ Release(kind) \in DcState
        /\ Release(kind).temporary = dc.temporary
        /\ Release(kind).persistent = dc.persistent
        /\ \A slot \in Slots : slot # slotOf =>
             Release(kind).creating[slot] = dc.creating[slot]
    BY <1>1, <2>2 DEF DcState
  <2> QED
    BY <1>3, <2>1, <2>3 DEF Creates, slotOf
<1> QED
  BY <1>2, <1>3

LEMMA GiveUpKeeps ==
  ASSUME IInv, NEW s \in Sessions, session[s].phase = "working", GiveUp(s)
  PROVE  IInv'
<1> DEFINE p == session[s]
           q == session'[s]
<1>1. /\ p \in SessionState /\ PhaseOK(p) /\ p.key = NoKey
      /\ q = Restarted(WithoutCreator(p))
      /\ session' = [session EXCEPT ![s] = q]
      /\ dc' = Release(p.creator)
      /\ UNCHANGED <<told, main, saved, server>>
  BY DEF GiveUp, IInv, TypeOK, PhaseOK
<1>2. /\ q \in SessionState
      /\ q.conn = "none" /\ q.key = NoKey /\ q.creator = "none"
      /\ q.phase = "idle" /\ q.perm = NoKey /\ q.bind = "none"
  BY <1>1 DEF Restarted, WithoutCreator, SessionState, Kinds
<1>3. /\ dc' \in DcState
      /\ dc'.temporary = dc.temporary
      /\ dc'.persistent = dc.persistent
      /\ \A slot \in Slots :
           dc'.creating[slot] = dc.creating[slot] \/ Creates(s, slot)
  BY <1>1, ReleaseFields
<1>4. /\ told \in [Sessions -> SUBSET {"updateAuthKey", "restart"}]
      /\ main \in Seq(Calls)
      /\ \A i \in DOMAIN main :
           main[i].call = "destroyed" => main[i].key \in server.dead
  BY DEF IInv, TypeOK, AnswersAreTrue
<1> HIDE DEF p, q
<1> QED
  BY <1>1, <1>2, <1>3, <1>4, GiveUpStep

\* A session with a key loses it; kind is what it still had acquired.
LEMMA DestroyTemporaryKeyKeeps ==
  ASSUME IInv, NEW s \in Sessions, NEW kind \in {"none", session[s].creator},
         NEW calls \in Seq(Calls),
         \A j \in DOMAIN calls : calls[j].key \in server.dead,
         DestroyTemporaryKey(s, kind, calls)
  PROVE  IInv'
<1> DEFINE p == session[s]
           q == session'[s]
           held == \E i \in Slots : dc.temporary[i] = p.key
           change == IF held THEN <<TemporaryChanged>> ELSE <<>>
           posted == calls \o change
<1>1. /\ p \in SessionState
      /\ q = Keyless(p)
      /\ session' = [session EXCEPT ![s] = q]
      /\ dc' = WithoutKey(kind, p.key)
      /\ Posting(posted)
      /\ UNCHANGED <<told, saved, server>>
  BY DEF DestroyTemporaryKey, IInv, TypeOK
<1>2. /\ q \in SessionState
      /\ q.conn = "none" /\ q.key = NoKey /\ q.creator = "none"
      /\ q.phase = "idle" /\ q.perm = NoKey /\ q.bind = "none"
  BY <1>1 DEF Keyless, Restarted, WithoutCreator, SessionState, Kinds
<1>3. /\ dc' \in DcState
      /\ dc'.persistent = dc.persistent
      /\ \A slot \in Slots :
           dc'.temporary[slot] \in {dc.temporary[slot], NoKey}
      /\ \A slot \in Slots :
           dc'.creating[slot] = dc.creating[slot] \/ Creates(s, slot)
  <2>1. /\ Release(kind) \in DcState
        /\ Release(kind).temporary = dc.temporary
        /\ Release(kind).persistent = dc.persistent
        /\ \A slot \in Slots :
             \/ Release(kind).creating[slot] = dc.creating[slot]
             \/ Creates(s, slot)
    BY ReleaseFields
  <2>2. dc' = [Release(kind) EXCEPT
                 !.temporary = [i \in Slots |->
                    IF dc.temporary[i] = p.key THEN NoKey
                                               ELSE dc.temporary[i]]]
    BY <1>1, <2>1 DEF WithoutKey
  <2> QED
    BY <2>1, <2>2 DEF DcState
<1>4. /\ told \in [Sessions -> SUBSET {"updateAuthKey", "restart"}]
      /\ main \in Seq(Calls)
      /\ \A i \in DOMAIN main :
           main[i].call = "destroyed" => main[i].key \in server.dead
  BY DEF IInv, TypeOK, AnswersAreTrue
<1>5. change \in Seq(Calls)
  <2>1. TemporaryChanged \in Calls
    BY DEF TemporaryChanged, Calls
  <2> QED
    BY <2>1
<1>6. posted \in Seq(Calls)
  BY <1>5
<1>7. ASSUME NEW j \in DOMAIN posted, posted[j].call = "destroyed"
      PROVE  posted[j].key \in server.dead
  <2>1. CASE j \in DOMAIN calls
    BY <2>1, posted[j] = calls[j]
  <2>2. CASE j \notin DOMAIN calls
    <3>1. posted[j] = TemporaryChanged
      BY <2>2, <1>7
    <3> QED
      BY <3>1, <1>7 DEF TemporaryChanged
  <2> QED
    BY <2>1, <2>2
<1> HIDE DEF posted, p, q
<1>8. /\ main' \in Seq(Calls)
      /\ \A i \in DOMAIN main : i \in DOMAIN main' /\ main'[i] = main[i]
      /\ \A i \in DOMAIN main' :
           main'[i].call = "destroyed" => main'[i].key \in server.dead
  <2>1. /\ main' \in Seq(Calls)
        /\ \A i \in DOMAIN main : i \in DOMAIN main' /\ main'[i] = main[i]
        /\ \A i \in DOMAIN main' :
             \/ i \in DOMAIN main /\ main'[i] = main[i]
             \/ \E j \in DOMAIN posted : main'[i] = posted[j]
    BY <1>1, <1>4, <1>6, PostingKeeps
  <2> QED
    BY <1>4, <1>7, <2>1
<1> QED
  BY <1>1, <1>2, <1>3, <1>4, <1>8, GiveUpStep

LEMMA StopKeeps ==
  ASSUME IInv, NEW s \in Sessions, Stop(s)
  PROVE  IInv'
<1> DEFINE p == session[s]
           q == session'[s]
<1>1. /\ q = [FreshSession(s) EXCEPT !.conn = "stopped"]
      /\ session' = [session EXCEPT ![s] = q]
      /\ dc' = Release(p.creator)
      /\ told' = [told EXCEPT ![s] = {}]
      /\ UNCHANGED <<main, saved, server>>
  BY DEF Stop, IInv, TypeOK
<1>2. /\ q \in SessionState
      /\ q.conn = "stopped" /\ q.key = NoKey /\ q.creator = "none"
      /\ q.phase = "idle" /\ q.perm = NoKey /\ q.bind = "none"
  BY <1>1 DEF FreshSession, RealType, SessionState, Kinds, Slots
<1>3. /\ dc' \in DcState
      /\ dc'.temporary = dc.temporary
      /\ dc'.persistent = dc.persistent
      /\ \A slot \in Slots :
           dc'.creating[slot] = dc.creating[slot] \/ Creates(s, slot)
  BY <1>1, ReleaseFields
<1>4. /\ told \in [Sessions -> SUBSET {"updateAuthKey", "restart"}]
      /\ main \in Seq(Calls)
      /\ \A i \in DOMAIN main :
           main[i].call = "destroyed" => main[i].key \in server.dead
  BY DEF IInv, TypeOK, AnswersAreTrue
<1>5. /\ told' \in [Sessions -> SUBSET {"updateAuthKey", "restart"}]
      /\ \A r \in Sessions : r # s => told'[r] = told[r]
  BY <1>1, <1>4
<1> HIDE DEF p, q
<1> QED
  BY <1>1, <1>2, <1>3, <1>4, <1>5, GiveUpStep

\* The creator gets its keys: both are new, so nothing is known of them.
LEMMA CreationDoneKeeps ==
  ASSUME KeysAssumption, IInv, NEW s \in Sessions,
         NEW t \in TemporaryKeys, NEW k \in PersistentKeys \cup {NoKey},
         CreationDone(s, t, k)
  PROVE  IInv'
<1> DEFINE p == session[s]
           q == session'[s]
<1>1. /\ p \in SessionState /\ PhaseOK(p) /\ p.phase = "working"
      /\ p.key = NoKey /\ p.bind = "none" /\ p.conn = "connected"
      /\ p.creator # "none"
      /\ t # NoKey
      /\ \A i \in Slots : dc.temporary[i] # t
      /\ \A r \in Sessions : session[r].key # t
  BY DEF CreationDone, IInv, TypeOK, PhaseOK, TemporaryInUse, KeysAssumption
<1>2. CASE k = NoKey
  BY <1>2, GiveUpKeeps DEF CreationDone
<1>3. CASE k # NoKey
  <2>1. /\ q = [p EXCEPT !.phase = "bound", !.perm = k, !.key = t]
        /\ session' = [session EXCEPT ![s] = q]
        /\ UNCHANGED <<dc, told, main, saved>>
    BY <1>3 DEF CreationDone, IInv, TypeOK
  <2>2. /\ q \in SessionState
        /\ q.phase = "bound" /\ q.perm = k /\ q.key = t
        /\ q.bind = "none" /\ q.conn = "connected" /\ q.creator = p.creator
    BY <1>1, <2>1 DEF SessionState
  <2>3. PhaseOK(q)
    BY <1>1, <1>3, <2>2 DEF PhaseOK
  <2> HIDE DEF q
  <2>4. /\ session' \in [Sessions -> SessionState]
        /\ session'[s] = q
        /\ \A r \in Sessions : r # s => session'[r] = session[r]
    BY <2>1, <2>2 DEF IInv, TypeOK
  <2>5. /\ server' \in ServerState
        /\ \A u \in TemporaryKeys : u # t => server'.bound[u] = server.bound[u]
    BY <1>3 DEF CreationDone, IInv, TypeOK, ServerState
  <2>6. /\ \A r \in Sessions :
             session[r].perm \in server.dead =>
               session[r].perm \in server'.dead
        /\ \A i \in DOMAIN main :
             main[i].call = "destroyed" => main[i].key \in server'.dead
    <3>1. server'.dead = IF p.creator = "persistent" THEN server.dead \ {k}
                                                     ELSE server.dead
      BY <1>3 DEF CreationDone
    <3>2. p.creator = "persistent" => ~PersistentInUse(k)
      BY DEF CreationDone
    <3> QED
      BY <3>1, <3>2 DEF PersistentInUse, IInv, AnswersAreTrue
  <2>7. TypeOK'
    BY <2>1, <2>3, <2>4, <2>5 DEF IInv, TypeOK
  <2>8. OneCreator'
    BY <2>1, <2>2, <2>4 DEF IInv, OneCreator, Creates
  <2>9. PersistentIsFirst'
    BY <2>1, <2>2, <2>4 DEF IInv, PersistentIsFirst
  <2>10. KeysBelongTogether'
    BY <1>1, <2>1, <2>5 DEF IInv, KeysBelongTogether, TypeOK, DcState
  <2>11. BindingIsPrivate'
    BY <1>1, <2>1, <2>2, <2>4 DEF IInv, BindingIsPrivate
  <2>12. UsedIsBound'
    BY <1>1, <2>2, <2>4, <2>5 DEF IInv, UsedIsBound, TypeOK, SessionState
  <2>13. AnswersAreTrue'
    <3>1. \A r \in Sessions : r # s /\ session[r].bind = "success" =>
            session[r].key \in TemporaryKeys /\ session[r].key # t
      BY <1>1 DEF IInv, TypeOK, PhaseOK, SessionState
    <3> QED
      BY <2>1, <2>2, <2>4, <2>5, <2>6, <3>1 DEF IInv, AnswersAreTrue
  <2>14. WaitingOrAcquiringIsTold'
    BY <1>1, <2>1, <2>2, <2>4 DEF IInv, WaitingOrAcquiringIsTold, IsTold
  <2> QED
    BY <2>7, <2>8, <2>9, <2>10, <2>11, <2>12, <2>13, <2>14 DEF IInv
<1> QED
  BY <1>2, <1>3

\* The binding is sent, its answer is a failure, or the session starts anew.
LEMMA BindStepKeeps ==
  ASSUME IInv, NEW s \in Sessions,
         \/ SendBind(s) \/ BindFailed(s) \/ RefuseToBind(s)
         \/ FailToBind(s) \/ Start(s)
  PROVE  IInv'
<1> DEFINE p == session[s]
           q == session'[s]
<1>1. /\ p \in SessionState /\ PhaseOK(p)
      /\ told \in [Sessions -> SUBSET {"updateAuthKey", "restart"}]
      /\ p.bind = "success" => server.bound[p.key] = p.perm
      /\ p.bind = "invalid" => p.perm \in server.dead
  BY DEF IInv, TypeOK, AnswersAreTrue
<1>2. UNCHANGED <<dc, told, main, saved, server>>
  BY DEF SendBind, BindFailed, RefuseToBind, FailToBind, Start
<1>3. CASE Start(s)
  <2>1. p.conn = "stopped" /\ q = [p EXCEPT !.conn = "none"]
        /\ session' = [session EXCEPT ![s] = q]
    BY <1>3 DEF Start, IInv, TypeOK
  <2>2. /\ q \in SessionState
        /\ q.conn = "none" /\ q.key = p.key /\ q.creator = p.creator
        /\ q.phase = p.phase /\ q.perm = p.perm /\ q.bind = p.bind
    BY <1>1, <2>1 DEF SessionState
  <2>3. PhaseOK(q)
    BY <1>1, <2>1, <2>2 DEF PhaseOK
  <2> HIDE DEF q
  <2> QED
    BY <1>1, <1>2, <2>1, <2>2, <2>3, LocalStep
<1>4. CASE SendBind(s) \/ BindFailed(s) \/ RefuseToBind(s) \/ FailToBind(s)
  <2>1. PICK b \in {"none", "sent", "invalid", "failed"} :
          /\ q = [p EXCEPT !.bind = b]
          /\ session' = [session EXCEPT ![s] = q]
          /\ b = "invalid" => p.perm \in server.dead
    BY <1>4 DEF SendBind, BindFailed, RefuseToBind, FailToBind, IInv, TypeOK
  <2>2. p.phase = "bound" /\ p.key # NoKey
    BY <1>1, <1>4
      DEF SendBind, BindFailed, RefuseToBind, FailToBind, PhaseOK
  <2>3. /\ q \in SessionState
        /\ q.conn = p.conn /\ q.key = p.key /\ q.creator = p.creator
        /\ q.phase = p.phase /\ q.perm = p.perm /\ q.bind = b
    BY <1>1, <2>1 DEF SessionState
  <2>4. PhaseOK(q)
    BY <1>1, <2>2, <2>3 DEF PhaseOK
  <2> HIDE DEF q
  <2> QED
    BY <1>1, <1>2, <2>1, <2>2, <2>3, <2>4, LocalStep
<1> QED
  BY <1>3, <1>4

\* The server binds a key that only its creator has.
LEMMA BindKeeps ==
  ASSUME IInv, NEW s \in Sessions, Bind(s)
  PROVE  IInv'
<1> DEFINE p == session[s]
           q == session'[s]
<1>1. /\ p \in SessionState /\ PhaseOK(p) /\ p.phase = "bound"
      /\ p.key \in TemporaryKeys /\ p.key # NoKey
      /\ p.perm \in PersistentKeys /\ p.perm # NoKey
  BY DEF Bind, IInv, TypeOK, PhaseOK, SessionState
<1>2. /\ q = [p EXCEPT !.bind = "success"]
      /\ session' = [session EXCEPT ![s] = q]
      /\ server' = [server EXCEPT !.bound[p.key] = p.perm]
      /\ UNCHANGED <<dc, told, main, saved>>
  BY DEF Bind, IInv, TypeOK
<1>3. /\ q \in SessionState
      /\ q.conn = p.conn /\ q.key = p.key /\ q.creator = p.creator
      /\ q.phase = "bound" /\ q.perm = p.perm /\ q.bind = "success"
      /\ q.type = p.type
  BY <1>1, <1>2 DEF SessionState
<1>4. PhaseOK(q)
  BY <1>1, <1>3 DEF PhaseOK
<1> HIDE DEF q
<1>5. /\ session' \in [Sessions -> SessionState]
      /\ session'[s] = q
      /\ \A r \in Sessions : r # s => session'[r] = session[r]
  BY <1>2, <1>3 DEF IInv, TypeOK
<1>6. /\ server' \in ServerState
      /\ server'.dead = server.dead
      /\ server'.bound[p.key] = p.perm
      /\ \A u \in TemporaryKeys :
           u # p.key => server'.bound[u] = server.bound[u]
  BY <1>1, <1>2 DEF IInv, TypeOK, ServerState
<1>7. /\ \A slot \in Slots : dc.temporary[slot] # p.key
      /\ \A r \in Sessions : r # s => session[r].key # p.key
  BY <1>1 DEF IInv, BindingIsPrivate
<1>8. TypeOK'
  BY <1>2, <1>4, <1>5, <1>6 DEF IInv, TypeOK
<1>9. OneCreator'
  BY <1>2, <1>3, <1>5 DEF IInv, OneCreator, Creates
<1>10. PersistentIsFirst'
  BY <1>2, <1>3, <1>5 DEF IInv, PersistentIsFirst
<1>11. KeysBelongTogether'
  BY <1>2, <1>6, <1>7 DEF IInv, KeysBelongTogether, TypeOK, DcState
<1>12. BindingIsPrivate'
  BY <1>1, <1>2, <1>3, <1>5 DEF IInv, BindingIsPrivate
<1>13. UsedIsBound'
  BY <1>1, <1>3, <1>5, <1>6, <1>7
    DEF IInv, UsedIsBound, TypeOK, SessionState
<1>14. AnswersAreTrue'
  <2>1. \A r \in Sessions : session[r].bind = "success" =>
          session[r].key \in TemporaryKeys
    BY DEF IInv, TypeOK, PhaseOK, SessionState
  <2> QED
    BY <1>2, <1>3, <1>5, <1>6, <1>7, <2>1 DEF IInv, AnswersAreTrue
<1>15. WaitingOrAcquiringIsTold'
  BY <1>2, <1>3, <1>5 DEF IInv, WaitingOrAcquiringIsTold, IsTold
<1> QED
  BY <1>8, <1>9, <1>10, <1>11, <1>12, <1>13, <1>14, <1>15 DEF IInv

\* What BindSucceeded does to the dc: a persistent key is set only where
\* there was none, and then there was no temporary key either.
LEMMA BindSucceededFields ==
  ASSUME IInv, NEW s \in Sessions, BindSucceeded(s),
         NEW slot, slot = SlotOf(session[s].creator)
  PROVE  /\ session[s].phase = "bound" /\ session[s].creator # "none"
         /\ Creates(s, slot) /\ slot \in Slots
         /\ dc' \in DcState
         /\ dc'.persistent = session[s].perm
         /\ dc.persistent # NoKey => dc'.persistent = dc.persistent
         /\ session[s].creator # "persistent" =>
              dc'.persistent = dc.persistent
         /\ dc'.temporary[slot] = session[s].key
         /\ \A i \in Slots : i # slot =>
              /\ dc'.temporary[i] = dc.temporary[i]
              /\ dc'.creating[i] = dc.creating[i]
<1> DEFINE p == session[s]
<1>1. /\ p \in SessionState /\ PhaseOK(p) /\ dc \in DcState
      /\ p.bind = "success"
  BY DEF BindSucceeded, IInv, TypeOK
<1>2. p.phase = "bound" /\ p.creator # "none" /\ slot \in Slots
  BY <1>1 DEF PhaseOK, SlotOf, Slots
<1>3. Creates(s, slot)
  BY <1>2 DEF Creates
<1>4. dc' = [dc EXCEPT
               !.persistent = IF p.creator = "persistent" THEN p.perm ELSE @,
               !.temporary[slot] = p.key,
               !.creating[slot] = FALSE]
  BY DEF BindSucceeded
<1>5. p.creator # "persistent" => dc.persistent = p.perm
  BY DEF BindSucceeded, Outdated
<1>6. p.creator = "persistent" => dc.persistent = NoKey
  BY DEF IInv, PersistentIsFirst
<1>7. /\ p.key \in TemporaryKeys \cup {NoKey}
      /\ p.perm \in PersistentKeys \cup {NoKey}
  BY <1>1 DEF SessionState
<1>8. /\ dc' \in DcState
      /\ dc'.persistent =
           IF p.creator = "persistent" THEN p.perm ELSE dc.persistent
      /\ dc'.temporary[slot] = p.key
      /\ \A i \in Slots : i # slot =>
           /\ dc'.temporary[i] = dc.temporary[i]
           /\ dc'.creating[i] = dc.creating[i]
  BY <1>1, <1>2, <1>4, <1>7 DEF DcState
<1> QED
  BY <1>2, <1>3, <1>5, <1>6, <1>8

LEMMA BindSucceededKeeps ==
  ASSUME IInv, NEW s \in Sessions, BindSucceeded(s)
  PROVE  IInv'
<1> DEFINE p == session[s]
           q == session'[s]
           slot == SlotOf(p.creator)
           call == IF p.creator = "persistent" THEN PersistentChanged(p.perm)
                                               ELSE TemporaryChanged
<1>1. /\ p.phase = "bound" /\ p.creator # "none"
      /\ Creates(s, slot) /\ slot \in Slots
      /\ dc' \in DcState
      /\ dc'.persistent = p.perm
      /\ dc.persistent # NoKey => dc'.persistent = dc.persistent
      /\ p.creator # "persistent" => dc'.persistent = dc.persistent
      /\ dc'.temporary[slot] = p.key
      /\ \A i \in Slots : i # slot =>
           /\ dc'.temporary[i] = dc.temporary[i]
           /\ dc'.creating[i] = dc.creating[i]
  BY BindSucceededFields
<1>2. /\ p \in SessionState /\ PhaseOK(p) /\ p.conn = "connected"
      /\ p.key \in TemporaryKeys /\ p.key # NoKey
      /\ p.perm \in PersistentKeys /\ p.perm # NoKey
      /\ server.bound[p.key] = p.perm
  BY <1>1 DEF BindSucceeded, IInv, TypeOK, PhaseOK, SessionState,
              AnswersAreTrue
<1>3. /\ q = WithoutCreator(p)
      /\ session' = [session EXCEPT ![s] = q]
      /\ Posting(<<call>>)
      /\ UNCHANGED <<told, saved, server>>
  BY DEF BindSucceeded, IInv, TypeOK
<1>4. /\ q \in SessionState
      /\ q.conn = "connected" /\ q.key = p.key /\ q.creator = "none"
      /\ q.phase = "idle" /\ q.perm = NoKey /\ q.bind = "none"
  BY <1>2, <1>3 DEF SessionState, WithoutCreator, Kinds
<1>5. PhaseOK(q)
  BY <1>4 DEF PhaseOK
<1>6. /\ main' \in Seq(Calls)
      /\ \A i \in DOMAIN main : i \in DOMAIN main' /\ main'[i] = main[i]
      /\ \A i \in DOMAIN main' :
           \/ i \in DOMAIN main /\ main'[i] = main[i]
           \/ main'[i] = call
      /\ \E i \in DOMAIN main' : main'[i] = call
      /\ call.call \in {"temporaryChanged", "persistentChanged"}
  <2>1. call \in Calls
    BY <1>2 DEF TemporaryChanged, PersistentChanged, Calls
  <2>2. call.call \in {"temporaryChanged", "persistentChanged"}
    BY DEF TemporaryChanged, PersistentChanged
  <2> HIDE DEF call
  <2> DEFINE calls == <<call>>
  <2>3. /\ calls \in Seq(Calls)
        /\ 1 \in DOMAIN calls
        /\ \A j \in DOMAIN calls : calls[j] = call
    BY <2>1
  <2>4. Posting(calls) /\ main \in Seq(Calls)
    BY <1>3 DEF IInv, TypeOK
  <2> HIDE DEF calls
  <2>5. /\ main' \in Seq(Calls)
        /\ \A i \in DOMAIN main : i \in DOMAIN main' /\ main'[i] = main[i]
        /\ \A i \in DOMAIN main' :
             \/ i \in DOMAIN main /\ main'[i] = main[i]
             \/ \E j \in DOMAIN calls : main'[i] = calls[j]
        /\ \A j \in DOMAIN calls : \E i \in DOMAIN main' : main'[i] = calls[j]
    BY <2>3, <2>4, PostingKeeps
  <2> QED
    BY <2>2, <2>3, <2>5
<1> HIDE DEF q, call, slot
<1>7. /\ session' \in [Sessions -> SessionState]
      /\ session'[s] = q
      /\ \A r \in Sessions : r # s => session'[r] = session[r]
  BY <1>3, <1>4 DEF IInv, TypeOK
<1>8. TypeOK'
  BY <1>1, <1>3, <1>5, <1>6, <1>7 DEF IInv, TypeOK
<1>9. OneCreator'
  BY <1>1, <1>4, <1>7 DEF IInv, OneCreator, Creates
<1>10. PersistentIsFirst'
  <2>1. ASSUME NEW r \in Sessions, r # s, session[r].creator = "persistent"
        PROVE  p.creator # "persistent"
    BY <2>1, <1>1 DEF IInv, OneCreator, Creates, SlotOf, slot
  <2> QED
    BY <1>1, <1>4, <1>7, <2>1 DEF IInv, PersistentIsFirst
<1>11. KeysBelongTogether'
  <2>1. \A i \in Slots : dc.temporary[i] # NoKey =>
          /\ dc.persistent # NoKey
          /\ server.bound[dc.temporary[i]] = dc.persistent
    BY DEF IInv, KeysBelongTogether
  <2> QED
    BY <1>1, <1>2, <1>3, <2>1 DEF KeysBelongTogether
<1>12. BindingIsPrivate'
  BY <1>1, <1>4, <1>7 DEF IInv, BindingIsPrivate
<1>13. UsedIsBound'
  BY <1>2, <1>3, <1>4, <1>7 DEF IInv, UsedIsBound
<1>14. AnswersAreTrue'
  BY <1>3, <1>4, <1>6, <1>7 DEF IInv, AnswersAreTrue
<1>15. WaitingOrAcquiringIsTold'
  <2>1. \A r \in Sessions : IsTold(r)'
    BY <1>6 DEF IsTold
  <2> QED
    BY <2>1 DEF WaitingOrAcquiringIsTold
<1> QED
  BY <1>8, <1>9, <1>10, <1>11, <1>12, <1>13, <1>14, <1>15 DEF IInv

\* The four ways to lose a key.
LEMMA LosingKeeps ==
  ASSUME IInv, NEW s \in Sessions,
         BindOutdated(s) \/ BindRefused(s) \/ KeyUnknown(s) \/ KeyNotBound(s)
  PROVE  IInv'
<1>1. /\ <<>> \in Seq(Calls)
      /\ \A j \in DOMAIN <<>> : <<>>[j].key \in server.dead
  OBVIOUS
<1>2. CASE BindOutdated(s)
  BY <1>1, <1>2, DestroyTemporaryKeyKeeps DEF BindOutdated
<1>3. CASE KeyUnknown(s) \/ KeyNotBound(s)
  BY <1>1, <1>3, DestroyTemporaryKeyKeeps DEF KeyUnknown, KeyNotBound
<1>4. CASE BindRefused(s)
  <2> DEFINE call == Destroyed(session[s].perm)
  <2>1. /\ session[s].perm \in server.dead
        /\ server.dead \subseteq PersistentKeys
        /\ DestroyTemporaryKey(s, session[s].creator, <<call>>)
    BY <1>4 DEF BindRefused, IInv, AnswersAreTrue, TypeOK, ServerState
  <2>2. call \in Calls /\ call.key \in server.dead
    BY <2>1 DEF Destroyed, Calls
  <2> HIDE DEF call
  <2>3. /\ <<call>> \in Seq(Calls)
        /\ \A j \in DOMAIN <<call>> : <<call>>[j].key \in server.dead
    BY <2>2
  <2> QED
    BY <2>1, <2>3, DestroyTemporaryKeyKeeps
<1> QED
  BY <1>2, <1>3, <1>4

-----------------------------------------------------------------------------
(* The main thread and the server.                                         *)

LEMMA ToldFields ==
  ASSUME IInv, NEW calls \in SUBSET {"updateAuthKey", "restart"}, Tell(calls)
  PROVE  /\ told' \in [Sessions -> SUBSET {"updateAuthKey", "restart"}]
         /\ \A s \in Sessions : told[s] \subseteq told'[s]
         /\ \A s \in Sessions :
              session[s].conn # "stopped" => calls \subseteq told'[s]
BY DEF Tell, IInv, TypeOK

LEMMA MainThreadKeeps ==
  ASSUME IInv, MainThread
  PROVE  IInv'
<1>1. /\ main \in Seq(Calls) /\ main # <<>> /\ main' = Tail(main)
      /\ UNCHANGED <<session, server>>
  BY DEF MainThread, HandleTemporaryChanged, HandlePersistentChanged,
         HandleDestroyed, Handle, IInv, TypeOK
<1>2. /\ Head(main) \in Calls
      /\ main' \in Seq(Calls)
      /\ \A i \in DOMAIN main' : \E j \in DOMAIN main : main'[i] = main[j]
      /\ \A i \in DOMAIN main :
           main[i] = Head(main) \/ \E j \in DOMAIN main' : main'[j] = main[i]
  BY <1>1, HandlingKeeps
<1>3. AnswersAreTrue'
  BY <1>1, <1>2 DEF IInv, AnswersAreTrue
<1>4. CASE HandleTemporaryChanged \/ HandlePersistentChanged
  <2>1. /\ Tell({"updateAuthKey"})
        /\ dc' = dc
        /\ saved' \in PersistentKeys \cup {NoKey}
    BY <1>2, <1>4 DEF HandleTemporaryChanged, HandlePersistentChanged,
                      Handle, Calls, IInv, TypeOK
  <2>2. /\ told' \in [Sessions -> SUBSET {"updateAuthKey", "restart"}]
        /\ \A s \in Sessions :
             session[s].conn # "stopped" => "updateAuthKey" \in told'[s]
    BY <2>1, ToldFields
  <2>3. TypeOK'
    BY <1>1, <1>2, <2>1, <2>2 DEF IInv, TypeOK
  <2>4. /\ OneCreator' /\ PersistentIsFirst' /\ KeysBelongTogether'
        /\ BindingIsPrivate' /\ UsedIsBound'
    BY <1>1, <2>1
      DEF IInv, OneCreator, Creates, PersistentIsFirst, KeysBelongTogether,
          BindingIsPrivate, UsedIsBound
  <2>5. WaitingOrAcquiringIsTold'
    BY <1>1, <2>2 DEF WaitingOrAcquiringIsTold, IsTold
  <2> QED
    BY <1>3, <2>3, <2>4, <2>5 DEF IInv
<1>5. CASE HandleDestroyed /\ dc.persistent = Head(main).key
  <2>1. /\ Tell({"updateAuthKey", "restart"})
        /\ dc' = [dc EXCEPT !.persistent = NoKey,
                            !.temporary = [i \in Slots |-> NoKey]]
        /\ saved' = NoKey
    BY <1>5 DEF HandleDestroyed
  <2>2. told' \in [Sessions -> SUBSET {"updateAuthKey", "restart"}]
    BY <2>1, ToldFields
  <2>3. /\ dc' \in DcState
        /\ dc'.persistent = NoKey
        /\ dc'.creating = dc.creating
        /\ \A slot \in Slots : dc'.temporary[slot] = NoKey
    BY <2>1 DEF IInv, TypeOK, DcState
  <2>4. TypeOK'
    BY <1>1, <1>2, <2>1, <2>2, <2>3 DEF IInv, TypeOK
  <2>5. OneCreator'
    BY <1>1, <2>3 DEF IInv, OneCreator, Creates
  <2>6. PersistentIsFirst' /\ KeysBelongTogether' /\ UsedIsBound'
    BY <1>1, <2>3
      DEF IInv, PersistentIsFirst, KeysBelongTogether, UsedIsBound
  <2>7. BindingIsPrivate'
    BY <1>1, <2>3 DEF IInv, BindingIsPrivate, TypeOK, PhaseOK
  <2>8. WaitingOrAcquiringIsTold'
    BY <1>1, <2>3 DEF WaitingOrAcquiringIsTold, IInv, TypeOK, SessionState
  <2> QED
    BY <1>3, <2>4, <2>5, <2>6, <2>7, <2>8 DEF IInv
<1>6. CASE HandleDestroyed /\ dc.persistent # Head(main).key
  <2>1. /\ Tell({"restart"}) /\ dc' = dc /\ saved' = saved
        /\ Head(main).call = "destroyed"
    BY <1>6 DEF HandleDestroyed, Handle
  <2>2. /\ told' \in [Sessions -> SUBSET {"updateAuthKey", "restart"}]
        /\ \A s \in Sessions : told[s] \subseteq told'[s]
    BY <2>1, ToldFields
  <2>3. TypeOK'
    BY <1>1, <1>2, <2>1, <2>2 DEF IInv, TypeOK
  <2>4. /\ OneCreator' /\ PersistentIsFirst' /\ KeysBelongTogether'
        /\ BindingIsPrivate' /\ UsedIsBound'
    BY <1>1, <2>1
      DEF IInv, OneCreator, Creates, PersistentIsFirst, KeysBelongTogether,
          BindingIsPrivate, UsedIsBound
  <2>5. \A s \in Sessions : IsTold(s) => IsTold(s)'
    BY <1>2, <2>1, <2>2 DEF IsTold
  <2>6. WaitingOrAcquiringIsTold'
    BY <1>1, <2>1, <2>5 DEF IInv, WaitingOrAcquiringIsTold
  <2> QED
    BY <1>3, <2>3, <2>4, <2>6 DEF IInv
<1> QED
  BY <1>4, <1>5, <1>6 DEF MainThread

LEMMA ServerForgetsKeeps ==
  ASSUME IInv, NEW t \in TemporaryKeys, Forget(t)
  PROVE  IInv'
<1>1. /\ server' \in ServerState
      /\ server'.dead = server.dead /\ server'.bound = server.bound
      /\ UNCHANGED <<dc, session, told, main, saved>>
  BY DEF Forget, IInv, TypeOK, ServerState
<1> QED
  BY <1>1
    DEF IInv, TypeOK, OneCreator, Creates, PersistentIsFirst,
        KeysBelongTogether, BindingIsPrivate, UsedIsBound, AnswersAreTrue,
        WaitingOrAcquiringIsTold, IsTold

LEMMA ServerDestroysKeeps ==
  ASSUME IInv, NEW p \in PersistentKeys, DestroyPersistent(p)
  PROVE  IInv'
<1>1. /\ server' \in ServerState
      /\ server.dead \subseteq server'.dead /\ server'.bound = server.bound
      /\ UNCHANGED <<dc, session, told, main, saved>>
  BY DEF DestroyPersistent, IInv, TypeOK, ServerState
<1>2. AnswersAreTrue'
  BY <1>1 DEF IInv, AnswersAreTrue
<1> QED
  BY <1>1, <1>2
    DEF IInv, TypeOK, OneCreator, Creates, PersistentIsFirst,
        KeysBelongTogether, BindingIsPrivate, UsedIsBound,
        WaitingOrAcquiringIsTold, IsTold

-----------------------------------------------------------------------------
(* The invariant.                                                          *)

LEMMA InitEstablishes ==
  ASSUME KeysAssumption, Init
  PROVE  IInv
<1>1. /\ session \in [Sessions -> SessionState]
      /\ \A s \in Sessions :
           /\ session[s].conn = "none" /\ session[s].key = NoKey
           /\ session[s].creator = "none" /\ session[s].phase = "idle"
           /\ session[s].perm = NoKey /\ session[s].bind = "none"
  BY DEF Init, FreshSession, RealType, SessionState, Slots, Kinds
<1>2. /\ dc \in DcState
      /\ \A slot \in Slots : dc.temporary[slot] = NoKey
  BY DEF Init, DcState
<1>3. /\ server \in ServerState
      /\ told \in [Sessions -> SUBSET {"updateAuthKey", "restart"}]
      /\ main = <<>>
      /\ saved \in PersistentKeys \cup {NoKey}
  BY <1>2 DEF Init, ServerState, DcState
<1>4. TypeOK
  BY <1>1, <1>2, <1>3 DEF TypeOK, PhaseOK
<1>5. AnswersAreTrue
  BY <1>1, <1>3 DEF AnswersAreTrue
<1> QED
  BY <1>1, <1>2, <1>4, <1>5
    DEF IInv, OneCreator, Creates, PersistentIsFirst, KeysBelongTogether,
        BindingIsPrivate, UsedIsBound, WaitingOrAcquiringIsTold

LEMMA NextKeeps ==
  ASSUME KeysAssumption, IInv, [Next]_vars
  PROVE  IInv'
<1>1. CASE UNCHANGED vars
  BY <1>1
    DEF vars, IInv, TypeOK, OneCreator, Creates, PersistentIsFirst,
        KeysBelongTogether, BindingIsPrivate, UsedIsBound, AnswersAreTrue,
        WaitingOrAcquiringIsTold, IsTold
<1>2. CASE MainThread
  BY <1>2, MainThreadKeeps
<1>3. ASSUME NEW t \in TemporaryKeys, Forget(t)
      PROVE  IInv'
  BY <1>3, ServerForgetsKeeps
<1>4. ASSUME NEW p \in PersistentKeys, DestroyPersistent(p)
      PROVE  IInv'
  BY <1>4, ServerDestroysKeeps
<1>5. ASSUME NEW s \in Sessions, Disconnect(s) \/ RestartNow(s)
      PROVE  IInv'
  <2>1. /\ session' = [session EXCEPT ![s] = Restarted(@)]
        /\ UNCHANGED <<dc, main, saved, server>>
        /\ told' \in [Sessions -> SUBSET {"updateAuthKey", "restart"}]
        /\ \A r \in Sessions : r # s => told'[r] = told[r]
    BY <1>5 DEF Disconnect, RestartNow, IInv, TypeOK
  <2> QED
    BY <2>1, RestartKeeps
<1>6. ASSUME NEW s \in Sessions, CreationFailed(s)
      PROVE  IInv'
  BY <1>6, GiveUpKeeps DEF CreationFailed
<1>7. ASSUME NEW s \in Sessions, FailToBind(s) \/ Start(s) \/ Stop(s)
      PROVE  IInv'
  BY <1>7, BindStepKeeps, StopKeeps
<1>8. ASSUME NEW s \in Sessions, Progress(s)
      PROVE  IInv'
  BY <1>5, <1>8, ConnectKeeps, ConnectedKeeps, AcquireMediaKeeps,
     CreationDoneKeeps, BindStepKeeps, BindKeeps, BindSucceededKeeps,
     LosingKeeps, UpdateAuthKeyKeeps
    DEF Progress
<1> QED
  BY <1>1, <1>2, <1>3, <1>4, <1>5, <1>6, <1>7, <1>8 DEF Next, Disturbance

\* The inductive invariant holds however many sessions share the dc, however
\* many keys there are and whatever the server forgets or destroys.
THEOREM KeyInvariance == Spec => []IInv
<1>1. Init => IInv
  BY KeysAssumption, InitEstablishes
<1>2. IInv /\ [Next]_vars => IInv'
  BY KeysAssumption, NextKeeps
<1> QED
  BY <1>1, <1>2, PTL DEF Spec

\* The state of the dc, the sessions and the queues has its types, and no
\* creation is in a phase that its connection or its keys do not allow.
THEOREM TypeCorrectness == Spec => []TypeOK
<1>1. IInv => TypeOK
  BY DEF IInv
<1> QED
  BY <1>1, KeyInvariance, PTL

\* Creating a key is exclusive: Dcenter::acquireKeyCreation() never lets two
\* sessions create a key for the same slot, and the slot stays empty and
\* marked until the one that has it puts the key there or gives up.
THEOREM CreationIsExclusive == Spec => []OneCreator
<1>1. IInv => OneCreator
  BY DEF IInv
<1> QED
  BY <1>1, KeyInvariance, PTL

\* Whatever is in a slot of the dc has been bound to its persistent key,
\* with answers to the binding that come arbitrarily late.
THEOREM SlotsAreBound == Spec => []KeysBelongTogether
<1>1. IInv => KeysBelongTogether
  BY DEF IInv
<1> QED
  BY <1>1, KeyInvariance, PTL

\* No request is sent with a key that has not been bound, also not by a
\* session that has lost the right to create it.
THEOREM RequestsAreBound == Spec => []RequestsHaveBoundKeys
<1>1. IInv => RequestsHaveBoundKeys
  <2> SUFFICES ASSUME IInv, NEW s \in Sessions,
                      session[s].key # NoKey, session[s].creator = "none"
               PROVE  server.bound[session[s].key] # NoKey
    BY DEF RequestsHaveBoundKeys
  <2>1. session[s].phase # "bound"
    BY DEF IInv, TypeOK, PhaseOK
  <2> QED
    BY <2>1 DEF IInv, UsedIsBound
<1> QED
  BY <1>1, KeyInvariance, PTL

\* The wake-up of a session that waits for a key is never lost: between its
\* look at the dc and its going to wait a call is on its way.
THEOREM WaitingIsWokenUp == Spec => []WaitingIsTold
<1>1. IInv => WaitingIsTold
  BY DEF IInv, WaitingOrAcquiringIsTold, WaitingIsTold
<1> QED
  BY <1>1, KeyInvariance, PTL

LEMMA StepKeepsAuthorization ==
  ASSUME IInv, Next, dc'.persistent # dc.persistent, dc.persistent # NoKey
  PROVE  dc.persistent \in server.dead /\ dc'.persistent = NoKey
<1>1. CASE MainThread
  <2>1. /\ dc.persistent = Head(main).key /\ Head(main).call = "destroyed"
        /\ dc'.persistent = NoKey
        /\ main \in Seq(Calls) /\ main # <<>>
    BY <1>1
      DEF MainThread, HandleTemporaryChanged, HandlePersistentChanged,
          HandleDestroyed, Handle, IInv, TypeOK, DcState
  <2>2. 1 \in DOMAIN main /\ Head(main) = main[1]
    BY <2>1
  <2> QED
    BY <2>1, <2>2 DEF IInv, AnswersAreTrue
<1>2. ASSUME NEW s \in Sessions, BindSucceeded(s)
      PROVE  FALSE
  BY <1>2, BindSucceededFields
<1>3. ASSUME NEW s \in Sessions,
             CreationFailed(s) \/ Stop(s)
               \/ \E t \in TemporaryKeys, p \in PersistentKeys \cup {NoKey} :
                    CreationDone(s, t, p)
      PROVE  FALSE
  <2>1. \/ dc' = dc
        \/ dc' = Release(session[s].creator)
    BY <1>3 DEF CreationFailed, Stop, CreationDone, GiveUp
  <2> QED
    BY <2>1, ReleaseFields
<1>4. ASSUME NEW s \in Sessions,
             BindOutdated(s) \/ BindRefused(s) \/ KeyUnknown(s)
               \/ KeyNotBound(s)
      PROVE  FALSE
  <2>1. PICK kind \in {"none", session[s].creator} :
          dc' = WithoutKey(kind, session[s].key)
    BY <1>4 DEF BindOutdated, BindRefused, KeyUnknown, KeyNotBound,
                DestroyTemporaryKey
  <2>2. /\ Release(kind) \in DcState
        /\ Release(kind).persistent = dc.persistent
    BY ReleaseFields
  <2> QED
    BY <2>1, <2>2 DEF WithoutKey, DcState
<1>5. ASSUME NEW s \in Sessions, Connect(s) \/ AcquireMedia(s)
      PROVE  FALSE
  <2>1. PICK kind : dc' = Acquire(kind)
    BY <1>5 DEF Connect, AcquireMedia, Acquire
  <2> QED
    BY <2>1 DEF Acquire, IInv, TypeOK, DcState
<1>6. ASSUME NEW s \in Sessions,
             \/ Disconnect(s) \/ FailToBind(s) \/ Start(s) \/ Connected(s)
             \/ SendBind(s) \/ Bind(s) \/ RefuseToBind(s) \/ BindFailed(s)
             \/ UpdateAuthKey(s) \/ RestartNow(s)
      PROVE  FALSE
  BY <1>6 DEF Disconnect, FailToBind, Start, Connected, SendBind, Bind,
              RefuseToBind, BindFailed, UpdateAuthKey, RestartNow
<1>7. ASSUME \/ \E t \in TemporaryKeys : Forget(t)
             \/ \E p \in PersistentKeys : DestroyPersistent(p)
      PROVE  FALSE
  BY <1>7 DEF Forget, DestroyPersistent
<1> QED
  BY <1>1, <1>2, <1>3, <1>4, <1>5, <1>6, <1>7
    DEF Next, Disturbance, Progress

\* The authorization is lost only when the server has destroyed the
\* persistent key: no race between the sessions replaces it or drops it.
THEOREM AuthorizationIsSafe == Spec => AuthorizationIsKept
<1>1. IInv /\ [Next]_vars =>
        [dc'.persistent # dc.persistent /\ dc.persistent # NoKey =>
           dc.persistent \in server.dead /\ dc'.persistent = NoKey]_vars
  BY StepKeepsAuthorization DEF vars
<1> QED
  BY <1>1, KeyInvariance, PTL DEF Spec, AuthorizationIsKept
=============================================================================
