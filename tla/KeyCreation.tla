----------------------------- MODULE KeyCreation -----------------------------
(***************************************************************************)
(* mtproto/details/mtproto_dcenter, mtproto/session, session_private and   *)
(* mtproto/mtp_instance: how the sessions that talk to one dc share its    *)
(* keys.  Requests are encrypted with a temporary key, which has to be     *)
(* bound to the persistent key first.  A dc has a slot for a regular       *)
(* temporary key and one for a key of its media cluster.  Each session     *)
(* runs on a thread of its own; one that finds its slot empty acquires the *)
(* right to create the key, creates it over its own connection, binds it,  *)
(* puts it into the slot, and the others are told by way of the main       *)
(* thread.  A session that does not get the right waits.                   *)
(*                                                                         *)
(* A step of a session is what its thread does without letting anything    *)
(* else touch the dc: the reads and writes under the lock of Dcenter are   *)
(* in separate steps only where something can happen between them          *)
(* (AcquireMedia).                                                         *)
(*                                                                         *)
(* Left out: the dcs of the CDN, whose keys are not bound; the instance    *)
(* that only destroys keys; a dc that becomes or stops being one with a    *)
(* media cluster; the handshake itself.  Time is left out as well: a key   *)
(* may be young or old when its binding fails.                             *)
(***************************************************************************)
EXTENDS Naturals, Sequences

CONSTANTS
  Sessions,
  MediaSessions,   \* those that want to talk to the media cluster
  TemporaryKeys,   \* key ids; one that is not in use is as good as new
  MediaKeys,       \* those that come from the media cluster
  PersistentKeys,
  NoKey,
  Forgettable,     \* the temporary keys the server may forget
  Destroyable,     \* the persistent keys the server may destroy
  Stoppable,       \* the sessions the instance may stop
  MaxQueued        \* bound on what the main thread has still to handle

ASSUME KeysAssumption ==
  /\ MediaSessions \subseteq Sessions
  /\ MediaKeys \subseteq TemporaryKeys
  /\ NoKey \notin TemporaryKeys \cup PersistentKeys
  /\ MaxQueued \in Nat

VARIABLES
  dc,       \* Dcenter: temporary keys, persistent key, who creates what
  session,  \* per session: the part of SessionPrivate that is about keys
  told,     \* per session: calls queued for its thread by the main thread
  main,     \* calls queued for the main thread by the threads of sessions
  saved,    \* the persistent key in _keysForWrite, to be written to disk
  server    \* which keys it has forgotten, destroyed and bound

vars == <<dc, session, told, main, saved, server>>

-----------------------------------------------------------------------------
(* The slots of a dc, which are also the clusters a session can be         *)
(* connected to, and the kinds of keys that can be in creation.            *)

Slots == {"regular", "media"}
Kinds == {"none", "persistent", "regular", "media"}

\* IndexByType(CreatingKeyType)
SlotOf(kind) == IF kind = "media" THEN "media" ELSE "regular"

RealType(s) == IF s \in MediaSessions THEN "media" ELSE "regular"

TemporaryChanged == [call |-> "temporaryChanged"]
PersistentChanged(p) == [call |-> "persistentChanged", key |-> p]
Destroyed(p) == [call |-> "destroyed", key |-> p]

FreshSession(s) ==
  [conn |-> "none", type |-> RealType(s), key |-> NoKey,
   creator |-> "none", phase |-> "idle", perm |-> NoKey, bind |-> "none"]

Init ==
  /\ dc \in [temporary: {[i \in Slots |-> NoKey]},
             persistent: {NoKey} \cup PersistentKeys,
             creating: {[i \in Slots |-> FALSE]}]
  /\ session = [s \in Sessions |-> FreshSession(s)]
  /\ told = [s \in Sessions |-> {}]
  /\ main = <<>>
  /\ saved = dc.persistent
  /\ server = [forgotten |-> {}, dead |-> {},
               bound |-> [t \in TemporaryKeys |-> NoKey]]

\* The cluster that knows a key: ids of different clusters are different.
Home(t) == IF t \in MediaKeys THEN "media" ELSE "regular"

TemporaryInUse(t) ==
  \/ \E i \in Slots : dc.temporary[i] = t
  \/ \E s \in Sessions : session[s].key = t

PersistentInUse(p) ==
  \/ p \in {dc.persistent, saved}
  \/ \E s \in Sessions : session[s].perm = p
  \/ \E i \in DOMAIN main :
       main[i].call \in {"persistentChanged", "destroyed"} /\ main[i].key = p

-----------------------------------------------------------------------------
(* Dcenter.                                                                *)

\* Mutant: the flag of the slot is not looked at.
AcquirableTwice(type) ==
  IF dc.temporary[type] # NoKey THEN "none"
  ELSE IF type = "media" /\ dc.temporary["regular"] # NoKey THEN "media"
  ELSE IF dc.persistent = NoKey THEN "persistent" ELSE "regular"

\* acquireKeyCreation(): what a session gets to create.
Acquirable(type) ==
  LET wanted ==
        IF type = "media" /\ dc.temporary["regular"] # NoKey THEN "media"
        ELSE IF dc.persistent = NoKey THEN "persistent"
        ELSE "regular"
  IN IF dc.temporary[type] # NoKey \/ dc.creating[SlotOf(wanted)]
       THEN "none"
       ELSE wanted

Acquire(kind) ==
  IF kind = "none" THEN dc ELSE [dc EXCEPT !.creating[SlotOf(kind)] = TRUE]

\* Mutant: a session that gives up does not say so.
ReleaseNothing(kind) == dc

\* releaseKeyCreationOnFail()
Release(kind) ==
  IF kind = "none" THEN dc ELSE [dc EXCEPT !.creating[SlotOf(kind)] = FALSE]

\* destroyTemporaryKey(), after the slot of kind is released.
WithoutKey(kind, key) ==
  [Release(kind) EXCEPT
     !.temporary = [i \in Slots |-> IF @[i] = key THEN NoKey ELSE @[i]]]

-----------------------------------------------------------------------------
(* What the thread of a session does to its own state.                     *)

\* restart(): drop the connection, and with it an unfinished creation.
Restarted(p) ==
  [p EXCEPT !.conn = "none",
            !.phase = IF @ = "working" THEN "idle" ELSE @]

WithoutCreator(p) ==
  [p EXCEPT !.creator = "none", !.phase = "idle", !.perm = NoKey,
            !.bind = "none"]

\* Mutant: the right to create a key is given up, the unbound key is not.
CreatorlessOnly(p) == Restarted(WithoutCreator(p))

\* destroyTemporaryKey(): the session has neither creator nor key any more.
Keyless(p) == Restarted([WithoutCreator(p) EXCEPT !.key = NoKey])

\* The type tryAcquireKeyCreation() returns: a regular key is created over
\* a regular connection, whatever the session is for.
TypeFor(s, kind) == IF kind \in {"persistent", "regular"} THEN "regular"
                    ELSE RealType(s)

-----------------------------------------------------------------------------
(* The sessions.                                                           *)

\* connectToServer()
Connect(s) ==
  LET p == session[s]
      kind == IF p.creator = "none" THEN Acquirable(RealType(s)) ELSE "none"
  IN /\ p.conn = "none"
     /\ dc' = Acquire(kind)
     /\ session' = [session EXCEPT
          ![s].conn = "connecting",
          ![s].type = IF p.creator = "none" THEN TypeFor(s, kind) ELSE @,
          ![s].creator = IF p.creator = "none" THEN kind ELSE @,
          ![s].bind = "none"]
     /\ UNCHANGED <<told, main, saved, server>>

\* applyAuthKey() of what the slot holds, in a connected session that has
\* no key: take it, get ready to create it, create it, or wait.
TakeKeyOrCreate(p) ==
  LET key == dc.temporary[p.type]
  IN IF key # NoKey THEN [p EXCEPT !.conn = "connected", !.key = key]
     ELSE IF p.type = "media" /\ dc.temporary["regular"] # NoKey
       THEN [p EXCEPT !.conn = "acquiring"]
     ELSE IF p.creator # "none"
       THEN [p EXCEPT !.conn = "connected", !.phase = "working"]
     ELSE [p EXCEPT !.conn = "connected"]

\* onConnected(), checkAuthKey(): a key the session still has is kept.
Connected(s) ==
  /\ session[s].conn = "connecting"
  /\ session' = [session EXCEPT
       ![s] = IF @.key # NoKey THEN [@ EXCEPT !.conn = "connected"]
                               ELSE TakeKeyOrCreate(@)]
  /\ UNCHANGED <<dc, told, main, saved, server>>

\* The rest of applyAuthKey(), after it has seen that there is a regular
\* key and none for the media cluster.
AcquireMedia(s) ==
  LET p == session[s]
      kind == Acquirable(RealType(s))
  IN /\ p.conn = "acquiring"
     /\ \/ /\ p.creator # "none"
           /\ session' = [session EXCEPT ![s].conn = "connected",
                                         ![s].phase = "working"]
           /\ dc' = dc
        \/ /\ p.creator = "none"
           /\ dc' = Acquire(kind)
           /\ session' = [session EXCEPT ![s] =
                IF kind = "none" THEN [@ EXCEPT !.conn = "connected"]
                ELSE IF TypeFor(s, kind) # @.type
                  THEN Restarted([@ EXCEPT !.creator = kind])
                ELSE [@ EXCEPT !.conn = "connected", !.creator = kind,
                               !.phase = "working"]]
     /\ UNCHANGED <<told, main, saved, server>>

\* updateAuthKey(), called when a key of the dc has changed.
UpdateAuthKey(s) ==
  LET p == session[s]
      key == dc.temporary[p.type]
  IN /\ "updateAuthKey" \in told[s]
     /\ p.conn # "acquiring"
     /\ told' = [told EXCEPT ![s] = @ \ {"updateAuthKey"}]
     /\ session' = [session EXCEPT ![s] =
          IF p.creator # "none" \/ p.conn # "connected" THEN p
          ELSE IF p.key = NoKey THEN TakeKeyOrCreate(p)
          ELSE IF p.key = key THEN p
          ELSE Restarted([p EXCEPT !.key = NoKey])]
     /\ UNCHANGED <<dc, main, saved, server>>

\* The connection breaks, or cannot be made, and is going to be made again.
Disconnect(s) ==
  /\ session[s].conn \in {"connecting", "connected"}
  /\ session' = [session EXCEPT ![s] = Restarted(@)]
  /\ UNCHANGED <<dc, told, main, saved, server>>

\* restartNow(), called when the persistent key was destroyed.
RestartNow(s) ==
  /\ "restart" \in told[s]
  /\ session[s].conn # "acquiring"
  /\ told' = [told EXCEPT ![s] = @ \ {"restart"}]
  /\ session' = [session EXCEPT ![s] = Restarted(@)]
  /\ UNCHANGED <<dc, main, saved, server>>

GiveUp(s) ==
  /\ dc' = Release(session[s].creator)
  /\ session' = [session EXCEPT ![s] = Restarted(WithoutCreator(@))]
  /\ UNCHANGED <<told, main, saved, server>>

\* delegate.unboundReady with an error
CreationFailed(s) == session[s].phase = "working" /\ GiveUp(s)

\* delegate.unboundReady with keys: go on to bind them.
CreationDone(s, t, p) ==
  /\ session[s].phase = "working"
  /\ ~TemporaryInUse(t) /\ Home(t) = session[s].type
  /\ IF session[s].creator = "persistent" THEN ~PersistentInUse(p)
                                          ELSE p = dc.persistent
  /\ IF p = NoKey
       THEN GiveUp(s)
       ELSE /\ session' = [session EXCEPT ![s].phase = "bound",
                                          ![s].perm = p, ![s].key = t]
            /\ server' = [forgotten |-> server.forgotten \ {t},
                          dead |-> IF session[s].creator = "persistent"
                                     THEN server.dead \ {p} ELSE server.dead,
                          bound |-> [server.bound EXCEPT ![t] = NoKey]]
            /\ UNCHANGED <<dc, told, main, saved>>

\* tryToSend(): a session that creates a key sends pings and this.
SendBind(s) ==
  /\ session[s].conn = "connected"
  /\ session[s].phase = "bound"
  /\ session[s].bind = "none"
  /\ session' = [session EXCEPT ![s].bind = "sent"]
  /\ UNCHANGED <<dc, told, main, saved, server>>

Posting(calls) == Len(main \o calls) <= MaxQueued /\ main' = main \o calls

\* SessionPrivate::destroyTemporaryKey() of a session with a key.
DestroyTemporaryKey(s, kind, calls) ==
  LET key == session[s].key
      held == \E i \in Slots : dc.temporary[i] = key
  IN /\ dc' = WithoutKey(kind, key)
     /\ Posting(calls \o IF held THEN <<TemporaryChanged>> ELSE <<>>)
     /\ session' = [session EXCEPT ![s] = Keyless(@)]
     /\ UNCHANGED <<told, saved, server>>

\* Mutant: a key is taken whatever it has been bound to.
NeverOutdated(p) == FALSE

\* Has the persistent key changed since the binding was started?
Outdated(p) == p.creator # "persistent" /\ dc.persistent # p.perm

\* handleBindResponse(), Success, and releaseKeyCreationOnDone(), unless the
\* persistent key has changed.
BindSucceeded(s) ==
  LET p == session[s]
      slot == SlotOf(p.creator)
      creates == p.creator = "persistent"
  IN /\ p.conn = "connected"
     /\ p.bind = "success"
     /\ ~Outdated(p)
     /\ dc' = [dc EXCEPT !.persistent = IF creates THEN p.perm ELSE @,
                         !.temporary[slot] = p.key,
                         !.creating[slot] = FALSE]
     /\ Posting(<<IF creates THEN PersistentChanged(p.perm)
                             ELSE TemporaryChanged>>)
     /\ session' = [session EXCEPT ![s] = WithoutCreator(@)]
     /\ UNCHANGED <<told, saved, server>>

\* The same when it has changed: the creator is gone, the slot stays taken.
BindOutdated(s) ==
  LET p == session[s]
  IN /\ p.conn = "connected"
     /\ p.bind = "success"
     /\ Outdated(p)
     /\ DestroyTemporaryKey(s, "none", <<>>)

\* Mutant: a failure is taken for the news that the key was destroyed.
BindRefusedOrFailed(s) ==
  /\ session[s].conn = "connected"
  /\ session[s].bind \in {"invalid", "failed"}
  /\ DestroyTemporaryKey(s, session[s].creator,
                         <<Destroyed(session[s].perm)>>)

\* handleBindResponse(), DefinitelyDestroyed, with a key that is old enough.
BindRefused(s) ==
  /\ session[s].conn = "connected"
  /\ session[s].bind = "invalid"
  /\ DestroyTemporaryKey(s, session[s].creator,
                         <<Destroyed(session[s].perm)>>)

\* handleBindResponse(), otherwise: bind again.
BindFailed(s) ==
  /\ session[s].conn = "connected"
  /\ session[s].bind \in {"invalid", "failed"}
  /\ session' = [session EXCEPT ![s].bind = "none"]
  /\ UNCHANGED <<dc, told, main, saved, server>>

\* The server does not know the key (-404 in handleError()).
KeyUnknown(s) ==
  LET p == session[s]
  IN /\ p.conn = "connected"
     /\ p.key # NoKey
     /\ p.key \in server.forgotten \/ Home(p.key) # p.type
     /\ DestroyTemporaryKey(s, p.creator, <<>>)

\* A request is refused because the key is not bound (AUTH_KEY_PERM_EMPTY).
\* A session that creates a key sends no requests.
KeyNotBound(s) ==
  LET p == session[s]
  IN /\ p.conn = "connected"
     /\ p.key # NoKey
     /\ p.creator = "none"
     /\ server.bound[p.key] \in server.dead
     /\ DestroyTemporaryKey(s, p.creator, <<>>)

\* Session::stop() and ~SessionPrivate()
Stop(s) ==
  /\ s \in Stoppable
  /\ session[s].conn \notin {"acquiring", "stopped"}
  /\ dc' = Release(session[s].creator)
  /\ session' = [session EXCEPT
       ![s] = [FreshSession(s) EXCEPT !.conn = "stopped"]]
  /\ told' = [told EXCEPT ![s] = {}]
  /\ UNCHANGED <<main, saved, server>>

\* Session::start(), when there is something to send.
Start(s) ==
  /\ session[s].conn = "stopped"
  /\ session' = [session EXCEPT ![s].conn = "none"]
  /\ UNCHANGED <<dc, told, main, saved, server>>

-----------------------------------------------------------------------------
(* The main thread.                                                        *)

\* Sessions that are stopped have no thread to call anything on.
Tell(calls) ==
  told' = [s \in Sessions |->
             told[s] \cup IF session[s].conn = "stopped" THEN {} ELSE calls]

Handle(call) == main # <<>> /\ Head(main).call = call /\ main' = Tail(main)

\* dcTemporaryKeyChanged()
HandleTemporaryChanged ==
  /\ Handle("temporaryChanged")
  /\ Tell({"updateAuthKey"})
  /\ UNCHANGED <<dc, session, saved, server>>

\* Mutant: a new persistent key is saved, and nobody is told that there is
\* a temporary one as well.
HandlePersistentOnly ==
  /\ Handle("persistentChanged")
  /\ saved' = Head(main).key
  /\ UNCHANGED <<dc, session, told, server>>

\* dcPersistentKeyChanged()
HandlePersistentChanged ==
  /\ Handle("persistentChanged")
  /\ Tell({"updateAuthKey"})
  /\ saved' = Head(main).key
  /\ UNCHANGED <<dc, session, server>>

\* Mutant: the destroyed key is not saved over.
HandleDestroyedOnly ==
  /\ Handle("destroyed")
  /\ IF dc.persistent = Head(main).key
       THEN /\ dc' = [dc EXCEPT !.persistent = NoKey,
                                !.temporary = [i \in Slots |-> NoKey]]
            /\ Tell({"updateAuthKey", "restart"})
       ELSE Tell({"restart"}) /\ dc' = dc
  /\ UNCHANGED <<session, saved, server>>

\* keyDestroyedOnServer(), destroyConfirmedForgottenKey()
HandleDestroyed ==
  /\ Handle("destroyed")
  /\ IF dc.persistent = Head(main).key
       THEN /\ dc' = [dc EXCEPT !.persistent = NoKey,
                                !.temporary = [i \in Slots |-> NoKey]]
            /\ saved' = NoKey
            /\ Tell({"updateAuthKey", "restart"})
       ELSE Tell({"restart"}) /\ UNCHANGED <<dc, saved>>
  /\ UNCHANGED <<session, server>>

MainThread ==
  HandleTemporaryChanged \/ HandlePersistentChanged \/ HandleDestroyed

-----------------------------------------------------------------------------
(* The server, which knows the keys of a cluster in that cluster only.     *)

Bind(s) ==
  LET p == session[s]
  IN /\ p.bind = "sent"
     /\ p.perm \notin server.dead
     /\ p.key \notin server.forgotten
     /\ session' = [session EXCEPT ![s].bind = "success"]
     /\ server' = [server EXCEPT !.bound[p.key] = p.perm]
     /\ UNCHANGED <<dc, told, main, saved>>

RefuseToBind(s) ==
  /\ session[s].bind = "sent"
  /\ session[s].perm \in server.dead
  /\ session' = [session EXCEPT ![s].bind = "invalid"]
  /\ UNCHANGED <<dc, told, main, saved, server>>

FailToBind(s) ==
  /\ session[s].bind = "sent"
  /\ session' = [session EXCEPT ![s].bind = "failed"]
  /\ UNCHANGED <<dc, told, main, saved, server>>

\* A temporary key expires or gets lost.
Forget(t) ==
  /\ t \in Forgettable
  /\ TemporaryInUse(t)
  /\ t \notin server.forgotten
  /\ server' = [server EXCEPT !.forgotten = @ \cup {t}]
  /\ UNCHANGED <<dc, session, told, main, saved>>

\* The authorization is terminated, or was never used and gets deleted.
DestroyPersistent(p) ==
  /\ p \in Destroyable
  /\ PersistentInUse(p)
  /\ p \notin server.dead
  /\ server' = [server EXCEPT !.dead = @ \cup {p}]
  /\ UNCHANGED <<dc, session, told, main, saved>>

-----------------------------------------------------------------------------
\* What a session does by itself, and the answers of the server it needs.
Progress(s) ==
  \/ Connect(s) \/ Connected(s) \/ AcquireMedia(s)
  \/ \E t \in TemporaryKeys, p \in PersistentKeys \cup {NoKey} :
       CreationDone(s, t, p)
  \/ SendBind(s) \/ Bind(s) \/ RefuseToBind(s)
  \/ BindSucceeded(s) \/ BindOutdated(s) \/ BindRefused(s) \/ BindFailed(s)
  \/ KeyUnknown(s) \/ KeyNotBound(s)
  \/ UpdateAuthKey(s) \/ RestartNow(s)

Disturbance ==
  \/ \E s \in Sessions :
       Disconnect(s) \/ CreationFailed(s) \/ FailToBind(s)
         \/ Stop(s) \/ Start(s)
  \/ \E t \in TemporaryKeys : Forget(t)
  \/ \E p \in PersistentKeys : DestroyPersistent(p)

Next == Disturbance \/ MainThread \/ \E s \in Sessions : Progress(s)

Spec == Init /\ [][Next]_vars

FairSpec ==
  /\ Spec
  /\ WF_vars(MainThread)
  /\ \A s \in Sessions : WF_vars(Progress(s))

-----------------------------------------------------------------------------
SessionState ==
  [conn: {"stopped", "none", "connecting", "acquiring", "connected"},
   type: Slots,
   key: TemporaryKeys \cup {NoKey},
   creator: Kinds,
   phase: {"idle", "working", "bound"},
   perm: PersistentKeys \cup {NoKey},
   bind: {"none", "sent", "success", "invalid", "failed"}]

Calls ==
  [call: {"temporaryChanged"}]
    \cup [call: {"persistentChanged", "destroyed"}, key: PersistentKeys]

DcState ==
  [temporary: [Slots -> TemporaryKeys \cup {NoKey}],
   persistent: PersistentKeys \cup {NoKey},
   creating: [Slots -> BOOLEAN]]

ServerState ==
  [forgotten: SUBSET TemporaryKeys,
   dead: SUBSET PersistentKeys,
   bound: [TemporaryKeys -> PersistentKeys \cup {NoKey}]]

\* A creator works only on a connection and before it has a key; only one
\* that has both keys binds them (what BoundKeyCreator expects).
PhaseOK(p) ==
  /\ p.creator = "none" => p.phase = "idle"
  /\ p.phase = "working" => p.conn = "connected" /\ p.key = NoKey
  /\ p.phase = "bound" => p.key # NoKey /\ p.perm # NoKey
  /\ p.phase # "bound" => p.perm = NoKey /\ p.bind = "none"
  /\ p.conn = "acquiring" => p.key = NoKey /\ p.phase = "idle"

\* The fields have their types, and creations are in a sensible phase.
TypeOK ==
  /\ dc \in DcState
  /\ session \in [Sessions -> SessionState]
  /\ told \in [Sessions -> SUBSET {"updateAuthKey", "restart"}]
  /\ main \in Seq(Calls)
  /\ saved \in PersistentKeys \cup {NoKey}
  /\ server \in ServerState
  /\ \A s \in Sessions : PhaseOK(session[s])

Creates(s, slot) ==
  session[s].creator # "none" /\ SlotOf(session[s].creator) = slot

\* No two sessions create a key for the same slot, and a slot is marked for
\* the one that does and empty: what releaseKeyCreationOnDone() and
\* releaseKeyCreationOnFail() expect (mtproto_dcenter.cpp:135), although the
\* slot can be emptied and filled by sessions that have not acquired it.
OneCreator ==
  \A slot \in Slots, s \in Sessions :
    Creates(s, slot) =>
      /\ dc.creating[slot]
      /\ dc.temporary[slot] = NoKey
      /\ \A r \in Sessions : Creates(r, slot) => r = s

\* A temporary key of the dc has been bound, and to the persistent key the
\* dc has now, however late the answer that it was bound came.
KeysBelongTogether ==
  \A slot \in Slots :
    dc.temporary[slot] # NoKey =>
      /\ dc.persistent # NoKey
      /\ server.bound[dc.temporary[slot]] = dc.persistent

\* Requests, which a connected session sends as soon as it has a key and is
\* not about to create one (tryToSend()), are never sent with a key that has
\* not been bound.
RequestsHaveBoundKeys ==
  \A s \in Sessions :
    (session[s].key # NoKey /\ session[s].creator = "none") =>
       server.bound[session[s].key] # NoKey

\* Has the session been told, or is it going to be told, of a new key?
IsTold(s) ==
  \/ "updateAuthKey" \in told[s]
  \/ \E i \in DOMAIN main :
       main[i].call \in {"temporaryChanged", "persistentChanged"}

\* A session that is connected and waits for a key that is there has been
\* told, or is going to be told, to take it.
WaitingIsTold ==
  \A s \in Sessions :
    (/\ session[s].conn = "connected"
     /\ session[s].key = NoKey
     /\ session[s].creator = "none"
     /\ dc.temporary[session[s].type] # NoKey) => IsTold(s)

\* What is going to be written to disk is the persistent key in use, unless
\* word of a new one is still on its way to the main thread.
SavedIsCurrent ==
  \/ saved = dc.persistent
  \/ \E i \in DOMAIN main : main[i] = PersistentChanged(dc.persistent)

\* The persistent key, and with it the authorization, is given up only when
\* the server has destroyed it, and is never replaced by another.
AuthorizationIsKept ==
  [][dc'.persistent # dc.persistent /\ dc.persistent # NoKey =>
       dc.persistent \in server.dead /\ dc'.persistent = NoKey]_vars

\* The inductive invariant.  A persistent key is created only if there is
\* none.
PersistentIsFirst ==
  \A s \in Sessions :
    session[s].creator = "persistent" => dc.persistent = NoKey

\* While a key is being bound nobody else has it.
BindingIsPrivate ==
  \A s \in Sessions :
    session[s].phase = "bound" =>
      /\ \A slot \in Slots : dc.temporary[slot] # session[s].key
      /\ \A r \in Sessions : session[r].key = session[s].key => r = s

\* A key that is not being bound has been, whatever else the session does.
UsedIsBound ==
  \A s \in Sessions :
    session[s].key # NoKey /\ session[s].phase # "bound" =>
      server.bound[session[s].key] # NoKey

\* The answers the server has given, and what the main thread is told.
AnswersAreTrue ==
  /\ \A s \in Sessions :
       /\ session[s].bind = "success" =>
            server.bound[session[s].key] = session[s].perm
       /\ session[s].bind = "invalid" => session[s].perm \in server.dead
  /\ \A i \in DOMAIN main :
       main[i].call = "destroyed" => main[i].key \in server.dead

\* A session that waits, or has just found that it could create a media key.
WaitingOrAcquiringIsTold ==
  \A s \in Sessions :
    (/\ session[s].conn \in {"connected", "acquiring"}
     /\ session[s].key = NoKey
     /\ session[s].creator = "none"
     /\ dc.temporary[session[s].type] # NoKey) => IsTold(s)

IInv ==
  /\ TypeOK
  /\ OneCreator
  /\ PersistentIsFirst
  /\ KeysBelongTogether
  /\ BindingIsPrivate
  /\ UsedIsBound
  /\ AnswersAreTrue
  /\ WaitingOrAcquiringIsTold

\* A session in which requests can be sent and answered.
CanSend(s) ==
  LET p == session[s]
  IN /\ p.conn = "connected"
     /\ p.key # NoKey
     /\ p.creator = "none"
     /\ p.key \notin server.forgotten
     /\ Home(p.key) = p.type

\* If connections, handshakes and temporary keys fail only finitely often,
\* all sessions of the dc can send in the end.
AllCanSend ==
  <>[][~Disturbance]_vars => \A s \in Sessions : <>[]CanSend(s)

-----------------------------------------------------------------------------
(* What the code does not keep.                                            *)

\* A slot is marked only for a session that creates its key.  (The log says
\* of one that does not get the slot that "someone is creating already,
\* waiting", session_private.cpp:2477.)
MarkedIsCreated ==
  \A slot \in Slots :
    dc.creating[slot] => \E s \in Sessions : Creates(s, slot)

\* A session that is connected and has a slot does create the key.
CreatorCreates ==
  \A s \in Sessions :
    session[s].conn = "connected" /\ session[s].creator # "none" =>
       session[s].phase # "idle"
=============================================================================
