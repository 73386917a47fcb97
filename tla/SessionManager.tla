---------------------------- MODULE SessionManager ----------------------------
(***************************************************************************)
(* The session manager of one owner (muxcore/session/session_manager.go):  *)
(* registered sessions, handshake tokens waiting for a shim (pending),     *)
(* consumed tokens kept for reconnects (bound) and the requests in flight. *)
(* Every method runs under the manager's mutex and is one action, except   *)
(* RegisterReconnect, which releases the mutex around its liveness         *)
(* callback: it is a Reserve, an OwnerAlive and a Rollback or Commit step  *)
(* of a refresher r, and other methods run between them.                   *)
(* The (cwd, env) payload of the entries is only copied from entry to      *)
(* entry and is left out.                                                  *)
(***************************************************************************)
EXTENDS Integers, FiniteSets

CONSTANTS
  Token,       \* handshake tokens; generateToken never repeats one
  OwnerKey,    \* owner keys that callers pass
  AnyOwner,    \* the empty key of a reservation made by PreRegister
  Session,     \* *Session pointers
  SessionID,   \* SessionID[s] is s.ID
  NoSession,   \* the nil *Session
  Request,     \* remapped request IDs
  Refresher,   \* concurrent RegisterReconnect callers
  PendingTTL,  \* pendingTokenTTL
  BoundTTL,    \* boundTokenTTL
  MaxTime      \* bound of the clock

ASSUME SessionAssumption == NoSession \notin Session
ASSUME OwnerAssumption   == AnyOwner \notin OwnerKey
ASSUME TimeAssumption    == PendingTTL \in Nat /\ BoundTTL \in Nat /\ MaxTime \in Nat

ID == {SessionID[s] : s \in Session}

VARIABLES
  now,         \* the clock behind Manager.now
  sessions,    \* Manager.sessions: session ID -> session
  inflight,    \* Manager.inflight: request -> session ID
  pending,     \* Manager.pending: token -> reservation
  bound,       \* Manager.bound: token -> reconnect history
  lastActive,  \* Manager.lastActive: session ID -> time of the last request
  snapshot,    \* history written by the last ExportBoundHistory
  refresh,     \* program counter and locals of each RegisterReconnect call
  life,        \* life of each *Session: "new", "open" (registered), "closed"
  issued,      \* ghost: tokens generated so far
  delivered,   \* ghost: tokens handed to a caller
  consumed,    \* ghost: tokens that were bound
  lease,       \* ghost: token -> its session and the last time it was used
  exported     \* ghost: token -> last use, for the tokens known at the export

mgrVars   == <<sessions, inflight, pending, bound, lastActive>>
ghostVars == <<issued, delivered, consumed, lease, exported>>
vars      == <<now, mgrVars, snapshot, refresh, life, ghostVars>>

-----------------------------------------------------------------------------
(* A Go map is a function whose domain is the set of keys present.         *)

EmptyMap       == [x \in {} |-> 0]
Put(m, k, v)   == [x \in DOMAIN m \cup {k} |-> IF x = k THEN v ELSE m[x]]
Delete(m, K)   == [x \in DOMAIN m \ K |-> m[x]]
IsMap(m, K, V) == DOMAIN m \subseteq K /\ m \in [DOMAIN m -> V]

Time        == 0 .. MaxTime
Reservation == [owner : OwnerKey \cup {AnyOwner}, created : Time,
                source : Session \cup {NoSession}]
History     == [owner : OwnerKey, lastUsed : Time, session : Session \cup {NoSession}]
Lease       == [session : Session \cup {NoSession}, used : Time]
Idle        == [at |-> "idle"]
RefreshCall == [at : {"check", "alive", "gone"}, prev : Token, token : Token, owner : OwnerKey]

\* Every variable keeps its type: the maps hold entries of the Go value types.
TypeOK ==
  /\ now \in Time
  /\ IsMap(sessions, ID, Session)
  /\ IsMap(inflight, Request, ID)
  /\ IsMap(pending, Token, Reservation)
  /\ IsMap(bound, Token, History)
  /\ IsMap(lastActive, ID, Time)
  /\ IsMap(snapshot, Token, History)
  /\ refresh \in [Refresher -> RefreshCall \cup {Idle}]
  /\ life \in [Session -> {"new", "open", "closed"}]
  /\ issued \subseteq Token
  /\ delivered \subseteq issued
  /\ consumed \subseteq delivered
  /\ IsMap(lease, Token, Lease)
  /\ IsMap(exported, Token, Time)

\* NewManager
Init ==
  /\ now = 0
  /\ sessions = EmptyMap /\ inflight = EmptyMap /\ pending = EmptyMap
  /\ bound = EmptyMap /\ lastActive = EmptyMap /\ snapshot = EmptyMap
  /\ refresh = [r \in Refresher |-> Idle]
  /\ life = [s \in Session |-> "new"]
  /\ issued = {} /\ delivered = {} /\ consumed = {}
  /\ lease = EmptyMap /\ exported = EmptyMap

-----------------------------------------------------------------------------
Registered(s) == s \in Session /\ SessionID[s] \in DOMAIN sessions /\ sessions[SessionID[s]] = s

\* boundIsLiveLocked
BoundIsLive(t) == Registered(bound[t].session)

\* boundExpiredLocked
BoundExpired(t) == ~BoundIsLive(t) /\ now - bound[t].lastUsed > BoundTTL

\* The histories after session s went away: they lose its pointer and age from now on.
Forget(s) == [t \in DOMAIN bound |->
                IF bound[t].session = s
                THEN [bound[t] EXCEPT !.session = NoSession, !.lastUsed = now]
                ELSE bound[t]]

-----------------------------------------------------------------------------
\* Time passes; the leases of registered sessions are in use until the last moment.
Tick ==
  /\ now < MaxTime
  /\ now' = now + 1
  /\ lease' = [t \in DOMAIN lease |->
                 IF Registered(lease[t].session) THEN [lease[t] EXCEPT !.used = now + 1] ELSE lease[t]]
  /\ UNCHANGED <<mgrVars, snapshot, refresh, life, issued, delivered, consumed, exported>>

RegisterSession(s) ==
  /\ life[s] = "new"
  /\ bound' = IF SessionID[s] \in DOMAIN sessions
              THEN Forget(sessions[SessionID[s]]) ELSE bound
  /\ sessions' = Put(sessions, SessionID[s], s)
  /\ life' = [x \in Session |-> IF x = s THEN "open"
                                ELSE IF Registered(x) /\ SessionID[x] = SessionID[s] THEN "closed"
                                ELSE life[x]]
  /\ lease' = [t \in DOMAIN lease |->
                 IF lease[t].session = s THEN [lease[t] EXCEPT !.used = now] ELSE lease[t]]
  /\ UNCHANGED <<now, inflight, pending, lastActive, snapshot, refresh,
                 issued, delivered, consumed, exported>>

RemoveSession(id) ==
  /\ id \in DOMAIN sessions
  /\ sessions' = Delete(sessions, {id})
  /\ lastActive' = Delete(lastActive, {id})
  /\ bound' = Forget(sessions[id])
  /\ inflight' = Delete(inflight, {q \in DOMAIN inflight : inflight[q] = id})
  /\ life' = [life EXCEPT ![sessions[id]] = "closed"]
  /\ UNCHANGED <<now, pending, snapshot, refresh, ghostVars>>

-----------------------------------------------------------------------------
(* Handshake tokens.                                                       *)

\* PreRegister passes AnyOwner. The caller made the token and holds it.
PreRegisterForOwner(t, o) ==
  /\ t \in Token \ issued
  /\ pending' = Put(pending, t, [owner |-> o, created |-> now, source |-> NoSession])
  /\ issued' = issued \cup {t}
  /\ delivered' = delivered \cup {t}
  /\ UNCHANGED <<now, sessions, inflight, bound, lastActive, snapshot, refresh, life,
                 consumed, lease, exported>>

RemovePending(K) ==
  /\ pending' = Delete(pending, K)
  /\ UNCHANGED <<now, sessions, inflight, bound, lastActive, snapshot, refresh, life, ghostVars>>

\* RemovePendingForOwner is the case keepToken = "", here a keep that is no token.
RemovePendingForOwnerExcept(o, keep) ==
  RemovePending({t \in DOMAIN pending : pending[t].owner = o /\ t # keep})

RemovePendingForOwnerExceptSession(o, keep) ==
  RemovePending({t \in DOMAIN pending :
                   pending[t].owner = o /\ (keep = NoSession \/ pending[t].source # keep)})

RemovePendingForOwnerToken(o, t) ==
  /\ t \in DOMAIN pending /\ pending[t].owner = o
  /\ RemovePending({t})

SweepExpiredPending ==
  RemovePending({t \in DOMAIN pending : now - pending[t].created > PendingTTL})

\* LookupPendingForOwner
MayBind(t, o) == t \in DOMAIN pending /\ pending[t].owner \in {AnyOwner, o}

\* Mutant: the token is not consumed.
BindKeepsToken(t, o, s) ==
  /\ t \in delivered /\ life[s] = "new"
  /\ MayBind(t, o)
  /\ bound' = Put(bound, t, [owner |-> o, lastUsed |-> now, session |-> s])
  /\ consumed' = consumed \cup {t}
  /\ lease' = Put(lease, t, [session |-> s, used |-> now])
  /\ UNCHANGED <<now, sessions, inflight, pending, lastActive, snapshot, refresh, life,
                 issued, delivered, exported>>

\* Mutant: the history of a keyless reservation keeps the empty owner key.
BindKeepsEmptyKey(t, o, s) ==
  /\ t \in delivered /\ life[s] = "new"
  /\ MayBind(t, o)
  /\ pending' = Delete(pending, {t})
  /\ bound' = Put(bound, t, [owner |-> pending[t].owner, lastUsed |-> now, session |-> s])
  /\ consumed' = consumed \cup {t}
  /\ lease' = Put(lease, t, [session |-> s, used |-> now])
  /\ UNCHANGED <<now, sessions, inflight, lastActive, snapshot, refresh, life,
                 issued, delivered, exported>>

\* A shim presents a token it was given; an early return leaves everything alone.
Bind(t, o, s) ==
  /\ t \in delivered /\ life[s] = "new"
  /\ MayBind(t, o)
  /\ pending' = Delete(pending, {t})
  /\ bound' = Put(bound, t, [owner |-> o, lastUsed |-> now, session |-> s])
  /\ consumed' = consumed \cup {t}
  /\ lease' = Put(lease, t, [session |-> s, used |-> now])
  /\ UNCHANGED <<now, sessions, inflight, lastActive, snapshot, refresh, life,
                 issued, delivered, exported>>

-----------------------------------------------------------------------------
(* Reconnect history.                                                      *)

RemoveBound(K) ==
  /\ bound' = Delete(bound, K)
  /\ UNCHANGED <<now, sessions, inflight, pending, lastActive, snapshot, refresh, life, ghostVars>>

RemoveBoundForOwner(o) == RemoveBound({t \in DOMAIN bound : bound[t].owner = o})

RemoveBoundForOwnerExceptSession(o, keep) ==
  RemoveBound({t \in DOMAIN bound :
                 bound[t].owner = o /\ (keep = NoSession \/ bound[t].session # keep)})

\* Mutant: age alone decides, also for the history of a connected session.
SweepBoundByAge == RemoveBound({t \in DOMAIN bound : now - bound[t].lastUsed > BoundTTL})

SweepExpiredBound == RemoveBound({t \in DOMAIN bound : BoundExpired(t)})

\* The snapshot of a graceful restart. Live entries are exported as used now.
ExportBoundHistory ==
  /\ snapshot' = [t \in {u \in DOMAIN bound : ~BoundExpired(u)} |->
                    [bound[t] EXCEPT !.session = NoSession,
                                     !.lastUsed = IF BoundIsLive(t) THEN now ELSE @]]
  /\ exported' = [t \in DOMAIN bound \cap DOMAIN lease |-> lease[t].used]
  /\ UNCHANGED <<now, mgrVars, refresh, life, issued, delivered, consumed, lease>>

\* A new process: NewManager, then ImportBoundHistory of the snapshot.
ImportBoundHistory ==
  /\ sessions' = EmptyMap /\ inflight' = EmptyMap
  /\ pending' = EmptyMap /\ lastActive' = EmptyMap
  /\ bound' = Delete(snapshot, {t \in DOMAIN snapshot : now - snapshot[t].lastUsed > BoundTTL})
  /\ refresh' = [r \in Refresher |-> Idle]
  /\ life' = [s \in Session |-> IF life[s] = "new" THEN "new" ELSE "closed"]
  /\ snapshot' = EmptyMap /\ exported' = EmptyMap
  /\ lease' = [t \in DOMAIN exported |-> [session |-> NoSession, used |-> exported[t]]]
  /\ UNCHANGED <<now, issued, delivered, consumed>>

-----------------------------------------------------------------------------
(* RegisterReconnect(prev, ownerAlive) of refresher r.                     *)

\* First section, the early return included: an expired history is dropped.
ReserveExpired(r, prev) ==
  /\ refresh[r] = Idle
  /\ prev \in DOMAIN bound /\ BoundExpired(prev)
  /\ RemoveBound({prev})

\* Mutant: the derived reservation is keyless, as PreRegister makes them.
ReserveKeyless(r, prev, t) ==
  /\ refresh[r] = Idle
  /\ prev \in DOMAIN bound /\ ~BoundExpired(prev)
  /\ t \in Token \ issued
  /\ pending' = Put(pending, t, [owner |-> AnyOwner, created |-> now,
                                 source |-> bound[prev].session])
  /\ refresh' = [refresh EXCEPT ![r] = [at |-> "check", prev |-> prev, token |-> t,
                                        owner |-> bound[prev].owner]]
  /\ issued' = issued \cup {t}
  /\ UNCHANGED <<now, sessions, inflight, bound, lastActive, snapshot, life,
                 delivered, consumed, lease, exported>>

Reserve(r, prev, t) ==
  /\ refresh[r] = Idle
  /\ prev \in DOMAIN bound /\ ~BoundExpired(prev)
  /\ t \in Token \ issued
  /\ pending' = Put(pending, t, [owner |-> bound[prev].owner, created |-> now,
                                 source |-> bound[prev].session])
  /\ refresh' = [refresh EXCEPT ![r] = [at |-> "check", prev |-> prev, token |-> t,
                                        owner |-> bound[prev].owner]]
  /\ issued' = issued \cup {t}
  /\ UNCHANGED <<now, sessions, inflight, bound, lastActive, snapshot, life,
                 delivered, consumed, lease, exported>>

\* The callback, outside the mutex; its answer is used in a later section.
OwnerAlive(r, alive) ==
  /\ refresh[r].at = "check"
  /\ refresh' = [refresh EXCEPT ![r].at = IF alive THEN "alive" ELSE "gone"]
  /\ UNCHANGED <<now, mgrVars, snapshot, life, ghostVars>>

\* Mutant: the refused call leaves its reservation behind.
RollbackKeepsReservation(r) ==
  /\ refresh[r].at = "gone"
  /\ refresh' = [refresh EXCEPT ![r] = Idle]
  /\ UNCHANGED <<now, mgrVars, snapshot, life, ghostVars>>

\* ownerAlive returned false: ErrOwnerGone.
Rollback(r) ==
  /\ refresh[r].at = "gone"
  /\ pending' = Delete(pending, {refresh[r].token})
  /\ refresh' = [refresh EXCEPT ![r] = Idle]
  /\ UNCHANGED <<now, sessions, inflight, bound, lastActive, snapshot, life, ghostVars>>

\* ownerAlive returned true, but the reservation or the history is gone: ErrUnknownToken.
CommitRefused(r) ==
  LET c == refresh[r] IN
  /\ c.at = "alive"
  /\ \/ c.token \notin DOMAIN pending /\ UNCHANGED <<pending, bound>>
     \/ /\ c.token \in DOMAIN pending
        /\ c.prev \in DOMAIN bound => BoundExpired(c.prev)
        /\ pending' = Delete(pending, {c.token})
        /\ bound' = Delete(bound, {c.prev})
  /\ refresh' = [refresh EXCEPT ![r] = Idle]
  /\ UNCHANGED <<now, sessions, inflight, lastActive, snapshot, life, ghostVars>>

\* The fresh token is also entered as history, so that a shim whose answer or
\* whose next connection is lost can refresh again from it.
Commit(r) ==
  LET c == refresh[r] IN
  /\ c.at = "alive"
  /\ c.token \in DOMAIN pending
  /\ c.prev \in DOMAIN bound /\ ~BoundExpired(c.prev)
  /\ bound' = Put(Put(bound, c.prev, [bound[c.prev] EXCEPT !.lastUsed = now]), c.token,
                  [owner |-> c.owner, lastUsed |-> now, session |-> bound[c.prev].session])
  /\ refresh' = [refresh EXCEPT ![r] = Idle]
  /\ delivered' = delivered \cup {c.token}
  /\ lease' = [t \in DOMAIN lease \cup {c.token} |->
                 IF t \in {c.prev, c.token}
                 THEN [session |-> IF c.prev \in DOMAIN lease THEN lease[c.prev].session
                                   ELSE NoSession,
                       used |-> now]
                 ELSE lease[t]]
  /\ UNCHANGED <<now, sessions, inflight, pending, lastActive, snapshot, life,
                 issued, consumed, exported>>

-----------------------------------------------------------------------------
(* Requests. A queued request may be forwarded while its session leaves,   *)
(* so TrackRequest is not limited to registered sessions.                  *)

TrackRequest(q, s) ==
  /\ life[s] # "new"
  /\ inflight' = Put(inflight, q, SessionID[s])
  /\ lastActive' = Put(lastActive, SessionID[s], now)
  /\ UNCHANGED <<now, sessions, pending, bound, snapshot, refresh, life, ghostVars>>

CompleteRequest(q) ==
  /\ q \in DOMAIN inflight
  /\ inflight' = Delete(inflight, {q})
  /\ UNCHANGED <<now, sessions, pending, bound, lastActive, snapshot, refresh, life, ghostVars>>

DrainInflight ==
  /\ inflight' = EmptyMap
  /\ UNCHANGED <<now, sessions, pending, bound, lastActive, snapshot, refresh, life, ghostVars>>

-----------------------------------------------------------------------------
TokenStep ==
  \/ \E t \in Token, o \in OwnerKey \cup {AnyOwner} : PreRegisterForOwner(t, o)
  \/ \E o \in OwnerKey, keep \in Token \cup {AnyOwner} : RemovePendingForOwnerExcept(o, keep)
  \/ \E o \in OwnerKey, keep \in Session \cup {NoSession} :
       RemovePendingForOwnerExceptSession(o, keep)
  \/ \E o \in OwnerKey, t \in Token : RemovePendingForOwnerToken(o, t)
  \/ SweepExpiredPending
  \/ \E t \in Token, o \in OwnerKey, s \in Session : Bind(t, o, s)

Revoke ==
  \/ \E o \in OwnerKey : RemoveBoundForOwner(o)
  \/ \E o \in OwnerKey, keep \in Session \cup {NoSession} :
       RemoveBoundForOwnerExceptSession(o, keep)

ReconnectStep ==
  \/ \E r \in Refresher, prev \in Token :
       ReserveExpired(r, prev) \/ \E t \in Token : Reserve(r, prev, t)
  \/ \E r \in Refresher, alive \in BOOLEAN : OwnerAlive(r, alive)
  \/ \E r \in Refresher : Rollback(r) \/ CommitRefused(r) \/ Commit(r)

Next ==
  \/ Tick
  \/ \E s \in Session : RegisterSession(s)
  \/ \E id \in ID : RemoveSession(id)
  \/ TokenStep
  \/ Revoke
  \/ SweepExpiredBound
  \/ ExportBoundHistory
  \/ ImportBoundHistory
  \/ ReconnectStep
  \/ \E q \in Request, s \in Session : TrackRequest(q, s)
  \/ \E q \in Request : CompleteRequest(q)
  \/ DrainInflight

Spec == Init /\ [][Next]_vars

-----------------------------------------------------------------------------
\* Bind consumes its token: no interleaving with a refresh, a sweep or a
\* restart makes a consumed token acceptable a second time.
TokenSingleUse == consumed \cap DOMAIN pending = {}

\* A reservation that no caller knows is held by a RegisterReconnect call in
\* progress: no error path of it, and no sweep or revocation between its
\* sections, leaves an orphan that PendingCount would report to the reaper.
NoLeakedReservation ==
  \A t \in DOMAIN pending \ delivered :
    \E r \in Refresher : refresh[r] # Idle /\ refresh[r].token = t

\* The reservation that a refresh makes stays with the owner of the history it
\* came from, through both unlocked windows of RegisterReconnect.
OwnerScope ==
  \A t \in DOMAIN pending \cap DOMAIN bound : pending[t].owner = bound[t].owner

\* Reconnect history is lost only to a revocation, or after more than
\* boundTokenTTL without its session being connected or refreshed.  A restart
\* keeps every history that was exported, counted from the last use before the
\* export, however long before it was bound.
HistoryOutlivesSession ==
  [][IF ImportBoundHistory
     THEN \A t \in DOMAIN exported : now - exported[t] <= BoundTTL => t \in DOMAIN bound'
     ELSE \A t \in (DOMAIN bound \ DOMAIN bound') \cap DOMAIN lease :
            Revoke \/ now - lease[t].used > BoundTTL]_vars

=============================================================================
