------------------------- MODULE OwnerAdmissionProofs -------------------------
(***************************************************************************)
(* Proofs about the session manager and about admission, classification    *)
(* and removal of the owner it belongs to, for any sets of tokens,         *)
(* sessions, requests and concurrent refreshes and any TTLs.  First the    *)
(* manager alone: type correctness and the token invariants, from one      *)
(* inductive invariant.  Then the owner, on top of that invariant: closing *)
(* the listener seals admission, an isolated verdict stays sealed, and a   *)
(* removed owner is quiet.                                                 *)
(***************************************************************************)
EXTENDS OwnerAdmission, TLAPS

-----------------------------------------------------------------------------
(* The session manager *)

\* A RegisterReconnect call works on a token that was generated before, and its
\* reservation, while it lasts, is scoped to the owner key the call remembers.
RefreshHolds ==
  \A r \in Refresher : refresh[r] # Idle =>
    /\ refresh[r].token \in issued
    /\ refresh[r].token \in DOMAIN pending => pending[refresh[r].token].owner = refresh[r].owner

\* Every history, in memory or in the snapshot, is keyed by a generated token.
HistoryIssued == DOMAIN bound \subseteq issued /\ DOMAIN snapshot \subseteq issued

\* The inductive invariant of the token part of the manager.
TokenInv ==
  /\ TypeOK
  /\ RefreshHolds
  /\ HistoryIssued
  /\ TokenSingleUse
  /\ NoLeakedReservation
  /\ OwnerScope

-----------------------------------------------------------------------------
(* What the map operators preserve.                                        *)

\* Adding an entry of the right types keeps a map a map.
LEMMA PutMap ==
  ASSUME NEW K, NEW V, NEW m, IsMap(m, K, V), NEW k \in K, NEW v \in V
  PROVE  /\ IsMap(Put(m, k, v), K, V)
         /\ DOMAIN Put(m, k, v) = DOMAIN m \cup {k}
         /\ Put(m, k, v)[k] = v
         /\ \A x \in DOMAIN m : x # k => Put(m, k, v)[x] = m[x]
  BY DEF IsMap, Put

\* Deleting keys keeps a map a map, and the other entries as they were.
LEMMA DeleteMap ==
  ASSUME NEW K, NEW V, NEW m, IsMap(m, K, V), NEW D
  PROVE  /\ IsMap(Delete(m, D), K, V)
         /\ DOMAIN Delete(m, D) = DOMAIN m \ D
         /\ \A x \in DOMAIN m \ D : Delete(m, D)[x] = m[x]
  BY DEF IsMap, Delete

\* The empty map is a map of every type.
LEMMA EmptyIsMap ==
  ASSUME NEW K, NEW V
  PROVE  IsMap(EmptyMap, K, V) /\ DOMAIN EmptyMap = {}
  BY DEF IsMap, EmptyMap

\* The entries of a map have its value type.
LEMMA MapEntry ==
  ASSUME NEW K, NEW V, NEW m, IsMap(m, K, V), NEW x \in DOMAIN m
  PROVE  x \in K /\ m[x] \in V
  BY DEF IsMap

\* The history kept after a session left: same keys, same owner keys.
LEMMA ForgetMap ==
  ASSUME TypeOK, NEW s
  PROVE  /\ IsMap(Forget(s), Token, History)
         /\ DOMAIN Forget(s) = DOMAIN bound
         /\ \A t \in DOMAIN bound : Forget(s)[t].owner = bound[t].owner
  BY ZenonT(40) DEF TypeOK, IsMap, Forget, History, Time

-----------------------------------------------------------------------------
\* NewManager establishes the invariant.
LEMMA InitInv == Init => TokenInv
  <1> SUFFICES ASSUME Init PROVE TokenInv
    OBVIOUS
  <1>1. TypeOK
    BY EmptyIsMap, TimeAssumption DEF Init, TypeOK, Time
  <1>2. RefreshHolds /\ HistoryIssued /\ TokenSingleUse /\ NoLeakedReservation /\ OwnerScope
    BY EmptyIsMap
    DEF Init, RefreshHolds, HistoryIssued, TokenSingleUse, NoLeakedReservation, OwnerScope
  <1> QED
    BY <1>1, <1>2 DEF TokenInv
-----------------------------------------------------------------------------
(* The steps. Each lemma covers one method of the manager.                 *)

\* The parts of the invariant that an action leaving the tokens alone keeps.
LEMMA TokensUnchanged ==
  ASSUME TokenInv, TypeOK',
         UNCHANGED <<pending, snapshot, refresh, issued, delivered, consumed>>,
         DOMAIN bound' \subseteq DOMAIN bound,
         \A t \in DOMAIN bound' : bound'[t].owner = bound[t].owner
  PROVE  TokenInv'
  BY DEF TokenInv, RefreshHolds, HistoryIssued, TokenSingleUse, NoLeakedReservation, OwnerScope

\* The clock.
LEMMA TickInv == ASSUME TokenInv, Tick PROVE TokenInv'
  <1>1. now' \in Time /\ now' = now + 1
    BY TimeAssumption DEF TokenInv, TypeOK, Tick, Time
  <1>2. IsMap(lease', Token, Lease)
    <2>1. \A t \in DOMAIN lease : t \in Token /\ lease[t] \in Lease
      BY MapEntry DEF TokenInv, TypeOK
    <2>2. \A t \in DOMAIN lease : [lease[t] EXCEPT !.used = now + 1] \in Lease
      BY <1>1, <2>1 DEF Lease
    <2> QED
      BY <2>1, <2>2 DEF Tick, IsMap
  <1>3. TypeOK'
    BY <1>1, <1>2 DEF TokenInv, TypeOK, Tick, mgrVars
  <1> QED
    BY <1>3, TokensUnchanged DEF Tick, mgrVars

\* A session is entered, in place of one with the same ID.
LEMMA RegisterSessionInv ==
  ASSUME TokenInv, NEW s \in Session, RegisterSession(s) PROVE TokenInv'
  <1>1. SessionID[s] \in ID
    BY DEF ID
  <1>2. IsMap(sessions', ID, Session)
    BY <1>1, PutMap DEF TokenInv, TypeOK, RegisterSession
  <1>3. /\ IsMap(bound', Token, History)
        /\ DOMAIN bound' = DOMAIN bound
        /\ \A t \in DOMAIN bound : bound'[t].owner = bound[t].owner
    BY ForgetMap DEF TokenInv, TypeOK, RegisterSession
  <1>4. IsMap(lease', Token, Lease)
    <2>1. \A t \in DOMAIN lease : t \in Token /\ lease[t] \in Lease
      BY MapEntry DEF TokenInv, TypeOK
    <2>2. \A t \in DOMAIN lease : [lease[t] EXCEPT !.used = now] \in Lease
      BY <2>1 DEF TokenInv, TypeOK, Lease
    <2> QED
      BY <2>1, <2>2 DEF RegisterSession, IsMap
  <1>5. life' \in [Session -> {"new", "open", "closed"}]
    BY DEF TokenInv, TypeOK, RegisterSession
  <1>6. TypeOK'
    BY <1>2, <1>3, <1>4, <1>5 DEF TokenInv, TypeOK, RegisterSession
  <1> QED
    BY <1>3, <1>6, TokensUnchanged DEF RegisterSession

\* A session leaves, with its requests.
LEMMA RemoveSessionInv ==
  ASSUME TokenInv, NEW id \in ID, RemoveSession(id) PROVE TokenInv'
  <1>1. IsMap(sessions', ID, Session) /\ IsMap(lastActive', ID, Time) /\ IsMap(inflight', Request, ID)
    BY DeleteMap DEF TokenInv, TypeOK, RemoveSession
  <1>2. /\ IsMap(bound', Token, History)
        /\ DOMAIN bound' = DOMAIN bound
        /\ \A t \in DOMAIN bound : bound'[t].owner = bound[t].owner
    BY ForgetMap DEF TokenInv, RemoveSession
  <1>3. life' \in [Session -> {"new", "open", "closed"}]
    BY DEF TokenInv, TypeOK, RemoveSession
  <1>4. TypeOK'
    BY <1>1, <1>2, <1>3 DEF TokenInv, TypeOK, RemoveSession, ghostVars
  <1> QED
    BY <1>2, <1>4, TokensUnchanged DEF RemoveSession, ghostVars

\* A caller enters a token it generated.
LEMMA PreRegisterInv ==
  ASSUME TokenInv, NEW t \in Token, NEW o \in OwnerKey \cup {AnyOwner}, PreRegisterForOwner(t, o)
  PROVE  TokenInv'
  <1> DEFINE e == [owner |-> o, created |-> now, source |-> NoSession]
  <1>1. e \in Reservation
    BY DEF TokenInv, TypeOK, Reservation
  <1>2. /\ IsMap(pending', Token, Reservation)
        /\ DOMAIN pending' = DOMAIN pending \cup {t}
        /\ \A x \in DOMAIN pending : x # t => pending'[x] = pending[x]
    BY <1>1 DEF TokenInv, TypeOK, IsMap, Put, PreRegisterForOwner
  <1>3. TypeOK'
    BY <1>2 DEF TokenInv, TypeOK, PreRegisterForOwner
  <1>4. t \notin issued /\ issued' = issued \cup {t} /\ delivered' = delivered \cup {t}
    BY DEF PreRegisterForOwner
  <1>5. UNCHANGED <<bound, snapshot, refresh, consumed>>
    BY DEF PreRegisterForOwner
  <1>6. RefreshHolds'
    BY <1>2, <1>4, <1>5 DEF TokenInv, RefreshHolds
  <1>7. HistoryIssued' /\ TokenSingleUse' /\ NoLeakedReservation'
    BY <1>2, <1>4, <1>5
    DEF TokenInv, TypeOK, HistoryIssued, TokenSingleUse, NoLeakedReservation
  <1>8. OwnerScope'
    BY <1>2, <1>4, <1>5 DEF TokenInv, HistoryIssued, OwnerScope
  <1> QED
    BY <1>3, <1>6, <1>7, <1>8 DEF TokenInv

\* Reservations are removed: by token, by owner, by source session or by age.
LEMMA RemovePendingInv ==
  ASSUME TokenInv, NEW K, RemovePending(K) PROVE TokenInv'
  <1>1. /\ IsMap(pending', Token, Reservation)
        /\ DOMAIN pending' = DOMAIN pending \ K
        /\ \A x \in DOMAIN pending \ K : pending'[x] = pending[x]
    BY DEF TokenInv, TypeOK, IsMap, Delete, RemovePending
  <1>2. TypeOK'
    BY <1>1 DEF TokenInv, TypeOK, RemovePending, ghostVars
  <1> QED
    BY <1>1, <1>2
    DEF TokenInv, RefreshHolds, HistoryIssued, TokenSingleUse, NoLeakedReservation, OwnerScope,
        RemovePending, ghostVars

\* Histories are removed: by owner, by session or by age.
LEMMA RemoveBoundInv ==
  ASSUME TokenInv, NEW K, RemoveBound(K) PROVE TokenInv'
  <1>1. /\ IsMap(bound', Token, History)
        /\ DOMAIN bound' = DOMAIN bound \ K
        /\ \A x \in DOMAIN bound \ K : bound'[x] = bound[x]
    BY DEF TokenInv, TypeOK, IsMap, Delete, RemoveBound
  <1>2. TypeOK'
    BY <1>1 DEF TokenInv, TypeOK, RemoveBound, ghostVars
  <1> QED
    BY <1>1, <1>2, TokensUnchanged DEF RemoveBound, ghostVars

\* A shim consumes a token.
LEMMA BindInv ==
  ASSUME TokenInv, NEW t \in Token, NEW o \in OwnerKey, NEW s \in Session, Bind(t, o, s)
  PROVE  TokenInv'
  <1> DEFINE h == [owner |-> o, lastUsed |-> now, session |-> s]
             l == [session |-> s, used |-> now]
  <1>1. h \in History /\ l \in Lease
    BY DEF TokenInv, TypeOK, History, Lease
  <1>2. /\ IsMap(pending', Token, Reservation)
        /\ DOMAIN pending' = DOMAIN pending \ {t}
        /\ \A x \in DOMAIN pending \ {t} : pending'[x] = pending[x]
    BY DEF TokenInv, TypeOK, IsMap, Delete, Bind
  <1>3. /\ IsMap(bound', Token, History)
        /\ DOMAIN bound' = DOMAIN bound \cup {t}
        /\ \A x \in DOMAIN bound : x # t => bound'[x] = bound[x]
    BY <1>1 DEF TokenInv, TypeOK, IsMap, Put, Bind
  <1>4. IsMap(lease', Token, Lease)
    BY <1>1, PutMap DEF TokenInv, TypeOK, Bind
  <1>5. TypeOK'
    BY <1>2, <1>3, <1>4 DEF TokenInv, TypeOK, Bind
  <1>6. RefreshHolds' /\ NoLeakedReservation'
    BY <1>2 DEF TokenInv, RefreshHolds, NoLeakedReservation, Bind
  <1>7. HistoryIssued' /\ TokenSingleUse' /\ OwnerScope'
    BY <1>2, <1>3 DEF TokenInv, TypeOK, HistoryIssued, TokenSingleUse, OwnerScope, Bind
  <1> QED
    BY <1>5, <1>6, <1>7 DEF TokenInv
\* The snapshot holds the histories that have not expired.
LEMMA ExportInv == ASSUME TokenInv, ExportBoundHistory PROVE TokenInv'
  <1>1. \A t \in DOMAIN bound : t \in Token /\ bound[t] \in History
    BY DEF TokenInv, TypeOK, IsMap
  <1>2. \A t \in DOMAIN lease : lease[t] \in Lease
    BY DEF TokenInv, TypeOK, IsMap
  <1>4. now \in Time
    BY DEF TokenInv, TypeOK
  <1>5. \A t \in DOMAIN bound :
          [bound[t] EXCEPT !.session = NoSession,
                           !.lastUsed = IF BoundIsLive(t) THEN now ELSE @] \in History
    BY <1>1, <1>4 DEF History
  <1>6. IsMap(snapshot', Token, History) /\ DOMAIN snapshot' \subseteq DOMAIN bound
    BY <1>1, <1>5 DEF ExportBoundHistory, IsMap
  <1>7. IsMap(exported', Token, Time)
    BY <1>1, <1>2 DEF ExportBoundHistory, IsMap, Lease
  <1>8. TypeOK'
    BY <1>6, <1>7 DEF TokenInv, TypeOK, ExportBoundHistory, mgrVars
  <1> QED
    BY <1>6, <1>8
    DEF TokenInv, RefreshHolds, HistoryIssued, TokenSingleUse, NoLeakedReservation, OwnerScope,
        ExportBoundHistory, mgrVars

\* A new process starts from the snapshot: no reservation survives.
LEMMA ImportInv == ASSUME TokenInv, ImportBoundHistory PROVE TokenInv'
  <1>1. IsMap(bound', Token, History) /\ DOMAIN bound' \subseteq DOMAIN snapshot
    BY DEF TokenInv, TypeOK, IsMap, Delete, ImportBoundHistory
  <1>2. IsMap(lease', Token, Lease)
    BY DEF TokenInv, TypeOK, IsMap, Lease, ImportBoundHistory
  <1>3. /\ IsMap(sessions', ID, Session) /\ IsMap(inflight', Request, ID)
        /\ IsMap(pending', Token, Reservation) /\ IsMap(lastActive', ID, Time)
        /\ IsMap(snapshot', Token, History) /\ IsMap(exported', Token, Time)
        /\ DOMAIN pending' = {} /\ DOMAIN snapshot' = {}
    BY EmptyIsMap DEF ImportBoundHistory
  <1>4. /\ life' \in [Session -> {"new", "open", "closed"}]
        /\ refresh' \in [Refresher -> RefreshCall \cup {Idle}]
        /\ \A r \in Refresher : refresh'[r] = Idle
    BY DEF TokenInv, TypeOK, ImportBoundHistory
  <1>5. TypeOK'
    BY <1>1, <1>2, <1>3, <1>4 DEF TokenInv, TypeOK, ImportBoundHistory
  <1>6. RefreshHolds' /\ NoLeakedReservation'
    BY <1>3, <1>4 DEF RefreshHolds, NoLeakedReservation
  <1>7. HistoryIssued' /\ TokenSingleUse' /\ OwnerScope'
    BY <1>1, <1>3 DEF TokenInv, HistoryIssued, TokenSingleUse, OwnerScope, ImportBoundHistory
  <1> QED
    BY <1>5, <1>6, <1>7 DEF TokenInv

\* RegisterReconnect enters a reservation for a fresh token.
LEMMA ReserveInv ==
  ASSUME TokenInv, NEW r \in Refresher, NEW prev \in Token, NEW t \in Token, Reserve(r, prev, t)
  PROVE  TokenInv'
  <1> DEFINE e == [owner |-> bound[prev].owner, created |-> now, source |-> bound[prev].session]
             c == [at |-> "check", prev |-> prev, token |-> t, owner |-> bound[prev].owner]
  <1>1. bound[prev] \in History
    BY DEF TokenInv, TypeOK, IsMap, Reserve
  <1>2. e \in Reservation /\ c \in RefreshCall
    BY <1>1 DEF TokenInv, TypeOK, Reservation, History, RefreshCall
  <1>3. c # Idle
    BY DEF Idle
  <1>4. /\ IsMap(pending', Token, Reservation)
        /\ DOMAIN pending' = DOMAIN pending \cup {t}
        /\ pending'[t] = e
        /\ \A x \in DOMAIN pending : x # t => pending'[x] = pending[x]
    BY <1>2 DEF TokenInv, TypeOK, IsMap, Put, Reserve
  <1>5. /\ refresh' \in [Refresher -> RefreshCall \cup {Idle}]
        /\ refresh'[r] = c
        /\ refresh[r] = Idle
        /\ \A x \in Refresher : x # r => refresh'[x] = refresh[x]
    BY <1>2 DEF TokenInv, TypeOK, Reserve
  <1>6. t \notin issued /\ issued' = issued \cup {t}
    BY DEF Reserve
  <1>7. UNCHANGED <<bound, snapshot, delivered, consumed>>
    BY DEF Reserve
  <1>8. TypeOK'
    BY <1>4, <1>5 DEF TokenInv, TypeOK, Reserve
  <1>9. RefreshHolds'
    BY <1>4, <1>5, <1>6 DEF TokenInv, RefreshHolds
  <1>10. NoLeakedReservation'
    <2> SUFFICES ASSUME NEW x \in DOMAIN pending' \ delivered'
                 PROVE  \E y \in Refresher : refresh'[y] # Idle /\ refresh'[y].token = x
      BY DEF NoLeakedReservation
    <2>1. CASE x = t
      BY <2>1, <1>3, <1>5
    <2>2. CASE x # t
      <3>1. PICK y \in Refresher : refresh[y] # Idle /\ refresh[y].token = x
        BY <2>2, <1>4, <1>7 DEF TokenInv, NoLeakedReservation
      <3> QED
        BY <3>1, <1>5
    <2> QED
      BY <2>1, <2>2
  <1>11. HistoryIssued' /\ TokenSingleUse' /\ OwnerScope'
    BY <1>4, <1>6, <1>7 DEF TokenInv, TypeOK, HistoryIssued, TokenSingleUse, OwnerScope
  <1> QED
    BY <1>8, <1>9, <1>10, <1>11 DEF TokenInv

\* The liveness callback answers.
LEMMA OwnerAliveInv ==
  ASSUME TokenInv, NEW r \in Refresher, NEW alive \in BOOLEAN, OwnerAlive(r, alive)
  PROVE  TokenInv'
  <1>1. refresh[r] \in RefreshCall
    BY DEF TokenInv, TypeOK, OwnerAlive, Idle
  <1>2. /\ refresh' \in [Refresher -> RefreshCall \cup {Idle}]
        /\ refresh'[r] \in RefreshCall
        /\ refresh'[r].token = refresh[r].token /\ refresh'[r].owner = refresh[r].owner
        /\ \A x \in Refresher : x # r => refresh'[x] = refresh[x]
    BY <1>1 DEF TokenInv, TypeOK, OwnerAlive, RefreshCall
  <1>3. refresh[r] # Idle /\ refresh'[r] # Idle
    BY <1>1, <1>2 DEF RefreshCall, Idle
  <1>4. TypeOK'
    BY <1>2 DEF TokenInv, TypeOK, OwnerAlive, mgrVars, ghostVars
  <1>5. UNCHANGED <<pending, bound, snapshot, issued, delivered, consumed>>
    BY DEF OwnerAlive, mgrVars, ghostVars
  <1>6. RefreshHolds' /\ NoLeakedReservation'
    BY <1>2, <1>3, <1>5 DEF TokenInv, RefreshHolds, NoLeakedReservation
  <1>7. HistoryIssued' /\ TokenSingleUse' /\ OwnerScope'
    BY <1>5 DEF TokenInv, HistoryIssued, TokenSingleUse, OwnerScope
  <1> QED
    BY <1>4, <1>6, <1>7 DEF TokenInv

\* A call that ends without handing out its token: its reservation is gone.
LEMMA CallRefused ==
  ASSUME TokenInv, TypeOK', NEW r \in Refresher, refresh[r] # Idle,
         refresh' = [refresh EXCEPT ![r] = Idle],
         refresh[r].token \notin DOMAIN pending',
         DOMAIN pending' \subseteq DOMAIN pending,
         \A x \in DOMAIN pending' : pending'[x] = pending[x],
         DOMAIN bound' \subseteq DOMAIN bound,
         \A x \in DOMAIN bound' : bound'[x] = bound[x],
         UNCHANGED <<snapshot, issued, delivered, consumed>>
  PROVE  TokenInv'
  <1>1. /\ refresh'[r] = Idle
        /\ \A x \in Refresher : x # r => refresh'[x] = refresh[x]
    BY DEF TokenInv, TypeOK
  <1>2. RefreshHolds'
    BY <1>1 DEF TokenInv, RefreshHolds
  <1>3. NoLeakedReservation'
    <2> SUFFICES ASSUME NEW x \in DOMAIN pending' \ delivered'
                 PROVE  \E y \in Refresher : refresh'[y] # Idle /\ refresh'[y].token = x
      BY DEF NoLeakedReservation
    <2>1. PICK y \in Refresher : refresh[y] # Idle /\ refresh[y].token = x
      BY DEF TokenInv, NoLeakedReservation
    <2> QED
      BY <2>1, <1>1
  <1>4. HistoryIssued' /\ TokenSingleUse' /\ OwnerScope'
    BY DEF TokenInv, HistoryIssued, TokenSingleUse, OwnerScope
  <1> QED
    BY <1>2, <1>3, <1>4 DEF TokenInv
\* ErrOwnerGone.
LEMMA RollbackInv == ASSUME TokenInv, NEW r \in Refresher, Rollback(r) PROVE TokenInv'
  <1>1. refresh[r] # Idle
    BY DEF Rollback, Idle
  <1>2. /\ IsMap(pending', Token, Reservation)
        /\ DOMAIN pending' = DOMAIN pending \ {refresh[r].token}
        /\ \A x \in DOMAIN pending' : pending'[x] = pending[x]
    BY DEF TokenInv, TypeOK, IsMap, Delete, Rollback
  <1>3. refresh' = [refresh EXCEPT ![r] = Idle]
    BY DEF Rollback
  <1>4. refresh' \in [Refresher -> RefreshCall \cup {Idle}]
    BY <1>3 DEF TokenInv, TypeOK
  <1>5. TypeOK'
    BY <1>2, <1>4 DEF TokenInv, TypeOK, Rollback, ghostVars
  <1> QED
    BY <1>1, <1>2, <1>3, <1>5, CallRefused DEF Rollback, ghostVars

\* ErrUnknownToken after the callback.
LEMMA CommitRefusedInv == ASSUME TokenInv, NEW r \in Refresher, CommitRefused(r) PROVE TokenInv'
  <1>1. refresh[r] # Idle
    BY DEF CommitRefused, Idle
  <1>2. /\ IsMap(pending', Token, Reservation)
        /\ DOMAIN pending' \subseteq DOMAIN pending
        /\ refresh[r].token \notin DOMAIN pending'
        /\ \A x \in DOMAIN pending' : pending'[x] = pending[x]
    BY DEF TokenInv, TypeOK, IsMap, Delete, CommitRefused
  <1>3. /\ IsMap(bound', Token, History)
        /\ DOMAIN bound' \subseteq DOMAIN bound
        /\ \A x \in DOMAIN bound' : bound'[x] = bound[x]
    BY DEF TokenInv, TypeOK, IsMap, Delete, CommitRefused
  <1>4. refresh' = [refresh EXCEPT ![r] = Idle]
    BY DEF CommitRefused
  <1>5. refresh' \in [Refresher -> RefreshCall \cup {Idle}]
    BY <1>4 DEF TokenInv, TypeOK
  <1>6. UNCHANGED <<now, sessions, inflight, lastActive, snapshot, life, ghostVars>>
    BY DEF CommitRefused
  <1>7. TypeOK'
    BY <1>2, <1>3, <1>5, <1>6 DEF TokenInv, TypeOK, ghostVars
  <1> QED
    BY <1>1, <1>2, <1>3, <1>4, <1>6, <1>7, CallRefused DEF ghostVars

\* The fresh token is handed out and becomes history.
LEMMA CommitInv == ASSUME TokenInv, NEW r \in Refresher, Commit(r) PROVE TokenInv'
  <1> DEFINE c == refresh[r]
             p == [bound[c.prev] EXCEPT !.lastUsed = now]
             h == [owner |-> c.owner, lastUsed |-> now, session |-> bound[c.prev].session]
             l == [session |-> IF c.prev \in DOMAIN lease THEN lease[c.prev].session ELSE NoSession,
                   used |-> now]
  <1>1. c \in RefreshCall /\ c # Idle
    BY DEF TokenInv, TypeOK, Commit, Idle
  <1>2. c.prev \in DOMAIN bound /\ bound[c.prev] \in History /\ c.token \in DOMAIN pending
    BY DEF TokenInv, TypeOK, IsMap, Commit
  <1>3. p \in History /\ p.owner = bound[c.prev].owner /\ h \in History /\ h.owner = c.owner
    BY <1>1, <1>2 DEF TokenInv, TypeOK, History, RefreshCall
  <1>4. /\ IsMap(Put(bound, c.prev, p), Token, History)
        /\ DOMAIN Put(bound, c.prev, p) = DOMAIN bound
        /\ \A x \in DOMAIN bound : Put(bound, c.prev, p)[x].owner = bound[x].owner
    <2> HIDE DEF p
    <2>1. IsMap(bound, Token, History)
      BY DEF TokenInv, TypeOK
    <2>2. IsMap(Put(bound, c.prev, p), Token, History)
      BY <1>2, <1>3, <2>1 DEF IsMap, Put
    <2>3. DOMAIN Put(bound, c.prev, p) = DOMAIN bound
      BY <1>2 DEF Put
    <2>4. \A x \in DOMAIN bound : Put(bound, c.prev, p)[x].owner = bound[x].owner
      BY <1>2, <1>3 DEF Put
    <2> QED
      BY <2>2, <2>3, <2>4
  <1>5. bound' = Put(Put(bound, c.prev, p), c.token, h)
    BY DEF Commit
  <1>6. /\ IsMap(bound', Token, History)
        /\ DOMAIN bound' = DOMAIN bound \cup {c.token}
        /\ bound'[c.token].owner = c.owner
        /\ \A x \in DOMAIN bound : x # c.token => bound'[x].owner = bound[x].owner
    BY <1>1, <1>3, <1>4, <1>5 DEF IsMap, Put, RefreshCall
  <1>7. IsMap(lease', Token, Lease)
    <2>1. l \in Lease
      BY DEF TokenInv, TypeOK, IsMap, Lease
    <2>2. lease' = [t \in DOMAIN lease \cup {c.token} |->
                      IF t \in {c.prev, c.token} THEN l ELSE lease[t]]
      BY DEF Commit
    <2> QED
      BY <1>1, <2>1, <2>2 DEF TokenInv, TypeOK, IsMap, RefreshCall
  <1>8. /\ refresh' \in [Refresher -> RefreshCall \cup {Idle}]
        /\ refresh'[r] = Idle
        /\ \A x \in Refresher : x # r => refresh'[x] = refresh[x]
    BY DEF TokenInv, TypeOK, Commit
  <1>9. delivered' = delivered \cup {c.token} /\ c.token \in issued
    BY <1>1 DEF TokenInv, RefreshHolds, Commit
  <1>10. UNCHANGED <<now, sessions, inflight, pending, lastActive, snapshot, life,
                     issued, consumed, exported>>
    BY DEF Commit
  <1>11. TypeOK'
    BY <1>6, <1>7, <1>8, <1>9, <1>10 DEF TokenInv, TypeOK
  <1>12. RefreshHolds'
    BY <1>8, <1>10 DEF TokenInv, RefreshHolds
  <1>13. NoLeakedReservation'
    <2> SUFFICES ASSUME NEW x \in DOMAIN pending' \ delivered'
                 PROVE  \E y \in Refresher : refresh'[y] # Idle /\ refresh'[y].token = x
      BY DEF NoLeakedReservation
    <2>1. PICK y \in Refresher : refresh[y] # Idle /\ refresh[y].token = x
      BY <1>9, <1>10 DEF TokenInv, NoLeakedReservation
    <2>2. y # r
      BY <2>1, <1>9
    <2> QED
      BY <2>1, <2>2, <1>8
  <1>14. HistoryIssued' /\ TokenSingleUse'
    BY <1>6, <1>9, <1>10 DEF TokenInv, HistoryIssued, TokenSingleUse
  <1>15. OwnerScope'
    BY <1>1, <1>6, <1>10 DEF TokenInv, RefreshHolds, OwnerScope
  <1> QED
    BY <1>11, <1>12, <1>13, <1>14, <1>15 DEF TokenInv

\* Requests come and go.
LEMMA RequestInv ==
  ASSUME TokenInv,
         \/ \E q \in Request, s \in Session : TrackRequest(q, s)
         \/ \E q \in Request : CompleteRequest(q)
         \/ DrainInflight
  PROVE  TokenInv'
  <1>1. IsMap(inflight', Request, ID) /\ IsMap(lastActive', ID, Time)
    <2>1. now \in Time /\ IsMap(inflight, Request, ID) /\ IsMap(lastActive, ID, Time)
      BY DEF TokenInv, TypeOK
    <2>2. ASSUME NEW q \in Request, NEW s \in Session, TrackRequest(q, s)
          PROVE  IsMap(inflight', Request, ID) /\ IsMap(lastActive', ID, Time)
      <3>1. SessionID[s] \in ID
        BY DEF ID
      <3> QED
        BY <2>1, <2>2, <3>1, PutMap DEF TrackRequest
    <2>3. ASSUME NEW q \in Request, CompleteRequest(q)
          PROVE  IsMap(inflight', Request, ID) /\ IsMap(lastActive', ID, Time)
      BY <2>1, <2>3, DeleteMap DEF CompleteRequest
    <2>4. ASSUME DrainInflight
          PROVE  IsMap(inflight', Request, ID) /\ IsMap(lastActive', ID, Time)
      BY <2>1, <2>4, EmptyIsMap DEF DrainInflight
    <2> QED
      BY <2>2, <2>3, <2>4
  <1>2. UNCHANGED <<now, sessions, pending, bound, snapshot, refresh, life, ghostVars>>
    BY DEF TrackRequest, CompleteRequest, DrainInflight
  <1>3. TypeOK'
    BY <1>1, <1>2 DEF TokenInv, TypeOK, ghostVars
  <1> QED
    BY <1>2, <1>3, TokensUnchanged DEF ghostVars

-----------------------------------------------------------------------------
\* Every step of the manager keeps the invariant.
LEMMA NextInv == TokenInv /\ [Next]_vars => TokenInv'
  <1> SUFFICES ASSUME TokenInv, [Next]_vars PROVE TokenInv'
    OBVIOUS
  <1>1. CASE Tick
    BY <1>1, TickInv
  <1>2. CASE \E s \in Session : RegisterSession(s)
    BY <1>2, RegisterSessionInv
  <1>3. CASE \E id \in ID : RemoveSession(id)
    BY <1>3, RemoveSessionInv
  <1>4. CASE TokenStep
    <2>1. CASE \E t \in Token, o \in OwnerKey \cup {AnyOwner} : PreRegisterForOwner(t, o)
      BY <2>1, PreRegisterInv
    <2>2. CASE \E t \in Token, o \in OwnerKey, s \in Session : Bind(t, o, s)
      BY <2>2, BindInv
    <2>3. CASE \E K : RemovePending(K)
      BY <2>3, RemovePendingInv
    <2> QED
      BY <1>4, <2>1, <2>2, <2>3
      DEF TokenStep, RemovePendingForOwnerExcept, RemovePendingForOwnerExceptSession,
          RemovePendingForOwnerToken, SweepExpiredPending
  <1>5. CASE Revoke \/ SweepExpiredBound
    BY <1>5, RemoveBoundInv
    DEF Revoke, RemoveBoundForOwner, RemoveBoundForOwnerExceptSession, SweepExpiredBound
  <1>6. CASE ExportBoundHistory
    BY <1>6, ExportInv
  <1>7. CASE ImportBoundHistory
    BY <1>7, ImportInv
  <1>8. CASE ReconnectStep
    <2>1. CASE \E r \in Refresher, prev \in Token : ReserveExpired(r, prev)
      BY <2>1, RemoveBoundInv DEF ReserveExpired
    <2>2. CASE \E r \in Refresher, prev \in Token, t \in Token : Reserve(r, prev, t)
      BY <2>2, ReserveInv
    <2>3. CASE \E r \in Refresher, alive \in BOOLEAN : OwnerAlive(r, alive)
      BY <2>3, OwnerAliveInv
    <2>4. CASE \E r \in Refresher : Rollback(r) \/ CommitRefused(r) \/ Commit(r)
      BY <2>4, RollbackInv, CommitRefusedInv, CommitInv
    <2> QED
      BY <1>8, <2>1, <2>2, <2>3, <2>4 DEF ReconnectStep
  <1>9. CASE \/ \E q \in Request, s \in Session : TrackRequest(q, s)
             \/ \E q \in Request : CompleteRequest(q)
             \/ DrainInflight
    BY <1>9, RequestInv
  <1>10. CASE UNCHANGED vars
    <2>1. TypeOK'
      BY <1>10 DEF TokenInv, TypeOK, vars, mgrVars, ghostVars
    <2> QED
      BY <1>10, <2>1, TokensUnchanged DEF vars, mgrVars, ghostVars
  <1> QED
    BY <1>1, <1>2, <1>3, <1>4, <1>5, <1>6, <1>7, <1>8, <1>9, <1>10 DEF Next

\* The token invariant holds in every reachable state.
THEOREM TokenInvariant == Spec => []TokenInv
  BY InitInv, NextInv, PTL DEF Spec

\* Every variable of the manager keeps its type, for any constants.
THEOREM TypeCorrect == Spec => []TypeOK
  <1>1. TokenInv => TypeOK
    BY DEF TokenInv
  <1> QED
    BY <1>1, TokenInvariant, PTL

\* No interleaving of refreshes, sweeps and restarts makes a consumed token
\* acceptable again.
THEOREM SingleUse == Spec => []TokenSingleUse
  <1>1. TokenInv => TokenSingleUse
    BY DEF TokenInv
  <1> QED
    BY <1>1, TokenInvariant, PTL

\* No error path of RegisterReconnect leaves a reservation nobody holds.
THEOREM NoLeak == Spec => []NoLeakedReservation
  <1>1. TokenInv => NoLeakedReservation
    BY DEF TokenInv
  <1> QED
    BY <1>1, TokenInvariant, PTL

\* A refreshed reservation stays with the owner its history belongs to.
THEOREM RefreshKeepsOwner == Spec => []OwnerScope
  <1>1. TokenInv => OwnerScope
    BY DEF TokenInv
  <1> QED
    BY <1>1, TokenInvariant, PTL
-----------------------------------------------------------------------------
(* Reconnect history: how lease, the ghost of what a shim may rely on,     *)
(* relates to bound, snapshot and the clock.                               *)

\* A registered session is open and is entered under its own ID.
SessionsOpen ==
  /\ \A id \in DOMAIN sessions : SessionID[sessions[id]] = id
  /\ \A s \in Session : Registered(s) => life[s] = "open"

\* No use lies in the future.
UsesPast ==
  /\ \A t \in DOMAIN lease : lease[t].used <= now
  /\ \A t \in DOMAIN exported : exported[t] <= now

\* A history names the session of its lease until that session has left, and
\* without a registered session it is no older than the last use of the lease.
HistoryFollowsLease ==
  /\ DOMAIN bound \subseteq DOMAIN lease
  /\ \A t \in DOMAIN bound :
       /\ \/ bound[t].session = lease[t].session
          \/ /\ bound[t].session = NoSession
             /\ lease[t].session \in Session /\ life[lease[t].session] = "closed"
       /\ BoundIsLive(t) \/ lease[t].used <= bound[t].lastUsed

\* The snapshot has every history known at the export, with its last use, but
\* for those that had expired by then.
SnapshotFollowsExport ==
  /\ DOMAIN snapshot \subseteq DOMAIN exported
  /\ \A t \in DOMAIN exported :
       IF t \in DOMAIN snapshot THEN exported[t] <= snapshot[t].lastUsed
       ELSE now - exported[t] > BoundTTL
  /\ \A t \in DOMAIN snapshot : snapshot[t].session = NoSession

LeaseInv ==
  /\ TypeOK
  /\ SessionsOpen
  /\ UsesPast
  /\ HistoryFollowsLease
  /\ SnapshotFollowsExport

\* NewManager establishes it.
LEMMA InitLease == Init => LeaseInv
  BY InitInv, EmptyIsMap
  DEF Init, LeaseInv, TokenInv, SessionsOpen, UsesPast, HistoryFollowsLease,
      SnapshotFollowsExport, Registered

\* The values that the comparisons of times are about.
LEMMA LeaseTypes ==
  ASSUME TypeOK
  PROVE  /\ now \in Int /\ BoundTTL \in Int
         /\ \A t \in DOMAIN bound : bound[t].lastUsed \in Int /\ bound[t].session \in Session \cup {NoSession}
         /\ \A t \in DOMAIN lease : lease[t].used \in Int /\ lease[t].session \in Session \cup {NoSession}
         /\ \A t \in DOMAIN snapshot : snapshot[t].lastUsed \in Int
         /\ \A t \in DOMAIN exported : exported[t] \in Int
         /\ \A id \in DOMAIN sessions : sessions[id] \in Session
  BY TimeAssumption DEF TypeOK, IsMap, History, Lease, Time

\* Removing histories keeps the relation.
LEMMA RemoveBoundLease ==
  ASSUME LeaseInv, TypeOK',
         DOMAIN bound' \subseteq DOMAIN bound,
         \A t \in DOMAIN bound' : bound'[t] = bound[t],
         UNCHANGED <<now, sessions, life, lease, snapshot, exported>>
  PROVE  LeaseInv'
  BY DEF LeaseInv, SessionsOpen, UsesPast, HistoryFollowsLease, SnapshotFollowsExport,
         Registered, BoundIsLive

\* The clock: the leases of registered sessions advance with it.
LEMMA TickLease == ASSUME LeaseInv, TypeOK', Tick PROVE LeaseInv'
  <1>1. /\ now' = now + 1 /\ UNCHANGED <<sessions, bound, life, snapshot, exported>>
        /\ DOMAIN lease' = DOMAIN lease
        /\ \A t \in DOMAIN lease :
             /\ lease'[t].session = lease[t].session
             /\ lease'[t].used = IF Registered(lease[t].session) THEN now + 1 ELSE lease[t].used
    BY DEF Tick, mgrVars, LeaseInv, TypeOK, IsMap, Lease
  <1>2. SessionsOpen'
    BY <1>1 DEF LeaseInv, SessionsOpen, Registered
  <1>3. UsesPast'
    BY <1>1, LeaseTypes DEF LeaseInv, UsesPast
  <1>4. HistoryFollowsLease'
    <2> SUFFICES ASSUME NEW t \in DOMAIN bound
                 PROVE  BoundIsLive(t) \/ lease'[t].used <= bound[t].lastUsed
      BY <1>1 DEF LeaseInv, HistoryFollowsLease, BoundIsLive, Registered
    <2>1. CASE Registered(lease[t].session)
      BY <2>1, SessionAssumption
      DEF LeaseInv, HistoryFollowsLease, SessionsOpen, BoundIsLive, Registered
    <2>2. CASE ~Registered(lease[t].session)
      BY <2>2, <1>1 DEF LeaseInv, HistoryFollowsLease
    <2> QED
      BY <2>1, <2>2
  <1>5. SnapshotFollowsExport'
    BY <1>1, LeaseTypes DEF LeaseInv, SnapshotFollowsExport
  <1> QED
    BY <1>2, <1>3, <1>4, <1>5 DEF LeaseInv

\* A session leaves: its histories age from now on.
LEMMA ForgetLease ==
  ASSUME TypeOK, NEW s \in Session, NEW t \in DOMAIN bound
  PROVE  /\ bound[t].session = s => Forget(s)[t].session = NoSession /\ Forget(s)[t].lastUsed = now
         /\ bound[t].session # s => Forget(s)[t] = bound[t]
  BY DEF TypeOK, IsMap, History, Forget

\* A session is entered, in place of one with the same ID.
LEMMA RegisterSessionLease ==
  ASSUME LeaseInv, TypeOK', NEW s \in Session, RegisterSession(s) PROVE LeaseInv'
  <1>1. /\ life[s] = "new" /\ UNCHANGED <<now, snapshot, exported>>
        /\ DOMAIN sessions' = DOMAIN sessions \cup {SessionID[s]}
        /\ sessions'[SessionID[s]] = s
        /\ \A id \in DOMAIN sessions : id # SessionID[s] => sessions'[id] = sessions[id]
    BY DEF RegisterSession, Put
  <1>2. /\ DOMAIN lease' = DOMAIN lease
        /\ \A t \in DOMAIN lease :
             /\ lease'[t].session = lease[t].session
             /\ lease'[t].used = IF lease[t].session = s THEN now ELSE lease[t].used
    BY DEF RegisterSession, LeaseInv, TypeOK, IsMap, Lease
  <1>3. /\ life'[s] = "open"
        /\ \A x \in Session : x # s => life'[x] = IF Registered(x) /\ SessionID[x] = SessionID[s]
                                                  THEN "closed" ELSE life[x]
    BY DEF RegisterSession
  <1>4. ~Registered(s)
    BY <1>1 DEF LeaseInv, SessionsOpen
  <1>5. \A x \in Session : Registered(x)' <=> x = s \/ (Registered(x) /\ SessionID[x] # SessionID[s])
    BY <1>1, <1>4 DEF Registered
  <1>6. SessionsOpen'
    BY <1>1, <1>3, <1>5 DEF LeaseInv, SessionsOpen, Registered
  <1>7. UsesPast'
    BY <1>1, <1>2, LeaseTypes DEF LeaseInv, UsesPast
  <1>8. DOMAIN bound' = DOMAIN bound
    BY DEF RegisterSession, Forget
  <1>9. ASSUME NEW t \in DOMAIN bound
        PROVE  \/ bound'[t] = bound[t] /\ (BoundIsLive(t) => BoundIsLive(t)')
               \/ /\ bound'[t].session = NoSession /\ bound'[t].lastUsed = now
                  /\ bound[t].session \in Session /\ life'[bound[t].session] = "closed"
    <2>1. CASE SessionID[s] \in DOMAIN sessions
      <3> DEFINE old == sessions[SessionID[s]]
      <3>1. old \in Session /\ SessionID[old] = SessionID[s] /\ Registered(old)
        BY <2>1, LeaseTypes DEF LeaseInv, SessionsOpen, Registered
      <3>2. bound' = Forget(old)
        BY <2>1 DEF RegisterSession
      <3>3. CASE bound[t].session = old
        BY <3>1, <3>2, <3>3, <1>3, <1>4, ForgetLease DEF LeaseInv
      <3>4. CASE bound[t].session # old
        BY <3>1, <3>2, <3>4, <1>5, ForgetLease DEF LeaseInv, BoundIsLive, Registered
      <3> QED
        BY <3>3, <3>4
    <2>2. CASE SessionID[s] \notin DOMAIN sessions
      BY <2>2, <1>5 DEF RegisterSession, BoundIsLive, Registered
    <2> QED
      BY <2>1, <2>2
  <1>10. HistoryFollowsLease'
    <2>1. DOMAIN bound' \subseteq DOMAIN lease'
      BY <1>2, <1>8 DEF LeaseInv, HistoryFollowsLease
    <2>2. ASSUME NEW t \in DOMAIN bound
          PROVE  /\ \/ bound'[t].session = lease'[t].session
                    \/ /\ bound'[t].session = NoSession
                       /\ lease'[t].session \in Session /\ life'[lease'[t].session] = "closed"
                 /\ BoundIsLive(t)' \/ lease'[t].used <= bound'[t].lastUsed
      <3>1. t \in DOMAIN lease /\ lease[t].used <= now
        BY DEF LeaseInv, HistoryFollowsLease, UsesPast
      <3>2. /\ \/ bound[t].session = lease[t].session
               \/ /\ bound[t].session = NoSession
                  /\ lease[t].session \in Session /\ life[lease[t].session] = "closed"
            /\ BoundIsLive(t) \/ lease[t].used <= bound[t].lastUsed
        BY DEF LeaseInv, HistoryFollowsLease
      <3>3. lease[t].session \in Session /\ life[lease[t].session] = "closed"
              => lease[t].session # s /\ life'[lease[t].session] = "closed"
        BY <1>1, <1>3
      <3>4. CASE bound'[t] = bound[t] /\ (BoundIsLive(t) => BoundIsLive(t)')
        <4>1. CASE lease[t].session = s
          <5>1. bound[t].session = s
            BY <4>1, <3>2, <1>1
          <5>2. BoundIsLive(t)'
            BY <5>1, <3>4, <1>5 DEF BoundIsLive, Registered
          <5> QED
            BY <5>1, <5>2, <4>1, <3>1, <3>4, <1>2
        <4>2. CASE lease[t].session # s
          BY <4>2, <3>1, <3>2, <3>3, <3>4, <1>2
        <4> QED
          BY <4>1, <4>2
      <3>5. CASE /\ bound'[t].session = NoSession /\ bound'[t].lastUsed = now
                 /\ bound[t].session \in Session /\ life'[bound[t].session] = "closed"
        <4>1. lease[t].session = bound[t].session
          BY <3>2, <3>5, SessionAssumption
        <4>2. lease'[t].used <= now
          BY <3>1, <1>2, LeaseTypes DEF LeaseInv
        <4> QED
          BY <4>1, <4>2, <3>1, <3>5, <1>2
      <3> QED
        BY <3>4, <3>5, <1>9
    <2> QED
      BY <2>1, <2>2, <1>8 DEF HistoryFollowsLease
  <1>11. SnapshotFollowsExport'
    BY <1>1 DEF LeaseInv, SnapshotFollowsExport
  <1> QED
    BY <1>6, <1>7, <1>10, <1>11 DEF LeaseInv

\* A session leaves.
LEMMA RemoveSessionLease ==
  ASSUME LeaseInv, TypeOK', NEW id \in ID, RemoveSession(id) PROVE LeaseInv'
  <1> DEFINE old == sessions[id]
  <1>1. /\ UNCHANGED <<now, lease, snapshot, exported>>
        /\ DOMAIN sessions' = DOMAIN sessions \ {id}
        /\ \A x \in DOMAIN sessions' : sessions'[x] = sessions[x]
        /\ bound' = Forget(old) /\ DOMAIN bound' = DOMAIN bound
    BY DEF RemoveSession, Delete, Forget, ghostVars
  <1>2. old \in Session /\ SessionID[old] = id
    BY LeaseTypes DEF RemoveSession, LeaseInv, SessionsOpen
  <1>3. life'[old] = "closed" /\ \A x \in Session : x # old => life'[x] = life[x]
    BY <1>2 DEF RemoveSession, LeaseInv, TypeOK
  <1>4. \A x \in Session : Registered(x)' <=> Registered(x) /\ x # old
    BY <1>1, <1>2 DEF Registered, RemoveSession
  <1>5. SessionsOpen'
    BY <1>1, <1>3, <1>4 DEF LeaseInv, SessionsOpen, Registered
  <1>6. ASSUME NEW t \in DOMAIN bound
        PROVE  /\ \/ bound'[t].session = lease[t].session
                  \/ /\ bound'[t].session = NoSession
                     /\ lease[t].session \in Session /\ life'[lease[t].session] = "closed"
               /\ BoundIsLive(t)' \/ lease[t].used <= bound'[t].lastUsed
    <2>1. /\ t \in DOMAIN lease /\ lease[t].used <= now
          /\ \/ bound[t].session = lease[t].session
             \/ /\ bound[t].session = NoSession
                /\ lease[t].session \in Session /\ life[lease[t].session] = "closed"
          /\ BoundIsLive(t) \/ lease[t].used <= bound[t].lastUsed
      BY DEF LeaseInv, HistoryFollowsLease, UsesPast
    <2>2. CASE bound[t].session = old
      BY <2>1, <2>2, <1>1, <1>2, <1>3, ForgetLease, SessionAssumption DEF LeaseInv
    <2>3. CASE bound[t].session # old
      <3>1. bound'[t] = bound[t]
        BY <2>3, <1>1, <1>2, ForgetLease DEF LeaseInv
      <3>2. BoundIsLive(t) => BoundIsLive(t)'
        BY <2>3, <3>1, <1>4 DEF BoundIsLive, Registered
      <3> QED
        BY <2>1, <3>1, <3>2, <1>3
    <2> QED
      BY <2>2, <2>3
  <1>7. HistoryFollowsLease'
    BY <1>1, <1>6 DEF LeaseInv, HistoryFollowsLease
  <1>8. UsesPast' /\ SnapshotFollowsExport'
    BY <1>1 DEF LeaseInv, UsesPast, SnapshotFollowsExport
  <1> QED
    BY <1>5, <1>7, <1>8 DEF LeaseInv

\* A bound token has its lease from now on.
LEMMA BindLease ==
  ASSUME LeaseInv, TypeOK', NEW t \in Token, NEW o \in OwnerKey, NEW s \in Session, Bind(t, o, s)
  PROVE  LeaseInv'
  <1>1. UNCHANGED <<now, sessions, life, snapshot, exported>>
    BY DEF Bind
  <1>2. /\ DOMAIN bound' = DOMAIN bound \cup {t}
        /\ bound'[t] = [owner |-> o, lastUsed |-> now, session |-> s]
        /\ \A x \in DOMAIN bound : x # t => bound'[x] = bound[x]
    BY DEF Bind, Put
  <1>3. /\ DOMAIN lease' = DOMAIN lease \cup {t}
        /\ lease'[t] = [session |-> s, used |-> now]
        /\ \A x \in DOMAIN lease : x # t => lease'[x] = lease[x]
    BY DEF Bind, Put
  <1>4. SessionsOpen' /\ SnapshotFollowsExport'
    BY <1>1 DEF LeaseInv, SessionsOpen, SnapshotFollowsExport, Registered
  <1>5. UsesPast'
    BY <1>1, <1>3, LeaseTypes DEF LeaseInv, UsesPast
  <1>6. HistoryFollowsLease'
    <2>1. DOMAIN bound' \subseteq DOMAIN lease'
      BY <1>2, <1>3 DEF LeaseInv, HistoryFollowsLease
    <2>2. bound'[t].session = lease'[t].session /\ lease'[t].used <= bound'[t].lastUsed
      BY <1>2, <1>3, LeaseTypes DEF LeaseInv
    <2>3. \A x \in DOMAIN bound : x # t =>
            bound'[x] = bound[x] /\ lease'[x] = lease[x] /\ (BoundIsLive(x)' <=> BoundIsLive(x))
      BY <1>1, <1>2, <1>3 DEF LeaseInv, HistoryFollowsLease, BoundIsLive, Registered
    <2> QED
      BY <2>1, <2>2, <2>3, <1>1, <1>2 DEF LeaseInv, HistoryFollowsLease
  <1> QED
    BY <1>4, <1>5, <1>6 DEF LeaseInv

\* The snapshot takes over the last uses.
LEMMA ExportLease == ASSUME LeaseInv, TypeOK', ExportBoundHistory PROVE LeaseInv'
  <1>1. UNCHANGED <<now, sessions, bound, life, lease>>
    BY DEF ExportBoundHistory, mgrVars
  <1>2. DOMAIN exported' = DOMAIN bound /\ \A t \in DOMAIN bound : exported'[t] = lease[t].used
    BY DEF ExportBoundHistory, LeaseInv, HistoryFollowsLease
  <1>3. /\ DOMAIN snapshot' = {u \in DOMAIN bound : ~BoundExpired(u)}
        /\ \A t \in DOMAIN snapshot' :
             /\ snapshot'[t].session = NoSession
             /\ snapshot'[t].lastUsed = IF BoundIsLive(t) THEN now ELSE bound[t].lastUsed
    <2>1. \A t \in DOMAIN bound : bound[t] \in History
      BY DEF LeaseInv, TypeOK, IsMap
    <2> QED
      BY <2>1 DEF ExportBoundHistory, History
  <1>4. SessionsOpen' /\ HistoryFollowsLease'
    BY <1>1 DEF LeaseInv, SessionsOpen, HistoryFollowsLease, BoundIsLive, Registered
  <1>5. UsesPast'
    BY <1>1, <1>2 DEF LeaseInv, UsesPast, HistoryFollowsLease
  <1>6. SnapshotFollowsExport'
    <2> SUFFICES ASSUME NEW t \in DOMAIN bound
                 PROVE  IF t \in DOMAIN snapshot' THEN lease[t].used <= snapshot'[t].lastUsed
                        ELSE now - lease[t].used > BoundTTL
      BY <1>1, <1>2, <1>3 DEF SnapshotFollowsExport
    <2>1. t \in DOMAIN lease /\ lease[t].used <= now
          /\ (BoundIsLive(t) \/ lease[t].used <= bound[t].lastUsed)
      BY DEF LeaseInv, UsesPast, HistoryFollowsLease
    <2> QED
      BY <2>1, <1>3, LeaseTypes DEF LeaseInv, BoundExpired
  <1> QED
    BY <1>4, <1>5, <1>6 DEF LeaseInv

\* A new process starts from the snapshot.
LEMMA ImportLease == ASSUME LeaseInv, TypeOK', ImportBoundHistory PROVE LeaseInv'
  <1>1. /\ now' = now /\ DOMAIN sessions' = {}
        /\ DOMAIN snapshot' = {} /\ DOMAIN exported' = {}
    BY EmptyIsMap DEF ImportBoundHistory
  <1>2. /\ DOMAIN bound' \subseteq DOMAIN snapshot
        /\ \A t \in DOMAIN bound' : bound'[t] = snapshot[t]
    BY DEF ImportBoundHistory, Delete
  <1>3. /\ DOMAIN lease' = DOMAIN exported
        /\ \A t \in DOMAIN exported : lease'[t].session = NoSession /\ lease'[t].used = exported[t]
    BY DEF ImportBoundHistory
  <1>4. SessionsOpen' /\ SnapshotFollowsExport'
    BY <1>1 DEF SessionsOpen, SnapshotFollowsExport, Registered
  <1>5. UsesPast'
    BY <1>1, <1>3 DEF LeaseInv, UsesPast
  <1>6. HistoryFollowsLease'
    BY <1>2, <1>3 DEF LeaseInv, SnapshotFollowsExport, HistoryFollowsLease
  <1> QED
    BY <1>4, <1>5, <1>6 DEF LeaseInv

\* A refresh renews the lease of its history and extends it to the new token.
LEMMA CommitLease == ASSUME LeaseInv, TypeOK', NEW r \in Refresher, Commit(r) PROVE LeaseInv'
  <1> DEFINE c == refresh[r]
  <1>1. UNCHANGED <<now, sessions, life, snapshot, exported>> /\ c.prev \in DOMAIN bound
    BY DEF Commit
  <1>2. bound[c.prev] \in History /\ c.prev \in DOMAIN lease
    BY <1>1 DEF LeaseInv, TypeOK, IsMap, HistoryFollowsLease
  <1>3. /\ DOMAIN bound' = DOMAIN bound \cup {c.token}
        /\ \A x \in {c.prev, c.token} :
             bound'[x].session = bound[c.prev].session /\ bound'[x].lastUsed = now
        /\ \A x \in DOMAIN bound : x \notin {c.prev, c.token} => bound'[x] = bound[x]
    BY <1>1, <1>2 DEF Commit, Put, History
  <1>4. /\ DOMAIN lease' = DOMAIN lease \cup {c.token}
        /\ \A x \in {c.prev, c.token} :
             lease'[x].session = lease[c.prev].session /\ lease'[x].used = now
        /\ \A x \in DOMAIN lease : x \notin {c.prev, c.token} => lease'[x] = lease[x]
    BY <1>2 DEF Commit
  <1>5. SessionsOpen' /\ SnapshotFollowsExport'
    BY <1>1 DEF LeaseInv, SessionsOpen, SnapshotFollowsExport, Registered
  <1>6. UsesPast'
    BY <1>1, <1>4, LeaseTypes DEF LeaseInv, UsesPast
  <1>7. HistoryFollowsLease'
    <2>1. DOMAIN bound' \subseteq DOMAIN lease'
      BY <1>3, <1>4 DEF LeaseInv, HistoryFollowsLease
    <2>2. ASSUME NEW x \in {c.prev, c.token}
          PROVE  /\ \/ bound'[x].session = lease'[x].session
                    \/ /\ bound'[x].session = NoSession
                       /\ lease'[x].session \in Session /\ life'[lease'[x].session] = "closed"
                 /\ lease'[x].used <= bound'[x].lastUsed
      BY <1>1, <1>3, <1>4, LeaseTypes DEF LeaseInv, HistoryFollowsLease
    <2>3. ASSUME NEW x \in DOMAIN bound, x \notin {c.prev, c.token}
          PROVE  /\ \/ bound'[x].session = lease'[x].session
                    \/ /\ bound'[x].session = NoSession
                       /\ lease'[x].session \in Session /\ life'[lease'[x].session] = "closed"
                 /\ BoundIsLive(x)' \/ lease'[x].used <= bound'[x].lastUsed
      <3>1. bound'[x] = bound[x] /\ lease'[x] = lease[x] /\ (BoundIsLive(x)' <=> BoundIsLive(x))
        BY <2>3, <1>1, <1>3, <1>4 DEF LeaseInv, HistoryFollowsLease, BoundIsLive, Registered
      <3> QED
        BY <3>1, <1>1 DEF LeaseInv, HistoryFollowsLease
    <2> QED
      BY <2>1, <2>2, <2>3, <1>3 DEF HistoryFollowsLease
  <1> QED
    BY <1>5, <1>6, <1>7 DEF LeaseInv

\* Every step of the manager keeps the relation.
LEMMA NextLease == LeaseInv /\ TokenInv' /\ [Next]_vars => LeaseInv'
  <1> SUFFICES ASSUME LeaseInv, TokenInv', [Next]_vars PROVE LeaseInv'
    OBVIOUS
  <1>0. TypeOK'
    BY DEF TokenInv
  <1>1. CASE Tick
    BY <1>0, <1>1, TickLease
  <1>2. CASE \E s \in Session : RegisterSession(s)
    BY <1>0, <1>2, RegisterSessionLease
  <1>3. CASE \E id \in ID : RemoveSession(id)
    BY <1>0, <1>3, RemoveSessionLease
  <1>4. CASE \E t \in Token, o \in OwnerKey, s \in Session : Bind(t, o, s)
    BY <1>0, <1>4, BindLease
  <1>5. CASE ExportBoundHistory
    BY <1>0, <1>5, ExportLease
  <1>6. CASE ImportBoundHistory
    BY <1>0, <1>6, ImportLease
  <1>7. CASE \E r \in Refresher : Commit(r)
    BY <1>0, <1>7, CommitLease
  <1>8. CASE UNCHANGED <<now, sessions, bound, life, lease, snapshot, exported>>
    BY <1>0, <1>8, RemoveBoundLease
  <1>9. CASE \E K : RemoveBound(K)
    BY <1>0, <1>9, RemoveBoundLease DEF RemoveBound, Delete, ghostVars
  <1>10. CASE \E r \in Refresher : CommitRefused(r)
    BY <1>0, <1>10, RemoveBoundLease DEF CommitRefused, Delete, ghostVars
  <1> QED
    BY <1>1, <1>2, <1>3, <1>4, <1>5, <1>6, <1>7, <1>8, <1>9, <1>10
    DEF Next, TokenStep, Revoke, ReconnectStep, PreRegisterForOwner, RemovePendingForOwnerExcept,
        RemovePendingForOwnerExceptSession, RemovePendingForOwnerToken, SweepExpiredPending,
        RemovePending, RemoveBoundForOwner, RemoveBoundForOwnerExceptSession, SweepExpiredBound,
        ReserveExpired, Reserve, OwnerAlive, Rollback, TrackRequest, CompleteRequest,
        DrainInflight, vars, mgrVars, ghostVars

\* What a shim's lease says of its history holds in every reachable state.
THEOREM LeaseInvariant == Spec => []LeaseInv
  BY InitLease, NextLease, TokenInvariant, PTL DEF Spec

\* Reconnect history is lost only to a revocation or after more than
\* boundTokenTTL without a use, and a restart keeps what was exported, counted
\* from the last use before the export.
THEOREM HistoryKept == Spec => HistoryOutlivesSession
  <1> DEFINE Lost == \A t \in (DOMAIN bound \ DOMAIN bound') \cap DOMAIN lease :
                       Revoke \/ now - lease[t].used > BoundTTL
             Restored == \A t \in DOMAIN exported :
                           now - exported[t] <= BoundTTL => t \in DOMAIN bound'
             Kept == IF ImportBoundHistory THEN Restored ELSE Lost
  <1>1. ASSUME LeaseInv, NEW t \in DOMAIN bound, BoundExpired(t)
        PROVE  now - lease[t].used > BoundTTL
    <2>1. t \in DOMAIN lease /\ lease[t].used <= bound[t].lastUsed
      BY <1>1 DEF LeaseInv, HistoryFollowsLease, BoundExpired
    <2> QED
      BY <1>1, <2>1, LeaseTypes DEF LeaseInv, BoundExpired
  <1>2. LeaseInv /\ [Next]_vars => [Kept]_vars
    <2> SUFFICES ASSUME LeaseInv, Next PROVE Kept
      OBVIOUS
    <2>1. CASE ImportBoundHistory
      <3> SUFFICES ASSUME NEW t \in DOMAIN exported, now - exported[t] <= BoundTTL
                   PROVE  t \in DOMAIN bound'
        BY <2>1
      <3>1. t \in DOMAIN snapshot /\ exported[t] <= snapshot[t].lastUsed
        BY LeaseTypes DEF LeaseInv, SnapshotFollowsExport
      <3> QED
        BY <2>1, <3>1, LeaseTypes DEF LeaseInv, ImportBoundHistory, Delete
    <2>2. CASE ~ImportBoundHistory
      <3> SUFFICES ASSUME NEW t \in DOMAIN bound, t \notin DOMAIN bound', ~Revoke
                   PROVE  BoundExpired(t)
        BY <2>2, <1>1
      <3>1. ASSUME DOMAIN bound \subseteq DOMAIN bound' PROVE FALSE
        BY <3>1
      <3>2. CASE SweepExpiredBound
        BY <3>2 DEF SweepExpiredBound, RemoveBound, Delete
      <3>3. CASE \E r \in Refresher, prev \in Token : ReserveExpired(r, prev)
        BY <3>3 DEF ReserveExpired, RemoveBound, Delete
      <3>4. CASE \E r \in Refresher : CommitRefused(r)
        BY <3>4 DEF CommitRefused, Delete
      <3>5. CASE \E s \in Session : RegisterSession(s)
        BY <3>1, <3>5 DEF RegisterSession, Forget
      <3>6. CASE \E id \in ID : RemoveSession(id)
        BY <3>1, <3>6 DEF RemoveSession, Forget
      <3>7. CASE \E u \in Token, o \in OwnerKey, s \in Session : Bind(u, o, s)
        BY <3>1, <3>7 DEF Bind, Put
      <3>8. CASE \E r \in Refresher : Commit(r)
        BY <3>1, <3>8 DEF Commit, Put
      <3>9. CASE UNCHANGED bound
        BY <3>1, <3>9
      <3> QED
        BY <2>2, <3>2, <3>3, <3>4, <3>5, <3>6, <3>7, <3>8, <3>9
        DEF Next, Tick, ExportBoundHistory, TokenStep, ReconnectStep, PreRegisterForOwner,
            RemovePendingForOwnerExcept, RemovePendingForOwnerExceptSession,
            RemovePendingForOwnerToken, SweepExpiredPending, RemovePending, Reserve, OwnerAlive,
            Rollback, TrackRequest, CompleteRequest, DrainInflight, mgrVars
    <2> QED
      BY <2>1, <2>2
  <1> QED
    BY <1>2, LeaseInvariant, PTL DEF Spec, HistoryOutlivesSession

-----------------------------------------------------------------------------
(* Admission, classification and removal *)

\* Who holds admissionMu, and in which of its sections.
LockHeld ==
  /\ admissionMu = "accept" <=> accept.at \in {"locked", "bound", "published"}
  /\ admissionMu = "classify" <=> classifier \in {"frozen", "revoking"}
  /\ admissionMu = "close" <=> listener = "closed"
  /\ admissionMu = "accept" => listener = "open"

\* The manager belongs to one owner: every entry is keyed to it.
OneOwner ==
  /\ \A t \in DOMAIN pending : pending[t].owner = Owner
  /\ \A t \in DOMAIN bound : bound[t].owner = Owner
  /\ \A r \in Refresher : refresh[r] # Idle => refresh[r].owner = Owner

\* A reservation of the spawn path comes from no session, and is not the one
\* the creating shim was given.
FreshFromNobody ==
  /\ initial \notin fresh /\ initial \in issued \cup {NoToken}
  /\ \A t \in fresh \cap DOMAIN pending : pending[t].source = NoSession

\* From the revocation on, also while a later commit has admission frozen.
StaysSealed ==
  /\ classifier = "idle" => mode = "none"
  /\ mode = "isolated" /\ classifier # "live_marked" => fresh \cap DOMAIN pending = {}

\* After the purge only calls that have yet to ask whether the owner is alive,
\* or were told that it is gone, hold a reservation.
StaysPurged ==
  listener = "purged" =>
    /\ DOMAIN pending \cap delivered = {}
    /\ \A r \in Refresher : refresh[r].at = "alive" => refresh[r].token \notin DOMAIN pending

\* The removal waits for the accept loop and the readers.
RemovalWaits ==
  /\ accept = Joined => listener = "purged" /\ ownerSessions = {} /\ sessions = EmptyMap
  /\ cleanup \in {"finalized", "removed"} => accept = Joined /\ ~busy
  /\ cleanup = "removed" => bound = EmptyMap

AdmissionInv ==
  /\ TokenInv
  /\ AdmissionTypeOK
  /\ LockHeld
  /\ OneOwner
  /\ FreshFromNobody
  /\ StaysSealed
  /\ StaysPurged
  /\ RemovalWaits

-----------------------------------------------------------------------------
\* A map without keys is the empty map.
LEMMA NoKeys == ASSUME NEW V, NEW m \in [{} -> V] PROVE m = EmptyMap
  BY DEF EmptyMap

\* NewOwner establishes the invariant.
LEMMA InitAdmission == AdmissionInit => AdmissionInv
  <1> SUFFICES ASSUME AdmissionInit PROVE AdmissionInv
    OBVIOUS
  <1>1. TokenInv
    BY InitInv DEF AdmissionInit
  <1>2. AdmissionTypeOK
    BY <1>1 DEF AdmissionInit, AdmissionTypeOK, TokenInv
  <1>3. LockHeld /\ FreshFromNobody /\ StaysSealed /\ StaysPurged /\ RemovalWaits
    BY DEF AdmissionInit, LockHeld, FreshFromNobody, StaysSealed, StaysPurged, RemovalWaits,
           Wait, Joined
  <1>4. OneOwner
    BY EmptyIsMap DEF AdmissionInit, Init, OneOwner
  <1> QED
    BY <1>1, <1>2, <1>3, <1>4 DEF AdmissionInv

-----------------------------------------------------------------------------
(* Every step is a step of the manager, removes some reservations, or      *)
(* removes the entry.                                                      *)

\* A connection between its stages is a record of a token and a session.
LEMMA Connected ==
  ASSUME AdmissionInv, accept.at \in AcceptStage
  PROVE  accept \in Connection /\ accept.token \in Token /\ accept.session \in Session
  BY DEF AdmissionInv, AdmissionTypeOK, Connection, AcceptStage, Wait, Ended, Joined

\* prepareOwnerRemovalLocked
LEMMA RemoveEntryToken == ASSUME TokenInv, RemoveEntry PROVE TokenInv'
  <1>1. /\ IsMap(pending', Token, Reservation) /\ DOMAIN pending' \subseteq DOMAIN pending
        /\ \A x \in DOMAIN pending' : pending'[x] = pending[x]
    BY DEF TokenInv, TypeOK, IsMap, Delete, RemoveEntry
  <1>2. /\ IsMap(bound', Token, History) /\ DOMAIN bound' \subseteq DOMAIN bound
        /\ \A x \in DOMAIN bound' : bound'[x] = bound[x]
    BY DEF TokenInv, TypeOK, IsMap, Delete, RemoveEntry
  <1>3. TypeOK'
    BY <1>1, <1>2 DEF TokenInv, TypeOK, RemoveEntry, ghostVars
  <1> QED
    BY <1>1, <1>2, <1>3
    DEF TokenInv, RefreshHolds, HistoryIssued, TokenSingleUse, NoLeakedReservation, OwnerScope,
        RemoveEntry, ghostVars

\* Admission, classification and removal drive the manager only through its
\* methods, so that its invariant holds in the composition.
LEMMA ManagerInv == ASSUME AdmissionInv, [AdmissionNext]_allVars PROVE TokenInv'
  <1>0. TokenInv
    BY DEF AdmissionInv
  <1>1. CASE UNCHANGED vars
    BY <1>0, <1>1, NextInv
  <1>2. CASE \E t \in Token : PreRegister(t) \/ PreRegisterInitial(t)
    BY <1>0, <1>2, PreRegisterInv, AdmissionAssumption DEF PreRegister, PreRegisterInitial
  <1>3. CASE \E K : RemovePending(K)
    BY <1>0, <1>3, RemovePendingInv
  <1>4. CASE AcceptDeny \/ AcceptRefuse
    BY <1>0, <1>4, RemovePendingInv DEF AcceptDeny, AcceptRefuse, DropConnection, RemovePending
  <1>5. CASE AcceptBind
    BY <1>0, <1>5, Connected, BindInv, AdmissionAssumption DEF AcceptBind, AcceptStage
  <1>6. CASE AcceptRegister
    BY <1>0, <1>6, Connected, RegisterSessionInv DEF AcceptRegister, AcceptStage
  <1>7. CASE \E s \in Session : Leave(s)
    <2>1. PICK s \in Session : RemoveSession(SessionID[s])
      BY <1>7 DEF Leave
    <2>2. SessionID[s] \in ID
      BY DEF ID
    <2> QED
      BY <1>0, <2>1, <2>2, RemoveSessionInv
  <1>8. CASE CommitEvict
    BY <1>0, <1>8, RemoveBoundInv DEF CommitEvict, RemoveBoundForOwnerExceptSession
  <1>9. CASE RemoveEntry
    BY <1>0, <1>9, RemoveEntryToken
  <1>10. CASE RefreshStep
    <2>1. ReconnectStep
      BY <1>10 DEF RefreshStep, ReconnectStep, OwnerIsAccepting
    <2> QED
      BY <1>0, <2>1, NextInv DEF Next
  <1>11. CASE SweepStep
    BY <1>0, <1>11, NextInv DEF SweepStep, Next, TokenStep
  <1> QED
    BY <1>1, <1>2, <1>3, <1>4, <1>5, <1>6, <1>7, <1>8, <1>9, <1>10, <1>11
    DEF AdmissionNext, AcceptStep, ClassifyStep, RemoveStep, allVars,
        HandleSpawnResponseFailure, RemovePendingForOwnerToken, AcceptLookup, AcceptAuthorize,
        AcceptLock, AcceptBindRefused, AcceptPublish, AcceptEnd, AcceptJoin, PeerLeaves,
        WorkBegins, WorkReturns, Unlink,
        ClassifyLive, LiveRevoke, RemovePendingForOwnerExcept, EvictExtraSessions, CommitFreeze,
        CommitUnsealed, CommitIsolated, RemovePendingForOwnerExceptSession, ReaperSweep,
        CountSessions, CountPending, ClaimRemoval, CloseListener, PurgeReservations,
        CloseSessions, Finalize

-----------------------------------------------------------------------------
(* The owner's own state, one conjunct of the invariant at a time.         *)

\* The stages of the accept loop are told apart by their label.
LEMMA Stages ==
  /\ Wait.at = "wait" /\ Ended.at = "ended" /\ Joined.at = "joined"
  /\ \A c \in Connection : c.at \in AcceptStage
  /\ \A c \in Connection, a \in AcceptStage :
       [c EXCEPT !.at = a] \in Connection /\ [c EXCEPT !.at = a].at = a
  BY DEF Wait, Ended, Joined, Connection

\* The refreshers, the clock and the sweeps leave the owner alone.
LEMMA ManagerOnly == ASSUME RefreshStep \/ SweepStep \/ UNCHANGED allVars PROVE UNCHANGED ownerVars
  BY DEF RefreshStep, SweepStep, allVars

\* admissionMu is taken and released in pairs, and closeListener waits for it.
LEMMA LockStep == ASSUME AdmissionInv, [AdmissionNext]_allVars PROVE LockHeld'
  <1> USE DEF LockHeld
  <1>0. LockHeld /\ accept \in Connection \cup {Wait, Ended, Joined}
    BY DEF AdmissionInv, AdmissionTypeOK
  <1>1. CASE UNCHANGED <<acceptVars, classifier, listener>>
    BY <1>0, <1>1 DEF acceptVars
  <1>2. CASE AcceptStep \/ \E t \in Token, s \in Session : AcceptLookup(t, s)
    <2>1. CASE \E t \in Token, s \in Session : AcceptLookup(t, s)
      BY <1>0, <2>1, Stages DEF AcceptLookup, classVars, removeVars
    <2>2. CASE AcceptAuthorize \/ AcceptLock \/ AcceptBind \/ AcceptPublish
      <3>1. accept \in Connection
        BY <1>0, <2>2, Stages DEF AcceptAuthorize, AcceptLock, AcceptBind, AcceptPublish
      <3>2. \A a : [accept EXCEPT !.at = a].at = a
        BY <3>1 DEF Connection
      <3> QED
        BY <1>0, <2>2, <3>2
        DEF AcceptAuthorize, AcceptLock, AcceptBind, AcceptPublish, classVars, removeVars
    <2>3. CASE AcceptDeny \/ AcceptRefuse \/ AcceptBindRefused \/ AcceptRegister
      BY <1>0, <2>3, Stages
      DEF AcceptDeny, AcceptRefuse, DropConnection, AcceptBindRefused, AcceptRegister, classVars,
          removeVars
    <2>4. CASE AcceptEnd \/ AcceptJoin
      BY <1>0, <2>4, Stages DEF AcceptEnd, AcceptJoin, classVars, removeVars
    <2> QED
      BY <1>2, <2>1, <2>2, <2>3, <2>4 DEF AcceptStep
  <1>3. CASE ClassifyStep
    BY <1>0, <1>3
    DEF ClassifyStep, ClassifyLive, LiveRevoke, EvictExtraSessions, CommitFreeze, CommitUnsealed,
        CommitIsolated, CommitEvict, acceptVars, removeVars
  <1>4. CASE CloseListener \/ PurgeReservations
    BY <1>0, <1>4 DEF CloseListener, PurgeReservations, classVars
  <1> QED
    BY <1>1, <1>2, <1>3, <1>4, ManagerOnly
    DEF AdmissionNext, RemoveStep, PreRegister, PreRegisterInitial, HandleSpawnResponseFailure,
        PeerLeaves,
        WorkBegins, WorkReturns, Unlink, Leave, ReaperSweep, CountSessions, CountPending, ClaimRemoval,
        CloseSessions, Finalize, RemoveEntry, ownerVars, acceptVars, classVars, removeVars

\* Every variable of the owner keeps its type.
LEMMA TypeStep == ASSUME AdmissionInv, [AdmissionNext]_allVars PROVE AdmissionTypeOK'
  <1> USE DEF AdmissionTypeOK, sessVars, acceptVars, classVars, removeVars
  <1>0. AdmissionTypeOK /\ TypeOK'
    BY ManagerInv DEF AdmissionInv, TokenInv
  <1>1. CASE UNCHANGED ownerVars /\ issued \subseteq issued'
    BY <1>0, <1>1 DEF ownerVars
  <1>2. CASE \E t \in Token : PreRegister(t) \/ PreRegisterInitial(t) \/ HandleSpawnResponseFailure(t)
    <2>1. CASE \E t \in Token : PreRegister(t)
      BY <1>0, <2>1 DEF PreRegister, PreRegisterForOwner
    <2>2. CASE \E t \in Token : PreRegisterInitial(t)
      BY <1>0, <2>2 DEF PreRegisterInitial, PreRegisterForOwner
    <2>3. CASE \E t \in Token : HandleSpawnResponseFailure(t)
      <3>1. issued' = issued
        BY <2>3 DEF HandleSpawnResponseFailure, RemovePendingForOwnerToken, RemovePending, ghostVars
      <3>2. cleanup' \in {"armed", cleanup} /\ recent' \in BOOLEAN
        BY <1>0, <2>3 DEF HandleSpawnResponseFailure
      <3>3. UNCHANGED <<sessVars, acceptVars, classVars, listener, removal>>
        BY <2>3 DEF HandleSpawnResponseFailure
      <3> QED
        BY <1>0, <3>1, <3>2, <3>3
    <2> QED
      BY <1>2, <2>1, <2>2, <2>3
  <1>3. CASE AcceptStep \/ \E t \in Token, s \in Session : AcceptLookup(t, s)
    <2>1. CASE \E t \in Token, s \in Session : AcceptLookup(t, s)
      BY <1>0, <2>1 DEF AcceptLookup, Connection, AcceptStage, vars, ghostVars
    <2>2. CASE AcceptAuthorize \/ AcceptLock \/ AcceptBind \/ AcceptPublish
      <3>1. accept \in Connection /\ accept.session \in Session
        BY <2>2, Connected
        DEF AcceptAuthorize, AcceptLock, AcceptBind, AcceptPublish, AcceptStage
      <3>2. accept' \in Connection
        BY <2>2, <3>1, Stages
        DEF AcceptAuthorize, AcceptLock, AcceptBind, AcceptPublish, AcceptStage
      <3> QED
        BY <1>0, <2>2, <3>1, <3>2
        DEF AcceptAuthorize, AcceptLock, AcceptBind, Bind, AcceptPublish, vars, ghostVars
    <2>3. CASE AcceptDeny \/ AcceptRefuse \/ AcceptBindRefused \/ AcceptRegister
      <3>1. accept.session \in Session
        BY <2>3, Connected DEF AcceptDeny, AcceptRefuse, AcceptBindRefused, AcceptRegister, AcceptStage
      <3> QED
        BY <1>0, <2>3, <3>1
        DEF AcceptDeny, AcceptRefuse, DropConnection, AcceptBindRefused, AcceptRegister,
            RegisterSession, vars, ghostVars
    <2>4. CASE AcceptEnd \/ AcceptJoin
      BY <1>0, <2>4 DEF AcceptEnd, AcceptJoin, vars, ghostVars
    <2> QED
      BY <1>3, <2>1, <2>2, <2>3, <2>4 DEF AcceptStep
  <1>4. CASE \E s \in Session : PeerLeaves(s) \/ Unlink(s) \/ Leave(s)
    <2> PICK s \in Session : PeerLeaves(s) \/ Unlink(s) \/ Leave(s)
      BY <1>4
    <2>1. CASE PeerLeaves(s)
      BY <1>0, <2>1 DEF PeerLeaves, vars, ghostVars
    <2>2. CASE Unlink(s)
      <3>1. busy' \in BOOLEAN
        BY <1>0, <2>2, Zenon DEF Unlink
      <3> QED
        BY <1>0, <2>2, <3>1 DEF Unlink, vars, ghostVars
    <2>3. CASE Leave(s)
      <3>1. issued' = issued
        BY <2>3 DEF Leave, RemoveSession, ghostVars
      <3>2. cleanup' \in {"armed", cleanup} /\ recent' \in BOOLEAN
        BY <2>3 DEF Leave
      <3> QED
        BY <1>0, <2>3, <3>1, <3>2 DEF Leave
    <2> QED
      BY <2>1, <2>2, <2>3
  <1>5. CASE ClassifyStep
    <2>1. CASE (\E m \in {"shared", "isolated"} : ClassifyLive(m)) \/ LiveRevoke
      BY <1>0, <2>1
      DEF ClassifyLive, LiveRevoke, RemovePendingForOwnerExcept, RemovePending, vars, ghostVars
    <2>2. CASE EvictExtraSessions \/ CommitFreeze
      BY <1>0, <2>2 DEF EvictExtraSessions, CommitFreeze, vars, ghostVars
    <2>3. CASE \E m \in {"none", "shared", "isolated"} : CommitUnsealed(m)
      BY <1>0, <2>3 DEF CommitUnsealed, vars, ghostVars
    <2>4. CASE \E k \in Session \cup {NoSession} : CommitIsolated(k)
      BY <1>0, <2>4
      DEF CommitIsolated, RemovePendingForOwnerExcept, RemovePendingForOwnerExceptSession,
          RemovePending, vars, ghostVars
    <2>5. CASE CommitEvict
      BY <1>0, <2>5
      DEF CommitEvict, RemoveBoundForOwnerExceptSession, RemoveBound, vars, ghostVars
    <2> QED
      BY <1>5, <2>1, <2>2, <2>3, <2>4, <2>5 DEF ClassifyStep
  <1>6. CASE RemoveStep
    <2>1. CASE ReaperSweep \/ CountSessions \/ CountPending
      BY <1>0, <2>1 DEF ReaperSweep, CountSessions, CountPending, vars, ghostVars
    <2>2. CASE \E who \in {"idle", "operator"} : ClaimRemoval(who)
      BY <1>0, <2>2 DEF ClaimRemoval, vars, ghostVars
    <2>3. CASE CloseListener \/ PurgeReservations
      BY <1>0, <2>3
      DEF CloseListener, PurgeReservations, RemovePendingForOwnerExcept, RemovePending, vars, ghostVars
    <2>4. CASE CloseSessions
      BY <1>0, <2>4 DEF CloseSessions, vars, ghostVars
    <2>5. CASE Finalize \/ RemoveEntry
      BY <1>0, <2>5 DEF Finalize, RemoveEntry, vars, ghostVars
    <2> QED
      BY <1>6, <2>1, <2>2, <2>3, <2>4, <2>5 DEF RemoveStep
  <1>8. CASE WorkBegins \/ WorkReturns
    <2>1. busy' \in BOOLEAN
      BY <1>8, Zenon DEF WorkBegins, WorkReturns
    <2> QED
      BY <1>0, <1>8, <2>1 DEF WorkBegins, WorkReturns, vars, ghostVars
  <1>7. CASE RefreshStep \/ SweepStep \/ UNCHANGED allVars
    <2>1. issued \subseteq issued'
      BY <1>7
      DEF RefreshStep, ReserveExpired, Reserve, OwnerAlive, Rollback, CommitRefused, Commit,
          SweepStep, Tick, SweepExpiredPending, SweepExpiredBound, RemovePending, RemoveBound,
          allVars, vars, ghostVars
    <2> QED
      BY <1>1, <1>7, <2>1, ManagerOnly
  <1> QED
    BY <1>2, <1>3, <1>4, <1>5, <1>6, <1>7, <1>8 DEF AdmissionNext

-----------------------------------------------------------------------------
(* Reservations.                                                           *)

Shrinks ==
  /\ DOMAIN pending' \subseteq DOMAIN pending
  /\ \A t \in DOMAIN pending' : pending'[t] = pending[t]
  /\ issued' = issued

\* Only the spawn path and the first section of a refresh add a reservation; no
\* other step adds one or changes one.
LEMMA WhoReserves ==
  ASSUME AdmissionInv, [AdmissionNext]_allVars
  PROVE  \/ \E t \in Token : PreRegister(t) \/ PreRegisterInitial(t)
         \/ /\ \E r \in Refresher, prev \in Token, t \in Token : Reserve(r, prev, t)
            /\ UNCHANGED ownerVars
         \/ Shrinks
  <1>1. CASE UNCHANGED <<pending, issued>>
    BY <1>1 DEF Shrinks
  <1>2. CASE \E K : RemovePending(K)
    BY <1>2 DEF Shrinks, RemovePending, Delete, ghostVars
  <1>3. CASE AcceptDeny \/ AcceptRefuse \/ AcceptBind
    BY <1>3 DEF Shrinks, AcceptDeny, AcceptRefuse, DropConnection, AcceptBind, Bind, Delete, ghostVars
  <1>4. CASE RemoveEntry
    BY <1>4 DEF Shrinks, RemoveEntry, Delete, ghostVars
  <1>5. CASE RefreshStep
    <2>1. CASE \E r \in Refresher, prev \in Token : ReserveExpired(r, prev)
      BY <1>1, <2>1 DEF ReserveExpired, RemoveBound, ghostVars
    <2>2. CASE \E r \in Refresher : OwnerAlive(r, OwnerIsAccepting)
      BY <1>1, <2>2 DEF OwnerAlive, mgrVars, ghostVars
    <2>3. CASE \E r \in Refresher : Rollback(r) \/ CommitRefused(r) \/ Commit(r)
      BY <2>3 DEF Rollback, CommitRefused, Commit, Shrinks, Delete, ghostVars
    <2> QED
      BY <1>5, <2>1, <2>2, <2>3 DEF RefreshStep
  <1>6. CASE Tick \/ SweepExpiredPending \/ SweepExpiredBound
    BY <1>1, <1>2, <1>6 DEF Tick, SweepExpiredPending, SweepExpiredBound, RemoveBound, mgrVars, ghostVars
  <1>7. CASE AcceptRegister \/ CommitEvict \/ \E s \in Session : Leave(s)
    BY <1>1, <1>7
    DEF AcceptRegister, RegisterSession, CommitEvict, RemoveBoundForOwnerExceptSession,
        RemoveBound, Leave, RemoveSession, ghostVars
  <1>8. CASE UNCHANGED vars
    BY <1>1, <1>8 DEF vars, mgrVars, ghostVars
  <1> QED
    BY <1>2, <1>3, <1>4, <1>5, <1>6, <1>7, <1>8
    DEF AdmissionNext, AcceptStep, ClassifyStep, RemoveStep, SweepStep, allVars,
        HandleSpawnResponseFailure, RemovePendingForOwnerToken, AcceptLookup, AcceptAuthorize,
        AcceptLock, AcceptBindRefused, AcceptPublish, AcceptEnd, AcceptJoin, PeerLeaves,
        WorkBegins, WorkReturns, Unlink,
        ClassifyLive, LiveRevoke, RemovePendingForOwnerExcept, EvictExtraSessions, CommitFreeze,
        CommitUnsealed, CommitIsolated, RemovePendingForOwnerExceptSession, ReaperSweep,
        CountSessions, CountPending, ClaimRemoval, CloseListener, PurgeReservations,
        CloseSessions, Finalize

KeepsOwners ==
  /\ DOMAIN bound' \subseteq DOMAIN bound
  /\ \A t \in DOMAIN bound' : bound'[t].owner = bound[t].owner

\* Only a handshake and the last section of a refresh add history; no other step
\* adds any, or moves one to another owner.
LEMMA WhoBinds ==
  ASSUME AdmissionInv, [AdmissionNext]_allVars
  PROVE  \/ AcceptBind
         \/ UNCHANGED ownerVars /\ \E r \in Refresher : Commit(r)
         \/ KeepsOwners
  <1>1. CASE UNCHANGED bound
    BY <1>1 DEF KeepsOwners
  <1>2. CASE \E K : RemoveBound(K)
    BY <1>2 DEF KeepsOwners, RemoveBound, Delete
  <1>3. CASE RemoveEntry
    BY <1>3 DEF KeepsOwners, RemoveEntry, Delete
  <1>4. CASE AcceptRegister \/ \E s \in Session : Leave(s)
    <2>1. bound' = bound \/ \E s : bound' = Forget(s)
      BY <1>4 DEF AcceptRegister, RegisterSession, Leave, RemoveSession
    <2> QED
      BY <1>1, <2>1, ForgetMap DEF KeepsOwners, AdmissionInv, TokenInv
  <1>5. CASE RefreshStep
    <2>1. CASE \E r \in Refresher, prev \in Token :
                 ReserveExpired(r, prev) \/ \E t \in Token : Reserve(r, prev, t)
      BY <1>1, <1>2, <2>1 DEF ReserveExpired, Reserve
    <2>2. CASE \E r \in Refresher : OwnerAlive(r, OwnerIsAccepting) \/ Rollback(r) \/ CommitRefused(r)
      BY <2>2 DEF OwnerAlive, Rollback, CommitRefused, mgrVars, KeepsOwners, Delete
    <2> QED
      BY <1>5, <2>1, <2>2 DEF RefreshStep
  <1>6. CASE Tick \/ SweepExpiredPending \/ SweepExpiredBound \/ CommitEvict
    BY <1>1, <1>2, <1>6
    DEF Tick, SweepExpiredPending, RemovePending, SweepExpiredBound, CommitEvict,
        RemoveBoundForOwnerExceptSession, mgrVars
  <1>7. CASE UNCHANGED vars \/ \E K : RemovePending(K)
    BY <1>1, <1>7 DEF RemovePending, vars, mgrVars
  <1>8. CASE AcceptDeny \/ AcceptRefuse \/ \E t \in Token : PreRegister(t) \/ PreRegisterInitial(t)
    BY <1>1, <1>8
    DEF AcceptDeny, AcceptRefuse, DropConnection, PreRegister, PreRegisterInitial, PreRegisterForOwner
  <1> QED
    BY <1>2, <1>3, <1>4, <1>5, <1>6, <1>7, <1>8
    DEF AdmissionNext, AcceptStep, ClassifyStep, RemoveStep, SweepStep, allVars,
        HandleSpawnResponseFailure, RemovePendingForOwnerToken, AcceptLookup, AcceptAuthorize,
        AcceptLock, AcceptBindRefused, AcceptPublish, AcceptEnd, AcceptJoin, PeerLeaves,
        WorkBegins, WorkReturns, Unlink,
        ClassifyLive, LiveRevoke, RemovePendingForOwnerExcept, EvictExtraSessions, CommitFreeze,
        CommitUnsealed, CommitIsolated, RemovePendingForOwnerExceptSession, ReaperSweep,
        CountSessions, CountPending, ClaimRemoval, CloseListener, PurgeReservations,
        CloseSessions, Finalize

\* What a step does to a RegisterReconnect call: nothing, end it, start it, or
\* tell it whether the owner is alive.
LEMMA WhoRefreshes ==
  ASSUME AdmissionInv, [AdmissionNext]_allVars, NEW x \in Refresher
  PROVE  \/ refresh'[x] = refresh[x]
         \/ refresh'[x] = Idle
         \/ \E prev \in Token, t \in Token :
              /\ Reserve(x, prev, t)
              /\ refresh'[x] = [at |-> "check", prev |-> prev, token |-> t, owner |-> bound[prev].owner]
         \/ /\ UNCHANGED <<ownerVars, pending, delivered>>
            /\ refresh[x] # Idle /\ refresh[x].at = "check"
            /\ refresh'[x].owner = refresh[x].owner /\ refresh'[x].token = refresh[x].token
            /\ refresh'[x].at = IF OwnerIsAccepting THEN "alive" ELSE "gone"
  <1>0. refresh \in [Refresher -> RefreshCall \cup {Idle}]
    BY DEF AdmissionInv, TokenInv, TypeOK
  <1>1. CASE UNCHANGED refresh
    BY <1>1
  <1>2. CASE RefreshStep
    <2>1. CASE \E r \in Refresher, prev \in Token : ReserveExpired(r, prev)
      BY <1>1, <2>1 DEF ReserveExpired, RemoveBound
    <2>2. CASE \E r \in Refresher, prev \in Token, t \in Token : Reserve(r, prev, t)
      <3>1. PICK r \in Refresher, prev \in Token, t \in Token : Reserve(r, prev, t)
        BY <2>2
      <3>2. refresh' = [refresh EXCEPT ![r] = [at |-> "check", prev |-> prev, token |-> t,
                                               owner |-> bound[prev].owner]]
        BY <3>1 DEF Reserve
      <3>3. CASE r = x
        BY <1>0, <3>1, <3>2, <3>3
      <3>4. CASE r # x
        BY <1>0, <3>2, <3>4
      <3> QED
        BY <3>3, <3>4
    <2>3. CASE \E r \in Refresher : OwnerAlive(r, OwnerIsAccepting)
      <3>1. PICK r \in Refresher : OwnerAlive(r, OwnerIsAccepting)
        BY <2>3
      <3>2. CASE r = x
        <4>1. refresh[x] \in RefreshCall /\ refresh[x] # Idle
          BY <1>0, <3>1, <3>2 DEF OwnerAlive, Idle
        <4>2. refresh'[x] = [refresh[x] EXCEPT !.at = IF OwnerIsAccepting THEN "alive" ELSE "gone"]
          BY <1>0, <3>1, <3>2 DEF OwnerAlive
        <4>3. UNCHANGED <<ownerVars, pending, delivered>> /\ refresh[x].at = "check"
          BY <1>2, <3>1, <3>2 DEF RefreshStep, OwnerAlive, mgrVars, ghostVars
        <4> QED
          BY <4>1, <4>2, <4>3 DEF RefreshCall
      <3> QED
        BY <1>0, <3>1, <3>2 DEF OwnerAlive
    <2>4. CASE \E r \in Refresher : Rollback(r) \/ CommitRefused(r) \/ Commit(r)
      BY <1>0, <2>4 DEF Rollback, CommitRefused, Commit
    <2> QED
      BY <1>2, <2>1, <2>2, <2>3, <2>4 DEF RefreshStep
  <1>3. CASE SweepStep
    BY <1>1, <1>3 DEF SweepStep, Tick, SweepExpiredPending, SweepExpiredBound, RemovePending, RemoveBound
  <1>4. CASE UNCHANGED vars \/ (\E K : RemovePending(K)) \/ (\E K : RemoveBound(K))
    BY <1>1, <1>4 DEF RemovePending, RemoveBound, vars
  <1>5. CASE AcceptDeny \/ AcceptRefuse \/ \E t \in Token : PreRegister(t) \/ PreRegisterInitial(t)
    BY <1>1, <1>5
    DEF AcceptDeny, AcceptRefuse, DropConnection, PreRegister, PreRegisterInitial, PreRegisterForOwner
  <1>6. CASE AcceptBind \/ AcceptRegister \/ RemoveEntry \/ \E s \in Session : Leave(s)
    BY <1>1, <1>6 DEF AcceptBind, Bind, AcceptRegister, RegisterSession, RemoveEntry, Leave, RemoveSession
  <1> QED
    BY <1>2, <1>3, <1>4, <1>5, <1>6
    DEF AdmissionNext, AcceptStep, ClassifyStep, RemoveStep, allVars,
        HandleSpawnResponseFailure, RemovePendingForOwnerToken, AcceptLookup, AcceptAuthorize,
        AcceptLock, AcceptBindRefused, AcceptPublish, AcceptEnd, AcceptJoin, PeerLeaves,
        WorkBegins, WorkReturns, Unlink,
        ClassifyLive, LiveRevoke, RemovePendingForOwnerExcept, EvictExtraSessions, CommitFreeze,
        CommitUnsealed, CommitIsolated, RemovePendingForOwnerExceptSession, CommitEvict,
        RemoveBoundForOwnerExceptSession, ReaperSweep, CountSessions, CountPending, ClaimRemoval,
        CloseListener, PurgeReservations, CloseSessions, Finalize

\* One owner key: refreshes derive theirs from the history.
LEMMA OwnerStep == ASSUME AdmissionInv, [AdmissionNext]_allVars PROVE OneOwner'
  <1>0. OneOwner /\ TypeOK
    BY DEF AdmissionInv, TokenInv
  <1>1. \A t \in DOMAIN pending' : pending'[t].owner = Owner
    <2>1. CASE \E t \in Token : PreRegister(t) \/ PreRegisterInitial(t)
      BY <1>0, <2>1 DEF OneOwner, PreRegister, PreRegisterInitial, PreRegisterForOwner, Put
    <2>2. CASE \E r \in Refresher, prev \in Token, t \in Token : Reserve(r, prev, t)
      BY <1>0, <2>2 DEF OneOwner, Reserve, Put
    <2>3. CASE Shrinks
      BY <1>0, <2>3 DEF OneOwner, Shrinks
    <2> QED
      BY <2>1, <2>2, <2>3, WhoReserves
  <1>2. \A t \in DOMAIN bound' : bound'[t].owner = Owner
    <2>1. CASE AcceptBind
      BY <1>0, <2>1 DEF OneOwner, AcceptBind, Bind, Put
    <2>2. CASE \E r \in Refresher : Commit(r)
      <3>1. PICK r \in Refresher : Commit(r)
        BY <2>2
      <3>2. refresh[r].owner = Owner /\ refresh[r].prev \in DOMAIN bound
        BY <1>0, <3>1 DEF OneOwner, Commit, Idle
      <3>3. [bound[refresh[r].prev] EXCEPT !.lastUsed = now].owner = Owner
        BY <1>0, <3>2 DEF OneOwner, TypeOK, IsMap, History
      <3> QED
        BY <1>0, <3>1, <3>2, <3>3 DEF OneOwner, Commit, Put
    <2>3. CASE KeepsOwners
      BY <1>0, <2>3 DEF OneOwner, KeepsOwners
    <2> QED
      BY <2>1, <2>2, <2>3, WhoBinds
  <1>3. \A x \in Refresher : refresh'[x] # Idle => refresh'[x].owner = Owner
    <2> SUFFICES ASSUME NEW x \in Refresher, refresh'[x] # Idle PROVE refresh'[x].owner = Owner
      OBVIOUS
    <2>1. CASE \E prev \in Token, t \in Token :
                 /\ Reserve(x, prev, t)
                 /\ refresh'[x] = [at |-> "check", prev |-> prev, token |-> t,
                                   owner |-> bound[prev].owner]
      BY <1>0, <2>1 DEF OneOwner, Reserve
    <2>2. CASE refresh[x] # Idle /\ refresh'[x].owner = refresh[x].owner
      BY <1>0, <2>2 DEF OneOwner
    <2> QED
      BY <1>0, <2>1, <2>2, WhoRefreshes DEF OneOwner
  <1> QED
    BY <1>1, <1>2, <1>3 DEF OneOwner

\* The spawn path's tokens are recorded when they are made.
LEMMA WhoSpawns ==
  ASSUME [AdmissionNext]_allVars
  PROVE  (\E t \in Token : PreRegister(t) \/ PreRegisterInitial(t)) \/ UNCHANGED <<fresh, initial>>
  <1> USE DEF classVars
  <1>1. CASE RefreshStep \/ SweepStep \/ UNCHANGED allVars
    BY <1>1, ManagerOnly DEF ownerVars
  <1>2. CASE \E t \in Token : HandleSpawnResponseFailure(t)
    BY <1>2 DEF HandleSpawnResponseFailure
  <1>3. CASE AcceptStep \/ \E t \in Token, s \in Session : AcceptLookup(t, s)
    BY <1>3
    DEF AcceptStep, AcceptLookup, AcceptAuthorize, AcceptDeny, AcceptRefuse, DropConnection,
        AcceptLock, AcceptBind, AcceptBindRefused, AcceptPublish, AcceptRegister, AcceptEnd,
        AcceptJoin
  <1>4. CASE WorkBegins \/ WorkReturns \/ \E s \in Session : PeerLeaves(s) \/ Unlink(s) \/ Leave(s)
    BY <1>4 DEF PeerLeaves, WorkBegins, WorkReturns, Unlink, Leave
  <1>5. CASE ClassifyStep
    BY <1>5
    DEF ClassifyStep, ClassifyLive, LiveRevoke, EvictExtraSessions, CommitFreeze, CommitUnsealed,
        CommitIsolated, CommitEvict
  <1>6. CASE RemoveStep
    BY <1>6
    DEF RemoveStep, ReaperSweep, CountSessions, CountPending, ClaimRemoval, CloseListener,
        PurgeReservations, CloseSessions, Finalize, RemoveEntry
  <1> QED
    BY <1>1, <1>2, <1>3, <1>4, <1>5, <1>6 DEF AdmissionNext

\* Tokens are generated anew, so a refresh never makes one of the spawn path.
LEMMA FreshStep == ASSUME AdmissionInv, [AdmissionNext]_allVars PROVE FreshFromNobody'
  <1>0. FreshFromNobody /\ fresh \subseteq issued /\ issued \subseteq Token
    BY DEF AdmissionInv, TokenInv, TypeOK, AdmissionTypeOK
  <1>1. CASE \E t \in Token : PreRegister(t)
    BY <1>0, <1>1, AdmissionAssumption
    DEF FreshFromNobody, PreRegister, PreRegisterForOwner, Put
  <1>2. CASE \E t \in Token : PreRegisterInitial(t)
    BY <1>0, <1>2 DEF FreshFromNobody, PreRegisterInitial, PreRegisterForOwner, classVars, Put
  <1>3. CASE Shrinks /\ UNCHANGED <<fresh, initial>>
    BY <1>0, <1>3 DEF FreshFromNobody, Shrinks
  <1>4. CASE UNCHANGED <<fresh, initial>> /\
             \E r \in Refresher, prev \in Token, t \in Token : Reserve(r, prev, t)
    BY <1>0, <1>4 DEF FreshFromNobody, Reserve, Put
  <1> QED
    BY <1>1, <1>2, <1>3, <1>4, WhoReserves, WhoSpawns DEF ownerVars, classVars

\* What the two revocations of an isolated verdict leave: the creating shim's
\* reservation, or those that come from the session that is kept.
LEMMA RevocationSeals ==
  ASSUME AdmissionInv,
         \/ RemovePendingForOwnerExcept(Owner, initial)
         \/ \E k \in Session : RemovePendingForOwnerExceptSession(Owner, k)
  PROVE  fresh \cap DOMAIN pending' = {}
  <1>1. OneOwner /\ FreshFromNobody
    BY DEF AdmissionInv
  <1>2. CASE RemovePendingForOwnerExcept(Owner, initial)
    BY <1>1, <1>2 DEF OneOwner, FreshFromNobody, RemovePendingForOwnerExcept, RemovePending, Delete
  <1>3. CASE \E k \in Session : RemovePendingForOwnerExceptSession(Owner, k)
    BY <1>1, <1>3, SessionAssumption
    DEF OneOwner, FreshFromNobody, RemovePendingForOwnerExceptSession, RemovePending, Delete
  <1> QED
    BY <1>2, <1>3

\* An isolated verdict stays sealed.
LEMMA SealStep == ASSUME AdmissionInv, [AdmissionNext]_allVars PROVE StaysSealed'
  <1>0. /\ StaysSealed /\ fresh \subseteq issued
        /\ mode \in {"none", "shared", "isolated"}
    BY DEF AdmissionInv, AdmissionTypeOK
  <1>1. CASE ClassifyStep
    <2>1. CASE \E m \in {"shared", "isolated"} : ClassifyLive(m)
      BY <1>0, <2>1 DEF StaysSealed, ClassifyLive
    <2>2. CASE LiveRevoke
      BY <2>2, RevocationSeals DEF StaysSealed, LiveRevoke
    <2>3. CASE EvictExtraSessions \/ CommitFreeze
      BY <1>0, <2>3 DEF StaysSealed, EvictExtraSessions, CommitFreeze, vars, mgrVars
    <2>4. CASE \E m \in {"none", "shared", "isolated"} : CommitUnsealed(m)
      BY <1>0, <2>4 DEF StaysSealed, CommitUnsealed, vars, mgrVars
    <2>5. CASE \E k \in Session \cup {NoSession} : CommitIsolated(k)
      BY <2>5, RevocationSeals DEF StaysSealed, CommitIsolated
    <2>6. CASE CommitEvict
      BY <1>0, <2>6 DEF StaysSealed, CommitEvict, RemoveBoundForOwnerExceptSession, RemoveBound
    <2> QED
      BY <1>1, <2>1, <2>2, <2>3, <2>4, <2>5, <2>6 DEF ClassifyStep
  <1>2. CASE UNCHANGED <<mode, classifier>>
    <2>1. CASE \E t \in Token : PreRegister(t)
      BY <1>0, <1>2, <2>1 DEF StaysSealed, PreRegister
    <2>2. CASE \E t \in Token : PreRegisterInitial(t)
      BY <1>0, <1>2, <2>2 DEF StaysSealed, PreRegisterInitial, PreRegisterForOwner, classVars, Put
    <2>3. CASE Shrinks /\ UNCHANGED fresh
      BY <1>0, <1>2, <2>3 DEF StaysSealed, Shrinks
    <2>4. CASE UNCHANGED fresh /\
               \E r \in Refresher, prev \in Token, t \in Token : Reserve(r, prev, t)
      BY <1>0, <1>2, <2>4 DEF StaysSealed, Reserve, Put
    <2> QED
      BY <2>1, <2>2, <2>3, <2>4, WhoReserves, WhoSpawns DEF ownerVars, classVars
  <1>3. ClassifyStep \/ UNCHANGED <<mode, classifier>>
    BY ManagerOnly
    DEF AdmissionNext, PreRegister, PreRegisterInitial, HandleSpawnResponseFailure, AcceptStep,
        AcceptLookup, AcceptAuthorize, AcceptDeny, AcceptRefuse, DropConnection, AcceptLock,
        AcceptBind, AcceptBindRefused, AcceptPublish, AcceptRegister, AcceptEnd, AcceptJoin,
        PeerLeaves,
        WorkBegins, WorkReturns, Unlink, Leave, RemoveStep, ReaperSweep, CountSessions, CountPending,
        ClaimRemoval, CloseListener, PurgeReservations, CloseSessions, Finalize, RemoveEntry,
        ownerVars, classVars
  <1> QED
    BY <1>1, <1>2, <1>3

-----------------------------------------------------------------------------
(* Removal.                                                                *)

\* A token reaches a shim from the spawn path or from the end of a refresh.
LEMMA WhoDelivers ==
  ASSUME [AdmissionNext]_allVars
  PROVE  \/ \E t \in Token : PreRegister(t) \/ PreRegisterInitial(t)
         \/ \E r \in Refresher : Commit(r)
         \/ delivered' = delivered
  <1> USE DEF vars, ghostVars
  <1>1. CASE RefreshStep \/ SweepStep
    BY <1>1
    DEF RefreshStep, ReserveExpired, Reserve, OwnerAlive, Rollback, CommitRefused, SweepStep, Tick,
        SweepExpiredPending, SweepExpiredBound, RemovePending, RemoveBound
  <1>2. CASE AcceptStep \/ \E t \in Token, s \in Session : AcceptLookup(t, s)
    BY <1>2
    DEF AcceptStep, AcceptLookup, AcceptAuthorize, AcceptDeny, AcceptRefuse, DropConnection,
        AcceptLock, AcceptBind, Bind, AcceptBindRefused, AcceptPublish, AcceptRegister,
        RegisterSession, AcceptEnd, AcceptJoin
  <1>3. CASE WorkBegins \/ WorkReturns \/ \E s \in Session : PeerLeaves(s) \/ Unlink(s) \/ Leave(s)
    BY <1>3 DEF PeerLeaves, WorkBegins, WorkReturns, Unlink, Leave,
        RemoveSession
  <1>4. CASE ClassifyStep \/ \E t \in Token : HandleSpawnResponseFailure(t)
    BY <1>4
    DEF ClassifyStep, ClassifyLive, LiveRevoke, EvictExtraSessions, CommitFreeze, CommitUnsealed,
        CommitIsolated, CommitEvict, RemovePendingForOwnerExcept,
        RemovePendingForOwnerExceptSession, RemoveBoundForOwnerExceptSession,
        HandleSpawnResponseFailure, RemovePendingForOwnerToken, RemovePending, RemoveBound
  <1>5. CASE RemoveStep
    BY <1>5
    DEF RemoveStep, ReaperSweep, CountSessions, CountPending, ClaimRemoval, CloseListener,
        PurgeReservations, RemovePendingForOwnerExcept, RemovePending, CloseSessions, Finalize,
        RemoveEntry
  <1> QED
    BY <1>1, <1>2, <1>3, <1>4, <1>5 DEF AdmissionNext, allVars

\* The listener is closed once, and then purged.
LEMMA WhoCloses ==
  ASSUME [AdmissionNext]_allVars
  PROVE  CloseListener \/ PurgeReservations \/ listener' = listener
  BY ManagerOnly
  DEF AdmissionNext, PreRegister, PreRegisterInitial, HandleSpawnResponseFailure, AcceptStep,
      AcceptLookup, AcceptAuthorize, AcceptDeny, AcceptRefuse, DropConnection, AcceptLock,
      AcceptBind, AcceptBindRefused, AcceptPublish, AcceptRegister, AcceptEnd, AcceptJoin,
      PeerLeaves,
      WorkBegins, WorkReturns, Unlink, Leave, ClassifyStep, ClassifyLive, LiveRevoke, EvictExtraSessions,
      CommitFreeze, CommitUnsealed, CommitIsolated, CommitEvict, RemoveStep, ReaperSweep,
      CountSessions, CountPending, ClaimRemoval, CloseSessions, Finalize, RemoveEntry, ownerVars,
      removeVars

\* No reservation of a shim appears after the purge: a refresh that has seen the
\* owner alive has lost its reservation, a later one sees the listener closed.
LEMMA PurgeStep == ASSUME AdmissionInv, [AdmissionNext]_allVars PROVE StaysPurged'
  <1>0. /\ StaysPurged /\ OneOwner /\ RefreshHolds
        /\ delivered \subseteq issued
        /\ DOMAIN pending \subseteq Token /\ NoToken \notin Token
    BY AdmissionAssumption DEF AdmissionInv, TokenInv, TypeOK, IsMap
  <1>1. CASE CloseListener
    BY <1>1 DEF CloseListener, StaysPurged
  <1>2. CASE PurgeReservations
    BY <1>0, <1>2
    DEF PurgeReservations, RemovePendingForOwnerExcept, RemovePending, Delete, OneOwner, StaysPurged
  <1>3. CASE listener' = listener /\ listener # "purged"
    BY <1>3 DEF StaysPurged
  <1>4. CASE listener' = listener /\ listener = "purged"
    <2>1. /\ DOMAIN pending \cap delivered = {}
          /\ \A x \in Refresher : refresh[x].at = "alive" => refresh[x].token \notin DOMAIN pending
      BY <1>0, <1>4 DEF StaysPurged
    <2>2. ~ \E t \in Token : PreRegister(t) \/ PreRegisterInitial(t)
      BY <1>4 DEF PreRegister, PreRegisterInitial
    <2>3. delivered' = delivered
      BY <2>1, <2>2, WhoDelivers DEF Commit
    <2>4. \A t \in DOMAIN pending' : t \in DOMAIN pending \/ t \notin issued
      <3>1. CASE \E r \in Refresher, prev \in Token, t \in Token : Reserve(r, prev, t)
        BY <3>1 DEF Reserve, Put
      <3>2. CASE Shrinks
        BY <3>2 DEF Shrinks
      <3> QED
        BY <2>2, <3>1, <3>2, WhoReserves
    <2>5. ASSUME NEW x \in Refresher, refresh'[x].at = "alive"
          PROVE  refresh'[x].token \notin DOMAIN pending'
      <3>1. ~OwnerIsAccepting
        BY <1>4 DEF OwnerIsAccepting
      <3>2. refresh'[x] = refresh[x]
        <4>1. ASSUME NEW prev, NEW t, NEW o,
                     refresh'[x] = [at |-> "check", prev |-> prev, token |-> t, owner |-> o]
              PROVE  FALSE
          BY <2>5, <4>1
        <4>2. refresh'[x] # Idle
          BY <2>5 DEF Idle
        <4> QED
          BY <2>5, <3>1, <4>1, <4>2, WhoRefreshes
      <3> QED
        BY <1>0, <2>1, <2>4, <2>5, <3>2 DEF RefreshHolds, Idle
    <2> QED
      BY <1>0, <2>1, <2>3, <2>4, <2>5 DEF StaysPurged
  <1> QED
    BY <1>1, <1>2, <1>3, <1>4, WhoCloses

\* Who moves the accept loop, the sessions of the owner and the daemon's entry.
LEMMA WhoMoves ==
  ASSUME [AdmissionNext]_allVars
  PROVE  /\ \/ accept.at \in AcceptStage \/ accept \in {Wait, Ended}
            \/ accept' = accept
         /\ \/ accept.at \in AcceptStage
            \/ \E s \in Session : Unlink(s)
            \/ ownerSessions' = ownerSessions
         /\ \/ Finalize \/ RemoveEntry
            \/ cleanup' \notin {"finalized", "removed"}
            \/ cleanup' = cleanup
         /\ busy' = busy \/ WorkBegins \/ WorkReturns \/ \E s \in Session : Unlink(s)
  <1> USE DEF sessVars, acceptVars, removeVars
  <1>1. CASE RefreshStep \/ SweepStep \/ UNCHANGED allVars
    BY <1>1, ManagerOnly DEF ownerVars
  <1>2. CASE \E t \in Token : PreRegister(t) \/ PreRegisterInitial(t) \/ HandleSpawnResponseFailure(t)
    BY <1>2 DEF PreRegister, PreRegisterInitial, HandleSpawnResponseFailure
  <1>3. CASE AcceptStep \/ \E t \in Token, s \in Session : AcceptLookup(t, s)
    BY <1>3
    DEF AcceptStep, AcceptLookup, AcceptAuthorize, AcceptDeny, AcceptRefuse, DropConnection,
        AcceptLock, AcceptBind, AcceptBindRefused, AcceptPublish, AcceptRegister, AcceptEnd,
        AcceptJoin, AcceptStage
  <1>4. CASE WorkBegins \/ WorkReturns \/ \E s \in Session : PeerLeaves(s) \/ Unlink(s) \/ Leave(s)
    BY <1>4 DEF PeerLeaves, WorkBegins, WorkReturns, Unlink, Leave
  <1>5. CASE ClassifyStep
    BY <1>5
    DEF ClassifyStep, ClassifyLive, LiveRevoke, EvictExtraSessions, CommitFreeze, CommitUnsealed,
        CommitIsolated, CommitEvict
  <1>6. CASE RemoveStep
    BY <1>6
    DEF RemoveStep, ReaperSweep, CountSessions, CountPending, ClaimRemoval, CloseListener,
        PurgeReservations, CloseSessions, Finalize, RemoveEntry
  <1> QED
    BY <1>1, <1>2, <1>3, <1>4, <1>5, <1>6 DEF AdmissionNext

\* The manager's sessions come from the accept loop and go with their reader.
LEMMA WhoRegisters ==
  ASSUME [AdmissionNext]_allVars
  PROVE  \/ AcceptRegister
         \/ \E s \in Session : Leave(s)
         \/ UNCHANGED <<sessions, life>>
  <1> USE DEF vars, mgrVars
  <1>1. CASE RefreshStep \/ SweepStep
    BY <1>1
    DEF RefreshStep, ReserveExpired, Reserve, OwnerAlive, Rollback, CommitRefused, Commit, SweepStep,
        Tick, SweepExpiredPending, SweepExpiredBound, RemovePending, RemoveBound
  <1>2. CASE \E t \in Token : PreRegister(t) \/ PreRegisterInitial(t) \/ HandleSpawnResponseFailure(t)
    BY <1>2
    DEF PreRegister, PreRegisterInitial, PreRegisterForOwner, HandleSpawnResponseFailure,
        RemovePendingForOwnerToken, RemovePending
  <1>3. CASE AcceptStep \/ \E t \in Token, s \in Session : AcceptLookup(t, s)
    BY <1>3
    DEF AcceptStep, AcceptLookup, AcceptAuthorize, AcceptDeny, AcceptRefuse, DropConnection,
        AcceptLock, AcceptBind, Bind, AcceptBindRefused, AcceptPublish, AcceptEnd, AcceptJoin
  <1>4. CASE WorkBegins \/ WorkReturns \/ \E s \in Session : PeerLeaves(s) \/ Unlink(s)
    BY <1>4 DEF PeerLeaves, WorkBegins, WorkReturns, Unlink
  <1>5. CASE ClassifyStep
    BY <1>5
    DEF ClassifyStep, ClassifyLive, LiveRevoke, EvictExtraSessions, CommitFreeze, CommitUnsealed,
        CommitIsolated, CommitEvict, RemovePendingForOwnerExcept,
        RemovePendingForOwnerExceptSession, RemoveBoundForOwnerExceptSession, RemovePending, RemoveBound
  <1>6. CASE RemoveStep
    BY <1>6
    DEF RemoveStep, ReaperSweep, CountSessions, CountPending, ClaimRemoval, CloseListener,
        PurgeReservations, RemovePendingForOwnerExcept, RemovePending, CloseSessions, Finalize,
        RemoveEntry
  <1> QED
    BY <1>1, <1>2, <1>3, <1>4, <1>5, <1>6 DEF AdmissionNext, allVars

\* Once acceptDone is closed nothing brings a session, a reader or a history back.
LEMMA WaitStep == ASSUME AdmissionInv, [AdmissionNext]_allVars PROVE RemovalWaits'
  <1>0. RemovalWaits /\ OneOwner /\ TypeOK /\ TypeOK'
    BY ManagerInv DEF AdmissionInv, TokenInv
  <1>1. Joined.at \notin AcceptStage /\ Joined \notin {Wait, Ended}
    BY Stages DEF AcceptStage
  <1>2. accept' = Joined => listener' = "purged" /\ ownerSessions' = {} /\ sessions' = EmptyMap
    <2>1. CASE accept = Joined
      <3>1. listener = "purged" /\ ownerSessions = {} /\ sessions = EmptyMap
        BY <1>0, <2>1 DEF RemovalWaits
      <3>2. listener' = "purged"
        BY <3>1, WhoCloses DEF CloseListener, PurgeReservations
      <3>3. ownerSessions' = {}
        BY <1>1, <2>1, <3>1, WhoMoves DEF Unlink
      <3>4. sessions' = EmptyMap
        BY <1>1, <2>1, <3>1, EmptyIsMap, WhoRegisters
        DEF AcceptRegister, AcceptStage, Leave, RemoveSession
      <3> QED
        BY <3>2, <3>3, <3>4
    <2>2. CASE accept # Joined /\ accept' = Joined
      <3>1. AcceptJoin
        BY <1>1, <2>2, ManagerOnly
        DEF AdmissionNext, PreRegister, PreRegisterInitial, HandleSpawnResponseFailure, AcceptStep,
            AcceptLookup, AcceptStage, AcceptAuthorize, AcceptDeny, AcceptRefuse, DropConnection,
            AcceptLock, AcceptBind, AcceptBindRefused, AcceptPublish, AcceptRegister, AcceptEnd,
            PeerLeaves,
            WorkBegins, WorkReturns, Unlink, Leave, ClassifyStep, ClassifyLive, LiveRevoke,
            EvictExtraSessions, CommitFreeze, CommitUnsealed, CommitIsolated, CommitEvict,
            RemoveStep, ReaperSweep, CountSessions, CountPending, ClaimRemoval, CloseListener,
            PurgeReservations, CloseSessions, Finalize, RemoveEntry, ownerVars, acceptVars, Joined
      <3> QED
        BY <3>1 DEF AcceptJoin, vars, mgrVars, sessVars, removeVars
    <2> QED
      BY <2>1, <2>2
  <1>3. cleanup' \in {"finalized", "removed"} => accept' = Joined
    <2>1. CASE Finalize
      BY <2>1 DEF Finalize, NativeQuiescent, acceptVars
    <2>2. CASE cleanup \in {"finalized", "removed"}
      BY <1>0, <1>1, <2>2, WhoMoves DEF RemovalWaits
    <2> QED
      BY <2>1, <2>2, WhoMoves DEF RemoveEntry
  <1>4. cleanup' = "removed" => bound' = EmptyMap
    <2>1. CASE RemoveEntry
      BY <1>0, <2>1 DEF OneOwner, RemoveEntry, Delete, EmptyMap
    <2>2. CASE cleanup = "removed"
      <3>1. bound = EmptyMap /\ accept = Joined
        BY <1>0, <2>2 DEF RemovalWaits
      <3>2. ~AcceptBind /\ \A r \in Refresher : ~Commit(r)
        BY <1>1, <3>1, EmptyIsMap DEF AcceptBind, AcceptStage, Commit
      <3>3. DOMAIN bound' = {}
        BY <3>1, <3>2, EmptyIsMap, WhoBinds DEF KeepsOwners
      <3> QED
        BY <1>0, <3>3, NoKeys DEF TypeOK, IsMap
    <2> QED
      BY <2>1, <2>2, WhoMoves DEF Finalize
  <1>5. cleanup' \in {"finalized", "removed"} => ~busy'
    <2>1. CASE Finalize
      BY <2>1 DEF Finalize, NativeQuiescent, sessVars
    <2>2. CASE cleanup \in {"finalized", "removed"}
      <3>1. ~busy /\ ownerSessions = {}
        BY <1>0, <2>2 DEF RemovalWaits
      <3> QED
        BY <2>2, <3>1, WhoMoves DEF WorkBegins, WorkReturns, Unlink, Unclaimed
    <2> QED
      BY <2>1, <2>2, WhoMoves DEF RemoveEntry
  <1> QED
    BY <1>2, <1>3, <1>4, <1>5 DEF RemovalWaits

-----------------------------------------------------------------------------
\* Every step of the owner keeps the invariant.
LEMMA NextAdmission == AdmissionInv /\ [AdmissionNext]_allVars => AdmissionInv'
  BY ManagerInv, TypeStep, LockStep, OwnerStep, FreshStep, SealStep, PurgeStep, WaitStep
  DEF AdmissionInv

\* The invariant of an owner: of its manager, its locks, its reservations and its removal.
THEOREM AdmissionInvariant == AdmissionSpec => []AdmissionInv
  BY InitAdmission, NextAdmission, PTL DEF AdmissionSpec

\* The token properties of the session manager survive the composition: what the
\* owner, the daemon and the refreshers do with the manager together keeps a
\* token single-use, orphans no reservation and keeps a refresh with its owner.
THEOREM ManagerInOwner ==
  AdmissionSpec => [](TokenSingleUse /\ NoLeakedReservation /\ OwnerScope)
  <1>1. AdmissionInv => TokenSingleUse /\ NoLeakedReservation /\ OwnerScope
    BY DEF AdmissionInv, TokenInv
  <1> QED
    BY <1>1, AdmissionInvariant, PTL

\* An isolated verdict that has revoked the fan-in stays sealed (isolatedEvicteesLocked
\* and the live classification), however many shims, refreshes and sweeps there are.
THEOREM SealedFanIn == AdmissionSpec => []FreshAdmissionSealed
  <1>1. AdmissionInv => FreshAdmissionSealed
    BY DEF AdmissionInv, StaysSealed, FreshAdmissionSealed
  <1> QED
    BY <1>1, AdmissionInvariant, PTL

\* A removal leaves nothing behind (closeListener, FinalizeForRemoval and
\* prepareOwnerRemovalLocked).
THEOREM QuietRemoval == AdmissionSpec => []RemovedIsQuiet
  <1>1. AdmissionInv => RemovedIsQuiet
    BY DEF AdmissionInv, StaysPurged, RemovalWaits, RemovedIsQuiet
  <1> QED
    BY <1>1, AdmissionInvariant, PTL

\* closeListener seals admission: it waits for admissionMu, which the accept loop
\* holds from its closed check to the registration.
THEOREM ClosedToAdmission == AdmissionSpec => NoAdmissionAfterClose
  <1>1. ASSUME AdmissionInv, [AdmissionNext]_allVars, NEW s \in Session,
               life[s] = "new", life'[s] = "open"
        PROVE  listener = "open"
    <2>1. CASE AcceptRegister
      BY <1>1, <2>1 DEF AcceptRegister, AdmissionInv, LockHeld
    <2>2. CASE \E x \in Session : Leave(x)
      <3>1. life \in [Session -> {"new", "open", "closed"}]
        BY <1>1 DEF AdmissionInv, TokenInv, TypeOK
      <3> QED
        BY <1>1, <2>2, <3>1 DEF Leave, RemoveSession
    <2> QED
      BY <1>1, <2>1, <2>2, WhoRegisters
  <1>2. AdmissionInv /\ [AdmissionNext]_allVars =>
          [\A s \in Session : life[s] = "new" /\ life'[s] = "open" => listener = "open"]_allVars
    BY <1>1
  <1> QED
    BY <1>2, AdmissionInvariant, PTL DEF AdmissionSpec, NoAdmissionAfterClose
=============================================================================
