---------------------------- MODULE OwnerAdmission ----------------------------
(***************************************************************************)
(* How one owner admits shims, becomes isolated and is removed: the accept *)
(* loop and the classification of muxcore/owner, the token refresh and the *)
(* idle cleanup of muxcore/daemon, over the owner's session manager.       *)
(* Processes: the accept loop (one connection at a time), one reader per   *)
(* session, the classifier, the cleanup (a zero-session timer or the       *)
(* reaper) and the refreshers. admissionMu is modelled as a lock; o.mu and *)
(* d.mu only where a step would otherwise split their section.             *)
(***************************************************************************)
EXTENDS SessionManager

CONSTANTS Owner,    \* this owner's server ID
          NoToken   \* the empty token

ASSUME AdmissionAssumption == Owner \in OwnerKey /\ NoToken \notin Token

VARIABLES
  ownerSessions,  \* Owner.sessions
  closed,         \* sessions whose transport is closed
  lastOut,        \* sessions whose removal left Owner.sessions empty
  busy,           \* nativeWork or pendingRequests is above zero
  accept,         \* the accept loop
  admissionMu,    \* holder of Owner.admissionMu
  mode,           \* Owner.autoClassification
  classifier,     \* progress of a classification verdict
  keep,           \* the session an isolated commit retains
  initial,        \* Owner.initialAdmissionToken
  listener,       \* "open", "closed" (listenerDone), "purged" (reservations too)
  cleanup,        \* removal of the daemon's entry
  removal,        \* who claimed the removal: "none", "idle", "operator"
  recent,         \* LastActivity or LastSession lies within the idle timeout
  fresh           \* ghost: tokens reserved by PreRegister

sessVars   == <<ownerSessions, closed, lastOut, busy>>
acceptVars == <<accept, admissionMu>>
classVars  == <<mode, classifier, keep, initial, fresh>>
removeVars == <<listener, cleanup, removal, recent>>
ownerVars  == <<sessVars, acceptVars, classVars, removeVars>>
allVars    == <<vars, ownerVars>>

Wait        == [at |-> "wait"]
Ended       == [at |-> "ended"]    \* acceptLoop returned
Joined      == [at |-> "joined"]   \* acceptDone closed: every reader returned
AcceptStage == {"authorize", "admit", "locked", "bound", "published"}
Connection  == [at : AcceptStage, token : Token, session : Session]

\* Every variable of the owner keeps its type.
AdmissionTypeOK ==
  /\ TypeOK
  /\ ownerSessions \subseteq Session /\ closed \subseteq Session /\ lastOut \subseteq Session
  /\ busy \in BOOLEAN
  /\ accept \in Connection \cup {Wait, Ended, Joined}
  /\ admissionMu \in {"free", "accept", "classify", "close"}
  /\ mode \in {"none", "shared", "isolated"}
  /\ classifier \in {"idle", "live_marked", "live_revoked", "frozen", "revoking", "sealed"}
  /\ keep \in Session \cup {NoSession}
  /\ initial \in Token \cup {NoToken}
  /\ listener \in {"open", "closed", "purged"}
  /\ cleanup \in {"off", "armed", "counted", "sampled", "claimed", "closing", "finalized", "removed"}
  /\ removal \in {"none", "idle", "operator"}
  /\ recent \in BOOLEAN
  /\ fresh \subseteq issued

AdmissionInit ==
  /\ Init
  /\ ownerSessions = {} /\ closed = {} /\ lastOut = {} /\ busy = FALSE
  /\ accept = Wait /\ admissionMu = "free"
  /\ mode = "none" /\ classifier = "idle" /\ keep = NoSession
  /\ initial = NoToken /\ fresh = {}
  /\ listener = "open" /\ cleanup = "off" /\ removal = "none" /\ recent = TRUE

-----------------------------------------------------------------------------
(* Reservations made by the daemon's spawn path (admitOwner).              *)

Unclaimed == {"off", "armed", "counted", "sampled"}

\* Mutant: the isolated verdict is not checked.
PreRegisterIsolated(t) ==
  /\ admissionMu = "free" /\ listener = "open"
  /\ PreRegisterForOwner(t, Owner)
  /\ fresh' = fresh \cup {t}
  /\ cleanup' = IF cleanup \in Unclaimed THEN "off" ELSE cleanup
  /\ recent' = TRUE
  /\ UNCHANGED <<sessVars, acceptVars, mode, classifier, keep, initial, listener, removal>>

\* A spawn that reuses the owner sets LastSession, which voids a cleanup that has
\* sampled the owner (view.matches), and then reserves its token.
PreRegister(t) ==
  /\ admissionMu = "free" /\ listener = "open" /\ mode # "isolated"
  /\ PreRegisterForOwner(t, Owner)
  /\ fresh' = fresh \cup {t}
  /\ cleanup' = IF cleanup \in Unclaimed THEN "off" ELSE cleanup
  /\ recent' = TRUE
  /\ UNCHANGED <<sessVars, acceptVars, mode, classifier, keep, initial, listener, removal>>

PreRegisterInitial(t) ==
  /\ admissionMu = "free" /\ listener = "open" /\ initial = NoToken
  /\ PreRegisterForOwner(t, Owner)
  /\ initial' = t
  /\ UNCHANGED <<sessVars, acceptVars, mode, classifier, keep, fresh, removeVars>>

\* The spawn answer did not reach its shim: the reservation goes, and cleanup is
\* scheduled when it was the last use of the owner.
HandleSpawnResponseFailure(t) ==
  /\ t \in fresh \cup {initial}
  /\ cleanup # "removed"
  /\ RemovePendingForOwnerToken(Owner, t)
  /\ IF ownerSessions = {} /\ pending' = EmptyMap /\ cleanup \in Unclaimed
     THEN cleanup' = "armed" /\ recent' = FALSE
     ELSE UNCHANGED <<cleanup, recent>>
  /\ UNCHANGED <<sessVars, acceptVars, classVars, listener, removal>>

-----------------------------------------------------------------------------
(* acceptLoop                                                              *)

Unused(s) == life[s] = "new" /\ s \notin closed /\ \A t \in DOMAIN lease : lease[t].session # s

\* A shim dials and presents its token, which LookupPendingForOwner accepts.
AcceptLookup(t, s) ==
  /\ accept = Wait /\ listener = "open"
  /\ Unused(s) /\ t \in delivered /\ MayBind(t, Owner)
  /\ accept' = [at |-> "authorize", token |-> t, session |-> s]
  /\ UNCHANGED <<vars, sessVars, admissionMu, classVars, removeVars>>

\* The connection is dropped: s.Close() and, when the token was not bound,
\* revokePendingAdmission.
DropConnection ==
  /\ pending' = Delete(pending, {accept.token} \cap {t \in DOMAIN pending : pending[t].owner = Owner})
  /\ closed' = closed \cup {accept.session}
  /\ accept' = Wait
  /\ UNCHANGED <<now, sessions, inflight, bound, lastActive, snapshot, refresh, life, ghostVars,
                 ownerSessions, lastOut, busy, classVars, removeVars>>

\* AuthorizeSession runs without a lock; it denies, or a shutdown overtakes it.
AcceptAuthorize ==
  /\ accept.at = "authorize"
  /\ accept' = [accept EXCEPT !.at = "admit"]
  /\ UNCHANGED <<vars, sessVars, admissionMu, classVars, removeVars>>

AcceptDeny ==
  /\ accept.at = "authorize"
  /\ DropConnection /\ UNCHANGED admissionMu

\* The admission commit: admissionMu is held from the closed check to the registration.
AcceptRefuse ==
  /\ accept.at = "admit" /\ admissionMu = "free" /\ listener # "open"
  /\ DropConnection /\ UNCHANGED admissionMu

AcceptLock ==
  /\ accept.at = "admit" /\ admissionMu = "free" /\ listener = "open"
  /\ admissionMu' = "accept"
  /\ accept' = [accept EXCEPT !.at = "locked"]
  /\ UNCHANGED <<vars, sessVars, classVars, removeVars>>

AcceptBind ==
  /\ accept.at = "locked"
  /\ Bind(accept.token, Owner, accept.session)
  /\ accept' = [accept EXCEPT !.at = "bound"]
  /\ UNCHANGED <<sessVars, admissionMu, classVars, removeVars>>

\* The reservation was revoked since the lookup.
AcceptBindRefused ==
  /\ accept.at = "locked" /\ ~MayBind(accept.token, Owner)
  /\ closed' = closed \cup {accept.session}
  /\ accept' = Wait /\ admissionMu' = "free"
  /\ UNCHANGED <<vars, ownerSessions, lastOut, busy, classVars, removeVars>>

\* addSessionLocked; session IDs are never reused, so its duplicate check passes.
AcceptPublish ==
  /\ accept.at = "bound"
  /\ ownerSessions' = ownerSessions \cup {accept.session}
  /\ accept' = [accept EXCEPT !.at = "published"]
  /\ UNCHANGED <<vars, closed, lastOut, busy, admissionMu, classVars, removeVars>>

\* RegisterSession, then startRegisteredSession touches the activity clock.
AcceptRegister ==
  /\ accept.at = "published"
  /\ RegisterSession(accept.session)
  /\ accept' = Wait /\ admissionMu' = "free"
  /\ recent' = TRUE
  /\ UNCHANGED <<sessVars, classVars, listener, cleanup, removal>>

AcceptEnd ==
  /\ accept = Wait /\ listener # "open"
  /\ accept' = Ended
  /\ UNCHANGED <<vars, sessVars, admissionMu, classVars, removeVars>>

\* sessionReaders.Wait, then acceptDone is closed.
AcceptJoin ==
  /\ accept = Ended /\ listener = "purged"
  /\ ownerSessions = {} /\ sessions = EmptyMap
  /\ accept' = Joined
  /\ UNCHANGED <<vars, sessVars, admissionMu, classVars, removeVars>>

-----------------------------------------------------------------------------
(* Session readers                                                         *)

PeerLeaves(s) ==
  /\ s \in ownerSessions \ closed /\ Registered(s)
  /\ closed' = closed \cup {s}
  /\ UNCHANGED <<vars, ownerSessions, lastOut, busy, acceptVars, classVars, removeVars>>

\* removeSession, first half, under o.mu; a disconnect callback is counted
\* before the session is gone.
Unlink(s) ==
  /\ s \in ownerSessions \cap closed /\ Registered(s)
  /\ classifier # "revoking"
  /\ ownerSessions' = ownerSessions \ {s}
  /\ lastOut' = IF ownerSessions' = {} THEN lastOut \cup {s} ELSE lastOut
  /\ busy' \in {busy, TRUE}
  /\ UNCHANGED <<vars, closed, acceptVars, classVars, removeVars>>

\* Second half: the manager forgets the session, the activity clock is touched,
\* and onZeroSessions restarts the cleanup timer, which voids an older one.
Leave(s) ==
  /\ Registered(s) /\ s \notin ownerSessions
  /\ RemoveSession(SessionID[s])
  /\ IF s \in lastOut /\ cleanup \in Unclaimed
     THEN cleanup' = "armed" /\ recent' = FALSE
     ELSE recent' = TRUE /\ UNCHANGED cleanup
  /\ UNCHANGED <<sessVars, acceptVars, classVars, listener, removal>>

\* A request or a callback (connect, notification, frame hook) of a session
\* begins, or a proactive request of an owner that is not being removed.
WorkBegins ==
  /\ ~busy
  /\ cleanup \in Unclaimed \/ \E s \in ownerSessions : Registered(s)
  /\ busy' = TRUE
  /\ UNCHANGED <<vars, ownerSessions, closed, lastOut, acceptVars, classVars, removeVars>>

\* The last of them has returned, which nobody can enforce: "callbacks retain
\* blocked authority without waiting for an uncooperative user body".
WorkReturns ==
  /\ busy /\ busy' = FALSE
  /\ UNCHANGED <<vars, ownerSessions, closed, lastOut, acceptVars, classVars, removeVars>>

-----------------------------------------------------------------------------
(* Classification. A live response takes o.mu three times; the commit of a *)
(* materialization holds admissionMu, and o.mu over its two revocations.   *)

\* classifyFromCapabilities and classifyFromToolList, until the verdict is stored.
ClassifyLive(m) ==
  /\ classifier = "idle" /\ mode = "none"
  /\ mode' = m
  /\ classifier' = IF m = "isolated" THEN "live_marked" ELSE "sealed"
  /\ UNCHANGED <<vars, sessVars, acceptVars, keep, initial, fresh, removeVars>>

LiveRevoke ==
  /\ classifier = "live_marked"
  /\ RemovePendingForOwnerExcept(Owner, initial)
  /\ classifier' = "live_revoked"
  /\ UNCHANGED <<sessVars, acceptVars, mode, keep, initial, fresh, removeVars>>

Oldest == CHOOSE s \in ownerSessions : \A x \in ownerSessions : SessionID[s] <= SessionID[x]

EvictExtraSessions ==
  /\ classifier = "live_revoked"
  /\ closed' = IF ownerSessions = {} THEN closed ELSE closed \cup (ownerSessions \ {Oldest})
  /\ classifier' = "sealed"
  /\ UNCHANGED <<vars, ownerSessions, lastOut, busy, acceptVars, mode, keep, initial, fresh, removeVars>>

\* commitMaterializationCache: admission is frozen around onCacheReady.
CommitFreeze ==
  /\ classifier \in {"idle", "sealed"} /\ admissionMu = "free"
  /\ admissionMu' = "classify" /\ classifier' = "frozen"
  /\ UNCHANGED <<vars, sessVars, accept, mode, keep, initial, fresh, removeVars>>

\* onCacheReady refused the generation, or it committed a verdict that is not isolated.
CommitUnsealed(m) ==
  /\ classifier = "frozen"
  /\ m = mode \/ (m = "shared" /\ mode # "isolated")
  /\ mode' = m
  /\ admissionMu' = "free"
  /\ classifier' = IF m = "none" THEN "idle" ELSE "sealed"
  /\ UNCHANGED <<vars, sessVars, accept, keep, initial, fresh, removeVars>>

\* isolatedEvicteesLocked: reservations first ...
CommitIsolated(k) ==
  /\ classifier = "frozen"
  /\ k \in ownerSessions \/ (k = NoSession /\ ownerSessions = {})
  /\ mode' = "isolated" /\ keep' = k
  /\ IF k = NoSession
     THEN /\ RemovePendingForOwnerExcept(Owner, initial)
          /\ classifier' = "sealed" /\ admissionMu' = "free"
     ELSE /\ RemovePendingForOwnerExceptSession(Owner, k)
          /\ classifier' = "revoking" /\ UNCHANGED admissionMu
  /\ UNCHANGED <<sessVars, accept, initial, fresh, removeVars>>

\* ... then the histories of everyone else, who is closed.
CommitEvict ==
  /\ classifier = "revoking"
  /\ RemoveBoundForOwnerExceptSession(Owner, keep)
  /\ closed' = closed \cup (ownerSessions \ {keep})
  /\ classifier' = "sealed" /\ admissionMu' = "free"
  /\ UNCHANGED <<ownerSessions, lastOut, busy, accept, mode, keep, initial, fresh, removeVars>>

-----------------------------------------------------------------------------
(* Idle cleanup and removal. The cleanup reads SessionCount and then       *)
(* PendingCount and LastActivity, without a lock across the reads.         *)

\* The reaper looks at an owner that has been quiet for the idle timeout.
ReaperSweep ==
  /\ cleanup = "off" /\ ownerSessions = {} /\ sessions = EmptyMap
  /\ cleanup' = "armed" /\ recent' = FALSE
  /\ UNCHANGED <<vars, sessVars, acceptVars, classVars, listener, removal>>

CountSessions ==
  /\ cleanup = "armed"
  /\ cleanup' = IF ownerSessions = {} THEN "counted" ELSE "off"
  /\ UNCHANGED <<vars, sessVars, acceptVars, classVars, listener, removal, recent>>

\* shouldEvict: of the work that may be left, a request forbids it and a
\* callback does not.
CountPending ==
  /\ cleanup = "counted"
  /\ \/ pending = EmptyMap /\ ~recent /\ cleanup' = "sampled"
     \/ (pending # EmptyMap \/ recent \/ busy) /\ cleanup' = "off"
  /\ UNCHANGED <<vars, sessVars, acceptVars, classVars, listener, removal, recent>>

\* finalizeAndRemoveOwner claims the entry; the counts are not read again.
ClaimRemoval(who) ==
  /\ \/ who = "idle" /\ cleanup = "sampled"
     \/ who = "operator" /\ cleanup \in Unclaimed
  /\ cleanup' = "claimed" /\ removal' = who
  /\ UNCHANGED <<vars, sessVars, acceptVars, classVars, listener, recent>>

\* Mutant: closeListener does not wait for an admission that is being committed.
CloseUnlocked ==
  /\ cleanup = "claimed" /\ listener = "open"
  /\ admissionMu' = "close" /\ listener' = "closed"
  /\ UNCHANGED <<vars, sessVars, accept, classVars, cleanup, removal, recent>>

\* closeListener, under admissionMu ...
CloseListener ==
  /\ cleanup = "claimed" /\ listener = "open" /\ admissionMu = "free"
  /\ admissionMu' = "close" /\ listener' = "closed"
  /\ UNCHANGED <<vars, sessVars, accept, classVars, cleanup, removal, recent>>

PurgeReservations ==
  /\ listener = "closed"
  /\ RemovePendingForOwnerExcept(Owner, NoToken)
  /\ admissionMu' = "free" /\ listener' = "purged"
  /\ UNCHANGED <<sessVars, accept, classVars, cleanup, removal, recent>>

\* Mutant: a session registered late is not closed, and its reader never returns.
CloseNobody ==
  /\ cleanup = "claimed" /\ listener = "purged"
  /\ cleanup' = "closing"
  /\ UNCHANGED <<vars, sessVars, acceptVars, classVars, listener, removal, recent>>

\* ... then teardownExceptUpstream closes the sessions.
CloseSessions ==
  /\ cleanup = "claimed" /\ listener = "purged"
  /\ classifier # "revoking"
  /\ closed' = closed \cup ownerSessions
  /\ cleanup' = "closing"
  /\ UNCHANGED <<vars, ownerSessions, lastOut, busy, acceptVars, classVars, listener, removal, recent>>

\* Mutant: a callback that has not returned is not waited for.
QuiescentWithWork == accept = Joined /\ listener # "open" /\ ownerSessions = {}

\* FinalizeForRemoval succeeds once nativeQuiescent holds; until then it is retried.
NativeQuiescent == accept = Joined /\ listener # "open" /\ ownerSessions = {} /\ ~busy

Finalize ==
  /\ cleanup = "closing" /\ NativeQuiescent
  /\ cleanup' = "finalized"
  /\ UNCHANGED <<vars, sessVars, acceptVars, classVars, listener, removal, recent>>

\* prepareOwnerRemovalLocked: leftover reservations and the histories go, with the entry.
RemoveEntry ==
  /\ cleanup = "finalized"
  /\ pending' = Delete(pending, {t \in DOMAIN pending : pending[t].owner = Owner})
  /\ bound' = Delete(bound, {t \in DOMAIN bound : bound[t].owner = Owner})
  /\ cleanup' = "removed"
  /\ UNCHANGED <<now, sessions, inflight, lastActive, snapshot, refresh, life, ghostVars,
                 sessVars, acceptVars, classVars, listener, removal, recent>>

-----------------------------------------------------------------------------
(* Refresh: HandleRefreshSessionToken calls RegisterReconnect with         *)
(* ownerIsAccepting. Neither takes admissionMu.                            *)

OwnerIsAccepting == cleanup # "removed" /\ listener = "open"

RefreshStep ==
  /\ \/ \E r \in Refresher, prev \in Token :
          ReserveExpired(r, prev) \/ \E t \in Token : Reserve(r, prev, t)
     \/ \E r \in Refresher : OwnerAlive(r, OwnerIsAccepting)
     \/ \E r \in Refresher : Rollback(r) \/ CommitRefused(r) \/ Commit(r)
  /\ UNCHANGED ownerVars

\* The clock, and the reaper's sweeps of expired tokens.
SweepStep ==
  /\ Tick \/ SweepExpiredPending \/ SweepExpiredBound
  /\ UNCHANGED ownerVars

AcceptStep ==
  \/ AcceptAuthorize \/ AcceptDeny \/ AcceptRefuse \/ AcceptLock \/ AcceptBind
  \/ AcceptBindRefused \/ AcceptPublish \/ AcceptRegister \/ AcceptEnd \/ AcceptJoin

ClassifyStep ==
  \/ \E m \in {"shared", "isolated"} : ClassifyLive(m)
  \/ LiveRevoke \/ EvictExtraSessions \/ CommitFreeze
  \/ \E m \in {"none", "shared", "isolated"} : CommitUnsealed(m)
  \/ \E k \in Session \cup {NoSession} : CommitIsolated(k)
  \/ CommitEvict

RemoveStep ==
  \/ ReaperSweep \/ CountSessions \/ CountPending
  \/ \E who \in {"idle", "operator"} : ClaimRemoval(who)
  \/ CloseListener \/ PurgeReservations \/ CloseSessions \/ Finalize \/ RemoveEntry

AdmissionNext ==
  \/ \E t \in Token : PreRegister(t) \/ PreRegisterInitial(t) \/ HandleSpawnResponseFailure(t)
  \/ \E t \in Token, s \in Session : AcceptLookup(t, s)
  \/ AcceptStep
  \/ \E s \in Session : PeerLeaves(s) \/ Unlink(s) \/ Leave(s)
  \/ WorkBegins \/ WorkReturns
  \/ ClassifyStep
  \/ RemoveStep
  \/ RefreshStep
  \/ SweepStep

AdmissionSpec == AdmissionInit /\ [][AdmissionNext]_allVars

(* A claimed removal runs to its end in its own goroutine, and so do the   *)
(* accept loop (AuthorizeSession returns), a reader whose transport is     *)
(* closed and a classifier that holds admissionMu. A step that waits for   *)
(* admissionMu or o.mu is strongly fair: a Go mutex hands over to a waiter *)
(* that has waited for a millisecond.                                      *)
FairAdmissionSpec ==
  /\ AdmissionSpec
  /\ SF_allVars(\/ AcceptAuthorize \/ AcceptDeny \/ AcceptRefuse \/ AcceptLock \/ AcceptBind
                \/ AcceptBindRefused \/ AcceptPublish \/ AcceptRegister \/ AcceptEnd \/ AcceptJoin
                \/ \E s \in Session : Unlink(s) \/ Leave(s))
  /\ WF_allVars(LiveRevoke \/ EvictExtraSessions \/ CommitEvict \/ CommitUnsealed(mode)
                \/ \E k \in Session \cup {NoSession} : CommitIsolated(k))
  /\ SF_allVars(CloseListener \/ PurgeReservations \/ CloseSessions \/ Finalize \/ RemoveEntry)

-----------------------------------------------------------------------------
\* closeListener seals admission: no session is registered afterwards, whatever
\* stage of the handshake it had reached when the listener was closed.
NoAdmissionAfterClose ==
  [][\A s \in Session : life[s] = "new" /\ life'[s] = "open" => listener = "open"]_allVars

\* After an isolated verdict has revoked the fan-in, no fresh reservation of
\* another shim is left or added; only reconnects and the creating shim remain.
FreshAdmissionSealed ==
  mode = "isolated" /\ classifier \in {"live_revoked", "revoking", "sealed"} =>
    fresh \cap DOMAIN pending = {}

\* Removal leaves nothing behind.  Once closeListener has purged the
\* reservations, no token that a shim holds is pending again: a refresh that saw
\* the owner alive before the close loses its reservation, a later one sees it
\* gone.  And once the owner is removed, the accept loop, every reader, every
\* callback and every request have returned and the manager knows no session
\* and no history.
RemovedIsQuiet ==
  /\ AdmissionTypeOK
  /\ listener = "purged" => DOMAIN pending \cap delivered = {}
  /\ cleanup = "removed" =>
       /\ accept = Joined /\ ~busy
       /\ ownerSessions = {} /\ sessions = EmptyMap /\ bound = EmptyMap

\* A claimed removal completes, although shims connect, refresh and leave while
\* it runs, if the callbacks and requests of the owner return; one that does not
\* return blocks it (nativeQuiescent), as the code means it to.
RemovalCompletes == []<>~busy => (cleanup = "claimed" ~> cleanup = "removed")

(* What the comments and documents of the repository say and the code does *)
(* not do.                                                                 *)

\* RegisterReconnect: "The pending reservation is visible before ownerAlive runs
\* so idle cleanup cannot remove the owner after validating it."
IdleCleanupSparesRefresh ==
  removal = "idle" /\ listener # "open" =>
    DOMAIN pending \cap delivered \subseteq fresh \cup {initial}

\* README: "isolated: Each session gets its own upstream process."
IsolatedSingleSession ==
  mode = "isolated" /\ classifier = "sealed" => Cardinality(ownerSessions \ closed) <= 1

=============================================================================
