---------------------------- MODULE Maintenance ----------------------------
(***************************************************************************)
(* Maintenance leases (muxcore/daemon/maintenance*.go): an installer holds *)
(* the contexts of one command, the daemon makes the lease durable, keeps  *)
(* new work out, retires the process trees that serve those contexts and   *)
(* reports HELD only then; a lease is resumed, renewed, or expires.        *)
(*                                                                         *)
(* Everything under maintenanceGate is one step; the namespace file lock   *)
(* is tried, never awaited.  The durable authority is two files, each      *)
(* replaced atomically, whose writes may fail before or after they are     *)
(* published.  The daemon may be killed between any two steps, and in the  *)
(* middle of a commit: the files are then as a failed commit leaves them.  *)
(***************************************************************************)
EXTENDS Naturals, FiniteSets, Functions

CONSTANTS
  Hold,       \* hold IDs; each is a fresh token, used once
  Entry,      \* entry objects; one that nobody refers to is used again
  Sid,        \* the server ID of an entry
  Key,        \* contexts: digests of command, arguments, directory and env
  None,       \* no server ID
  MaxTrouble  \* bound: failed commits, killed daemons, other takers of the
              \* file lock and renewals, together

ASSUME MaintenanceAssumption ==
  /\ MaxTrouble \in Nat /\ DOMAIN Sid = Entry /\ None \notin Range(Sid)

VARIABLES
  phase,   \* "up", "stopping" (shuttingDown), "down", "refused" (New failed)
  disk,    \* ledger.json, transaction.json, and whether their directory exists
  leases,  \* maintenanceLeases
  failed,  \* maintenanceFailed: "no", "store", or "acquire" (owners fenced too)
  entry,   \* the entries and what the daemon does with their owners
  lock,    \* the namespace file lock: "free", "call", "outside", "checked"
  call,    \* the acquireMaintenance that holds the file lock
  public,  \* ghost: what the daemon last acknowledged of a hold
  covers,  \* ghost: the contexts of a hold
  trouble  \* the bounded events so far

vars == <<phase, disk, leases, failed, entry, lock, call, public, covers, trouble>>

Txn == 0..2
States == {"HOLDING", "HELD", "BLOCKED"}
NoCall == [pc |-> "idle", hold |-> None, todo |-> {}, blocked |-> FALSE]
Unused == [st |-> "gone", ctx |-> {}, served |-> {}, whole |-> TRUE, tree |-> "none",
           work |-> FALSE, retrying |-> FALSE, notify |-> FALSE]

Trouble == trouble < MaxTrouble /\ trouble' = trouble + 1
-----------------------------------------------------------------------------
(* The durable authority (maintenance_store.go).                           *)

Record(lease) == [state |-> lease.state, keys |-> lease.keys, past |-> lease.past]

maintenanceRecords(ls) == [h \in DOMAIN ls |-> Record(ls[h])]

FreshTxn(d) == CHOOSE t \in Txn : t # d.ledger.txn /\ t # d.journal.txn

Prepared(d) == [d EXCEPT !.dir = TRUE, !.journal = [txn |-> FreshTxn(d), state |-> "prepared"]]
Published(d, recs) ==
  [Prepared(d) EXCEPT !.ledger = [txn |-> FreshTxn(d), leases |-> recs, written |-> TRUE]]
Certified(d, recs) == [Published(d, recs) EXCEPT !.journal.state = "committed"]

(* A failed commit: the first write created at most the directory, or left *)
(* the predecessor prepared, or the ledger was published, or the error     *)
(* came after the certificate was.                                         *)
Interrupted(d, recs) ==
  {[d EXCEPT !.dir = TRUE], Prepared(d), Published(d, recs), Certified(d, recs)}

commitMaintenanceStore(d, recs, ok) ==
  IF ok THEN {Certified(d, recs)} ELSE Interrupted(d, recs)

NeverUsed(d) == ~d.dir /\ ~d.ledger.written /\ d.journal.state = "none"

readMaintenanceAuthority(d) ==
  \/ NeverUsed(d)
  \/ /\ d.ledger.written
     /\ d.journal.state = "committed"
     /\ d.journal.txn = d.ledger.txn
-----------------------------------------------------------------------------
(* Leases and the admission they fence.                                    *)

maintenanceForKey(ls, key) == \E h \in DOMAIN ls : key \in ls[h].keys

\* Mutant: a lease fences only once its trees have retired.
checkHeldOnly(keys) ==
  /\ failed = "no"
  /\ \A k \in keys, h \in DOMAIN leases : leases[h].state = "HELD" => k \notin leases[h].keys

checkMaintenanceKeyLocked(keys) ==
  failed = "no" /\ \A k \in keys : ~maintenanceForKey(leases, k)

Pinned(e) == \E h \in DOMAIN leases : e \in leases[h].pins

(* Owner.maintenance: published to the owners of a lease's pins, and to    *)
(* every owner when an acquisition could not be made durable.              *)
SetMaintenance(e) == failed = "acquire" \/ Pinned(e)

Open(e) == phase = "up" /\ entry[e].st = "live" /\ ~entry[e].retrying
Registered(e) == entry[e].st \in {"placeholder", "live"}
Up == phase = "up"

(* A proven finalization takes the entry out of the registry; a discarded  *)
(* placeholder is settled and never had an owner.                          *)
Retired(e) == entry[e].st = "gone"

\* Mutant: a recovered lease has no pins left, so nothing seems to run.
treesRetiredWithoutPins(lease) == \A e \in lease.pins : Retired(e)

maintenanceTreesRetiredLocked(lease) ==
  IF lease.recovered THEN lease.state = "HELD" ELSE \A e \in lease.pins : Retired(e)

(* What the installer may rely on after a commit.                          *)
Acknowledged(ls) ==
  [h \in Hold |->
     IF h \in DOMAIN ls THEN IF ls[h].state = "HELD" /\ ls[h].past THEN "lapsed" ELSE ls[h].state
     ELSE IF h \in DOMAIN leases THEN "released" ELSE public[h]]

(* commitMaintenanceLeaseLocked: the timer of the new lease is the expiry, *)
(* unless a blocked retirement is being retried.                           *)
Rescheduled(current, updated) ==
  [updated EXCEPT !.timer =
     IF current.timer = "retry" /\ updated.state = "BLOCKED" THEN "retry" ELSE "expiry"]

Drop(ls, hs) == Restrict(ls, DOMAIN ls \ hs)
Put(ls, h, lease) == [g \in DOMAIN ls \cup {h} |-> IF g = h THEN lease ELSE ls[g]]

(* ls is what memory becomes if the commit is acknowledged.                *)
Persist(d, ls, ok) ==
  /\ \E d2 \in commitMaintenanceStore(d, maintenanceRecords(ls), ok) : disk' = d2

CommitOk(ls) ==
  /\ Persist(disk, ls, TRUE)
  /\ leases' = ls
  /\ public' = Acknowledged(ls)
  /\ UNCHANGED <<failed, trouble>>

(* A release that failed may be durable or not.                            *)
Doubted(pub, ls, next) ==
  [h \in Hold |-> IF h \in DOMAIN ls \ DOMAIN next THEN "doubt" ELSE pub[h]]

(* An error leaves memory as it was; what failing means differs by caller. *)
CommitError(ls, failure) ==
  /\ Persist(disk, ls, FALSE)
  /\ failed' = failure
  /\ Trouble
  /\ public' = Doubted(public, leases, ls)
  /\ UNCHANGED leases

Released(h) == Drop(leases, {h})
Updated(h, lease) == Put(leases, h, Rescheduled(leases[h], lease))

finishMaintenanceRetirementLocked(h) ==
  IF leases[h].past THEN Released(h) ELSE Updated(h, [leases[h] EXCEPT !.state = "HELD"])

Expired == {h \in DOMAIN leases : leases[h].state = "HELD" /\ leases[h].past}

(* expireMaintenanceLocked commits one release after the other, and stops  *)
(* at the first that fails.                                                *)
expireMaintenanceLocked(failure) ==
  \/ /\ Expired # {}
     /\ CommitOk(Drop(leases, Expired))
  \/ \E done \in SUBSET Expired : \E h \in Expired \ done :
       /\ IF done = {} THEN CommitError(Released(h), failure)
          ELSE /\ \E d1 \in commitMaintenanceStore(disk, maintenanceRecords(Drop(leases, done)), TRUE) :
                    Persist(d1, Drop(leases, done \cup {h}), FALSE)
               /\ leases' = Drop(leases, done)
               /\ public' = [Acknowledged(Drop(leases, done)) EXCEPT ![h] = "doubt"]
               /\ failed' = failure
               /\ Trouble
-----------------------------------------------------------------------------
(* Owners: placeholders, sessions, process trees, removal.                 *)

Free(e) ==
  /\ entry[e].st = "gone" /\ entry[e].tree # "running"
  /\ ~entry[e].notify /\ ~entry[e].retrying /\ ~Pinned(e)
  /\ e \notin call.todo

EntryOnly == UNCHANGED <<phase, disk, leases, failed, lock, call, public, covers, trouble>>

(* spawnOnce reserves the server ID under the gate.                        *)
Reserve(e, key) ==
  /\ Up /\ Free(e)
  /\ \A f \in Entry \ {e} : Sid[f] = Sid[e] => ~Registered(f)
  /\ checkMaintenanceKeyLocked({key})
  /\ entry' = [entry EXCEPT ![e] = [Unused EXCEPT !.st = "placeholder", !.ctx = {key}, !.served = {key}]]
  /\ EntryOnly

(* lockMaintenanceRegistry checks again before promotion; a refused        *)
(* placeholder is deleted and its channel closed.                          *)
Promote(e) ==
  /\ Up /\ entry[e].st = "placeholder"
  /\ entry' = [entry EXCEPT ![e] =
       IF checkMaintenanceKeyLocked(entry[e].ctx) THEN [@ EXCEPT !.st = "live"] ELSE Unused]
  /\ EntryOnly

admitOwner(e, key) ==
  /\ Open(e)
  /\ key \notin entry[e].served
  /\ checkMaintenanceKeyLocked({key} \cup entry[e].ctx)
  /\ entry' = [entry EXCEPT ![e].ctx = @ \cup {key}, ![e].served = @ \cup {key}]
  /\ EntryOnly

admitMaterialization(e) == checkMaintenanceKeyLocked(entry[e].ctx)

(* The gate is held from the election to the installation of the process.  *)
startAdmittedMaterialization(e) ==
  /\ Open(e)
  /\ entry[e].tree # "running"
  /\ ~SetMaintenance(e) /\ admitMaterialization(e)
  /\ entry' = [entry EXCEPT ![e].tree = "running"]
  /\ EntryOnly

(* A request or callback is reserved under the gate, and settles later.    *)
reserveNativeWork(e) ==
  /\ Open(e)
  /\ ~SetMaintenance(e) /\ ~entry[e].work
  /\ entry' = [entry EXCEPT ![e].work = TRUE]
  /\ EntryOnly

WorkSettles(e) ==
  /\ entry[e].work
  /\ entry' = [entry EXCEPT ![e].work = FALSE]
  /\ EntryOnly

TreeDies(e) ==
  /\ entry[e].tree = "running"
  /\ entry' = [entry EXCEPT ![e].tree = "none"]
  /\ EntryOnly

(* FinalizeForRemoval: the entry goes once the whole tree is dead and no   *)
(* work is left; otherwise it stays, closed for good, and is retried.      *)
Finalized(told) == [Unused EXCEPT !.notify = told]

Unproven(e) == [entry[e] EXCEPT !.retrying = TRUE]

nativeQuiescent(e) == ~entry[e].work

finalizeOwner(e, told) ==
  \/ nativeQuiescent(e) /\ entry' = [entry EXCEPT ![e] = Finalized(told)]
  \/ (entry[e].tree = "running" \/ entry[e].work) /\ entry' = [entry EXCEPT ![e] = Unproven(e)]

(* The reaper and upstream exits remove owners without asking for leases.  *)
IdleRemoval(e) ==
  /\ Open(e) /\ nativeQuiescent(e)
  /\ finalizeOwner(e, TRUE)
  /\ EntryOnly

checkOperatorRemovalLocked(e) ==
  /\ \A h \in DOMAIN leases : leases[h].server # Sid[e]
  /\ checkMaintenanceKeyLocked(entry[e].ctx)

OperatorRemoval(e) ==
  /\ Open(e)
  /\ checkOperatorRemovalLocked(e)
  /\ finalizeOwner(e, TRUE)
  /\ EntryOnly

finalizationRetry(e) ==
  /\ Up /\ entry[e].retrying
  /\ finalizeOwner(e, TRUE)
  /\ EntryOnly
-----------------------------------------------------------------------------
(* acquireMaintenance: the call that keeps the file lock throughout.       *)

contextsOverlap(keys, e) == entry[e].ctx \cap keys # {}

Selectable(e) ==
  /\ Registered(e)
  /\ \A h \in DOMAIN leases : leases[h].server # Sid[e]
  /\ \A f \in Entry : Registered(f) => entry[f].whole
  /\ \A f \in Entry : Registered(f) /\ contextsOverlap(entry[e].ctx, f)
                        => entry[f].ctx \subseteq entry[e].ctx
  /\ \A k \in entry[e].ctx : ~maintenanceForKey(leases, k)

Pins(e) == {f \in Entry : Registered(f) /\ contextsOverlap(entry[e].ctx, f)}

Seed(e) ==
  [state |-> "HOLDING", keys |-> entry[e].ctx, past |-> FALSE, pins |-> Pins(e),
   server |-> Sid[e], recovered |-> FALSE, timer |-> "expiry"]

(* The seed, then the clocked lease: two commits.  If either fails the     *)
(* daemon fails closed and fences every owner.                             *)
Acquire(h, e) ==
  LET seeded == Put(leases, h, Seed(e))
  IN /\ covers' = [covers EXCEPT ![h] = entry[e].ctx]
     /\ \/ \* both acknowledged
           /\ CommitOk(seeded)
           /\ lock' = "call"
           /\ call' = [NoCall EXCEPT !.pc = "wait", !.hold = h,
                                     !.todo = {f \in Pins(e) : entry[f].st = "live"}]
        \/ \* the seed failed
           /\ CommitError(seeded, "acquire")
           /\ UNCHANGED <<lock, call>>
        \/ \* the seed is durable, the clocked lease failed
           /\ \E d1 \in commitMaintenanceStore(disk, maintenanceRecords(seeded), TRUE) :
                Persist(d1, seeded, FALSE)
           /\ leases' = Put(leases, h, [Seed(e) EXCEPT !.timer = "none"])
           /\ public' = Acknowledged(seeded)
           /\ failed' = "acquire"
           /\ Trouble
           /\ UNCHANGED <<lock, call>>

acquireMaintenance(h, e) ==
  /\ Up /\ lock = "free" /\ failed = "no"
  /\ public[h] = "none" /\ covers[h] = {}
  /\ Expired = {} /\ Selectable(e)
  /\ Acquire(h, e)
  /\ UNCHANGED <<phase, entry>>

CallOnly == UNCHANGED <<phase, disk, leases, failed, lock, public, covers, trouble>>

(* Placeholders settle, or the drain deadline passes first; then           *)
(* DrainForMaintenance gives what is already reserved until the deadline,  *)
(* which may be now, and answers the requests still in flight.             *)
AwaitPlaceholders ==
  /\ Up /\ call.pc = "wait"
  /\ \E settled \in BOOLEAN :
       /\ settled => \A e \in leases[call.hold].pins : entry[e].st # "placeholder"
       /\ call' = [call EXCEPT !.pc = "remove", !.blocked = ~settled]
  /\ UNCHANGED entry /\ CallOnly

(* removeOwnerIfCurrent for a pinned owner.  Its own notification finds    *)
(* the file lock taken and the lease HOLDING, and does nothing.            *)
RemovePinned(e) ==
  /\ Up /\ call.pc = "remove" /\ e \in call.todo
  /\ IF entry[e].st = "live"
     THEN /\ finalizeOwner(e, FALSE)
          /\ call' = [call EXCEPT !.todo = @ \ {e}, !.blocked = @ \/ entry'[e].st = "live"]
     ELSE /\ call' = [call EXCEPT !.todo = @ \ {e}]
          /\ UNCHANGED entry
  /\ CallOnly

Return == lock' = "free" /\ call' = NoCall /\ UNCHANGED <<phase, entry, covers>>

(* A released lease, an unretired one without a blocked removal, and a     *)
(* lease that is gone all end the call without a commit.                   *)
FinishCall ==
  LET h == call.hold
      retired == maintenanceTreesRetiredLocked(leases[h])
      blocked == Updated(h, [leases[h] EXCEPT !.state = "BLOCKED"])
      next == IF retired THEN finishMaintenanceRetirementLocked(h) ELSE blocked
  IN /\ Up /\ call.pc = "remove" /\ call.todo = {}
     /\ IF h \notin DOMAIN leases \/ (~call.blocked /\ ~retired)
        THEN UNCHANGED <<disk, leases, failed, public, trouble>>
        ELSE CommitOk(next) \/ CommitError(next, failed)
     /\ Return
-----------------------------------------------------------------------------
(* What else moves a lease: notifications, timers, the reaper, requests.   *)

LeaseOnly == UNCHANGED <<phase, entry, lock, call, covers>>
Matched(e) == {h \in DOMAIN leases : e \in leases[h].pins /\ leases[h].state # "HELD"}

(* The lock is taken: a blocked lease is retried by its timer.             *)
RetryLater(e) ==
  [h \in DOMAIN leases |->
     IF h \in Matched(e) /\ leases[h].state = "BLOCKED"
     THEN [leases[h] EXCEPT !.timer = "retry"] ELSE leases[h]]

maintenanceRetirementChanged(e) ==
  /\ Up /\ entry[e].notify
  /\ entry' = [entry EXCEPT ![e].notify = FALSE]
  /\ LET ready == {h \in Matched(e) : maintenanceTreesRetiredLocked(leases[h])}
     IN IF failed # "no" THEN UNCHANGED <<disk, leases, failed, public, trouble>>
        ELSE IF lock # "free"
        THEN leases' = RetryLater(e) /\ UNCHANGED <<disk, failed, public, trouble>>
        ELSE IF ready = {} THEN UNCHANGED <<disk, leases, failed, public, trouble>>
        ELSE \E h \in ready :
               \/ CommitOk(finishMaintenanceRetirementLocked(h))
               \/ CommitError(finishMaintenanceRetirementLocked(h), "store")
  /\ UNCHANGED <<phase, lock, call, covers>>

SetTimer(h, timer) == leases' = [leases EXCEPT ![h].timer = timer]
TimerRuns(h) == Up /\ failed = "no" /\ h \in DOMAIN leases

(* The expiry timer; while the lock is taken it is set again.              *)
ExpiryTimer(h) ==
  /\ TimerRuns(h) /\ leases[h].timer = "expiry" /\ leases[h].past
  /\ lock = "free"
  /\ IF h \in Expired THEN expireMaintenanceLocked("store")
     ELSE SetTimer(h, "none") /\ UNCHANGED <<disk, failed, public, trouble>>
  /\ LeaseOnly

(* The retry timer goes back to the expiry before it publishes.            *)
RetryTimer(h) ==
  LET due == leases[h].state = "BLOCKED" /\ maintenanceTreesRetiredLocked(leases[h])
      next == finishMaintenanceRetirementLocked(h)
  IN /\ TimerRuns(h) /\ leases[h].timer = "retry"
     /\ due => lock = "free"
     /\ IF ~due THEN SetTimer(h, "expiry") /\ UNCHANGED <<disk, failed, public, trouble>>
        ELSE \/ CommitOk(next)
             \/ /\ Persist(disk, next, FALSE)
                /\ failed' = "store"
                /\ Trouble
                /\ SetTimer(h, "expiry")
                /\ public' = Doubted(public, leases, next)
     /\ LeaseOnly

(* reconcileMaintenance, at every sweep of the reaper: an error is left    *)
(* for the next sweep.                                                     *)
Unpublished == {h \in DOMAIN leases : leases[h].state # "HELD" /\ maintenanceTreesRetiredLocked(leases[h])}

\* Mutant: the sweep leaves retirements to their notifications.
reconcileExpiryOnly ==
  /\ Up /\ failed = "no" /\ lock = "free"
  /\ expireMaintenanceLocked(failed)
  /\ LeaseOnly

reconcileMaintenance ==
  /\ Up /\ failed = "no" /\ lock = "free"
  /\ \/ \E h \in Unpublished :
          \/ CommitOk(finishMaintenanceRetirementLocked(h))
          \/ CommitError(finishMaintenanceRetirementLocked(h), failed)
     \/ Unpublished = {} /\ expireMaintenanceLocked(failed)
  /\ LeaseOnly

(* mutateMaintenance.  It expires leases first, like the sweep: that is a  *)
(* step of its own here, as it is for acquireMaintenance.                  *)

\* Mutant: the lease is released whatever became of the files.
resumeApplied(h) ==
  /\ Up /\ failed = "no" /\ lock = "free"
  /\ h \in DOMAIN leases \ Expired /\ leases[h].state = "HELD"
  /\ \E ok \in BOOLEAN : Persist(disk, Released(h), ok)
  /\ leases' = Released(h) /\ public' = Acknowledged(Released(h))
  /\ Trouble
  /\ UNCHANGED failed
  /\ LeaseOnly

resume(h) ==
  /\ Up /\ failed = "no" /\ lock = "free"
  /\ h \in DOMAIN leases \ Expired
  /\ leases[h].state = "HELD" /\ maintenanceTreesRetiredLocked(leases[h])
  /\ CommitOk(Released(h)) \/ CommitError(Released(h), failed)
  /\ LeaseOnly

renew(h) ==
  LET next == Updated(h, [leases[h] EXCEPT !.past = FALSE])
  IN /\ Up /\ failed = "no" /\ lock = "free"
     /\ h \in DOMAIN leases /\ ~leases[h].past
     /\ \/ /\ Persist(disk, next, TRUE)
           /\ leases' = next
           /\ public' = Acknowledged(next)
           /\ Trouble
           /\ UNCHANGED failed
        \/ CommitError(next, failed)
     /\ LeaseOnly

(* ExpiresAt passes, for the lease in memory and for the one on disk.      *)
Lapse(h) ==
  /\ \/ h \in DOMAIN leases /\ ~leases[h].past
     \/ phase = "down" /\ h \in DOMAIN disk.ledger.leases /\ ~disk.ledger.leases[h].past
  /\ leases' = IF h \in DOMAIN leases THEN [leases EXCEPT ![h].past = TRUE] ELSE leases
  /\ disk' = IF h \in DOMAIN disk.ledger.leases
             THEN [disk EXCEPT !.ledger.leases[h].past = TRUE] ELSE disk
  /\ public' = [public EXCEPT ![h] = IF @ = "HELD" THEN "lapsed" ELSE @]
  /\ UNCHANGED <<phase, failed, entry, lock, call, covers, trouble>>
-----------------------------------------------------------------------------
(* Another process of the namespace: an installer that activates a new     *)
(* binary checks the authority under the file lock.                        *)

OutsideLock ==
  /\ lock = "free"
  /\ lock' = "outside" /\ Trouble
  /\ UNCHANGED <<phase, disk, leases, failed, entry, call, public, covers>>

CheckMaintenanceForActivation ==
  /\ lock = "outside"
  /\ readMaintenanceAuthority(disk) /\ DOMAIN disk.ledger.leases = {}
  /\ lock' = "checked"
  /\ UNCHANGED <<phase, disk, leases, failed, entry, call, public, covers, trouble>>

OutsideUnlock ==
  /\ lock \in {"outside", "checked"}
  /\ lock' = "free"
  /\ UNCHANGED <<phase, disk, leases, failed, entry, call, public, covers, trouble>>
-----------------------------------------------------------------------------
(* The daemon's life.                                                      *)

beginMaintenanceLifecycle ==
  /\ Up /\ failed = "no" /\ DOMAIN leases = {}
  /\ phase' = "stopping"
  /\ UNCHANGED <<disk, leases, failed, entry, lock, call, public, covers, trouble>>

(* A tree that outlives a killed daemon is followed only while a lease     *)
(* covers it: the others are nobody's promise.                             *)
Orphan(e) ==
  /\ entry[e].tree = "running"
  /\ \E h \in DOMAIN disk.ledger.leases : covers[h] \cap entry[e].served # {}

Crash ==
  /\ phase \in {"up", "stopping"}
  /\ Trouble
  /\ phase' = "down"
  /\ leases' = [h \in {} |-> Seed(h)]
  /\ failed' = "no"
  /\ entry' = [e \in Entry |-> IF Orphan(e)
       THEN [Unused EXCEPT !.tree = "running", !.served = entry[e].served] ELSE Unused]
  /\ lock' = IF lock = "call" THEN "free" ELSE lock
  /\ call' = NoCall
  /\ UNCHANGED <<disk, public, covers>>

Recovered(record) ==
  [state |-> IF record.state = "HELD" THEN "HELD" ELSE "BLOCKED", keys |-> record.keys,
   past |-> record.past, pins |-> {}, server |-> None, recovered |-> TRUE, timer |-> "expiry"]

(* New loads the authority before anything else, and fails on what it      *)
(* cannot prove.                                                           *)
loadMaintenance ==
  /\ phase = "down"
  /\ IF readMaintenanceAuthority(disk)
     THEN /\ phase' = "up"
          /\ leases' = [h \in DOMAIN disk.ledger.leases |-> Recovered(disk.ledger.leases[h])]
     ELSE phase' = "refused" /\ UNCHANGED leases
  /\ UNCHANGED <<disk, failed, entry, lock, call, public, covers, trouble>>

(* A graceful successor restores the owners, whose contexts the snapshot   *)
(* does not prove complete; it refuses to start if it finds a lease.       *)
maintenanceRestoreContexts(e) ==
  IF entry[e].st = "live" /\ ~entry[e].retrying
  THEN {[entry[e] EXCEPT !.ctx = {k}, !.whole = FALSE, !.work = FALSE] : k \in entry[e].ctx}
  ELSE {Unused}

Successor ==
  /\ phase = "stopping"
  /\ readMaintenanceAuthority(disk) /\ DOMAIN disk.ledger.leases = {}
  /\ phase' = "up"
  /\ \E es \in [Entry -> UNION {maintenanceRestoreContexts(e) : e \in Entry}] :
       /\ \A e \in Entry : es[e] \in maintenanceRestoreContexts(e)
       /\ entry' = es
  /\ UNCHANGED <<disk, leases, failed, lock, call, public, covers, trouble>>

Init ==
  /\ phase = "up"
  /\ disk = [dir |-> FALSE, journal |-> [txn |-> 0, state |-> "none"],
             ledger |-> [txn |-> 0, leases |-> [h \in {} |-> None], written |-> FALSE]]
  /\ leases = [h \in {} |-> None]
  /\ failed = "no"
  /\ entry = [e \in Entry |-> Unused]
  /\ lock = "free" /\ call = NoCall
  /\ public = [h \in Hold |-> "none"]
  /\ covers = [h \in Hold |-> {}]
  /\ trouble = 0

Publish(h) == ExpiryTimer(h) \/ RetryTimer(h)

Next ==
  \/ \E e \in Entry :
       \/ \E k \in Key : Reserve(e, k) \/ admitOwner(e, k)
       \/ Promote(e) \/ startAdmittedMaterialization(e)
       \/ reserveNativeWork(e) \/ WorkSettles(e) \/ TreeDies(e)
       \/ IdleRemoval(e) \/ OperatorRemoval(e) \/ finalizationRetry(e)
       \/ RemovePinned(e) \/ maintenanceRetirementChanged(e)
       \/ \E h \in Hold : acquireMaintenance(h, e)
  \/ AwaitPlaceholders \/ FinishCall
  \/ \E h \in Hold : Publish(h) \/ resume(h) \/ renew(h) \/ Lapse(h)
  \/ reconcileMaintenance
  \/ OutsideLock \/ CheckMaintenanceForActivation \/ OutsideUnlock
  \/ beginMaintenanceLifecycle \/ Crash \/ loadMaintenance \/ Successor

Spec == Init /\ [][Next]_vars

(* The goroutine of the call runs on, the reaper sweeps, and other         *)
(* processes give the file lock back.                                      *)
Fairness ==
  /\ WF_vars(AwaitPlaceholders \/ FinishCall
             \/ \E e \in Entry : RemovePinned(e))
  /\ WF_vars(reconcileMaintenance)
  /\ WF_vars(OutsideUnlock)

FairSpec == Spec /\ Fairness
-----------------------------------------------------------------------------
(* Every component stays in its range.                                     *)
MaintenanceTypeOK ==
  /\ phase \in {"up", "stopping", "down", "refused"}
  /\ disk.journal.txn \in Txn /\ disk.ledger.txn \in Txn
  /\ DOMAIN leases \subseteq Hold
  /\ \A h \in DOMAIN leases : leases[h].state \in States /\ leases[h].keys # {}
                               /\ leases[h].pins \subseteq Entry
  /\ failed \in {"no", "store", "acquire"}
  /\ lock \in {"free", "call", "outside", "checked"}
  /\ lock = "call" <=> call.pc # "idle"
  /\ \A e \in Entry : entry[e].ctx \subseteq entry[e].served

(* While a hold is acknowledged HELD and has not lapsed, no process tree   *)
(* runs and no callback is left that serves one of its contexts, not even  *)
(* one that an earlier, killed daemon left behind while it was retiring    *)
(* them (maintenanceTreesRetiredLocked, loadMaintenance).                  *)
HeldMeansQuiet ==
  \A h \in Hold, e \in Entry :
    public[h] = "HELD" /\ covers[h] \cap entry[e].served # {}
      => entry[e].tree # "running" /\ ~entry[e].work

(* What the daemon has told somebody stays true.  An acknowledged HELD     *)
(* hold is in force in every daemon that runs, and any authority that a    *)
(* later daemon would accept still contains it.  A hold whose release was  *)
(* acknowledged (resume, expiry) never comes back, neither in memory nor   *)
(* from the files.  And an installer that has passed                       *)
(* CheckMaintenanceForActivation and still has the file lock activates     *)
(* while no hold is acknowledged.                                          *)
AcknowledgedIsTrue ==
  /\ MaintenanceTypeOK
  /\ \A h \in Hold : public[h] = "HELD" =>
       /\ phase \in {"up", "stopping"} => h \in DOMAIN leases /\ leases[h].state = "HELD"
       /\ readMaintenanceAuthority(disk)
            => h \in DOMAIN disk.ledger.leases /\ disk.ledger.leases[h].state = "HELD"
  /\ \A h \in Hold : public[h] = "released" =>
       /\ h \notin DOMAIN leases
       /\ readMaintenanceAuthority(disk) => h \notin DOMAIN disk.ledger.leases
  /\ lock = "checked" => \A h \in Hold : public[h] \notin States

(* From the acknowledged seed on, whatever its state and whichever daemon  *)
(* runs, no tree is started for a context of a hold.                       *)
FenceHolds ==
  [][\A e \in Entry, h \in Hold :
       /\ entry[e].tree # "running" /\ entry'[e].tree = "running"
       /\ public[h] \in States
       => covers[h] \cap entry'[e].served = {}]_vars

(* A lease whose trees have all retired is published, and an expired HELD  *)
(* lease is released, unless the daemon stops or has failed closed: no     *)
(* contention for the file lock, lost notification or failed commit leaves *)
(* it behind.                                                              *)
Overdue(h) ==
  /\ Up /\ failed = "no" /\ h \in DOMAIN leases
  /\ h \in Unpublished \/ h \in Expired

LeaseSettles == \A h \in Hold : Overdue(h) ~> ~Overdue(h)
=============================================================================
