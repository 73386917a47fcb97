# A TLA+ development of mcp-mux

mcp-mux lets several MCP clients share one upstream MCP server. A *shim* talks
stdio to its client and a local socket to an *owner*; the owner runs one upstream
process and multiplexes the sessions of its shims onto it; a *daemon* keeps the
owners, hands out handshake tokens and removes owners nobody uses; a *supervisor*
replaces the engine program under a live stdio session. The code is Go, and almost
every rule of it is kept by several goroutines at once.

This directory holds TLA+ modules translated from that code, the TLC
configurations that check them on small instances, and proofs that TLAPS checks.
`PROJECT.json` ties every definition to the source lines it models.

    tlc -workers 2 -config MCSessionManager.cfg MCSessionManager
    tlapm OwnerAdmissionProofs.tla      # and Materialization-, Routing-, Spawn-, Maintenance-,
                                        # Restart-, Client- and SupervisorProofs.tla

## 1. Inventory

| component | state | operations | talks to |
|---|---|---|---|
| session manager (`muxcore/session/session_manager.go`) | maps `sessions`, `inflight`, `pending`, `bound`, `lastActive` under one mutex | register and remove a session, reserve, bind, revoke, refresh and sweep tokens, export and import history, track requests, resolve callbacks | owner (accept loop, readers, routing), daemon (spawn, refresh, reaper, snapshot) |
| owner admission (`muxcore/owner/owner.go`) | `sessions`, `listenerDone`, `autoClassification`, `initialAdmissionToken`, `admissionMu` | accept loop, add and remove session, classify, evict, close listener, teardown | session manager, daemon callbacks (`onZeroSessions`, `onCacheReady`) |
| upstream controller (`muxcore/owner/materialization.go`) | state `CACHE_ONLY`/`MATERIALIZING`/`READY`/`RETRY_BACKOFF`/`FINALIZING`/`FINALIZE_BLOCKED`, attempt, generation, retiring process, pending demands, staged cache, restart pins | start, discover, commit, forward, retire, prove, retry, stop, pin | upstream process, session manager, accept loop, daemon restart |
| owner message routing (`owner.go`, `remap`, `progress_reporter.go`, `listchanged_inject.go`) | caches, in-flight tracker, progress tokens, cancelled IDs | replay, remap, forward, broadcast, callback | upstream, sessions |
| modern era (`owner/modern.go`, `daemon/modern_sharing.go`) | subscriptions, exact-context sharing | subscribe, route, settle | routing, spawn |
| resilient client (`owner/resilient_client.go`, `resilient_maintenance.go`) | in-flight and buffered requests, handshake to replay, reconnect state | proxy, reconnect, refresh, replay, refuse | owner socket, control plane |
| daemon spawn (`daemon/daemon.go`) | owner entries, placeholders, templates, crash counters | find, create, wait, deduplicate, replace | owners, control plane |
| owner lifecycle and reaper (`daemon/owner_lifecycle.go`, `reaper.go`) | removal claims, idle timers | sample, claim, finalize, remove, sweep | owner, session manager |
| maintenance (`daemon/maintenance*.go`, `owner/maintenance.go`) | durable leases, holds | hold, drain, retire, activate, release, reconcile, restore | store, owners |
| handoff (`daemon/handoff*.go`, `owner/handoff.go`, `upstream/`) | prepared transfers | prepare, transfer, commit, abort | predecessor and successor daemon |
| snapshot and restart (`daemon/snapshot.go`, `snapshot/`) | serialized owners and histories | pin, serialize, publish, load | every owner |
| supervisor (`muxcore/supervisor/`) | generations, pending requests, replay state, output queue | route, correlate, replay, fall back, finalize | engine process, stdio client |
| engine, control plane, registry, command line, control MCP server | wiring, one request per connection, announcement files | see `PROJECT.json` | all |
| helpers: `era`, `serverid`, `envidentity`, `classify`, `remap`, `jsonrpc`, `ipc`, `procgroup`, `rotlog` | none | pure functions, sockets, processes, files | all |

What is hard here: locks that are released in the middle of an operation
(`RegisterReconnect`, `removeSession`, the classification verdicts, idle cleanup);
decisions taken on counts that were read one after the other; a process tree that
exits, hangs or cannot be proven gone while demands, recoveries and barriers want
a successor; requests that a timeout, a failed write, an exit, a response and a
stop all want to answer; restarts between two steps. `PROJECT.json` lists these
hazards with their lines.

What makes each part correct:

- *session manager*: a token is used once, a refused refresh leaves nothing
  behind, a refresh stays with its owner, and the history a shim needs to come back
  is not lost while it may still be used, restarts included;
- *admission and removal*: a closed owner admits nobody, revoked reservations do
  not come back, a removed owner has no session, reader or history left, and a
  claimed removal ends;
- *upstream controller*: never two process trees, READY means a live process, each
  request answered at most once and not lost, caches written only by the current
  process, a pinned owner holds still, barriers and retirements end;
- *routing*: one terminal frame per request, `pendingRequests` exact, frames about a
  request in order, a call with a timeout always answered;
- *client*: a request that was accepted is answered once, none is sent twice, none is
  written across a maintenance fence;
- *supervisor*: one engine at a time, nothing crosses from one engine to the next, every
  request of the host settled, whatever happens to the engines;
- *spawn*: a live owner is found in the registry, nobody is given an owner of foreign
  credentials or one that must not be shared, every call returns;
- *maintenance*: HELD means that nothing runs, a granted hold survives a crash, a
  released one does not come back, and every lease settles;
- *restart*: every live process tree has one daemon that answers for it, no server runs
  twice, no state is lost while the daemon that has it lives, the restart ends.

## 2. Plan

Order: what every other part rests on first, then the owner's two concurrent halves,
then what surrounds them.

1. `SessionManager`: done.
2. `OwnerAdmission`, which extends `SessionManager`: every step of the accept loop,
   the classifier, the cleanup or a refresh is a step of its own variables conjoined
   with an action of the manager: done.
3. `Materialization`: done for the legacy era.
4. `Client`, the shim: done.
5. `Supervisor` over `Correlation`, with `HostSession` as the abstract specification
   that it implements: done.
6. `Spawn`: done but for persistent owners.
7. `Maintenance`, with crashes at every point: done.
8. `Restart`, handoff and snapshot between two daemons: done.
9. `Routing`, legacy, native and modern era: done.

Left: pure functions as operators against reference definitions (era
selection, identity of servers and environments); the update transaction of
`engine/update`; the exit of an idle daemon.

Proofs: every module is covered by a `...Proofs` module (section 5); those of
`SessionManager` are in `OwnerAdmissionProofs`, those of `Correlation` and of the
refinement of `HostSession` in `SupervisorProofs`. Left: `RegistriesAgree`, and liveness.

## 3. The modules

### SessionManager

One variable per map of `Manager`; a Go map is a function whose domain is the set
of present keys. Every method is one action, because it runs under the manager's
mutex from begin to end. The exception is `RegisterReconnect`, which unlocks around
`ownerAlive`: refresher `r` does `Reserve` (or `ReserveExpired`), `OwnerAlive`, and
then `Rollback`, `CommitRefused` or `Commit`, and everything else may run in
between. `Tick` is the clock. `ImportBoundHistory` is a restart: `NewManager`
followed by the import of the last export. A `Session` stands for a Go pointer;
`SessionID` maps it to its ID, and two pointers may share an ID.

Left out: the working directory and environment that entries carry along, which no
decision of the manager reads. `life`, `issued`, `delivered`, `consumed`, `lease`
and `exported` are history variables; `life` and `delivered` also say which calls
the rest of the program can make (a session is registered once; a shim presents
only tokens it was given).

### OwnerAdmission

The accept loop handles one connection at a time: look up the token, authorize
(without any lock), take `admissionMu`, check that the owner is open, bind, publish
in `Owner.sessions`, register with the manager. `removeSession` is two actions,
`Unlink` and `Leave`, as in the code. A verdict of isolation comes on two ways: from
a live response (`ClassifyLive`, `LiveRevoke`, `EvictExtraSessions`) and from the
commit of a discovery (`CommitFreeze`, `CommitIsolated`, `CommitEvict`), which holds
`admissionMu`. The idle cleanup reads the session count, the pending count and the
activity in separate steps and claims the entry later; an operator removal claims it
without reading. The refresh is `RegisterReconnect` with `ownerIsAccepting` as its
callback, and takes no lock of the owner.

`busy` says that `nativeWork` or `pendingRequests` is above zero. A request or a callback
begins with a session that has not left (a proactive one also without), a disconnect
callback at the latest in `Unlink`, and `WorkReturns` is the last return. No fairness makes
it happen: `nativeQuiescent` keeps a removal blocked until then, as
`muxcore/README.md:911-915` says. The counter also stays above zero for good when a late
response finds the manager's entries already deleted (`session_manager.go:218`); `Routing`
counts the requests one by one.

Abstractions: one owner, in the mode with token handshakes; the daemon's entry is
present until removed; the idle timeout is one Boolean (`recent`), because only
whether it has elapsed is read; closing the upstream during finalization is in
`Materialization`. Maintenance holds (in `Maintenance`) and busy declarations only
veto the cleanup.

### Materialization

The upstream controller of one owner. `run[n]` is the goroutine of generation `n`
(`runMaterialization`), `mon[p]` the exit monitor of process `p`, `fin[p]` the
goroutine that retires it and retries an unproven retirement, `req[d]` the reader
that forwards request `d`, `pin` the restart barrier. `life[p]` is the process tree
itself: running, exited, proven gone. Between the sections of `materializationMu`
and `o.mu` every goroutine may be overtaken, and each section is one action. A close of a
process may prove its retirement or time out, a start may fail, a write may fail, an
exit may come at any time, also before the discovery. The reader of a process marks it dead
when its output ends (`MarkUpstreamDead`), which neither retires it nor changes the state:
an owner may be READY with a dead process until the exit monitor, or a write that fails,
begins the retirement, and its requests wait for that (`MustWait`). `ReadyIsWatched` is
about this: until the owner stops, there is a monitor to do it. If a process closes its
output and lives on, nobody retires it.

Abstractions, each of which leaves more behaviours than the code has unless said
otherwise:

- the legacy era only, without maintenance holds, handoff and the tool watchdog, which
  are in `Routing`, `Maintenance` and `Restart` (these leave out behaviours);
- whether a launch context is compatible with a demand is a free choice;
- recovery after an exit and after a failed write have the same trigger `recover`;
- timers (backoff, 30 s of a demand, settle grace of the barrier) may fire at any
  time;
- the retry loop is per process; the code's `retirementRetryProcess` is one slot of the
  owner, which is the same while there is one retiring process at a time;
- a launch that was cancelled at once has no reader and may be marked dead all the same,
  while it is being retired;
- one restart barrier at a time; after `stopMaterialization` only what is already
  running goes on; a request ID is used once;
- `Outside` names the calls from outside that an instance contains (`eager`,
  `background`, `stop`, `pin`), and `cold` when the owner begins without a cache. It
  only bounds the instances.

`SessionManager`'s `TrackRequest`, `CompleteRequest` and `DrainInflight` appear here
as the set `known`, next to `tracked`, the owner's own tracker, because the code
keeps the two apart and clears them at different places.

### Routing

The message paths of one owner, in each of its eras. A step is what a reader, the
upstream's reader, the attempt, a watchdog, a notifier or a drainer does under one lock;
the tables that the code keeps side by side (`inflightTracker`, the manager's in-flight
map, method tags, progress owners, timed-out IDs, the modern records) are separate
variables, because they are cleared at different places. `Die`, `Drain` and `Replace`
are all that is left of the controller.

Request IDs are unique per session and the remapping is a bijection, so a request is its
own key. The instance has a server that declared `x-mux.toolTimeout`; without it there is
no watchdog. Left out: the frame hook, the maintenance refusal, suppression of
duplicate and synthetic progress, busy declarations, the owner's own requests,
log routing and the refusal of a log level by a shared modern server (`modern.go:114`),
the filters of subscriptions, and malformed messages of the upstream. The modern records
of a session that leaves are detached in one step.

### Client

The shim: two ingresses (stdin, injected frames), reader and writer of the connection,
the stdout writer, the proxy loop and its reconnect attempt. Everything outside
(daemon, owner, host, supervisor) may do anything at any time. The idle delay and the
dormancy grace are taken to outlast local steps and local output. The loop's test for
idleness reads the queue `msgFromIPC` and not the answer a writer holds; the reader of a
suspended connection is not joined; requests in the queue are not counted when stdin
ends: all three are as in the code. `replayInit` writes the cached initialize to
each new connection until a fence is met; the ghost `sent` records those writes apart
(`Replay`), so that "not written twice" is said of the frames the host sent and
"not across a fence" of the replays too. Keepalives and the content of the replayed
handshake are left out.

### Supervisor, Correlation, HostSession

`Correlation` is the registry of one direction: a record, with one operator per method.
`Supervisor` is the event loop: a handler is an operator from the runner's state to the
next, and an action is one event (a frame of the host or of an engine, an exit, a timer,
the result of a start). The results of the writes an event makes are drawn with it (its
*fate*). What a handler writes is kept until the event is over: the frames as sets, and
per identifier how often it was answered and written. `HostSession` says what a host may rely on: a request is settled once, by an
answer or because the host withdrew it, until the session ends. `KeepsSession` states
that the supervisor implements it, with `outstanding` mapped to the identifiers in its
books (queued, in the registry, or read and not handled) as long as it lives, and
`ended` to its end.

The ring of tombstones does not wrap in the model; `input_required` is `working`; a
notification of a modern engine is about a subscription or not, the metadata that says
so is not parsed. `CancelMethod` says which of its requests an engine cancels. One that
cancels an operation on a task that is still open, `tasks/get` say, and gets the host's
answer all the same drives the registry into an error (`correlation.go:805`: the task is
current and its operation retired), which ends the session; `RegistriesAgree` names this
as the one exception. Left out: the limit on what an engine may say before its replayed
initialize is answered, which replaces it, and failing writes to the host while it is
replayed, which end the session as everywhere else (`replay.go:71`, `102`, `124`).

### Spawn

The registry of one command. A call of `Spawn` is a program counter `p[c]` that moves from
one section of `d.mu`, or one wait, to the next; an `OwnerEntry` is a record in `entry`,
and `owners` says which entry a server ID finds. Environments are a credential and a
setting, a maintenance fence is a switch, an owner is what the registry sees of it.

As in the code: the exact match of the deprecated `cwd` and `git` modes does not compare
environments (`RightOwner` exempts both: two calls with different credentials in one
repository share an owner), and the mode is not part of an identity, so that a `git` call
may find what a `cwd` call made; a placeholder that shutdown deletes, or that is
overwritten, never closes its `creating` channel, so its waiters leave by their 30 s
timeout (`SpawnReturns` exempts both; four calls of the `cwd` mode show that it must). A failing `generateGeneration` stands for an exhausted `MaxEntries`; idle delays
outlast the rest of the creating call; a reservation counts as a session. Left out:
persistent owners, snapshot pins, and verdicts that come through session handlers.

### Maintenance

Leases, their two files, the namespace file lock and the entries they cover. A section of
`maintenanceGate` is one step. A commit may fail before or after each of its writes, the
daemon may be killed between any two steps, and the next one loads what it finds. The
file lock is tried, never awaited, and others may hold it. Deadlines pass at any time; an
expiry passes for memory and file together. A recovered lease that was not HELD stays
`BLOCKED` until the operator acts, as `RELEASE_NOTES.md:104` says. Trees that a killed
daemon orphaned while no lease covered them are outside; so are failures of the disk
other than an error of a write. `HandleRestartOwner` is not one action: its removal is
`OperatorRemoval`, its spawn belongs to `Spawn`.

### Restart

The predecessor, a handoff successor `h`, a snapshot successor `s`, the messages between
them and the process trees. Each send, receipt and settlement is a step, the connection
may break at each, a kill or a finalization may remain unproven, each of the three daemons
may die at any time, and the snapshot file is consumed by whoever loads it. Process trees
are those of Unix: they outlive their daemon (a Windows job object would end them with its
last handle); `ho.orphans`, a ghost, names those that died with the predecessor.

State that the code can lose, and that the properties exempt by name: a successor that
cannot bind the control socket gives up after 30 s and takes the snapshot it consumed with
it (`"failed"`), and one that dies from there on, when the file is removed
(`snapshot.go:211`) and a predecessor that was acknowledged has let go, leaves no other
copy and no daemon for the trees it had (`"lost"`). A successor that dies earlier is not
exempted: the predecessor then kills its trees and writes the file again. A predecessor
that cannot go on keeps its fence up for the operator, and one whose owner is never proven
finalized stays in its shutdown with the control socket, as the code means it to
(`daemon.go:3441`).

Narrower than the code: one restart at a time, begun by a daemon that serves (the handler
has no guard against a second request); an operator's shutdown while the predecessor
serves or is blocked, not in the midst of a restart; an upstream that the hand-over aborts
before it sends its list; a recovery snapshot of a failed activation that cannot be
written either. Modern owners are not handed over and not modelled.

## 4. The runs

| run | instance | checks |
|---|---|---|
| `MCSessionManager` | 2 tokens, 3 sessions of which two share an ID, 2 requests, 2 refreshers, TTLs 0, clock to 1 | `TypeOK`, `TokenSingleUse`, `NoLeakedReservation`, `OwnerScope`, `HistoryOutlivesSession` |
| `MCOwnerAdmission` | 2 tokens, 2 sessions, 1 refresher; fairness | `FreshAdmissionSealed`, `RemovedIsQuiet`, `NoAdmissionAfterClose`, `RemovalCompletes` |
| `MCMaterialization` | 2 generations, 2 processes, 1 request; a cache, stop | `AuthorityKept`, `ReadyIsWatched`, `AnsweredOnce` |
| `MCMatProgress` | 1 generation, 1 process, 1 request; eager start without a cache, pin; fairness | `BarrierSettles`, `RetirementEnds` |
| `MCRouting` | 2 hosts with equal IDs and tokens, one request each, all eras; fairness | `OneReply`, `PendingMatches`, `NothingAfterEnd`, `CallAnswered` |
| `MCClient` | initialize and an injected request, 2 connections, 2 fences; fairness | `OneAnswer`, `NeverReplayed`, `NoFenceCrossed`, `AcceptedIsAnswered` |
| `MCSupervisor` | per side an identifier for requests and one for operations on tasks, used twice, a task, both eras, 2 requests, 2 troubles; fairness | `OneEngine`, `EnginesApart`, `RegistriesAgree`, `DormantOwesNothing`, `KeepsSession`, `RequestSettles` |
| `MCSpawn` | 2 calls in seven combinations of mode, directory, credentials and era, 3 entries; fairness | `LiveIsRegistered`, `RightOwner`, `VerdictsKept`, `SpawnReturns` |
| `MCMaintenance` | 1 hold, 2 entries, 2 contexts, 2 troubles; fairness | `HeldMeansQuiet`, `AcknowledgedIsTrue`, `FenceHolds`, `LeaseSettles` |
| `MCRestart` | 3 servers with or without a process, 3 troubles; fairness | `OneKeeper`, `PredecessorKept`, `StateKept`, `RestartSettles` |
| `MCFinalizeBlocked`, `MCSpawnOverwrite` | see section 6 | the code disagrees with its documents |

The type invariant of a module is a conjunct of one of its invariants (`RemovedIsQuiet`,
`ReadyIsWatched`, `PendingMatches`, `OneAnswer`, `OneEngine`, `RightOwner`,
`AcknowledgedIsTrue`, `OneKeeper`).

Why the bounds are enough.

- *Tokens*: an old token and the one refreshed from it; two refreshers then compete for
  the second, and a fresh reservation takes it in other behaviours. *Clock*: with TTL 0
  the values 0 and 1 are "in time" and "too late"; `MCOwnerAdmission` stops the clock,
  because expiry is the manager's. *Sessions*: isolation and eviction need one that
  stays and one that goes, overwriting needs two of one ID.
- *Generations*: replacement needs a process and its successor. `MaxGen` caps the
  attempts, not the steps of one; a retry inside a generation reuses its number as the
  code does. The pin is checked with one process, which is used again only after its
  retirement was proven.
- *Routing*: two hosts that agree on everything they may agree on are what remapping,
  progress and cancellation must keep apart. `MaxEvents` (2 in the legacy era, 3
  elsewhere) bounds what comes from outside; in the legacy era 3 was also tried.
- *Client*: a second connection is the one a request must not be replayed to, a second
  fence the one a frame read after the first may still cross; the queue holds two.
- *Supervisor*: reuse of one identifier is what the registries guard against; a switch
  and a failure may follow each other; the limits of the registries (9) are not reached,
  the queue's (1) is. A second identifier is for an operation on a task, since the
  request that opened the task stays fenced; an engine cancels either.
- *Spawn*: the pairs of calls are the ones that can meet: same and different credentials,
  a forced isolation, modern calls with and without a partition; three entries let a
  call see its owner removed and another one created.
- *Maintenance*: two entries, so that a hold can be HELD for one and wait for the other;
  two troubles, so that a crash can follow a failed commit.
- *Restart*: one tree accepted, one refused, one without a process; three troubles, so
  that the handoff, its settlement and the fallback may each fail, or a daemon die after
  two failures.

Symmetry (tokens, requests, refreshers; processes) is used only in runs without
liveness. Deadlock is checked only in `MCClient`, whose stuttering end is modelled: in
the others the bounded supplies end every behaviour, and a removed owner or a finished
restart really stops.

### Fairness

- `OwnerAdmission`: strong fairness of the accept loop and the readers together and of
  the removal, which wait for `admissionMu` or `o.mu` (a Go mutex hands over to a
  waiter that has waited for a millisecond), weak fairness of a classifier that holds the
  lock. One condition for several goroutines is weaker than one for each. Nothing is
  assumed of shims, spawns, refreshes, callbacks, requests or the clock: their return
  is the premise of `RemovalCompletes`.
- `Materialization`: weak fairness of the attempt, the finalizer and its retry loop, the
  readers that are forwarding, the timers of demands and the barrier; and that a process
  whose close was requested is eventually proven gone, which the repeated kill is for.
- `Routing`: readers and the attempt, the upstream's reader once it has read something,
  watchdogs, demand timers, the delivery of claimed requests. Hosts, the process,
  native handlers and drainers owe nothing.
- `Client`: its own goroutines; the choice of a `select` among ready cases is strongly
  fair, as Go chooses at random; and a daemon that is asked again and again lets the
  client in again at some time, without which a client retries for ever, as it should.
- `Supervisor`: the loop handles what is ready, and an engine that runs eventually answers
  or exits.
- `Spawn`: calls, removals and commits go on; the 30 s of a directory-mode scan pass, those
  of a wait for a creation under the same identity are not relied on. `Maintenance`: the acquiring call, the
  reaper's reconciliation, and that others return the file lock. `Restart`: the
  predecessor and each successor go on; nothing is assumed of the operator or of the
  finalization of an owner, whose success is a premise of `RestartSettles`.

## 5. What is proved

Eight modules hold theorems that TLAPS checks for every value of the constants. Each has
one inductive invariant, which TLC checked on an instance before it was proved; a lemma
`Init => Inv`; a lemma per action, or per conjunct where one conjunct concerns all
actions; and the theorems, which follow from the invariant by weakening or, for an
action property, from a lemma about one step.

| module | theorem | statement |
|---|---|---|
| `OwnerAdmissionProofs` | `TokenInvariant` | `Spec => []TokenInv` |
| | `TypeCorrect` | `Spec => []TypeOK` |
| | `SingleUse` | `Spec => []TokenSingleUse` |
| | `NoLeak` | `Spec => []NoLeakedReservation` |
| | `RefreshKeepsOwner` | `Spec => []OwnerScope` |
| | `LeaseInvariant` | `Spec => []LeaseInv` |
| | `HistoryKept` | `Spec => HistoryOutlivesSession` |
| | `AdmissionInvariant` | `AdmissionSpec => []AdmissionInv` |
| | `ManagerInOwner` | the manager's three invariants under `AdmissionSpec` |
| | `SealedFanIn` | `AdmissionSpec => []FreshAdmissionSealed` |
| | `QuietRemoval` | `AdmissionSpec => []RemovedIsQuiet` |
| | `ClosedToAdmission` | `AdmissionSpec => NoAdmissionAfterClose` |
| `MaterializationProofs` | `MatInvariant` | `Spec => []MatInv` |
| | `AuthorityIsKept` | `Spec => []AuthorityKept` |
| | `ReadyHasProcess` | `Spec => []ReadyIsWatched` |
| | `AnsweredAtMostOnce` | `Spec => []AnsweredOnce` |
| | `NothingBehindThePin` | `Spec => [](pin.at = "held" => attempt = 0)` |
| `SpawnProofs` | `SpawnInvariant` | `Spec => []SpawnInv` |
| | `RightOwnerGiven` | `Spec => []RightOwner` |
| | `LiveStaysRegistered` | `Spec => []LiveIsRegistered`, if no legacy call asks for the `cwd` mode |
| | `VerdictsStay` | `Spec => VerdictsKept` |
| `RoutingProofs` | `RoutingInvariant` | `RoutingSpec => []RoutingInv` |
| | `AnsweredAtMostOnce` | `RoutingSpec => []OneReply` |
| | `PendingIsExact` | `RoutingSpec => []PendingMatches` |
| | `EndIsFinal` | `RoutingSpec => []NothingAfterEnd` |
| `MaintenanceProofs` | `MaintenanceInvariant` | `Spec => []MaintenanceInv` |
| | `HeldIsHeld` | `Spec => []HeldMeansQuiet` |
| | `AcknowledgedStaysTrue` | `Spec => []AcknowledgedIsTrue` |
| | `NoTreeBehindTheFence` | `Spec => FenceHolds` |
| `RestartProofs` | `RestartInvariant` | `RestartSpec => []RestartInv` |
| | `KeptByOne` | `RestartSpec => []OneKeeper` |
| | `AbortKeepsAll` | `RestartSpec => []PredecessorKept` |
| | `AnnouncedKeepsAll` | `RestartSpec => []StateKept` |
| `ClientProofs` | `ClientInvariant` | `ClientSpec => []ClientInv` |
| | `AnsweredAtMostOnce` | `ClientSpec => []OneAnswer` |
| | `WrittenAtMostOnce` | `ClientSpec => []NeverReplayed` |
| | `FenceNotCrossed` | `ClientSpec => NoFenceCrossed` |
| `SupervisorProofs` | `SupervisorInvariant` | `Spec => []SupInv` |
| | `AtMostOneEngine` | `Spec => []OneEngine` |
| | `EnginesStayApart` | `Spec => []EnginesApart` |
| | `DormancyOwesNothing` | `Spec => []DormantOwesNothing` |
| | `SupervisorKeepsSession` | `Spec => KeepsSession`, the refinement of `HostSession` |

### The assumptions

They are the `ASSUME`s of the modules, which TLC evaluates on the instances.

- `SessionManager`, `OwnerAdmission`: `NoSession` is no session, the empty owner key is
  no owner key, `NoToken` is no token, the owner has a key, times are natural numbers.
  They hold by the Go types (a nil pointer, the empty string, durations).
- `Materialization`: `NoProc` is no process and `Template` none either, every request has
  a session, the bound on generations is some natural number.
- `Routing`: the queue, the native slots and the generations are at least one, a host
  uses an identifier for one request at a time, every request has a session, and the
  sets of sessions and requests are finite, without which a count of them means nothing.
- `Spawn`: the limits of retries, mismatches and crashes are at least one; `NoOwner` is no
  index; a request has one of the four modes of `serverid`; the context of a shared
  modern call is not the absence of one. `LiveStaysRegistered` has a hypothesis besides,
  that no legacy call asks for the `cwd` mode: with it the code replaces an entry
  (section 6, and the run `MCSpawnOverwrite`).
- `Maintenance`: every entry has a server identifier, and the number of unlikely events
  is some natural number, so the theorems hold for any number of crashes.
- `Restart`: the number of unlikely events is some natural number.
- `Client`: the markers used in place of a request (`commit`, `run`, `eof`, `done`,
  `NoFrame`) are no requests; the queue holds at least one frame; a client has at least
  two connections, since one that starts behind a fence needs a second. The bounds on
  fences and refresh attempts are any natural numbers.
- `Supervisor`: the queue's capacity is some natural number, methods are strings, and the
  host uses the identifier of its `initialize` request for that alone. Without the last,
  a request could wait under an identifier that a replayed handshake answers; the code
  refuses such a request only while a handshake is on (`routing.go`,
  `validateHostRequest`).

### The inductive invariants

None of the properties is inductive as it stands.

**Session manager.** `TokenSingleUse` could be broken by a refresh that reserves a token
consumed before; it needs that a reservation is made only for a token never issued and
that consumed tokens were issued (in `TypeOK`). `NoLeakedReservation` is kept by
`Rollback` and `CommitRefused` only because the token a call remembers is the one it
reserved; and a new `Reserve` must not take over a token another call holds:
`RefreshHolds` says that a call's token was issued. `OwnerScope` is established by
`Commit`, which enters a history with the owner key the call remembers beside a
reservation it made two sections earlier: `RefreshHolds` says the two keys agree as long
as the reservation exists. And a reservation for a new token must not meet a history of
that token, in memory or coming back with a snapshot: `HistoryIssued`. `LeaseInv` adds
what `HistoryOutlivesSession` needs: no use lies in the future (`UsesPast`), a history
without a registered session is no older than the last use of its lease
(`HistoryFollowsLease`), a snapshot has every history known at its export but those that
had expired (`SnapshotFollowsExport`), and a registered session is open and entered under
its own identifier (`SessionsOpen`), so that the removal of one session does not age the
history of another.

**Owner admission.** `AdmissionInv` contains `TokenInv`, whose preservation is reused:
every step of the owner is a step of the manager, or leaves it alone. `LockHeld` says in
which sections `admissionMu` is held; the rest depends on it, since the accept loop binds,
registers and publishes in three steps between which the listener cannot close nor the
classifier freeze. `FreshFromNobody` lets a revocation by source find every reservation
of the spawn path. `StaysSealed` and `StaysPurged` are what a sealed fan-in and a purge
leave, with the calls under way that may still hold a reservation; `RemovalWaits` is what
`FinalizeForRemoval` joined.

**Materialization.** `AuthorityKept` says of a process that is alive that it is installed;
whether a step keeps that depends on where the attempt stands, so `MatInv` says that one
run at a time is the attempt (`OneRun`) and what each of its places implies (`Placed`):
at `Without` nothing is installed, at `Owning` only its own process is, at `Giving` what is
installed is being retired. `RunStart` may then install a process because nothing else
is, and `RunRetired` may drop one because its own tree is the only candidate. Three
goroutines can retire a process: while the attempt closes its own, a finalizer may
complete the same retirement first, which is why `Placed` allows `closing` to find
`upstream` empty. `Resting` says what holds between attempts (READY with an installed process, or only what
is being retired). `Watched` adds the exit monitor to it, for a process in service and for
one whose attempt may still publish READY, and the two give `ReadyIsWatched`: a monitor
ends only after it saw its process exit, and then the process is marked, being retired, or
not the installed one any more. `Barrier` says that a restart pin waits
for the one attempt it found, since none begins while it is there. `AnsweredOnce` needs
`Answering`: a request is unanswered until it was published and as long as it is tracked,
so that whoever takes it out of the tracker is the first to answer.

**Spawn.** A call holds an entry over several sections of `d.mu` while others replace or
remove it, so `SpawnInv` says what stays true of it. `Filed`: the registry finds an entry
under its identity, and an owner that lives is found there, unless its identity is one
that a call of the directory mode may ask for. `Made`: an entry is what its creator asked for, and a native identity
names the creator; so an owner found again under the same identity has the same
environment. `Asking` says, by program counter, what the entry has to do with the call
(`Suits`): only its creator turns a placeholder into an owner, since whoever may do so made
it; a call on its way to be admitted has compared environments or is of a deprecated
mode; and an isolated call never finds an owner at all, because the number of its identity
is free. That one is free is a pigeonhole argument over the finite registry (lemma
`NumberIsFree`); the code's loop at `daemon.go:1419` ends for that reason. `Joined` and
`Elected` are the two halves of `RightOwner`. `Selected` and `Published` give
`VerdictsKept`: a template was selected at a revision, the isolated one before the shared,
and an isolated verdict stays in the cache while the revision does not go back; a
placeholder promoted at an unchanged revision has missed no verdict.

**Routing.** `OneReply` counts answers; what is invariant is the sum of the answers and of
the *duties* to answer (`Duties`): the request is starting, in the tracker, taken out by
the upstream's reader, claimed by the watchdog, drained by the loss of the process, or in
a native handler. Every path moves a duty from one place to another and none makes a
second one (`OneDuty`). That a duty is not made twice needs that one task forwards a
request (`OneForwarder`), that a request nobody published has left no trace (`Untouched`),
that the eras use different tables (`ErasApart`) and that a modern record and the tracker
agree (`Records`). `Counted` is the count as three cardinalities, one per holder.

**Maintenance.** `HeldMeansQuiet` relates an acknowledgement to trees; between them are
the lease in memory and two files. `Promises` says what an acknowledgement implies about
both, whatever commit failed half way; `Memory` that memory has what the files have, but
for a seed that could not be made durable; `HeldIsQuiet` that a HELD in either is quiet.
A commit that reports an error leaves the old or the new leases on disk (lemma
`DiskCommits`), and both have to be consistent with what was said. `Fence` carries the
owners: one that serves a context of a hold serves nothing else and is pinned by the
lease, so that a tree cannot start between the count and the publication. `Orphans` is
about trees whose daemon was killed: they are behind a hold that stays BLOCKED for good.
`Contexts` keeps two holds apart.

**Restart.** `InStep` relates the program counters of the two daemons with the messages
on the connection, which is what makes the loss of either of them at any point
recoverable; `Undisturbed` is the state up to the hello; `Acknowledged` says of a final
acknowledgement under way that its trees are adopted already, and `Owners` what a
predecessor's owner may conclude from having sent, aborted or released. `Socket` and
`OneSuccessor` order the two successors: the clean one starts when the first is gone.
`Kept` says where the servers are: in the snapshot file, or complete with the successor
that consumed it, unless that one gave up or died. A server that runs twice is excluded by
`OneProcess`, except behind `Stranded`: a tree whose daemon died with it, or the
half-failed settlement of section 6.

**Client.** `OneAnswer` and `NeverReplayed` follow from where a request is: being read
(`Arriving`), accepted but not written (`Accepted`: in the queue, with the writer, or with
the proxy loop as its wake demand), written (`Written`: in flight, with the reader, or on
its way to the host) or answered (`History`); in each of the first three it is in one
place and unanswered. A refusal that says "not sent" is given only from the second. A
reconnect empties the places of the connection it loses; `Processes` says which
goroutines have stopped by then. `Queues` says a queue holds a frame once. The commit
frame of the dormancy handshake shares the queue and the writer and must not be taken
for a request: `Handshake`. `Fenced` says under which fence each accepted request was
accepted, or that the fence which will refuse it is in force. `Replayable`, an invariant
of its own, says that what `replayInit` writes was accepted before any fence: a fence
drops the cache, and nothing is cached after one.

**Supervisor.** A handler is a composition of operators on the runner's record, and it
may stop at any of its writes, so one needs to know what is true inside it. `RunnerOk`
holds at every such point: `Shape` (types and the queue's bound), `Engine` (a serving state
has an engine, a start in progress has none), `Registers` (open correlations are of the
current engine), and, until the session ends, `Queue` (each identifier waits once and is
not open as well), `Lifecycle` (which states presuppose a handshake), `GotOk` (what the
engine holds is open or withdrawn, and not queued for the next one) and `HoldersOk` (an
engine's request that the host has not answered is open or retired, in one place).
`Kept` is a relation between two such points and says what a part of a handler may do
with the requests in its hand: `Engines` (process trees are only given up),
`Answers` (an identifier is answered at most once and is off the books then, and leaves
them unanswered only if it was withdrawn) and `Writes` (it is written to an engine at most
once and does not wait any more). `Kept` composes (lemmas `KeptChain` and `GoodChain`), so each
operator of the model has one lemma, from `writeHost` up to `handleHostEvent`,
`handleChildFrame`, `replaceCurrent` and the flushes. `SupInv` adds the state outside the runner: the frame
being handled (`HandOk`), what the host and the engine hold, and that no request was
carried to two engines. `EventStep` says of an event that `RunnerOk` and `Kept` hold over
its whole handler; lemmas `EventKeeps` and `EventSession` make it a step of `SupInv` and
of `HostSession`, and every event of the loop is shown to be one. The steps of the
peers have lemmas of their own.
The loops of the model (`Without`, and over `Repeated` `flushPending`, `flushReplayPings`,
`commitQuiescingCancellations`) are handled by induction over a set of natural numbers,
the arguments at which the function keeps the invariant (lemma `SetInduction`).

### What stays with TLC

- The liveness properties `RemovalCompletes`, `BarrierSettles`, `RetirementEnds`,
  `CallAnswered`, `AcceptedIsAnswered`, `RequestSettles`,
  `SpawnReturns`, `LeaseSettles`, `RestartSettles`: fairness is outside what the prover
  handles.
- `RegistriesAgree`, that a registry reports an error in one case only: it holds where the
  limits of the tombstones are not met, as in the instance. For any value of the constants
  it is false, since at a limit the code reports an error and ends the session by design.
- `LiveIsRegistered` where calls of the directory mode are among the others: it fails for
  three of them (`MCSpawnOverwrite`) and holds for the pairs of `MCSpawn`.

## 6. Where the code and its documents disagree

Two runs in which TLC finds a behaviour that contradicts a quoted line:

1. `MCFinalizeBlocked`. `muxcore/README.md` says that `FINALIZE_BLOCKED` is reported
   while the retirement proof is missing. When a process exits just after its
   discovery, the attempt and the exit monitor retire it at the same time. The
   monitor gives up first and sets `FINALIZE_BLOCKED`; the attempt proves the
   retirement but changes the state only from `FINALIZING`; the retry loop finds no
   retiring process and ends. The owner stays blocked with nothing left to prove.
2. `MCSpawnOverwrite`. A comment at `daemon.go:1685` says that a call that arrives for the
   same server ID waits for the placeholder. In the `cwd` mode the call drops the lock
   to wait for a candidate after it looked its slot up, and then stores its placeholder
   without another look (`daemon.go:1706`), over an owner that lives.

Six more whose property is defined in a module, with a configuration that shows the
behaviour:

3. `MCIdleCleanup`, `IdleCleanupSparesRefresh`. A comment in `RegisterReconnect` says that
   "idle cleanup cannot remove the owner after validating it". The cleanup counts pending
   reservations once, before it claims the entry; a refresh that reserves after the count
   gets a token for an owner that is then removed.
4. `MCIsolation`, `IsolatedSingleSession`. The README says of isolated servers "Each
   session gets its own upstream process". The live classification revokes tokens and
   evicts sessions without `admissionMu`, and the admission commit does not look at the
   verdict: an admission that bound its token before the revocation publishes a second
   session after the eviction.
5. `MCLostRequest`, `NoLostRequest`. The README says that already sent requests "receive
   explicit errors". The check for READY and the capture of the upstream are two
   sections: a request may be written to a process that is still being started or
   discovered, and if that process is retired before a reader of it marks it dead (a start
   that failed has none) nobody answers the request.
6. `MCParkedWake`, `AdmittedDemandActivated`. `RELEASE_NOTES.md:165` says that a parked
   shim activates an admitted successor: "The parked path consumes the existing private
   IPC-EOF wake". `waitForSuspendedDemand` does (`resilient_client.go:638`), and
   `negotiateDormant` does not listen to it (`resilient_client.go:672`): once
   `DormantReady` is out under a fence, the frame that comes next (the supervisor's
   commit or a demand) is admitted by its recheck and waits for the reconnect, which
   waits for a frame in the queue. Only the end of the host's input or output ends it.
7. `MCHalfSettled`, `FallbackSafe`. `daemon.go:2303` says that the fallback runs "only
   after the failed successor has exited, making one fresh snapshot successor safe". If
   one tree was committed and the abort of another could not be proven, the successor
   that owns the first is stopped, its tree lives on (on Unix) and the snapshot successor
   starts a second one. `OneKeeper` exempts this state.
8. `MCLateProgress`, `NoUnknownProgress`. `owner.go:1666` drops progress for unknown tokens
   because clients reject it. The watchdog leaves the token of the call it answered,
   queued progress is overtaken by the response, and hosts with the same token share an
   entry, so a host may still get progress it does not await.

Behaviours that the models contain and that no property is spent on: a demand queued
between the death of a process and its retirement has no generation and waits for its
30 s timer; `removeSession` takes requests out of the manager and not out of
`inflightTracker`, and a cancelled legacy request that is never answered stays there, so
`PendingRequests` may stay above zero and veto the reaper; `SendNotification` "never
blocks the caller" but does when two senders meet a full queue or the drainer has
stopped (`session.go:191`), and a callback that goes through the queue may be dropped;
the client also ends on a failed wake, on an exit that a reconnect asks for and on typed
refusals, where its comment says that it returns only when the host disconnects; a
comment in `serverid` says that an isolated reconnect reuses its owner, and `spawnOnce`
takes a new ID.

## 7. Not modelled

- The update transaction of `engine/update` and the wiring of `engine`; the launcher of
  the command line, which chooses the engines that `Supervisor` gets as given; the exit
  of an idle daemon; persistent owners in `Spawn`.
- For good, because they are input and output without a decision that depends on an
  interleaving: byte-level framing and JSON parsing (`supervisor/frame.go`, `jsonrpc`),
  sockets and pipes (`ipc`), process groups and process facts (`procgroup`,
  `supervisor/attest`), the registry's files, log rotation (`rotlog`), argument parsing
  and formatting (`cmd`, `internal/mcpserver`), and the control plane, which passes one
  request per connection to handlers of the daemon.
- Pure functions on names and environments (`era`, `serverid`, `envidentity`,
  `classify`): their results are parameters.

`PROJECT.json` gives the reason for each component.
