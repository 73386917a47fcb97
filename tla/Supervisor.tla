------------------------------ MODULE Supervisor ------------------------------
(***************************************************************************)
(* The engine supervisor (muxcore/supervisor): one event loop that keeps a *)
(* stdio session with an MCP host alive while the engine process behind it *)
(* crashes, is switched to another build or goes dormant.                  *)
(*                                                                         *)
(* The loop is sequential: every action below that changes r is the        *)
(* handling of one event, and a handler is an operator from the state of   *)
(* the runner to its next state.  Concurrency is around it: the goroutine  *)
(* that reads the host, the start attempt, the pump and the reaper of a    *)
(* generation, the timers, and the two peers.                              *)
(*                                                                         *)
(* The outcome of the writes an event performs is drawn with the event, as *)
(* a fate: how many writes to the engine succeed before one fails and how, *)
(* whether the host still reads, and whether a retirement is proven.       *)
(***************************************************************************)
EXTENDS Correlation, Sequences

CONSTANTS
  HostReq,     \* identifiers of the host's requests
  ChildReq,    \* identifiers of the engine's requests
  Task,        \* task identifiers
  HostMethod,  \* the methods each host identifier is used with
  ChildMethod, \* the methods each engine identifier is used with
  CancelMethod,\* methods of the requests an engine may cancel
  InitId,      \* the identifier of the host's initialize request
  Era,         \* the protocol eras to start in
  QueueCap,    \* PendingFrameLimit
  MaxSends,    \* bound: how often the host uses one identifier
  MaxRequests, \* bound: requests of the host and of all engines together
  MaxTrouble   \* bound: failures, switches and dormancies

\* Bound: the host uses the identifier of its initialize request for that alone.
ASSUME SupervisorAssumption ==
  /\ QueueCap \in Nat
  /\ InitId \notin HostReq
  /\ HostMethod \in [HostReq -> SUBSET STRING]
  /\ ChildMethod \in [ChildReq -> SUBSET STRING]

VARIABLES
  r,        \* the runner
  hostIn,   \* the frame readHost has recorded and not handed over, or NoFrame
  attempt,  \* the start attempt: "none", "running", or its outcome
  got,      \* what the current engine received and has not answered
  kidTasks, \* status of the tasks the current engine has created
  asks,     \* what the host received from engines and has not answered
  hostTasks,\* status of the tasks the host has created
  sends,    \* how often the host has sent each identifier
  answers,  \* how often each identifier was answered
  withdrawn,\* identifiers the host has cancelled
  carried,  \* writes to an engine of the request last sent under an identifier
  strayed,  \* an answer for one generation was written to another
  nReq, trouble

vars == <<r, hostIn, attempt, got, kidTasks, asks, hostTasks, sends, answers,
          withdrawn, carried, strayed, nReq, trouble>>

Frame(k, id) ==
  [k |-> k, id |-> id, method |-> "plain", tok |-> FALSE, aug |-> FALSE, task |-> NoTask,
   kind |-> "result", status |-> "none", from |-> 0, late |-> FALSE]
NoFrame == Frame("none", InitId)

Ids == HostReq \cup {InitId}
Nothing == [i \in Ids |-> 0]

\* The record a request frame leaves in a registry.
RecOf(f, gen) == [gen |-> gen, method |-> f.method, tok |-> f.tok,
                  aug |-> f.aug, task |-> f.task]
ModernRec(f, gen) == [RecOf(f, gen) EXCEPT !.aug = FALSE, !.task = NoTask]

Calm == [n |-> QueueCap + 3, kind |-> "delivered", host |-> TRUE, proof |-> TRUE]
Fates == {Calm, [Calm EXCEPT !.host = FALSE], [Calm EXCEPT !.proof = FALSE]}
           \cup [n : 0 .. QueueCap, kind : {"not_written", "ambiguous"},
                 host : {TRUE}, proof : {TRUE}]

-----------------------------------------------------------------------------
(* Elementary steps of the runner *)

setState(s, state) == [s EXCEPT !.state = state]
terminate(s) == [s EXCEPT !.terminal = TRUE]

\* A handler returns early when the session has ended under it, and ends the
\* session when a registry reports an error.
Then(s, next(_)) == IF s.terminal THEN s ELSE next(s)
EndOnError(s) == IF s.host.err \/ s.child.err THEN terminate(s) ELSE s

\* A loop: step is taken N times, with its number.
Repeated(s, N, step(_, _)) ==
  LET run[n \in 0 .. N] == IF n = 0 THEN s ELSE step(run[n - 1], n)
  IN  run[N]

\* What a handler writes is kept until it is done: the answers and the requests
\* counted by identifier, and the frames the peers have to act on.
Noted(count, K, f) == IF f.k \in K THEN [count EXCEPT ![f.id] = @ + 1] ELSE count

writeHost(s, f) ==
  IF s.fate.host
  THEN [s EXCEPT !.told = Noted(@, {"answer", "unlisten"}, f),
                 !.toHost = IF f.k = "ask" THEN @ \cup {f} ELSE @]
  ELSE terminate(s)

rejectHostRequest(s, id) == writeHost(s, Frame("answer", id))

\* writeFrame: a frame is written, not written at all, or written in part.
writeChild(s, f) ==
  LET w == [s EXCEPT !.toChild = @ \cup {f}, !.wrote = Noted(@, {"request"}, f)]
  IN  IF s.cur = 0 THEN [s EXCEPT !.out = "not_written"]
      ELSE IF s.fate.n > 0 THEN [w EXCEPT !.out = "delivered", !.fate.n = @ - 1]
      ELSE [(IF s.fate.kind = "ambiguous" THEN w ELSE s) EXCEPT !.out = s.fate.kind]

beginStart(s) ==
  IF s.terminal \/ s.starting \/ s.cur # 0 THEN s
  ELSE [s EXCEPT !.retryT = FALSE, !.starting = TRUE, !.state = "starting"]

\* Variants that a mistake in the code would give are defined before the
\* operator they vary: here no retry is scheduled.
scheduleNoRetry(s) == s

scheduleRetry(s) ==
  IF s.terminal \/ s.cur # 0 \/ s.retryT THEN s
  ELSE [s EXCEPT !.retryT = TRUE, !.state = "starting"]

(* The queue of frames that wait for an engine *)
\* The entries of a queue that are not at the positions K, in their order.
Without(q, K) ==
  LET kept[n \in 0 .. Len(q)] ==
        IF n = 0 THEN <<>>
        ELSE IF n \in K THEN kept[n - 1] ELSE Append(kept[n - 1], q[n])
  IN  kept[Len(q)]

enqueue(s, f, same) ==
  [s EXCEPT !.pending = Append(@, [f |-> f, same |-> same])]

pushFront(s, f) ==
  [s EXCEPT !.pending = <<[f |-> f, same |-> FALSE]>> \o @]

containsRequest(s, id) ==
  \E i \in DOMAIN s.pending : /\ s.pending[i].f.k = "request"
                              /\ s.pending[i].f.id = id

RemovableRequest(s, id) ==
  \E i \in DOMAIN s.pending : /\ s.pending[i].f.k = "request"
                              /\ s.pending[i].f.id = id
                              /\ s.modern \/ ~s.pending[i].f.aug

removeRequest(s, id) ==
  [s EXCEPT !.pending = Without(@, {i \in DOMAIN @ : @[i].f.k = "request" /\ @[i].f.id = id})]

discardSameGenerationOnly(s) ==
  [s EXCEPT !.pending = Without(@, {i \in DOMAIN @ : @[i].same})]

(* Retirement of the current generation *)
\* Variant: what an unproven retirement left behind is forgotten.
finalizeUnproven(s) ==
  IF s.cur = 0 THEN s
  ELSE [s EXCEPT !.cur = 0, !.exit = "no", !.output = "open", !.evExit = FALSE,
                 !.evOutput = FALSE,
                 !.live = IF s.exit = "no" /\ s.fate.proof THEN @ - 1 ELSE @]

finalizeCurrent(s) ==
  IF s.cur = 0 THEN s
  ELSE IF s.exit = "unproven" \/ ~s.fate.proof THEN terminate(s)
  ELSE [s EXCEPT !.cur = 0, !.exit = "no", !.output = "open", !.evExit = FALSE,
                 !.evOutput = FALSE, !.live = IF s.exit = "no" THEN @ - 1 ELSE @]

Cancellable(s, id) ==
  /\ id \in DOMAIN s.host.requests
  /\ s.host.requests[id].gen = s.cur
  /\ ~s.host.requests[id].aug

finishModernRequest(s, id) ==
  LET closed == [s.host EXCEPT !.requests = Drop(@, {id})]
  IN  [s EXCEPT !.host = removeToken(closed, id, s.host.requests[id])]

CancelRequest(s, id) ==
  IF s.modern THEN finishModernRequest(s, id)
  ELSE EndOnError([s EXCEPT !.host = cancel(@, id)])

commitQuiescingCancellations(s) ==
  Repeated(s, Len(s.pending), LAMBDA t, n :
    LET p == s.pending[n]
    IN  IF p.same /\ p.f.k = "cancel" /\ ~t.terminal /\ Cancellable(t, p.f.id)
        THEN CancelRequest(t, p.f.id) ELSE t)

\* Every request in lost is rejected.
rejectLost(s, lost) ==
  IF lost = {} \/ s.fate.host
  THEN [s EXCEPT !.told = [i \in Ids |-> @[i] + IF i \in lost THEN 1 ELSE 0]]
  ELSE terminate(s)

\* Variants: the engine's open requests are forgotten instead of retired, and
\* the host is not told.
RetireForgetful(s) ==
  rejectLost([s EXCEPT !.host = retireGenerationChecked(@, s.cur),
                       !.child = newDirectionRegistry],
             OfGeneration(s.host.requests, s.cur))
RetireSilently(s) == EndOnError([s EXCEPT !.host = retireGenerationChecked(@, s.cur),
                                          !.child = retireGenerationChecked(@, s.cur)])

\* Both registries forget the generation; the host is told of what it lost.
RetireCurrent(s) ==
  Then(EndOnError([s EXCEPT !.host = retireGenerationChecked(@, s.cur),
                            !.child = retireGenerationChecked(@, s.cur)]),
       LAMBDA a : rejectLost(a, OfGeneration(s.host.requests, s.cur)))

replaceCurrent(s) ==
  LET a == [s EXCEPT !.replayT = FALSE, !.exitT = FALSE, !.drainT = FALSE,
                     !.leaseT = FALSE, !.resolving = FALSE,
                     !.state = "finalizing"]
  IN  CASE s.terminal -> s
        [] ~s.terminal /\ s.cur = 0 -> beginStart(s)
        [] OTHER ->
             Then(commitQuiescingCancellations(a), LAMBDA b :
               Then(RetireCurrent(discardSameGenerationOnly(b)), LAMBDA c :
                 Then(finalizeCurrent(c), beginStart)))

ReplaceUnlessDelivered(s) == IF s.out = "delivered" THEN s ELSE replaceCurrent(s)
-----------------------------------------------------------------------------
(* Frames of the host *)

validateTaskOperation(reg, f, gen) ==
  \/ f.task \in DOMAIN reg.tasks /\ reg.tasks[f.task].gen = gen
  \/ /\ f.task \in DOMAIN reg.terminalTasks
     /\ reg.terminalTasks[f.task].gen = gen
     /\ f.method # "tasks/cancel"

validateModernHostRequest(s, f) ==
  /\ f.id \notin DOMAIN s.host.requests
  /\ Size(s.host.requests) < ActiveLimit
  /\ ~containsRequest(s, f.id)
  /\ f.tok => f.id \notin DOMAIN s.host.tokens

validateHostRequest(s, f) ==
  IF s.modern THEN validateModernHostRequest(s, f)
  ELSE /\ f.task # NoTask =>
            s.cur # 0 /\ validateTaskOperation(s.host, f, s.cur)
       /\ canRegister(s.host, f.id, RecOf(f, s.cur))
       /\ ~(f.id = InitId /\ s.initReq /\ (s.awaiting \/ s.state = "replaying"))
       /\ ~containsRequest(s, f.id)

enqueueHost(s, f, same) ==
  LET full == Len(s.pending) >= QueueCap
      queued == enqueue(s, f, same)
  IN  CASE f.k = "request" /\ ~validateHostRequest(s, f) -> rejectHostRequest(s, f.id)
        [] full /\ (f.k = "request" => validateHostRequest(s, f)) ->
             IF f.k = "request" THEN rejectHostRequest(s, f.id) ELSE s
        [] OTHER ->
             IF s.state = "dormant"
             THEN beginStart([queued EXCEPT !.leaseT = FALSE])
             ELSE IF s.cur = 0 /\ ~s.starting THEN beginStart(queued) ELSE queued

retainAfterNotWritten(s, f) ==
  IF Len(s.pending) < QueueCap THEN pushFront(s, f)
  ELSE IF f.k = "request" THEN rejectHostRequest(s, f.id) ELSE s

IsPing(f) == f.k = "request" /\ f.method = "ping"

deliverHostFirst(s, f) ==
  LET w == writeChild(s, f)
      rec == IF s.modern THEN ModernRec(f, s.cur) ELSE RecOf(f, s.cur)
      t == IF f.k = "request" /\ w.out # "not_written"
           THEN [w EXCEPT !.host = register(@, f.id, rec)] ELSE w
  IN  CASE s.cur = 0 \/ ~(s.state = "active" \/ (s.state = "replaying" /\ IsPing(f))) ->
             enqueueHost(s, f, FALSE)
        [] f.k = "request" /\ s.cur # 0
             /\ (s.state = "active" \/ (s.state = "replaying" /\ IsPing(f)))
             /\ ~validateHostRequest(s, f) -> rejectHostRequest(s, f.id)
        [] OTHER -> IF t.out = "not_written"
                    THEN replaceCurrent(retainAfterNotWritten(t, f))
                    ELSE ReplaceUnlessDelivered(t)

writeInitialInitialize(s) ==
  LET w == writeChild(s, Frame("initialize", InitId))
  IN  IF w.out = "delivered" THEN [w EXCEPT !.replayT = TRUE]
      ELSE replaceCurrent(w)

writeLifecycleNotification(s) ==
  ReplaceUnlessDelivered(writeChild(s, Frame("initialized", InitId)))

routeInitializationHostPing(s, f) ==
  IF s.state \in {"active", "replaying"} THEN deliverHostFirst(s, f)
  ELSE enqueueHost(s, f, FALSE)

\* Whether the handshake, which comes first, decides what happens to a frame.
LifecycleHandles(s, f) ==
  \/ ~s.initReq
  \/ (s.awaiting \/ (~s.initFailed /\ ~s.initialized)) /\ f.k # "response"
  \/ s.initFailed /\ ~s.awaiting
  \/ f.k \in {"initialize", "initialized"}

handleHostLifecycle(s, f) ==
  LET opened == [s EXCEPT !.initReq = TRUE, !.awaiting = TRUE]
      known == [s EXCEPT !.initialized = TRUE]
      Request == f.k \in {"request", "initialize"}
  IN  CASE ~s.initReq /\ f.k = "initialize" ->
             IF s.cur # 0 /\ s.state = "active" THEN writeInitialInitialize(opened)
             ELSE IF s.cur = 0 THEN beginStart([opened EXCEPT !.leaseT = FALSE])
             ELSE opened
        [] s.initReq /\ IsPing(f) /\ (s.awaiting \/ (~s.initialized /\ ~s.initFailed)) ->
             routeInitializationHostPing(s, f)
        [] s.initReq /\ ~s.awaiting /\ ~s.initFailed /\ ~s.initialized
             /\ f.k = "initialized" ->
             IF s.cur # 0 /\ s.state = "active" THEN writeLifecycleNotification(known)
             ELSE known
        [] OTHER -> IF Request THEN rejectHostRequest(s, f.id) ELSE s

handleHostResponse(s, f) ==
  LET open == /\ s.cur # 0
              /\ f.id \in DOMAIN s.child.requests
              /\ s.child.requests[f.id].gen = s.cur
      refused == [s EXCEPT !.child = cancel(@, f.id)]
      w == writeChild(s, f)
      done == IF w.out = "not_written" THEN w
              ELSE [w EXCEPT !.child = complete(@, f.id, f)]
  IN  CASE ~open -> s
        [] open /\ ~canComplete(s.child, f.id, f) ->
             Then(EndOnError(refused), LAMBDA t : ReplaceUnlessDelivered(writeChild(t, f)))
        [] OTHER -> Then(EndOnError(done), ReplaceUnlessDelivered)

handleHostCancellation(s, f) ==
  CASE RemovableRequest(s, f.id) -> removeRequest(s, f.id)
    [] ~RemovableRequest(s, f.id) /\ (s.cur = 0 \/ ~Cancellable(s, f.id)) -> s
    [] OTHER ->
         CASE s.state = "quiescing" -> enqueueHost(s, f, TRUE)
           [] s.state = "active" ->
                Then(CancelRequest(s, f.id),
                     LAMBDA c : ReplaceUnlessDelivered(writeChild(c, f)))
           [] OTHER -> s

handleHostProgress(s, f) ==
  IF s.cur # 0 /\ acceptsProgress(s.child, f.id, 1, s.cur)
  THEN ReplaceUnlessDelivered(
         writeChild([s EXCEPT !.child = acceptProgress(@, f.id, 1)], f))
  ELSE s

handleHostTaskStatus(s, f) ==
  LET t == [s EXCEPT !.child = updateTask(@, f.task, f.status, s.cur)]
  IN  IF s.cur = 0 \/ ~updateHandled(s.child, f.task, s.cur) THEN s
      ELSE Then(EndOnError(t), LAMBDA u : ReplaceUnlessDelivered(writeChild(u, f)))

\* What a notification does that belongs to the generation that is current.
SameGeneration(s, f, handled) ==
  CASE s.state = "active" -> handled
    [] s.state = "quiescing" -> enqueueHost(s, f, TRUE)
    [] OTHER -> s

handleLegacyHost(s, f) ==
  LET late == [s EXCEPT !.child = consumeRetiredResponse(@, f.id, f)]
      ended == [s EXCEPT !.child = consumeRetiredTaskStatus(@, f.task, f.status)]
  IN  CASE LifecycleHandles(s, f) -> handleHostLifecycle(s, f)
        [] ~LifecycleHandles(s, f) /\ f.k = "response" ->
             IF f.id \in DOMAIN s.child.retiredRequests
             THEN EndOnError(late)
             ELSE IF s.state \in {"active", "replaying", "awaiting_exit"}
             THEN handleHostResponse(s, f)
             ELSE IF s.state = "quiescing" THEN enqueueHost(s, f, TRUE) ELSE s
        [] ~LifecycleHandles(s, f) /\ f.k = "status" ->
             IF knowsRetiredTask(s.child, f.task)
             THEN EndOnError(ended)
             ELSE SameGeneration(s, f, handleHostTaskStatus(s, f))
        [] ~LifecycleHandles(s, f) /\ f.k = "cancel" -> handleHostCancellation(s, f)
        [] ~LifecycleHandles(s, f) /\ f.k = "progress" ->
             SameGeneration(s, f, handleHostProgress(s, f))
        [] OTHER -> deliverHostFirst(s, f)

handleModernHost(s, f) ==
  CASE f.k \in {"response", "progress"} -> s
    [] f.k = "cancel" -> handleHostCancellation(s, f)
    [] OTHER -> IF s.state = "active" THEN deliverHostFirst(s, f)
                ELSE enqueueHost(s, f, FALSE)

finishDormantLease(s) ==
  IF s.leasePassed THEN terminate(s) ELSE [s EXCEPT !.leaseT = TRUE]

resumeDormantLeaseAfterHost(s) ==
  IF s.terminal \/ s.state # "dormant" \/ s.leaseT THEN s ELSE finishDormantLease(s)

handleHostEvent(s, f) ==
  resumeDormantLeaseAfterHost(
    IF f.method = "reserved" THEN rejectHostRequest(s, f.id)
    ELSE IF s.modern THEN handleModernHost(s, f) ELSE handleLegacyHost(s, f))

\* flushPending: one frame after the other while the engine stays active.
FlushOne(s) ==
  IF ~s.terminal /\ s.cur # 0 /\ s.state = "active" /\ s.pending # <<>>
  THEN handleHostEvent([s EXCEPT !.pending = Tail(@)], Head(s.pending).f)
  ELSE s

flushPending(s) == Repeated(s, Len(s.pending), LAMBDA t, n : FlushOne(t))

FlushPing(s) ==
  IF ~s.terminal /\ s.cur # 0 /\ s.state = "replaying"
       /\ (\E j \in DOMAIN s.pending : IsPing(s.pending[j].f))
  THEN LET j == CHOOSE j \in DOMAIN s.pending :
                  /\ IsPing(s.pending[j].f)
                  /\ \A k \in 1 .. j - 1 : ~IsPing(s.pending[k].f)
       IN  deliverHostFirst([s EXCEPT !.pending = Without(@, {j})], s.pending[j].f)
  ELSE s

flushReplayPings(s) == Repeated(s, Len(s.pending), LAMBDA t, n : FlushPing(t))
-----------------------------------------------------------------------------
(* Frames of the engine *)

\* The answer to initialize reaches the host; an error ends the handshake.
AnswerInitialize(s, f) ==
  Then(writeHost(s, Frame("answer", InitId)), LAMBDA w :
         [w EXCEPT !.awaiting = FALSE, !.initResp = f.kind = "result",
                   !.initFailed = f.kind = "error"])

completeInitialInitialize(s, f) ==
  AnswerInitialize([s EXCEPT !.replayT = FALSE], f)

handleChildResponse(s, f) ==
  LET open == f.id \in DOMAIN s.host.requests /\ s.host.requests[f.id].gen = s.cur
  IN  CASE f.k = "init" -> IF s.awaiting THEN completeInitialInitialize(s, f) ELSE s
        [] f.k # "init" /\ ~open -> s
        [] OTHER -> IF ~canComplete(s.host, f.id, f) THEN replaceCurrent(s)
                    ELSE Then(writeHost(s, Frame("answer", f.id)), LAMBDA w :
                           EndOnError([w EXCEPT !.host = complete(@, f.id, f)]))

handleChildRequest(s, f) ==
  LET rec == RecOf(f, s.cur)
      w == writeHost(s, [f EXCEPT !.from = s.cur])
  IN  CASE ~s.initialized /\ (~s.initReq \/ f.method # "ping") -> replaceCurrent(s)
        [] (s.initialized \/ (s.initReq /\ f.method = "ping")) /\ f.task # NoTask
             /\ ~validateTaskOperation(s.child, f, s.cur) ->
             ReplaceUnlessDelivered(writeChild(s, Frame("rejected", f.id)))
        [] OTHER -> IF ~canRegister(s.child, f.id, rec) THEN replaceCurrent(s)
                    ELSE IF w.terminal THEN w
                    ELSE [w EXCEPT !.child = register(@, f.id, rec)]

handleChildCancellation(s, f) ==
  LET rec == s.child.requests[f.id]
      w == writeHost(s, f)
  IN  IF f.id \notin DOMAIN s.child.requests \/ rec.gen # s.cur \/ rec.aug THEN s
      ELSE IF w.terminal THEN w
      ELSE [w EXCEPT !.child = retireRequest(@, f.id)]

handleChildProgress(s, f) ==
  IF acceptsProgress(s.host, f.id, 1, s.cur)
  THEN writeHost([s EXCEPT !.host = acceptProgress(@, f.id, 1)], f) ELSE s

handleChildTaskStatus(s, f) ==
  LET t == [s EXCEPT !.host = updateTask(@, f.task, f.status, s.cur)]
  IN  IF ~updateHandled(s.host, f.task, s.cur) THEN s
      ELSE Then(EndOnError(t), LAMBDA u : writeHost(u, f))

completeReplay(s, f) ==
  LET a == [s EXCEPT !.replayT = FALSE]
      b == IF s.initialized THEN writeChild(a, Frame("initialized", InitId))
           ELSE [a EXCEPT !.out = "delivered"]
  IN  IF b.out # "delivered" THEN replaceCurrent(b)
      ELSE Then(IF s.awaiting THEN AnswerInitialize(b, f) ELSE b, LAMBDA c :
             flushPending([c EXCEPT
               !.host = clearRetiredCorrelations(clearTransitionTombstones(@)),
               !.child = clearTransitionTombstones(@),
               !.state = "active"]))

\* sameInitializeContract: the new engine must offer what the first one did.
SameContract(s, f) == s.initResp => f.kind = "result" /\ f.status = "same"

handleReplayFrame(s, f) ==
  CASE f.k = "ask" /\ f.method = "ping" -> handleChildRequest(s, f)
    [] f.k = "answer" ->
         IF f.id \in DOMAIN s.host.requests /\ s.host.requests[f.id].gen = s.cur
         THEN handleChildResponse(s, f) ELSE replaceCurrent(s)
    [] f.k = "init" ->
         IF SameContract(s, f) THEN completeReplay(s, f) ELSE replaceCurrent(s)
    [] f.k = "log" -> IF s.awaiting THEN writeHost(s, f) ELSE s
    [] OTHER -> replaceCurrent(s)

beginReplay(s) ==
  LET w == writeChild(setState(s, "replaying"), Frame("initialize", InitId))
  IN  IF w.out # "delivered" THEN replaceCurrent(w)
      ELSE flushReplayPings([w EXCEPT !.replayT = TRUE])

armDormantLease(s) == [s EXCEPT !.leaseT = TRUE, !.leasePassed = FALSE]

\* Variant: what the host has said in the meantime is not looked at.
completeDormancyBlindly(s) ==
  LET b == finalizeCurrent(RetireCurrent([s EXCEPT !.exitT = FALSE]))
  IN  IF s.cur = 0 \/ s.state # "awaiting_exit" \/ s.exit = "no" \/ s.output # "eof"
      THEN s
      ELSE IF s.exit # "dormant" \/ s.dormInvalid THEN replaceCurrent(s)
      ELSE IF b.terminal THEN b ELSE armDormantLease(setState(b, "dormant"))

\* The engine is gone and its output read to the end: rest, unless the host
\* has said something since it offered to leave.
maybeCompleteDormancy(s) ==
  LET Rest(t) == IF t.pending # <<>> \/ t.since THEN beginStart(t)
                 ELSE armDormantLease(setState(t, "dormant"))
  IN  CASE s.cur = 0 \/ s.state # "awaiting_exit" -> s
        [] s.cur # 0 /\ s.state = "awaiting_exit" /\ (s.exit = "no" \/ s.output # "eof") ->
             IF s.output = "error" THEN replaceCurrent(s) ELSE s
        [] OTHER ->
             IF s.exit # "dormant" \/ s.dormInvalid THEN replaceCurrent(s)
             ELSE Then(RetireCurrent([s EXCEPT !.exitT = FALSE, !.state = "finalizing"]),
                       LAMBDA a : Then(finalizeCurrent(a), Rest))

safeToCommitDormant(s) ==
  s.pending = <<>> /\ registryIdle(s.host) /\ registryIdle(s.child)

handleChildControl(s, f) ==
  LET w == writeChild([s EXCEPT !.state = "quiescing", !.since = FALSE],
                      Frame("commit", InitId))
  IN  CASE f.method = "ready" ->
             IF s.state # "active" \/ (~s.modern /\ (s.awaiting \/ ~s.initialized))
             THEN replaceCurrent(s)
             ELSE IF ~safeToCommitDormant(s) THEN s
             ELSE IF w.out # "delivered" THEN replaceCurrent(w)
             ELSE [w EXCEPT !.exitT = TRUE]
        [] f.method = "nack" ->
             IF s.state # "quiescing" THEN replaceCurrent(s)
             ELSE flushPending([s EXCEPT !.exitT = FALSE, !.state = "active"])
        [] OTHER -> \* "ack"
             IF s.state # "quiescing" THEN replaceCurrent(s)
             ELSE Then(commitQuiescingCancellations([s EXCEPT !.drainT = FALSE]),
                       LAMBDA c : maybeCompleteDormancy(
                         [discardSameGenerationOnly(c) EXCEPT !.state = "awaiting_exit",
                                                              !.exitT = TRUE]))

\* A frame the engine sends after it agreed to leave still reaches the host,
\* and the dormancy is void.
FrameWhileLeaving(s, f) ==
  LET Void(t) == [t EXCEPT !.dormInvalid = @ \/ t.state = "awaiting_exit"]
      w == writeHost(s, IF f.k \in {"answer", "init"} THEN Frame("answer", f.id) ELSE f)
      open == /\ f.k = "answer" /\ f.id \in DOMAIN s.host.requests
              /\ s.host.requests[f.id].gen = s.cur
      done == IF open THEN [w EXCEPT !.host = complete(@, f.id, f)] ELSE w
  IN  CASE s.dormInvalid -> s
        [] ~s.dormInvalid /\ f.k = "ask" ->
             Void(handleChildRequest(s, f))
        [] OTHER -> IF w.terminal THEN w ELSE Then(EndOnError(done), Void)

handleModernChild(s, f) ==
  LET t == IF s.state = "awaiting_exit" THEN [s EXCEPT !.dormInvalid = TRUE] ELSE s
      open == f.id \in DOMAIN t.host.requests /\ t.host.requests[f.id].gen = t.cur
      listen == open /\ t.host.requests[f.id].method = "listen"
      w == writeHost(t, IF f.k = "answer" THEN Frame("answer", f.id) ELSE f)
  IN  CASE s.state \notin {"active", "quiescing", "awaiting_exit"} -> s
        [] s.state = "awaiting_exit" /\ s.dormInvalid -> s
        [] OTHER ->
             CASE f.k = "ask" -> t
               [] f.k = "answer" ->
                    IF ~open THEN t
                    ELSE IF w.terminal THEN w ELSE finishModernRequest(w, f.id)
               [] f.k = "unlisten" ->
                    IF ~listen THEN t
                    ELSE IF w.terminal THEN w ELSE finishModernRequest(w, f.id)
               [] f.k = "progress" -> handleChildProgress(t, f)
               [] OTHER -> w

handleChildFrame(s, f) ==
  LET early == IF f.k \in {"answer", "init"} THEN handleChildResponse(s, f)
               ELSE IF f.k = "ask" THEN handleChildRequest(s, f)
               ELSE IF f.k = "log" /\ s.initReq THEN writeHost(s, f) ELSE s
  IN  CASE f.k = "control" -> handleChildControl(s, f)
        [] f.k # "control" /\ s.modern -> handleModernChild(s, f)
        [] f.k # "control" /\ ~s.modern /\ s.state = "replaying" ->
             handleReplayFrame(s, f)
        [] f.k # "control" /\ ~s.modern /\ s.state = "awaiting_exit" ->
             FrameWhileLeaving(s, f)
        [] OTHER ->
             IF s.state \notin {"active", "quiescing"} THEN s
             ELSE IF ~s.initialized THEN early
             ELSE CASE f.k \in {"answer", "init"} -> handleChildResponse(s, f)
                    [] f.k = "ask" -> handleChildRequest(s, f)
                    [] f.k = "cancel" -> handleChildCancellation(s, f)
                    [] f.k = "progress" -> handleChildProgress(s, f)
                    [] f.k = "status" -> handleChildTaskStatus(s, f)
                    [] OTHER -> writeHost(s, f)

handleChildOutput(s) ==
  LET t == [s EXCEPT !.drainT = FALSE, !.evOutput = FALSE]
  IN  IF s.state = "awaiting_exit" /\ s.output = "eof" THEN maybeCompleteDormancy(t)
      ELSE replaceCurrent([t EXCEPT !.dormInvalid = @ \/ s.state = "awaiting_exit"])

handleChildExit(s) ==
  LET t == [s EXCEPT !.evExit = FALSE]
  IN  IF s.state = "awaiting_exit" THEN maybeCompleteDormancy(t)
      ELSE IF s.output # "open" THEN replaceCurrent(t)
      ELSE [t EXCEPT !.drainT = TRUE]
-----------------------------------------------------------------------------
(* Start attempts *)

Outcome == {"ok", "failed", "retained", "unproven"}

\* A second engine is tried only after a first start that left nothing behind.
StartWithFallback(first, second) == IF first = "failed" THEN second ELSE first

Spawned(first, second) ==
  (IF first = "failed" THEN 0 ELSE 1)
    + IF first = "failed" /\ second # "failed" THEN 1 ELSE 0

cleanupInvalidStart(s) ==
  IF s.fate.proof THEN [s EXCEPT !.live = @ - 1] ELSE terminate(s)

handleStartAttempt(s, outcome) ==
  LET a == [s EXCEPT !.starting = FALSE]
      up == [a EXCEPT !.gen = @ + 1, !.cur = s.gen + 1, !.dormInvalid = FALSE]
      fresh == [up EXCEPT
                  !.host = clearRetiredCorrelations(clearTransitionTombstones(@)),
                  !.child = clearRetiredCorrelations(clearTransitionTombstones(@))]
      clean == cleanupInvalidStart(a)
  IN  CASE outcome = "unproven" -> terminate(a)
        [] outcome = "failed" -> scheduleRetry(a)
        [] outcome = "retained" -> IF clean.terminal THEN clean ELSE scheduleRetry(clean)
        [] OTHER -> IF ~s.modern /\ s.initReq THEN beginReplay(up)
                    ELSE flushPending(setState(IF s.modern THEN fresh ELSE up, "active"))

\* shutdown: what is left is retired without telling the host.
shutdown(s) ==
  LET a == IF s.cur = 0 THEN s
           ELSE [s EXCEPT !.host = retireGenerationChecked(@, s.cur),
                          !.child = retireGenerationChecked(@, s.cur)]
      b == finalizeCurrent(a)
  IN  [b EXCEPT !.state = "terminal", !.pending = <<>>, !.starting = FALSE,
                !.retryT = FALSE, !.replayT = FALSE, !.exitT = FALSE,
                !.drainT = FALSE, !.leaseT = FALSE, !.resolving = FALSE,
                !.host.err = s.host.err, !.child.err = s.child.err]
-----------------------------------------------------------------------------
(* The specification *)

Init ==
  /\ \E era \in Era :
       r = [state |-> "starting", modern |-> era = "modern", gen |-> 0, cur |-> 0,
            starting |-> TRUE, retryT |-> FALSE, replayT |-> FALSE, exitT |-> FALSE,
            drainT |-> FALSE, leaseT |-> FALSE, leasePassed |-> FALSE,
            resolving |-> FALSE, pending |-> <<>>,
            host |-> newDirectionRegistry, child |-> newDirectionRegistry,
            initReq |-> FALSE, awaiting |-> FALSE, initResp |-> FALSE,
            initFailed |-> FALSE, initialized |-> FALSE, dormInvalid |-> FALSE,
            since |-> FALSE, exit |-> "no", output |-> "open", evExit |-> FALSE,
            evOutput |-> FALSE, live |-> 0, terminal |-> FALSE, lease |-> FALSE,
            told |-> Nothing, wrote |-> Nothing, toHost |-> {}, toChild |-> {},
            out |-> "none", fate |-> Calm]
  /\ hostIn = NoFrame
  /\ attempt = "running"
  /\ got = {} /\ asks = {}
  /\ kidTasks = None /\ hostTasks = None
  /\ sends = Nothing
  /\ answers = sends
  /\ carried = sends
  /\ withdrawn = {}
  /\ strayed = FALSE
  /\ nReq = 0
  /\ trouble = 0

\* What the event loop wrote while it handled an event has reached its peers,
\* and the event leaves them, and the start attempt, as "after" says.
Handled(s, after) ==
  LET same == s.cur = r.cur /\ s.gen = r.gen
      writing == IF s.gen > r.gen THEN s.gen ELSE r.cur
      new == {f \in s.toChild : f.k \in {"request", "initialize", "commit"}}
  IN  /\ r' = [s EXCEPT !.told = Nothing, !.wrote = Nothing, !.toHost = {},
                        !.toChild = {}, !.out = "none", !.fate = Calm]
      /\ answers' = [i \in Ids |-> answers[i] + s.told[i]]
      /\ carried' = [i \in Ids |-> carried[i] + s.wrote[i]]
      /\ strayed' = (strayed \/ \E f \in s.toChild : f.k = "response" /\ f.from # writing)
      /\ asks' = asks \cup s.toHost
      /\ got' = IF s.cur = 0 THEN {} ELSE (IF same THEN got \ after.taken ELSE {}) \cup new
      /\ attempt' = IF s.starting /\ after.attempt = "none" THEN "running"
                     ELSE after.attempt
      /\ kidTasks' = IF same THEN after.tasks ELSE None

Live == ~r.terminal

Quiet == [taken |-> {}, attempt |-> attempt, tasks |-> kidTasks]

\* One event; a fate other than the calm one is a failure.
Loop(handle(_), cost, after) ==
  \E fate \in Fates :
    /\ Live
    /\ trouble' = trouble + cost + (IF fate = Calm THEN 0 ELSE 1)
    /\ trouble' <= MaxTrouble
    /\ Handled(handle([r EXCEPT !.fate = fate]), after)

PeersKeep == UNCHANGED <<hostTasks, sends, withdrawn, nReq>>

\* readHost records the arrival of a frame before the loop receives it.
HostReads(f) ==
  /\ Live
  /\ hostIn = NoFrame
  /\ hostIn' = IF r.leasePassed THEN [f EXCEPT !.late = TRUE] ELSE f
  /\ r' = [r EXCEPT !.since = TRUE]
  /\ UNCHANGED <<attempt, got, kidTasks, answers, strayed, trouble>>

HostRequests(i, m) ==
  /\ sends[i] = answers[i]
  /\ sends[i] < MaxSends
  /\ i \notin withdrawn
  /\ nReq < MaxRequests
  /\ nReq' = nReq + 1
  /\ m = "listen" => r.modern
  /\ \E t \in IF m \in {"tasks/get", "tasks/result", "tasks/cancel"}
              THEN DOMAIN kidTasks ELSE {NoTask} :
       HostReads([Frame("request", i) EXCEPT !.method = m, !.task = t,
                    !.aug = m = "task", !.tok = m \in {"plain", "task"}])
  /\ sends' = [sends EXCEPT ![i] = @ + 1]
  /\ carried' = [carried EXCEPT ![i] = 0]
  /\ UNCHANGED <<asks, hostTasks, withdrawn>>

HostInitializes ==
  /\ ~r.modern
  /\ \/ /\ sends[InitId] = 0
        /\ HostReads(Frame("initialize", InitId))
        /\ sends' = [sends EXCEPT ![InitId] = 1]
     \/ /\ answers[InitId] = 1 /\ ~r.initialized /\ r.initResp
        /\ HostReads(Frame("initialized", InitId))
        /\ UNCHANGED sends
  /\ UNCHANGED <<asks, hostTasks, withdrawn, carried, nReq>>

HostCancels(i) ==
  /\ sends[i] > answers[i]
  /\ i \notin withdrawn
  /\ HostReads(Frame("cancel", i))
  /\ withdrawn' = withdrawn \cup {i}
  /\ UNCHANGED <<asks, hostTasks, sends, carried, nReq>>

\* A peer's answer to a request: an error, a result, or for a task-augmented
\* request a task it creates, and what it says of its tasks is consistent.
Replies(f, tasks) ==
  LET Say(k, t, st) == [kind |-> k, task |-> t, status |-> st]
  IN  {Say("error", NoTask, "none")} \cup
      CASE f.method = "task" ->
             {Say("result", t, "working") : t \in Task \ DOMAIN tasks}
        [] f.method = "tasks/get" ->
             {Say("result", f.task, tasks[t]) : t \in {f.task} \cap DOMAIN tasks}
        [] f.method = "tasks/cancel" ->
             {Say("result", f.task, "cancelled") :
                t \in {u \in {f.task} \cap DOMAIN tasks : tasks[u] # "completed"}}
        [] OTHER -> {Say("result", NoTask, "none")}

\* The tasks of a peer after it has given a reply or reported a status.
TasksAfter(tasks, reply) ==
  IF reply.task = NoTask THEN tasks ELSE Put(tasks, reply.task, reply.status)

HostResponds(a, reply) ==
  /\ reply \in Replies(a, hostTasks)
  /\ HostReads([Frame("response", a.id) EXCEPT !.kind = reply.kind,
                  !.task = reply.task, !.status = reply.status, !.from = a.from])
  /\ asks' = asks \ {a}
  /\ hostTasks' = TasksAfter(hostTasks, reply)
  /\ UNCHANGED <<sends, withdrawn, carried, nReq>>

HostReports(t) ==
  /\ hostTasks[t] = "working"
  /\ HostReads([Frame("status", InitId) EXCEPT !.task = t, !.status = "completed"])
  /\ hostTasks' = [hostTasks EXCEPT ![t] = "completed"]
  /\ UNCHANGED <<asks, sends, withdrawn, carried, nReq>>

\* Bound: progress is reported once for each request of an engine.
HostProgresses(a) ==
  /\ a.tok
  /\ HostReads(Frame("progress", a.id))
  /\ asks' = (asks \ {a}) \cup {[a EXCEPT !.tok = FALSE]}
  /\ UNCHANGED <<hostTasks, sends, withdrawn, carried, nReq>>

HostFrame ==
  /\ hostIn # NoFrame
  /\ Loop(LAMBDA s : handleHostEvent(s, hostIn), 0, Quiet)
  /\ hostIn' = NoFrame
  /\ PeersKeep

\* The goroutine of beginStart resolves an engine and starts it.
StartRuns(first, second) ==
  LET outcome == StartWithFallback(first, second)
  IN  /\ Live
      /\ attempt = "running"
      /\ attempt' = outcome
      /\ r' = [r EXCEPT !.live = @ + Spawned(first, second)]
      /\ trouble' = trouble + IF first = "ok" THEN 0 ELSE 1
      /\ trouble' <= MaxTrouble
      /\ UNCHANGED <<hostIn, got, kidTasks, asks, hostTasks, sends, answers,
                     withdrawn, carried, strayed, nReq>>

StartReports ==
  /\ attempt \in Outcome
  /\ Loop(LAMBDA s : handleStartAttempt(s, attempt), 0, [Quiet EXCEPT !.attempt = "none"])
  /\ UNCHANGED hostIn
  /\ PeersKeep

\* After the end of the session the attempt cleans up what it has started.
StartAbandoned ==
  /\ ~Live
  /\ attempt # "none"
  /\ attempt' = "none"
  /\ r' = [r EXCEPT !.live = IF attempt \in {"ok", "retained"} THEN @ - 1 ELSE @]
  /\ UNCHANGED <<hostIn, got, kidTasks, asks, hostTasks, sends, answers, withdrawn,
                 carried, strayed, nReq, trouble>>

\* The engine sends a frame, which the pump hands to the loop.
EngineSends(f, cost, after) ==
  /\ r.cur # 0
  /\ r.output = "open"
  /\ Loop(LAMBDA s : handleChildFrame(s, f), cost, after)
  /\ UNCHANGED <<hostIn, hostTasks, sends, withdrawn>>

Took(g) == [Quiet EXCEPT !.taken = {g}]

EngineAnswers(g, reply) ==
  /\ g.k = "request"
  /\ reply \in Replies(g, kidTasks)
  /\ LET f == [Frame("answer", g.id) EXCEPT !.kind = reply.kind,
                 !.task = reply.task, !.status = reply.status]
     IN  EngineSends(f, 0, [Quiet EXCEPT !.taken = {g},
                                         !.tasks = TasksAfter(@, reply)])
  /\ UNCHANGED nReq

EngineInitializes(g) ==
  /\ g.k = "initialize"
  /\ \E kind \in {"result", "error"}, contract \in {"same", "other"} :
       EngineSends([Frame("init", InitId) EXCEPT !.kind = kind, !.status = contract],
                   IF kind = "result" /\ contract = "same" THEN 0 ELSE 1, Took(g))
  /\ UNCHANGED nReq

EngineAsks(i, m) ==
  /\ nReq < MaxRequests
  /\ nReq' = nReq + 1
  /\ \E t \in IF m \in {"tasks/get", "tasks/result", "tasks/cancel"}
              THEN DOMAIN hostTasks ELSE {NoTask} :
       EngineSends([Frame("ask", i) EXCEPT !.method = m, !.task = t,
                      !.aug = m = "task", !.tok = m \in {"plain", "task"}], 0, Quiet)

EngineCancels(a) ==
  /\ a.from = r.cur
  /\ a.method \in CancelMethod
  /\ EngineSends(Frame("cancel", a.id), 0, Quiet)
  /\ UNCHANGED nReq

EngineNotifies ==
  /\ \/ \E g \in got : \/ g.tok /\ EngineSends(Frame("progress", g.id), 0, Quiet)
                       \/ /\ g.k = "request" /\ g.method = "listen"
                          /\ EngineSends(Frame("unlisten", g.id), 0, Took(g))
     \/ EngineSends(Frame("log", InitId), 0, Quiet)
  /\ UNCHANGED nReq

EngineReports(t) ==
  /\ kidTasks[t] = "working"
  /\ EngineSends([Frame("status", InitId) EXCEPT !.task = t, !.status = "completed"],
                 0, [Quiet EXCEPT !.tasks[t] = "completed"])
  /\ UNCHANGED nReq

\* The engine offers to leave; asked to commit it agrees or not.
EngineOffers ==
  /\ EngineSends([Frame("control", InitId) EXCEPT !.method = "ready"], 1, Quiet)
  /\ UNCHANGED nReq

EngineDecides(g, m) ==
  /\ g.k = "commit"
  /\ EngineSends([Frame("control", InitId) EXCEPT !.method = m], 0, Took(g))
  /\ UNCHANGED nReq

EnvKeeps == UNCHANGED <<hostIn, attempt, got, kidTasks, asks, hostTasks, sends,
                        answers, withdrawn, carried, strayed, nReq>>

\* The process ends: after it agreed to leave, or as a failure; its tree may
\* be left in a state that proves nothing.
EngineExits(how) ==
  /\ Live
  /\ r.cur # 0 /\ r.exit = "no"
  /\ how = "dormant" => r.state = "awaiting_exit"
  /\ trouble' = trouble + IF how = "dormant" THEN 0 ELSE 1
  /\ trouble' <= MaxTrouble
  /\ r' = [r EXCEPT !.exit = how, !.evExit = TRUE,
                    !.live = IF how = "unproven" THEN @ ELSE @ - 1]
  /\ EnvKeeps

OutputEnds(how) ==
  /\ Live
  /\ r.cur # 0 /\ r.output = "open"
  /\ how = "error" \/ r.exit = "no" => trouble < MaxTrouble
  /\ trouble' = trouble + IF how = "error" \/ r.exit = "no" THEN 1 ELSE 0
  /\ r' = [r EXCEPT !.output = how, !.evOutput = TRUE]
  /\ EnvKeeps

ChildExit ==
  /\ r.evExit
  /\ Loop(handleChildExit, 0, Quiet)
  /\ UNCHANGED hostIn /\ PeersKeep

ChildOutput ==
  /\ r.evOutput
  /\ Loop(handleChildOutput, 0, Quiet)
  /\ UNCHANGED hostIn /\ PeersKeep

\* Timers.  The start timer ends the session, the others replace the engine.
RetryTimer ==
  /\ r.retryT
  /\ Loop(LAMBDA s : beginStart([s EXCEPT !.retryT = FALSE]), 0, Quiet)
  /\ UNCHANGED hostIn /\ PeersKeep

StartTimer ==
  /\ r.starting
  /\ Loop(LAMBDA s : terminate([s EXCEPT !.starting = FALSE]), 1, Quiet)
  /\ UNCHANGED hostIn /\ PeersKeep

ReplayTimer ==
  /\ r.replayT
  /\ Loop(LAMBDA s : replaceCurrent([s EXCEPT !.replayT = FALSE]), 1, Quiet)
  /\ UNCHANGED hostIn /\ PeersKeep

ChildExitDrainTimer ==
  /\ r.drainT
  /\ Loop(LAMBDA s : replaceCurrent([s EXCEPT !.drainT = FALSE]), 0, Quiet)
  /\ UNCHANGED hostIn /\ PeersKeep

DormantExitTimer ==
  /\ r.exitT
  /\ Loop(LAMBDA s : replaceCurrent([s EXCEPT !.exitT = FALSE]), 1, Quiet)
  /\ UNCHANGED hostIn /\ PeersKeep

DeadlinePasses ==
  /\ Live /\ r.leaseT /\ ~r.leasePassed
  /\ r' = [r EXCEPT !.leasePassed = TRUE]
  /\ EnvKeeps /\ UNCHANGED trouble

\* A frame that arrived before the deadline is served first.
handleDormantLease(s) ==
  LET t == [s EXCEPT !.leaseT = FALSE]
      u == finishDormantLease(t)
  IN  IF hostIn # NoFrame /\ ~hostIn.late THEN t ELSE [u EXCEPT !.lease = u.terminal]

DormantLeaseTimer ==
  /\ r.leaseT /\ r.leasePassed /\ r.state = "dormant"
  /\ Loop(handleDormantLease, 0, Quiet)
  /\ UNCHANGED hostIn /\ PeersKeep

beginResolve ==
  /\ Live
  /\ ~r.resolving /\ r.cur # 0 /\ r.state = "active"
  /\ r' = [r EXCEPT !.resolving = TRUE]
  /\ EnvKeeps /\ UNCHANGED trouble

handleResolve(s, other) ==
  LET t == [s EXCEPT !.resolving = FALSE]
  IN  IF other THEN replaceCurrent(t) ELSE t

ResolveReports(other) ==
  /\ r.resolving
  /\ Loop(LAMBDA s : handleResolve(s, other), IF other THEN 1 ELSE 0, Quiet)
  /\ UNCHANGED hostIn /\ PeersKeep

\* The host closes its end, or the caller cancels: a frame already read is
\* handed over first in the one case, not in the other.
SessionEnds ==
  /\ Loop(terminate, 1, Quiet)
  /\ UNCHANGED hostIn /\ PeersKeep

Shutdown ==
  /\ ~Live
  /\ r.state # "terminal"
  /\ r' = shutdown(r)
  /\ EnvKeeps /\ UNCHANGED trouble

HostMoves ==
  \/ \E i \in HostReq : HostCancels(i) \/ (\E m \in HostMethod[i] : HostRequests(i, m))
  \/ HostInitializes
  \/ \E a \in asks : \/ HostProgresses(a)
                     \/ \E reply \in Replies(a, hostTasks) : HostResponds(a, reply)
  \/ \E t \in DOMAIN hostTasks : HostReports(t)

EngineMoves ==
  \/ \E g \in got : \/ \E reply \in Replies(g, kidTasks) : EngineAnswers(g, reply)
                    \/ EngineInitializes(g)
                    \/ \E m \in {"ack", "nack"} : EngineDecides(g, m)
  \/ \E i \in ChildReq : \E m \in ChildMethod[i] : EngineAsks(i, m)
  \/ \E a \in asks : EngineCancels(a)
  \/ EngineNotifies
  \/ \E t \in DOMAIN kidTasks : EngineReports(t)
  \/ EngineOffers
  \/ \E how \in {"crash", "dormant", "unproven"} : EngineExits(how)
  \/ \E how \in {"eof", "error"} : OutputEnds(how)

RunnerMoves ==
  \/ HostFrame \/ StartReports \/ ChildExit \/ ChildOutput
  \/ RetryTimer \/ ChildExitDrainTimer \/ DormantLeaseTimer \/ Shutdown

Next ==
  \/ HostMoves \/ EngineMoves \/ RunnerMoves
  \/ \E first, second \in Outcome : StartRuns(first, second)
  \/ StartAbandoned
  \/ StartTimer \/ ReplayTimer \/ DormantExitTimer \/ DeadlinePasses
  \/ beginResolve \/ (\E other \in BOOLEAN : ResolveReports(other)) \/ SessionEnds

Spec == Init /\ [][Next]_vars
-----------------------------------------------------------------------------
(* Properties *)

\* The books of the supervisor: every request it has read and not settled.
Books ==
  (IF hostIn.k \in {"request", "initialize"} THEN {hostIn.id} ELSE {})
    \cup {r.pending[j].f.id : j \in {j \in DOMAIN r.pending : r.pending[j].f.k = "request"}}
    \cup DOMAIN r.host.requests
    \cup (IF r.awaiting THEN {InitId} ELSE {})

\* Types of the runner's state, and that no handler leaves its write pending.
SupTypeOK ==
  /\ r.state \in {"starting", "replaying", "active", "quiescing", "awaiting_exit",
                  "dormant", "finalizing", "terminal"}
  /\ r.cur \in {0, r.gen}
  /\ Len(r.pending) <= QueueCap
  /\ r.state \in {"replaying", "active", "quiescing", "awaiting_exit"} => r.cur # 0
  /\ r.starting => r.cur = 0
  /\ r.state # "terminal" =>
       \A id \in DOMAIN r.host.requests : r.host.requests[id].gen = r.cur

\* At most one engine process tree exists: a replacement, a fallback or a
\* retry starts only after the retirement of what was there is proven.
OneEngine == SupTypeOK /\ r.live <= 1

\* Nothing crosses from one engine to the next: a request that may have reached
\* an engine is never written to another one, and the host's answer to one
\* generation's request never reaches a later one, though the later one may
\* use the same identifier.
EnginesApart == ~strayed /\ \A i \in HostReq : carried[i] <= 1

\* Dormancy loses nothing: a supervisor without an engine and without a start
\* under way owes the host nothing but the frame it has not received yet, and
\* the dormant lease does not end the session over the head of a frame that
\* arrived before its deadline.
DormantOwesNothing ==
  /\ r.state = "dormant" /\ Live =>
       /\ r.cur = 0 /\ r.pending = <<>>
       /\ Books \ {hostIn.id} = {}
       /\ r.leaseT \/ hostIn # NoFrame
  /\ r.lease => hostIn = NoFrame \/ hostIn.late

\* An operation on a task that its engine has cancelled, while the task is open.
Withdrawn(reg) ==
  \E id \in DOMAIN reg.retiredRequests :
    reg.retiredRequests[id].task \in DOMAIN reg.tasks \cup DOMAIN reg.terminalTasks

\* Peers that keep the protocol do not drive a registry into a state it calls
\* ambiguous, which ends the session: an identifier is current, retired or
\* fenced, never two of them.  The one exception is the host's answer to an
\* operation on an open task that the engine has cancelled.
RegistriesAgree ==
  [][/\ ~r'.host.err
     /\ r'.child.err => r.child.err \/ Withdrawn(r.child)]_vars

\* The supervisor implements the promise to the host.
Session == INSTANCE HostSession
             WITH Id <- Ids, ended <- ~Live,
                  outstanding <- IF Live THEN Books ELSE {}
KeepsSession == Session!HSSpec

\* Fairness: the loop receives every event that is ready, a start attempt
\* ends, and an engine answers what it was given, leaves after it agreed to,
\* and closes its output when it is gone.
Ready ==
  /\ Live
  /\ \/ hostIn # NoFrame
     \/ attempt # "none"
     \/ r.evExit \/ r.evOutput \/ r.retryT \/ r.drainT

Received ==
  \/ hostIn # NoFrame /\ hostIn' = NoFrame
  \/ attempt # attempt'
  \/ r.evExit /\ ~r'.evExit
  \/ r.evOutput /\ ~r'.evOutput
  \/ r.retryT /\ ~r'.retryT
  \/ r.drainT /\ ~r'.drainT

EngineOwes ==
  /\ Live /\ r.cur # 0
  /\ \/ r.output = "open" /\ (got # {} \/ r.exit # "no")
     \/ r.state = "awaiting_exit" /\ r.exit = "no"

EngineServed ==
  \/ got' # got
  \/ r'.exit # r.exit
  \/ r'.output # r.output

\* Weak fairness of each, the enabling condition written out.
Fairness == /\ []<>~Ready \/ []<><<Received>>_vars
            /\ []<>~EngineOwes \/ []<><<EngineServed>>_vars

FairSpec == Spec /\ Fairness

\* Every request of the host is settled: answered, withdrawn, or the session
\* ends; no engine failure, switch or dormancy makes the supervisor forget it.
RequestSettles ==
  \A i \in Ids : sends[i] > answers[i] ~> sends[i] = answers[i] \/ i \in withdrawn
                                            \/ r.terminal
=============================================================================
