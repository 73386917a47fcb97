-------------------------------- MODULE Client --------------------------------
(***************************************************************************)
(* The resilient client of muxcore/owner: the shim between an MCP host     *)
(* (stdin, stdout) and an owner's socket, which survives the loss of that  *)
(* socket. Processes: the ingress of host frames (the stdin reader) and of *)
(* injected frames, the reader and the writer of the current connection,   *)
(* the stdout writer, the proxy loop and its asynchronous reconnect        *)
(* attempt. The daemon, the owner and the host are external: any outcome   *)
(* of an attempt, a lost connection, an answer or a hang up may happen at  *)
(* any time.                                                               *)
(***************************************************************************)
EXTENDS Integers, Sequences, FiniteSets, SequencesExt

CONSTANTS Req,         \* requests, each sent once
          InitReq,     \* the host's initialize request
          Injected,    \* the requests that arrive through injectFrame
          NoFrame,     \* no frame
          Lifecycle,   \* cfg.LifecycleProtocol is enabled (a supervised shim)
          QueueCap,    \* capacity of msgFromCC
          MaxRefreshAttempts,
          MaxConn,     \* bound: connections made in a behaviour
          MaxFences    \* bound: maintenance fences met in a behaviour

ASSUME ClientAssumption ==
  /\ InitReq \in Req /\ Injected \subseteq Req \ {InitReq}
  /\ Req \cap {"commit", "replay", "run", "eof", "done"} = {}
  /\ NoFrame \notin Req \cup {"commit"} /\ NoFrame \notin 0..MaxFences
  /\ Lifecycle \in BOOLEAN
  /\ QueueCap \in Nat \ {0} /\ MaxConn \in Nat \ {0, 1}
  /\ MaxRefreshAttempts \in Nat /\ MaxFences \in Nat

Commit  == "commit"                \* the supervisor's private CommitDormant
Frame   == Req \cup {Commit}
Replay  == "replay"                \* the cached initialize, written by replayInit
Ingress == {"stdin", "inject"}

VARIABLES
  msgFromCC,     \* frames queued for the owner
  msgFromIPC,    \* answers queued for the host
  inflight,      \* requests written and not answered
  held,          \* rc.held: a maintenance fence was observed
  sequence,      \* rc.maintenanceSequence; maintenanceSeen is sequence > 0
  pending,       \* rc.pendingReconnect is set
  wakeup,        \* the channel rc.ipcEOF holds a resume wake
  cached,        \* initCache holds InitReq
  initialized,   \* rc.initialized
  quiet,         \* the idle delay passed since lastHostActivity
  suspending,    \* rc.suspending
  ing,           \* progress of each ingress
  conn,          \* the current connection: number, state, requests at the owner
  connSequence,  \* connectionSequence of runProxy
  reader,        \* runIPCReader: "run", "eof" or the answer it holds
  writer,        \* runIPCWriter: "run", "done" or the frame it holds
  main,          \* the proxy loop
  wake,          \* the deferred frame or the wake demand
  then,          \* what reconnect returns to: "lost" or "demand"
  budget,        \* refresh attempts left; 0: fresh spawns
  attempt,       \* the asynchronous attempt: "none", "running" or its result
  degraded,
  offer,         \* the dormancy handshake as the supervisor sees it
  host,          \* "open", "eof" (stdin), "ignored" (eof seen), "dead" (stdout)
  answers,       \* ghost: what the host was answered, per request
  sent,          \* ghost: the connections a frame, or the replay, was written to
  admittedAt     \* ghost: maintenanceSequence when the frame was accepted

queueVars   == <<msgFromCC, msgFromIPC, inflight>>
fenceVars   == <<held, sequence, pending, wakeup, cached>>
idleVars    == <<initialized, quiet, suspending, offer>>
connVars    == <<conn, connSequence, reader, writer>>
mainVars    == <<main, wake, then, budget, attempt, degraded>>
ghostVars   == <<answers, sent, admittedAt>>
clientVars  == <<queueVars, fenceVars, idleVars, ing, connVars, mainVars, host, ghostVars>>

Idle == [at |-> "idle"]
Ended == {"exit", "dormant"}
Reconnecting == {"attempt", "retry", "finish"}

\* Every variable of the client keeps its type.
ClientTypeOK ==
  /\ msgFromCC \in SeqOf(Frame, QueueCap) /\ ToSet(msgFromIPC) \subseteq Req
  /\ inflight \subseteq Req
  /\ held \in BOOLEAN /\ sequence \in 0..MaxFences /\ pending \in BOOLEAN
  /\ wakeup \in BOOLEAN /\ cached \in BOOLEAN
  /\ initialized \in BOOLEAN /\ quiet \in BOOLEAN /\ suspending \in BOOLEAN
  /\ offer \in {"none", "ready", "committed"}
  /\ ing \in [Ingress -> {Idle} \cup [at : {"recheck", "wait", "admit"}, frame : Frame,
                                      seq : 0..MaxFences]]
  /\ conn \in [n : 1..MaxConn, state : {"open", "broken", "closed"}, wire : SUBSET Req]
  /\ connSequence \in 0..MaxFences
  /\ reader \in Req \cup {"run", "eof"} /\ writer \in Frame \cup {"run", "done"}
  /\ main \in {"proxy", "drain", "join", "gate", "suspend", "suspended", "negotiate",
               "reconnect", "forward"} \cup Reconnecting \cup Ended
  /\ wake \in Frame \cup {NoFrame} /\ then \in {"lost", "demand"}
  /\ budget \in 0..MaxRefreshAttempts
  /\ attempt \in {"none", "running", "fence", "ok", "terminal", "fail", "refused"}
  /\ degraded \in BOOLEAN /\ host \in {"open", "eof", "ignored", "dead"}
  /\ \A r \in Req : /\ ToSet(answers[r]) \subseteq {"result", "lost", "notsent", "held", "full"}
                    /\ admittedAt[r] \in (0..MaxFences) \cup {NoFrame}
  /\ \A w \in Req \cup {Replay} : sent[w] \subseteq 1..MaxConn

\* RunResilientClient has dialled the initial path and sent the token, or
\* starts fenced (InitialError) and reconnects.
ClientInit ==
  /\ msgFromCC = <<>> /\ msgFromIPC = <<>> /\ inflight = {}
  /\ held \in {FALSE, MaxFences > 0} /\ sequence = IF held THEN 1 ELSE 0
  /\ pending = FALSE /\ wakeup = FALSE /\ cached = FALSE
  /\ initialized = FALSE /\ quiet = FALSE /\ suspending = FALSE /\ offer = "none"
  /\ ing = [p \in Ingress |-> Idle]
  /\ conn = [n |-> 1, state |-> IF held THEN "closed" ELSE "open", wire |-> {}]
  /\ connSequence = sequence
  /\ reader = (IF held THEN "eof" ELSE "run") /\ writer = (IF held THEN "done" ELSE "run")
  /\ main = (IF held THEN "reconnect" ELSE "proxy") /\ wake = NoFrame /\ then = "lost" /\ budget = 0
  /\ attempt = "none" /\ degraded = FALSE /\ host = "open"
  /\ answers = [r \in Req |-> <<>>] /\ sent = [w \in Req \cup {Replay} |-> {}]
  /\ admittedAt = [r \in Req |-> NoFrame]

-----------------------------------------------------------------------------
(* Answers written by the client itself, and the maintenance fence.        *)

\* A line on stdout for each request of rs; nothing reaches a dead stdout.
Answer(rs, kind) ==
  answers' = [r \in Req |-> IF r \in rs /\ host # "dead" THEN Append(answers[r], kind)
                            ELSE answers[r]]

Requests(frames) == frames \cap Req
Queued == Requests(ToSet(msgFromCC))

\* enterMaintenance; the buffer is drained with maintenance errors.
enterMaintenance ==
  /\ sequence < MaxFences /\ conn.n < MaxConn
  /\ held' = TRUE /\ sequence' = sequence + 1 /\ cached' = FALSE
  /\ msgFromCC' = <<>> /\ Answer(Queued, "held")

\* leaveMaintenance drains a held buffer before it opens ingress; rs are
\* answered in the same step of the caller.
leaveMaintenance(rs, kind) ==
  /\ held' = FALSE
  /\ IF held THEN msgFromCC' = <<>> /\ Answer(rs \cup Queued, "held")
             ELSE UNCHANGED msgFromCC /\ Answer(rs, kind)

-----------------------------------------------------------------------------
(* Ingress: host frames and injected frames.                               *)

\* Requests come once; the supervisor sends Commit after DormantReady and
\* nothing more until Ack or Nack.
NewFrame(p, f) ==
  \/ /\ f \in Req /\ answers[f] = <<>> /\ admittedAt[f] = NoFrame
     /\ (p = "inject") = (f \in Injected)
     /\ p = "stdin" => offer # "committed"
  \/ f = Commit /\ p = "stdin" /\ offer = "ready"

\* A frame arrives: held is an observation to be rechecked with the daemon.
StartIngress(p, f) ==
  /\ ing[p] = Idle /\ NewFrame(p, f) /\ main \notin Ended
  /\ p = "stdin" => host = "open"
  /\ ing' = [ing EXCEPT ![p] = [at |-> IF held THEN "recheck" ELSE "admit", frame |-> f, seq |-> sequence]]
  /\ offer' = IF f = Commit THEN "committed" ELSE offer
  /\ UNCHANGED <<queueVars, fenceVars, initialized, quiet, suspending, connVars, mainVars, host, ghostVars>>

\* recheckMaintenance: one attempt for this demand, under reconnectMu. An
\* admission becomes the pending reconnect; the proxy is woken to take it.
recheckMaintenance(p) ==
  /\ ing[p] # Idle /\ ing[p].at = "recheck"
  /\ \/ /\ ~held
        /\ ing' = [ing EXCEPT ![p].at = "admit", ![p].seq = sequence]
        /\ UNCHANGED <<msgFromCC, fenceVars, answers>>
     \/ /\ held /\ ~pending /\ enterMaintenance
        /\ ing' = [ing EXCEPT ![p].at = "admit"]
        /\ UNCHANGED <<pending, wakeup>>
     \/ /\ held /\ ~pending      \* any other refusal
        /\ ing' = [ing EXCEPT ![p].at = "admit"]
        /\ UNCHANGED <<msgFromCC, fenceVars, answers>>
     \/ /\ held
        /\ pending' = TRUE /\ wakeup' = TRUE
        /\ ing' = [ing EXCEPT ![p].at = "wait", ![p].seq = sequence]
        /\ UNCHANGED <<msgFromCC, held, sequence, cached, answers>>
  /\ UNCHANGED <<msgFromIPC, inflight, idleVars, connVars, mainVars, host, sent, admittedAt>>

\* The tail of finishReconnect: the pending admission is settled.
SettlePending ==
  /\ pending' = FALSE /\ wakeup' = FALSE
  /\ ing' = [p \in Ingress |-> IF ing[p] # Idle /\ ing[p].at = "wait" /\ pending
                               THEN [ing[p] EXCEPT !.at = "admit"] ELSE ing[p]]

\* Mutant: a frame read before a fence is accepted after it.
RefusedWhenHeld(p) == held

\* The frame was read under a fence, or a fence came and went since.
Refused(p) == held \/ ing[p].seq # sequence

\* The accepted frame: queued, and the first legacy initialize is cached.
Enqueue(f, seq) ==
  /\ Len(msgFromCC) < QueueCap
  /\ msgFromCC' = Append(msgFromCC, f) /\ quiet' = FALSE
  /\ cached' = (cached \/ (f = InitReq /\ sequence = 0))
  /\ admittedAt' = IF f \in Req THEN [admittedAt EXCEPT ![f] = seq] ELSE admittedAt

\* enqueueHostFrame: refused across a fence, else queued; a full queue
\* blocks the reader.
enqueueHostFrame ==
  /\ ing["stdin"] # Idle /\ ing["stdin"].at = "admit" /\ main \notin Ended
  /\ LET f == ing["stdin"].frame IN
       \/ /\ Refused("stdin") /\ Answer(Requests({f}), "held")
          /\ UNCHANGED <<msgFromCC, cached, quiet, admittedAt>>
       \/ /\ ~Refused("stdin") /\ Enqueue(f, ing["stdin"].seq) /\ UNCHANGED answers
  /\ ing' = [ing EXCEPT !["stdin"] = Idle]
  /\ UNCHANGED <<msgFromIPC, inflight, held, sequence, pending, wakeup, initialized,
                 suspending, offer, connVars, mainVars, host, sent>>

\* injectFrame: the caller is told when the queue is full or the client has
\* ended (dormantCommitted or closed), and may not block.
injectFrame ==
  /\ ing["inject"] # Idle /\ ing["inject"].at = "admit"
  /\ LET f == ing["inject"].frame IN
       IF main \in Ended \/ (~Refused("inject") /\ Len(msgFromCC) = QueueCap)
       THEN Answer({f}, "full") /\ UNCHANGED <<msgFromCC, cached, quiet, admittedAt>>
       ELSE IF Refused("inject")
       THEN Answer({f}, "held") /\ UNCHANGED <<msgFromCC, cached, quiet, admittedAt>>
       ELSE Enqueue(f, ing["inject"].seq) /\ UNCHANGED answers
  /\ ing' = [ing EXCEPT !["inject"] = Idle]
  /\ UNCHANGED <<msgFromIPC, inflight, held, sequence, pending, wakeup, initialized,
                 suspending, offer, connVars, mainVars, host, sent>>

-----------------------------------------------------------------------------
(* The connection: its reader and its writer, and the stdout writer.       *)

\* The owner hangs up or its process dies.
ConnectionBreaks ==
  /\ conn.state = "open" /\ conn.n < MaxConn /\ main \notin Ended
  /\ conn' = [conn EXCEPT !.state = "broken"]
  /\ UNCHANGED <<queueVars, fenceVars, idleVars, ing, connSequence, reader, writer, mainVars, host, ghostVars>>

\* Mutant: the answer leaves its request in flight.
observeIPCResponseKept(r) ==
  inflight' = inflight /\ initialized' = (initialized \/ (r = InitReq /\ cached))

\* The request is no longer in flight; the first initialize result opens the
\* way to idle suspension.
observeIPCResponse(r) ==
  inflight' = inflight \ {r} /\ initialized' = (initialized \/ (r = InitReq /\ cached))

\* runIPCReader takes an answer; one that carries a maintenance result is a
\* fence as well.
ReaderTakes(r, fence) ==
  /\ reader = "run" /\ r \in conn.wire /\ conn.state # "closed" /\ main \notin Ended
  /\ reader' = r /\ conn' = [conn EXCEPT !.wire = @ \ {r}]
  /\ observeIPCResponse(r)
  /\ IF fence THEN enterMaintenance ELSE UNCHANGED <<msgFromCC, held, sequence, cached, answers>>
  /\ UNCHANGED <<msgFromIPC, pending, wakeup, quiet, suspending, offer, ing, connSequence, writer,
                 mainVars, host, sent, admittedAt>>

ReaderQueues ==
  /\ reader \in Req
  /\ msgFromIPC' = IF main \in Ended \/ host = "dead" THEN msgFromIPC ELSE Append(msgFromIPC, reader)
  /\ reader' = IF main \in Ended \/ host = "dead" THEN "eof" ELSE "run"
  /\ UNCHANGED <<msgFromCC, inflight, fenceVars, idleVars, ing, conn, connSequence, writer, mainVars, host, ghostVars>>

ReaderEnds ==
  /\ reader = "run" /\ conn.state # "open"
  /\ reader' = "eof"
  /\ UNCHANGED <<queueVars, fenceVars, idleVars, ing, conn, connSequence, writer, mainVars, host, ghostVars>>

\* runStdoutWriter
StdoutWrites ==
  /\ msgFromIPC # <<>> /\ host # "dead"
  /\ msgFromIPC' = Tail(msgFromIPC) /\ Answer({Head(msgFromIPC)}, "result")
  /\ UNCHANGED <<msgFromCC, inflight, fenceVars, idleVars, ing, connVars, mainVars, host, sent, admittedAt>>

WriterTakes ==
  /\ writer = "run" /\ msgFromCC # <<>>
  /\ writer' = Head(msgFromCC) /\ msgFromCC' = Tail(msgFromCC)
  /\ UNCHANGED <<msgFromIPC, inflight, fenceVars, idleVars, ing, conn, connSequence, reader, mainVars, host, ghostVars>>

\* forwardToIPC: refused under a fence; else tracked, then written. A write
\* to a connection that is gone may fail or vanish: the tracking stays.
forwardToIPC(f, failed) ==
  IF held THEN Answer({f}, "held") /\ ~failed /\ UNCHANGED <<inflight, conn, sent>>
  ELSE /\ inflight' = inflight \cup {f}
       /\ sent' = [sent EXCEPT ![f] = @ \cup {conn.n}]
       /\ conn.state = "open" => ~failed
       /\ conn' = IF conn.state = "open" THEN [conn EXCEPT !.wire = @ \cup {f}] ELSE conn
       /\ UNCHANGED answers

\* The rest of runIPCWriter's loop: a suspended or finished connection keeps
\* the frame as deferred; private controls are dropped; a failed write ends it.
WriterForwards(failed) ==
  /\ writer \in Frame /\ main \notin Ended
  /\ IF suspending \/ (writer # Commit /\ reader = "eof")
     THEN /\ wake' = writer /\ writer' = "done" /\ ~failed
          /\ UNCHANGED <<inflight, conn, answers, sent>>
     ELSE IF writer = Commit
     THEN writer' = "run" /\ ~failed /\ UNCHANGED <<wake, inflight, conn, answers, sent>>
     ELSE /\ forwardToIPC(writer, failed) /\ UNCHANGED wake
          /\ writer' = IF failed THEN "done" ELSE "run"
  /\ UNCHANGED <<msgFromCC, msgFromIPC, fenceVars, idleVars, ing, connSequence, reader, main, then,
                 budget, attempt, degraded, host, admittedAt>>

WriterEnds ==
  /\ writer = "run" /\ reader = "eof" /\ writer' = "done"
  /\ UNCHANGED <<queueVars, fenceVars, idleVars, ing, conn, connSequence, reader, mainVars, host, ghostVars>>

-----------------------------------------------------------------------------
(* The proxy loop while connected (runProxy).                              *)

Close == conn' = [conn EXCEPT !.state = "closed"]
Goto(m) == main' = m /\ UNCHANGED <<wake, then, budget, attempt, degraded>>

\* The request among the frame a lost connection did not send: answered
\* when reconnect returns, never replayed.
Deferred == IF then = "lost" /\ main \in Reconnecting THEN Requests({wake}) ELSE {}

\* A maintenance error when a fence came since its connection was made.
DeferredAnswer == IF connSequence # sequence THEN "held" ELSE "lost"

PendingOutput == msgFromIPC # <<>> \/ reader \in Req

\* stdin EOF: eager exit drains what is in flight; the other policy goes on.
HostEOF ==
  /\ main = "proxy" /\ host = "eof"
  /\ \/ host' = "ignored" /\ UNCHANGED <<conn, mainVars>>
     \/ inflight = {} /\ ~PendingOutput /\ Close /\ Goto("exit") /\ UNCHANGED host
     \/ (inflight # {} \/ PendingOutput) /\ Goto("drain") /\ UNCHANGED <<conn, host>>
  /\ UNCHANGED <<queueVars, fenceVars, idleVars, ing, connSequence, reader, writer, ghostVars>>

\* The drain ends when every answer was delivered, when the connection is
\* lost and its answers are delivered, or at its deadline.
DrainEnds(deadline) ==
  /\ main = "drain"
  /\ deadline \/ ((inflight = {} \/ reader = "eof") /\ ~PendingOutput)
  /\ Close /\ Goto("exit")
  /\ UNCHANGED <<queueVars, fenceVars, idleVars, ing, connSequence, reader, writer, host, ghostVars>>

\* Stdout is dead: every wait of the client returns.
HostGone ==
  /\ host = "dead"
  /\ \/ main \in {"proxy", "drain", "attempt", "retry"}
     \/ main \in {"suspended", "negotiate"} /\ wake = NoFrame
  /\ Close /\ Goto("exit")
  /\ UNCHANGED <<queueVars, fenceVars, idleVars, ing, connSequence, reader, writer, host, ghostVars>>

\* A resume wake closes the current connection.
ResumeWake ==
  /\ main = "proxy" /\ wakeup
  /\ wakeup' = FALSE /\ Close
  /\ UNCHANGED <<queueVars, held, sequence, pending, cached, idleVars, ing, connSequence, reader,
                 writer, mainVars, host, ghostVars>>

ConnectionLost ==
  /\ main = "proxy" /\ reader = "eof" /\ conn.n < MaxConn
  /\ Close /\ Goto("join")
  /\ UNCHANGED <<queueVars, fenceVars, idleVars, ing, connSequence, reader, writer, host, ghostVars>>

\* The writer is joined and its unsent frame taken over.
JoinWriter ==
  /\ main \in {"join", "suspend"} /\ writer = "done"
  /\ main' = IF main = "join" THEN "reconnect" ELSE "suspended"
  /\ then' = IF main = "join" THEN "lost" ELSE "demand"
  /\ UNCHANGED <<queueVars, fenceVars, idleVars, ing, connVars, wake, budget, attempt, degraded, host, ghostVars>>

\* rc.localWork: accepted frames that have not left the client.
LocalWork == msgFromCC # <<>> \/ writer \in Frame \/ wake # NoFrame

shouldIdleSuspend == initialized /\ quiet /\ inflight = {} /\ ~LocalWork /\ msgFromIPC = <<>>

\* The idle delay outlasts any step the client still has to take.
DelayPasses ==
  /\ ~quiet /\ main = "proxy" /\ ~LocalWork /\ ~PendingOutput
  /\ \A p \in Ingress : ing[p] = Idle
  /\ quiet' = TRUE
  /\ UNCHANGED <<queueVars, fenceVars, initialized, suspending, offer, ing, connVars, mainVars, host, ghostVars>>

\* The idle ticker: the suspend gate asks the daemon, which takes a while.
IdleTick ==
  /\ main = "proxy" /\ shouldIdleSuspend /\ conn.n < MaxConn
  /\ Goto("gate")
  /\ UNCHANGED <<queueVars, fenceVars, idleVars, ing, connVars, host, ghostVars>>

\* beginIdleSuspend looks again, under the lock ingress takes.
beginIdleSuspend ==
  IF shouldIdleSuspend THEN suspending' = TRUE /\ Close /\ Goto("suspend")
  ELSE UNCHANGED <<suspending, conn>> /\ Goto("proxy")

GateAnswers(allowed) ==
  /\ main = "gate"
  /\ IF allowed THEN beginIdleSuspend ELSE Goto("proxy") /\ UNCHANGED <<suspending, conn>>
  /\ UNCHANGED <<queueVars, fenceVars, initialized, quiet, offer, ing, connSequence, reader, writer,
                 host, ghostVars>>

-----------------------------------------------------------------------------
(* Suspended: waitForSuspendedDemand and negotiateDormant.                 *)

Demand(f) == wake' = f /\ main' = "reconnect" /\ UNCHANGED <<then, budget, attempt, degraded>>

\* The deferred frame comes first, then the queue; a late Commit is ignored.
waitForSuspendedDemand ==
  /\ main = "suspended" /\ (wake # NoFrame \/ msgFromCC # <<>>)
  /\ LET f == IF wake # NoFrame THEN wake ELSE Head(msgFromCC) IN
       /\ msgFromCC' = IF wake # NoFrame THEN msgFromCC ELSE Tail(msgFromCC)
       /\ IF f = Commit
          THEN wake' = NoFrame /\ UNCHANGED <<main, then, budget, attempt, degraded>>
          ELSE Demand(f)
  /\ UNCHANGED <<msgFromIPC, inflight, fenceVars, idleVars, ing, connVars, host, ghostVars>>

SuspendedWake ==
  /\ main = "suspended" /\ wake = NoFrame /\ wakeup
  /\ wakeup' = FALSE /\ Demand(NoFrame)
  /\ UNCHANGED <<queueVars, held, sequence, pending, cached, idleVars, ing, connVars, host, ghostVars>>

\* The dormancy grace expired: DormantReady is written to the supervisor.
\* Like the idle delay it outlasts the output that is still on its way.
GraceExpires ==
  /\ main = "suspended" /\ wake = NoFrame /\ Lifecycle /\ ~PendingOutput
  /\ offer' = "ready" /\ Goto("negotiate")
  /\ UNCHANGED <<queueVars, fenceVars, initialized, quiet, suspending, ing, connVars, host, ghostVars>>

\* Commit with nothing behind it is acknowledged and ends the client; any
\* demand is taken over with a Nack.
negotiateDormant ==
  /\ main = "negotiate" /\ msgFromCC # <<>>
  /\ offer' = "none"
  /\ IF msgFromCC = <<Commit>> THEN msgFromCC' = <<>> /\ Goto("dormant")
     ELSE LET rest == IF Head(msgFromCC) = Commit THEN Tail(msgFromCC) ELSE msgFromCC IN
          msgFromCC' = Tail(rest) /\ Demand(Head(rest))
  /\ UNCHANGED <<msgFromIPC, inflight, fenceVars, initialized, quiet, suspending, ing, connVars,
                 host, ghostVars>>

\* stdin EOF while suspended, negotiating or reconnecting.
EOFWhileAway ==
  /\ host = "eof" /\ main \in {"suspended", "negotiate", "attempt", "retry"}
  /\ main = "suspended" => wake = NoFrame
  /\ Goto("exit") /\ Answer(Deferred, DeferredAnswer)
  /\ UNCHANGED <<queueVars, fenceVars, idleVars, ing, connVars, host, sent, admittedAt>>

-----------------------------------------------------------------------------
(* Reconnecting.                                                           *)

\* Mutant: the requests in flight are left to hang.
drainNothing(rs) == UNCHANGED inflight /\ Answer(rs, "held")

\* Mutant: what was sent is reported as not sent.
drainAsUnsent(rs) ==
  /\ inflight' = {}
  /\ answers' = [r \in Req |->
       answers[r] \o (IF r \in inflight THEN <<"notsent">> ELSE <<>>)
                  \o (IF r \in rs THEN <<"held">> ELSE <<>>)]

\* drainOrphanedInflight: an error answer for each; rs is the wake frame
\* rejectReconnectWake refuses in the same step.
drainOrphanedInflight(rs) ==
  /\ inflight' = {}
  /\ answers' = [r \in Req |->
       IF host = "dead" THEN answers[r]
       ELSE answers[r] \o (IF r \in inflight THEN <<"lost">> ELSE <<>>)
                       \o (IF r \in rs THEN <<"held">> ELSE <<>>)]

\* The head of reconnect.
StartReconnect ==
  /\ main = "reconnect"
  /\ drainOrphanedInflight(IF held THEN Requests({wake}) ELSE {})
  /\ wake' = IF held THEN NoFrame ELSE wake
  /\ main' = "attempt" /\ attempt' = "running" /\ degraded' = FALSE
  /\ budget' = MaxRefreshAttempts
  /\ UNCHANGED <<msgFromCC, msgFromIPC, fenceVars, idleVars, ing, connVars, then, host, sent, admittedAt>>

\* attemptReconnect: RefreshToken or Reconnect answers, or a pending
\* admission is taken over. A fence is entered before the result is seen.
attemptReconnect(result) ==
  /\ attempt = "running" /\ main \notin Ended
  /\ pending => result = "ok"
  /\ result = "terminal" => budget > 0
  /\ IF result = "fence" THEN enterMaintenance /\ UNCHANGED <<pending, wakeup>>
     ELSE /\ pending' = (pending \/ (result = "ok" /\ sequence > 0))
          /\ UNCHANGED <<msgFromCC, held, sequence, cached, wakeup, answers>>
  /\ attempt' = result
  /\ UNCHANGED <<msgFromIPC, inflight, idleVars, ing, connVars, main, wake, then, budget, degraded,
                 host, sent, admittedAt>>

Spent(n) == IF n > 0 THEN n - 1 ELSE 0

\* awaitReconnectAttempt returns it to reconnect: a fence refuses the wake
\* frame and costs no refresh attempt; owner_gone and unknown_token end the
\* refreshes; another refusal or ErrReconnectExit ends the client.
AttemptResult ==
  /\ main = "attempt" /\ attempt \notin {"none", "running"}
  /\ attempt' = IF attempt = "terminal" THEN "running" ELSE "none"
  /\ main' = CASE attempt = "ok" -> "finish" [] attempt = "refused" -> "exit"
               [] attempt = "terminal" -> "attempt" [] OTHER -> "retry"
  /\ budget' = IF attempt = "terminal" THEN 0
               ELSE IF attempt = "fail" THEN Spent(budget) ELSE budget
  /\ CASE attempt = "fence" -> wake' = NoFrame /\ Answer(Requests({wake}), "held")
       [] attempt = "refused" -> wake' = NoFrame /\ Answer(Deferred, DeferredAnswer)
       [] OTHER -> UNCHANGED <<wake, answers>>
  /\ UNCHANGED <<queueVars, fenceVars, idleVars, ing, connVars, then, degraded, host, sent, admittedAt>>

RetryNow ==
  /\ main = "retry" /\ main' = "attempt" /\ attempt' = "running"
  /\ UNCHANGED <<queueVars, fenceVars, idleVars, ing, connVars, wake, then, budget, degraded, host, ghostVars>>

\* What is buffered is answered, and notifications are dropped, unless an
\* admission is pending.
failBufferedRequestsDuringReconnect ==
  IF pending THEN UNCHANGED <<msgFromCC, inflight, answers>>
  ELSE /\ msgFromCC' = <<>> /\ Answer(Queued, IF held THEN "held" ELSE "notsent")
       /\ inflight' = IF held THEN inflight ELSE inflight \ Queued

\* awaitReconnectAttempt: the grace deadline passes, then the degraded ticker.
Degrade ==
  /\ main = "attempt" \/ (main = "retry" /\ degraded)
  /\ ~degraded \/ msgFromCC # <<>>
  /\ degraded' = TRUE /\ failBufferedRequestsDuringReconnect
  /\ UNCHANGED <<msgFromIPC, fenceVars, idleVars, ing, connVars, main, wake, then, budget, attempt,
                 host, sent, admittedAt>>

\* The cached initialize is written to the connection that is being made;
\* there is none once a fence was observed.
writeReplay ==
  sent' = IF cached THEN [sent EXCEPT ![Replay] = @ \cup {conn.n + 1}] ELSE sent

\* finishReconnect fails to dial, to send the token, or to replay initialize:
\* then the replay may have been written.
FinishFails ==
  /\ main = "finish" /\ SettlePending
  /\ main' = "retry" /\ budget' = Spent(budget)
  /\ UNCHANGED sent \/ writeReplay
  /\ UNCHANGED <<queueVars, held, sequence, cached, idleVars, connVars, wake, then, attempt, degraded,
                 host, answers, admittedAt>>

\* The replay is answered by the new owner and the answer dropped.
replayInit ==
  /\ writeReplay
  /\ initialized' = (initialized \/ cached)
  /\ inflight' = IF cached THEN inflight \ {InitReq} ELSE inflight

\* finishReconnect: the connection is dialled, a cached initialize is
\* replayed (its answer is discarded), ingress opens. Back in runProxy the
\* unsent frame of the lost connection is answered, never replayed.
FinishReconnect ==
  /\ main = "finish" /\ SettlePending
  /\ leaveMaintenance(Deferred, DeferredAnswer)
  /\ replayInit
  /\ conn' = [n |-> conn.n + 1, state |-> "open", wire |-> {}]
  /\ IF then = "lost"
     THEN /\ main' = "proxy" /\ wake' = NoFrame
          /\ reader' = "run" /\ writer' = "run" /\ connSequence' = sequence
     ELSE main' = "forward" /\ UNCHANGED <<wake, reader, writer, connSequence>>
  /\ suspending' = FALSE
  /\ UNCHANGED <<msgFromIPC, sequence, cached, quiet, offer, then, budget, attempt, degraded, host,
                 admittedAt>>

\* The wake demand goes out first; a failed write ends the client. The old
\* reader, which nobody joins, has handed over its last answer by then.
ForwardDemand(failed) ==
  /\ main = "forward" /\ reader \notin Req
  /\ IF wake = NoFrame THEN ~failed /\ UNCHANGED <<inflight, conn, answers, sent>>
                       ELSE forwardToIPC(wake, failed)
  /\ main' = IF failed THEN "exit" ELSE "proxy"
  /\ wake' = NoFrame /\ reader' = "run" /\ writer' = "run" /\ connSequence' = sequence
  /\ UNCHANGED <<msgFromCC, msgFromIPC, fenceVars, idleVars, ing, then, budget, attempt, degraded,
                 host, admittedAt>>

-----------------------------------------------------------------------------
(* The host.                                                               *)

HostCloses ==
  /\ host = "open" /\ ing["stdin"] = Idle /\ main \notin Ended
  /\ host' = "eof"
  /\ UNCHANGED <<queueVars, fenceVars, idleVars, ing, connVars, mainVars, ghostVars>>

StdoutBreaks ==
  /\ host # "dead" /\ main \notin Ended /\ host' = "dead"
  /\ UNCHANGED <<queueVars, fenceVars, idleVars, ing, connVars, mainVars, ghostVars>>

\* RunResilientClient has returned and its goroutines are gone.
Returned == main \in Ended /\ UNCHANGED clientVars

ClientNext ==
  \/ \E p \in Ingress, f \in Frame : StartIngress(p, f)
  \/ \E p \in Ingress : recheckMaintenance(p)
  \/ enqueueHostFrame \/ injectFrame
  \/ ConnectionBreaks \/ ReaderQueues \/ ReaderEnds \/ StdoutWrites
  \/ \E r \in Req, fence \in BOOLEAN : ReaderTakes(r, fence)
  \/ WriterTakes \/ WriterEnds \/ \E failed \in BOOLEAN : WriterForwards(failed)
  \/ HostEOF \/ HostGone \/ \E deadline \in BOOLEAN : DrainEnds(deadline)
  \/ ResumeWake \/ ConnectionLost \/ JoinWriter
  \/ DelayPasses \/ IdleTick \/ \E allowed \in BOOLEAN : GateAnswers(allowed)
  \/ waitForSuspendedDemand \/ SuspendedWake \/ GraceExpires \/ negotiateDormant \/ EOFWhileAway
  \/ StartReconnect \/ AttemptResult \/ RetryNow \/ Degrade
  \/ \E result \in {"fence", "ok", "terminal", "fail", "refused"} : attemptReconnect(result)
  \/ FinishFails \/ FinishReconnect \/ \E failed \in BOOLEAN : ForwardDemand(failed)
  \/ HostCloses \/ StdoutBreaks
  \/ Returned

ClientSpec == ClientInit /\ [][ClientNext]_clientVars

ReaderSteps == ReaderQueues \/ ReaderEnds \/ \E r \in Req : ReaderTakes(r, FALSE)
WriterSteps == WriterTakes \/ WriterEnds \/ \E failed \in BOOLEAN : WriterForwards(failed)
SelectSteps == ResumeWake \/ ConnectionLost \/ HostEOF \/ HostGone
MainSteps ==
  \/ JoinWriter \/ GateAnswers(FALSE) \/ DrainEnds(TRUE)
  \/ waitForSuspendedDemand \/ SuspendedWake \/ negotiateDormant \/ EOFWhileAway
  \/ StartReconnect \/ AttemptResult \/ RetryNow
  \/ \E failed \in BOOLEAN : ForwardDemand(failed)

\* Goroutines run, timers fire and RPCs return; the owner answers or hangs
\* up; a reconnect does not fail for ever; the proxy's select, which chooses
\* at random, does not pass over a ready case for ever.
ClientFairness ==
  /\ WF_clientVars(enqueueHostFrame \/ recheckMaintenance("stdin"))
  /\ WF_clientVars(injectFrame \/ recheckMaintenance("inject"))
  /\ WF_clientVars(ReaderSteps) /\ WF_clientVars(WriterSteps) /\ WF_clientVars(StdoutWrites)
  /\ WF_clientVars(MainSteps) /\ SF_clientVars(SelectSteps)
  /\ SF_clientVars(attemptReconnect("ok")) /\ SF_clientVars(FinishReconnect)

FairClientSpec == ClientSpec /\ ClientFairness

-----------------------------------------------------------------------------
(* Properties.                                                             *)

\* A request is answered at most once, whoever answers it: the owner through
\* the reader, the tombstones of a lost connection, the degraded drain, the
\* maintenance fence or the frame a connection left unsent.
OneAnswer == ClientTypeOK /\ \A r \in Req : Len(answers[r]) <= 1

\* No frame of the host is written to two connections, and one that was
\* refused as not sent is never sent: "request was not sent upstream; retry
\* shortly" is true of it (failBufferedRequestsDuringReconnect). For the
\* initialize request this is said of the host's own frame only: replayInit
\* writes its cached copy to new connections as well, whatever the frame was
\* answered, but only a copy accepted before any fence, and never to the
\* first connection.
NeverReplayed ==
  /\ \A r \in Req :
       /\ Cardinality(sent[r]) <= 1
       /\ ToSet(answers[r]) \cap {"notsent", "held", "full"} # {} => sent[r] = {}
  /\ sent[Replay] # {} => admittedAt[InitReq] = 0 /\ 1 \notin sent[Replay]

\* A frame accepted before a maintenance fence is not written after it, even
\* when it waited in the queue, in a writer or as a wake demand; nor is the
\* initialize replayed that was cached before it.
NoFenceCrossed ==
  [][/\ \A r \in Req : sent'[r] # sent[r] => ~held /\ admittedAt[r] = sequence
     /\ sent'[Replay] # sent[Replay] => ~held /\ admittedAt[InitReq] = sequence]_clientVars

\* Every request the client accepted is answered or the client ends: no
\* suspension, handshake, fence or lost connection leaves it in a queue, in
\* a writer or in flight for ever.
AcceptedIsAnswered ==
  \A r \in Req : admittedAt[r] # NoFrame ~> answers[r] # <<>> \/ main \in Ended

\* A demand that the daemon admitted after a resume is activated: "Fresh
\* demand ... activates the same admitted successor for connected and parked
\* shims. The parked path consumes the existing private IPC-EOF wake".
AdmittedDemandActivated ==
  \A p \in Ingress : (ing[p] # Idle /\ ing[p].at = "wait") ~>
                       (ing[p] = Idle \/ ing[p].at # "wait" \/ main \in Ended)
=============================================================================
